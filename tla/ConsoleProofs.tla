----------------------------- MODULE ConsoleProofs -----------------------------
(***************************************************************************)
(* Log streams are faithful, what WebServer returns is honest, what the    *)
(* audit log acknowledged stays readable and what Settings has saved       *)
(* holds: for any number of listeners, requests, runs, subscribers, files, *)
(* savers, documents, faults, edits and stops.                             *)
(***************************************************************************)
EXTENDS Console, FiniteSetTheorems, SequenceTheorems, TLAPS

-----------------------------------------------------------------------------
(* The listener set                                                        *)

\* Every failure is on its way to the answer: in its goroutine, in the
\* channel or already received.
FailuresInv == lost \cup failures \cup {l \in Listeners : loop[l] = "broken"} = broke

\* What each stage of Run may rely on.
StageInv ==
    /\ stage = "bind" => \A l \in Listeners : loop[l] = "off"
    /\ stage \in {"bind", "serve"} => lost = {}
    /\ stage # "returned" => outcome = NoError
    /\ stage \in {"stop", "collect"} => lost # {} \/ cancelled
    /\ stage = "collect" => \A l \in Listeners : loop[l] = "over"

\* A request needs a listener that was served; a late one the deadline.
HistoryInv ==
    /\ \A r \in Requests : request[r] # "none" => \E l \in Listeners : loop[l] # "off"
    /\ \A l \in Listeners : halt[l] = "late" => expired

ReturnInv ==
    stage = "returned" =>
        IF outcome.bind
        THEN bound = {} /\ \A l \in Listeners : loop[l] = "off"
        ELSE /\ \A l \in Listeners : loop[l] = "over"
             /\ outcome.serve = lost
             /\ failures = {}
             /\ outcome.shutdown # {} => expired
             /\ lost # {} \/ cancelled

WebInv == WebTypeOK /\ FailuresInv /\ StageInv /\ HistoryInv /\ ReturnInv

LEMMA WebInitInv == WebInit => WebInv
<1> SUFFICES ASSUME WebInit PROVE WebInv
  OBVIOUS
<1>1. WebTypeOK
  BY DEF WebInit, WebTypeOK, NoError
<1>2. FailuresInv
  BY DEF WebInit, FailuresInv
<1>3. StageInv /\ HistoryInv /\ ReturnInv
  BY DEF WebInit, StageInv, HistoryInv, ReturnInv
<1> QED
  BY <1>1, <1>2, <1>3 DEF WebInv

LEMMA WebNextInv == WebInv /\ [WebNext]_webVars => WebInv'
<1> SUFFICES ASSUME WebInv, [WebNext]_webVars PROVE WebInv'
  OBVIOUS
<1> USE DEF WebInv, WebTypeOK, FailuresInv, StageInv, HistoryInv, ReturnInv, NoError
<1>1. ASSUME NEW l \in Listeners, Bind(l) PROVE WebInv'
  BY <1>1 DEF Bind
<1>2. CASE BindFails
  BY ZenonT(40), <1>2 DEF BindFails
<1>3. CASE Wake
  BY <1>3 DEF Wake
<1>4. CASE Expire
  BY <1>4 DEF Expire
<1>5. CASE Join
  BY <1>5 DEF Join
<1>6. CASE Collect
  BY <1>6 DEF Collect
<1>7. ASSUME NEW l \in Listeners, Serve(l) PROVE WebInv'
  BY <1>7 DEF Serve
<1>8. ASSUME NEW l \in Listeners, Report(l) PROVE WebInv'
  BY <1>8 DEF Report
<1>9. ASSUME NEW l \in Listeners, ServeEnds(l) PROVE WebInv'
  BY <1>9 DEF ServeEnds
<1>10. ASSUME NEW l \in Listeners, Halt(l) PROVE WebInv'
  BY <1>10 DEF Halt
<1>11. ASSUME NEW l \in Listeners, Halted(l) PROVE WebInv'
  BY <1>11 DEF Halted
<1>12. CASE Cancel
  BY <1>12 DEF Cancel
<1>13. ASSUME NEW l \in Listeners, Break(l) PROVE WebInv'
  BY <1>13 DEF Break
<1>14. ASSUME NEW r \in Requests, NEW l \in Listeners, Accept(r, l) PROVE WebInv'
  BY <1>14 DEF Accept
<1>15. ASSUME NEW r \in Requests, Finish(r) PROVE WebInv'
  BY <1>15, WebAssumption DEF Finish
<1>16. CASE UNCHANGED webVars
  BY <1>16 DEF webVars
<1> QED
  BY <1>1, <1>2, <1>3, <1>4, <1>5, <1>6, <1>7, <1>8, <1>9, <1>10, <1>11, <1>12, <1>13,
     <1>14, <1>15, <1>16 DEF WebNext, WebProgram

-----------------------------------------------------------------------------
(* The settings                                                            *)

\* What a saver's record looks like; a file is open only while it is written.
SaverTypes ==
    /\ saver = [s \in Savers |-> saver[s]]
    /\ \A s \in Savers :
          /\ saver[s] = [step |-> saver[s].step, body |-> saver[s].body, cfg |-> saver[s].cfg,
                         inode |-> saver[s].inode, alone |-> saver[s].alone]
          /\ saver[s].alone \in BOOLEAN
          /\ saver[s].inode \in Inodes \cup {None}
          /\ saver[s].inode # None => saver[s].step = "write"

Types ==
    /\ SaverTypes
    /\ content = [i \in Inodes |-> content[i]]
    /\ main \in Inodes
    /\ tmp \in Inodes \cup {None}
    /\ up \in BOOLEAN
    /\ mixed \in BOOLEAN

\* goal.json.tmp is another file than goal.json, and some saver's if no
\* saver is between two files: an inode stays free.
Names ==
    /\ tmp # main
    /\ tmp # None => \E s \in Savers : saver[s].inode \in {tmp, None}

\* A saver that is alone, or that no other ever met, is the only one.
Single ==
    /\ ~up => InFlight = {}
    /\ \A s \in InFlight : ~mixed \/ saver[s].alone => InFlight = {s}
    /\ \A s \in Savers : saver[s].alone => s \in InFlight

\* What such a saver wrote is what it renames, and what the file holds then.
Written ==
    \A s \in InFlight :
        /\ (~mixed \/ saver[s].alone) /\ saver[s].step = "rename" =>
              tmp # None /\ content[tmp] = saver[s].cfg
        /\ ~mixed /\ saver[s].step \in {"sync", "publish"} => saver[s].cfg \in shown
        /\ saver[s].alone /\ saver[s].step \in {"sync", "publish"} => File = saver[s].cfg

\* A document without a plaintext password.
Clean(cfg) == IsDocument(cfg) /\ cfg.plain = None

\* Only what is loaded at a start can hold one.
Documents ==
    /\ File = Broken \/ IsDocument(File)
    /\ up => File = Broken \/ Clean(File)
    /\ \A s \in InFlight : Clean(saver[s].cfg)
    /\ tmp # None => content[tmp] = Broken \/ Clean(content[tmp])
    /\ File \in shown

\* A save that is kept has no other on its heels.
Kept ==
    kept # None =>
        /\ Clean(kept.cfg)
        /\ \A s \in Savers : saver[s].step \notin {"sync", "publish"} /\ saver[s].inode # main

SettingsInv == Types /\ Names /\ Single /\ Written /\ Documents /\ Kept /\ SavedSettingsHold

\* The smallest of a set of numbers is one of them.
LEMMA MinExists ==
    ASSUME NEW S, S \subseteq Nat, S # {}
    PROVE  Min(S) \in S
<1> DEFINE R == {ss \in Nat \X Nat : ss[1] < ss[2]}
<1>1. PICK x \in S : \A y \in S : ~(<<y, x>> \in R)
  <2>1. IsWellFoundedOn(R, Nat)
    BY NatLessThanWellFounded DEF OpToRel
  <2> HIDE DEF R
  <2> QED  BY <2>1, WFMin
<1>2. \A y \in S : x <= y
  <2> SUFFICES ASSUME NEW y \in S, ~(x <= y) PROVE FALSE
    OBVIOUS
  <2>1. <<y, x>> \in R
    OBVIOUS
  <2> QED  BY <1>1, <2>1
<1> QED
  BY <1>2 DEF Min

\* An inode is free whenever one is taken: the savers' and the two names'
\* together are fewer than all.
LEMMA FreshFree ==
    ASSUME Types, Names
    PROVE  Fresh \in Inodes /\ ~InUse(Fresh)
<1> DEFINE d == IF tmp = None THEN main ELSE tmp
           f == [s \in Savers |-> IF saver[s].inode = None THEN d ELSE saver[s].inode]
           T == {f[s] : s \in Savers}
           free == {i \in Inodes : ~InUse(i)}
<1>1. free # {}
  <2> SUFFICES ASSUME free = {} PROVE FALSE
    OBVIOUS
  <2>1. Inodes \subseteq T \cup {main}
    <3> SUFFICES ASSUME NEW i \in Inodes, i # main PROVE \E s \in Savers : f[s] = i
      OBVIOUS
    <3>1. InUse(i)
      OBVIOUS
    <3>2. CASE i = tmp
      BY <3>2, SettingsAssumption DEF Names
    <3>3. CASE i # tmp
      BY <3>1, <3>3, SettingsAssumption DEF InUse
    <3> QED  BY <3>2, <3>3
  <2>2. f \in Surjection(Savers, T)
    BY DEF Surjection
  <2>3. IsFiniteSet(T) /\ Cardinality(T) <= Cardinality(Savers)
    <3> HIDE DEF f, T
    <3> QED  BY <2>2, FS_Surjection, SettingsAssumption
  <2>4. /\ IsFiniteSet(T \cup {main})
        /\ Cardinality(T \cup {main}) <= Cardinality(T) + 1
    <3> HIDE DEF T
    <3> QED  BY <2>3, FS_AddElement, FS_CardinalityType
  <2>5. Cardinality(Inodes) <= Cardinality(T \cup {main})
    <3> HIDE DEF T
    <3> QED  BY <2>1, <2>4, FS_Subset
  <2>6. /\ Cardinality(Inodes) \in Nat
        /\ Cardinality(Savers) \in Nat
        /\ Cardinality(T) \in Nat
        /\ Cardinality(T \cup {main}) \in Nat
    <3> HIDE DEF T
    <3> QED  BY <2>3, <2>4, FS_CardinalityType, SettingsAssumption
  <2> HIDE DEF T
  <2> QED  BY <2>3, <2>4, <2>5, <2>6, SettingsAssumption
<1>2. Fresh \in free
  BY <1>1, MinExists, SettingsAssumption DEF Fresh
<1> QED  BY <1>2

\* The invariant, initially and then over each action.
LEMMA SettingsInitInv == SetInit => SettingsInv
<1> SUFFICES ASSUME NEW cfg \in Shipped, SetStart(cfg) PROVE SettingsInv
  BY DEF SetInit
<1>0. Min(Inodes) \in Inodes
  <2>1. Cardinality(Savers) \in Nat
    BY FS_CardinalityType, SettingsAssumption
  <2>2. Inodes # {}
    BY <2>1, FS_EmptySet, SettingsAssumption
  <2> QED  BY <2>2, MinExists, SettingsAssumption
<1>1. InFlight = {}
  BY DEF SetStart, InFlight
<1>2. File = cfg
  BY <1>0 DEF SetStart, File
<1>3. Types
  BY <1>0, SettingsAssumption DEF SetStart, Types, SaverTypes
<1>4. Names /\ Single /\ Written /\ Kept
  BY <1>0, <1>1, SettingsAssumption DEF SetStart, Names, Single, Written, Kept
<1>5. Documents
  BY <1>1, <1>2, SettingsAssumption DEF SetStart, Documents
<1>6. SavedSettingsHold
  BY DEF SetStart, SavedSettingsHold
<1> QED  BY <1>3, <1>4, <1>5, <1>6 DEF SettingsInv

\* A document by its parts.
DocumentOf(auth, user, hash, plain, lv) ==
    [auth |-> auth, user |-> user, hash |-> hash, plain |-> plain, level |-> lv]

\* What is loaded keeps no plaintext, and has none added.
LEMMA MigratedClean ==
    ASSUME NEW d, IsDocument(d)
    PROVE  Clean(Migrated(d)) /\ (d.plain = None => Migrated(d) = d)
<1> DEFINE h == IF IsHash(d.hash) \/ d.plain = None THEN d.hash
                ELSE IF IsHash(d.plain) THEN d.plain ELSE HashOf(d.plain)
           m == DocumentOf(d.auth, d.user, h, None, d.level)
<1>0. d = DocumentOf(d.auth, d.user, d.hash, d.plain, d.level)
  BY DEF IsDocument, DocumentOf
<1>1. [d EXCEPT !.plain = None, !.hash = h] = m
  <2> HIDE DEF h
  <2>1. [DocumentOf(d.auth, d.user, d.hash, d.plain, d.level) EXCEPT !.plain = None]
          = DocumentOf(d.auth, d.user, d.hash, None, d.level)
    BY DEF DocumentOf
  <2>2. [d EXCEPT !.plain = None] = DocumentOf(d.auth, d.user, d.hash, None, d.level)
    BY <1>0, <2>1, Zenon
  <2>3. [DocumentOf(d.auth, d.user, d.hash, None, d.level) EXCEPT !.hash = h] = m
    BY DEF DocumentOf
  <2> QED  BY <2>2, <2>3, Zenon
<1>2. Migrated(d) = [d EXCEPT !.plain = None, !.hash = h]
  BY Zenon DEF Migrated
<1>3. Migrated(d) = m
  BY <1>1, <1>2, Zenon
<1>4. Clean(m)
  BY DEF Clean, IsDocument, DocumentOf
<1>5. ASSUME d.plain = None PROVE m = d
  BY <1>0, <1>5 DEF DocumentOf
<1> QED  BY <1>3, <1>4, <1>5

\* A save adds none.
LEMMA EditedClean ==
    ASSUME NEW d, NEW body, Clean(d)
    PROVE  Clean(Edited(d, body))
<1> DEFINE us == IF body.user = None THEN d.user ELSE body.user
           ha == IF body.password = None THEN d.hash ELSE HashOf(body.password)
           pl == IF body.password = None THEN d.plain ELSE None
           m  == DocumentOf(body.auth, us, ha, pl, d.level)
<1>0. d = DocumentOf(d.auth, d.user, d.hash, d.plain, d.level)
  BY DEF Clean, IsDocument, DocumentOf
<1>1. [d EXCEPT !.auth = body.auth, !.user = us, !.hash = ha, !.plain = pl] = m
  <2> HIDE DEF us, ha, pl
  <2>1. [DocumentOf(d.auth, d.user, d.hash, d.plain, d.level) EXCEPT !.auth = body.auth]
          = DocumentOf(body.auth, d.user, d.hash, d.plain, d.level)
    BY DEF DocumentOf
  <2>2. [d EXCEPT !.auth = body.auth] = DocumentOf(body.auth, d.user, d.hash, d.plain, d.level)
    BY <1>0, <2>1, Zenon
  <2>3. [DocumentOf(body.auth, d.user, d.hash, d.plain, d.level) EXCEPT !.user = us]
          = DocumentOf(body.auth, us, d.hash, d.plain, d.level)
    BY DEF DocumentOf
  <2>4. [DocumentOf(body.auth, us, d.hash, d.plain, d.level) EXCEPT !.hash = ha]
          = DocumentOf(body.auth, us, ha, d.plain, d.level)
    BY DEF DocumentOf
  <2>5. [DocumentOf(body.auth, us, ha, d.plain, d.level) EXCEPT !.plain = pl] = m
    BY DEF DocumentOf
  <2> QED  BY <2>2, <2>3, <2>4, <2>5, Zenon
<1>2. Edited(d, body) = [d EXCEPT !.auth = body.auth, !.user = us, !.hash = ha, !.plain = pl]
  <2>1. [d EXCEPT !.auth = body.auth].user = d.user
    BY <1>0 DEF DocumentOf
  <2> QED  BY DEF Edited
<1>3. pl = None
  BY DEF Clean
<1>4. Clean(m)
  <2> HIDE DEF us, ha, pl
  <2> QED  BY <1>3 DEF Clean, IsDocument, DocumentOf
<1> QED  BY ZenonT(40), <1>1, <1>2, <1>4, Zenon

\* No saver has a file open, so any two names will do while nothing runs.
LEMMA QuietInv ==
    ASSUME SettingsInv, ~up, up' \in BOOLEAN, UNCHANGED <<saver, kept, mixed>>,
           content' = [i \in Inodes |-> content'[i]],
           main' \in Inodes, tmp' \in (Inodes \cup {None}) \ {main'},
           File' = Broken \/ IsDocument(File'),
           up' => File' = Broken \/ Clean(File'),
           File' \in shown',
           tmp' # None => content'[tmp'] = Broken \/ Clean(content'[tmp']),
           kept # None => File' = kept.cfg,
           SavedSettingsHold'
    PROVE  SettingsInv'
<1> USE DEF SettingsInv
<1>1. InFlight = {} /\ InFlight' = {}
  BY DEF Single, InFlight
<1>2. \A s \in Savers : saver[s].inode = None
  <2> SUFFICES ASSUME NEW s \in Savers, saver[s].inode # None PROVE FALSE
    OBVIOUS
  <2>1. saver[s].step = "write"
    BY DEF Types, SaverTypes
  <2>2. s \in InFlight
    BY <2>1 DEF InFlight
  <2> QED  BY <1>1, <2>2
<1>3. Types'
  BY DEF Types, SaverTypes
<1>4. Names'
  BY <1>2, SettingsAssumption DEF Names
<1>5. Single' /\ Written'
  BY <1>1 DEF Single, Written
<1>6. Documents'
  BY <1>1 DEF Documents, Clean, IsDocument
<1>7. Kept'
  <2>1. \A s \in Savers : saver'[s].inode # main'
    BY <1>2, SettingsAssumption
  <2> QED  BY <2>1 DEF Kept, Clean, IsDocument
<1> QED  BY <1>3, <1>4, <1>5, <1>6, <1>7

\* A file a save may write before it has the name goal.json.
LEMMA TempFileFree ==
    ASSUME Types, Names
    PROVE  TempFile \in Inodes /\ TempFile # main
<1>1. Fresh \in Inodes /\ Fresh # main
  BY FreshFree DEF InUse
<1> QED  BY <1>1 DEF TempFile, Types, Names

LEMMA StartInv == SettingsInv /\ Start => SettingsInv'
<1> SUFFICES ASSUME SettingsInv, Start PROVE SettingsInv'
  OBVIOUS
<1> DEFINE cfg == Migrated(File)
<1>1. /\ IF cfg = File THEN UNCHANGED <<content, main, tmp, shown>>
         ELSE /\ content' = [content EXCEPT ![TempFile] = cfg]
              /\ main' = TempFile /\ tmp' = None /\ shown' = shown \cup {cfg}
      /\ live' = Credentials(cfg) /\ level' = cfg.level
      /\ ~up /\ up' = TRUE /\ File # Broken
      /\ UNCHANGED <<saver, kept, mixed>>
  BY DEF Start, Loadable
<1>2. Clean(cfg)
  BY <1>1, MigratedClean DEF SettingsInv, Documents
<1>3. kept # None => cfg = File
  BY <1>1, MigratedClean DEF SettingsInv, SavedSettingsHold, Kept, Clean, Documents
<1>4. TempFile \in Inodes /\ TempFile # main
  BY TempFileFree DEF SettingsInv
<1> HIDE DEF cfg
<1>5. File' = cfg /\ cfg \in shown'
  BY <1>1, <1>4 DEF File, SettingsInv, Types, Documents
<1>6. /\ content' = [i \in Inodes |-> content'[i]]
      /\ main' \in Inodes /\ tmp' \in (Inodes \cup {None}) \ {main'}
      /\ tmp' # None => content'[tmp'] = Broken \/ Clean(content'[tmp'])
  <2>1. CASE cfg = File
    BY <1>1, <2>1 DEF SettingsInv, Types, Names, Documents
  <2>2. CASE cfg # File
    BY <1>1, <1>4, <2>2, SettingsAssumption DEF SettingsInv, Types
  <2> QED  BY <2>1, <2>2
<1>7. SavedSettingsHold'
  <2>1. kept' # None => File' = kept'.cfg /\ Credentials(kept'.cfg) \subseteq live'
    BY <1>1, <1>3, <1>5 DEF SettingsInv, SavedSettingsHold
  <2> QED  BY <1>1, <1>5, <2>1 DEF SavedSettingsHold, Credentials
<1>8. kept # None => File' = kept.cfg
  BY <1>3, <1>5 DEF SettingsInv, SavedSettingsHold
<1>9. IsDocument(File') /\ Clean(File')
  BY <1>2, <1>5 DEF Clean
<1> QED  BY <1>1, <1>5, <1>6, <1>7, <1>8, <1>9, QuietInv

LEMMA StartFailsInv == SettingsInv /\ StartFails => SettingsInv'
<1> SUFFICES ASSUME SettingsInv, StartFails PROVE SettingsInv'
  OBVIOUS
<1> DEFINE cfg == Migrated(File)
<1>1. /\ ~up /\ File # Broken /\ cfg # File
      /\ UNCHANGED <<saver, up, live, level, kept, mixed>>
  BY DEF StartFails, Loadable
<1>2. Clean(cfg)
  BY <1>1, MigratedClean DEF SettingsInv, Documents
<1>3. kept = None
  BY <1>1, MigratedClean DEF SettingsInv, SavedSettingsHold, Kept, Clean, Documents
<1>4. TempFile \in Inodes /\ TempFile # main /\ main \in Inodes
  BY TempFileFree DEF SettingsInv, Types
<1>5. \/ tmp' \in {tmp, None} /\ UNCHANGED <<content, main, shown>>
      \/ /\ tmp' = TempFile
         /\ content' \in {[content EXCEPT ![TempFile] = text] : text \in {Broken, cfg}}
         /\ UNCHANGED <<main, shown>>
      \/ /\ content' = [content EXCEPT ![TempFile] = cfg]
         /\ main' = TempFile /\ tmp' = None /\ shown' = shown \cup {cfg}
  BY DEF StartFails
<1> HIDE DEF cfg
<1>6. /\ content' = [i \in Inodes |-> content'[i]]
      /\ main' \in Inodes /\ tmp' \in (Inodes \cup {None}) \ {main'}
      /\ tmp' # None => content'[tmp'] = Broken \/ Clean(content'[tmp'])
      /\ File' \in {File, cfg} /\ File' \in shown' /\ shown \subseteq shown'
  <2>1. CASE tmp' \in {tmp, None} /\ UNCHANGED <<content, main, shown>>
    BY <2>1, SettingsAssumption DEF SettingsInv, Types, Names, Documents, File
  <2>2. CASE /\ tmp' = TempFile
             /\ content' \in {[content EXCEPT ![TempFile] = text] : text \in {Broken, cfg}}
             /\ UNCHANGED <<main, shown>>
    <3>1. PICK text \in {Broken, cfg} : content' = [content EXCEPT ![TempFile] = text]
      BY <2>2
    <3>2. content'[TempFile] = text /\ content'[main] = content[main]
      BY <1>4, <3>1 DEF SettingsInv, Types
    <3>3. content' = [i \in Inodes |-> content'[i]]
      BY <3>1 DEF SettingsInv, Types
    <3>4. text = Broken \/ Clean(text)
      BY <1>2
    <3> QED  BY <1>4, <2>2, <3>2, <3>3, <3>4 DEF SettingsInv, Documents, File
  <2>3. CASE /\ content' = [content EXCEPT ![TempFile] = cfg]
             /\ main' = TempFile /\ tmp' = None /\ shown' = shown \cup {cfg}
    BY <1>4, <2>3, SettingsAssumption DEF SettingsInv, Types, File
  <2> QED  BY <1>5, <2>1, <2>2, <2>3
<1>7. SavedSettingsHold'
  BY <1>1, <1>3, <1>6 DEF SettingsInv, SavedSettingsHold, Credentials
<1>8. IsDocument(File') /\ ~up' /\ up' \in BOOLEAN
  BY <1>1, <1>2, <1>6 DEF SettingsInv, Documents, Clean, Types
<1> QED  BY <1>1, <1>3, <1>6, <1>7, <1>8, QuietInv

\* Savers that give up leave their records as nobody's.
LEMMA OverTypes ==
    ASSUME SaverTypes, NEW S \in SUBSET Savers,
           \A s \in S : saver'[s] = [step |-> "over", body |-> None, cfg |-> None,
                                    inode |-> None, alone |-> FALSE],
           \A s \in Savers \ S : saver'[s] = saver[s],
           saver' = [s \in Savers |-> saver'[s]]
    PROVE  SaverTypes'
<1> DEFINE r == [step |-> "over", body |-> None, cfg |-> None, inode |-> None, alone |-> FALSE]
<1>1. ASSUME NEW s \in Savers
      PROVE  /\ saver'[s] = [step |-> saver'[s].step, body |-> saver'[s].body,
                             cfg |-> saver'[s].cfg, inode |-> saver'[s].inode,
                             alone |-> saver'[s].alone]
             /\ saver'[s].alone \in BOOLEAN
             /\ saver'[s].inode \in Inodes \cup {None}
             /\ saver'[s].inode # None => saver'[s].step = "write"
  <2>1. CASE s \in S
    <3>1. saver'[s] = r
      BY <2>1
    <3>2. /\ r = [step |-> r.step, body |-> r.body, cfg |-> r.cfg, inode |-> r.inode, alone |-> r.alone]
          /\ r.alone = FALSE /\ r.inode = None
      OBVIOUS
    <3> QED  BY <3>1, <3>2
  <2>2. CASE s \notin S
    <3>1. saver'[s] = saver[s]
      BY <2>2
    <3> QED  BY <3>1 DEF SaverTypes
  <2> QED  BY <2>1, <2>2
<1> QED  BY <1>1 DEF SaverTypes

LEMMA StopInv == SettingsInv /\ Stop => SettingsInv'
<1> SUFFICES ASSUME SettingsInv, Stop PROVE SettingsInv'
  OBVIOUS
<1> USE DEF SettingsInv
<1>1. /\ up' = FALSE /\ live' = {}
      /\ saver' = [s \in Savers |-> IF s \in InFlight THEN Ended(s)[s] ELSE saver[s]]
      /\ UNCHANGED <<content, main, tmp, level, kept, shown, mixed>>
  BY DEF Stop
<1>2. \A s \in InFlight : saver'[s] = [step |-> "over", body |-> None, cfg |-> None,
                                       inode |-> None, alone |-> FALSE]
  BY <1>1 DEF Ended, Types, SaverTypes, InFlight
<1>3. \A s \in Savers \ InFlight : saver'[s] = saver[s]
  BY <1>1
<1>4. saver' = [s \in Savers |-> saver'[s]]
  BY <1>1
<1>5. InFlight' = {}
  BY <1>2, <1>3 DEF InFlight
<1>6. File' = File
  BY <1>1 DEF File
<1>7. Types'
  <2>1. InFlight \subseteq Savers
    BY DEF InFlight
  <2>2. SaverTypes'
    BY <1>2, <1>3, <1>4, <2>1, OverTypes DEF Types
  <2> QED  BY <1>1, <2>2 DEF Types
<1>8. Names'
  BY <1>1, <1>2, <1>3 DEF Names
<1>9. Single' /\ Written'
  <2>1. \A s \in Savers : ~saver'[s].alone
    <3>1. ASSUME NEW s \in InFlight PROVE ~saver'[s].alone
      BY <1>2
    <3>2. ASSUME NEW s \in Savers \ InFlight PROVE ~saver'[s].alone
      BY <1>3, <3>2 DEF Single
    <3> QED  BY <3>1, <3>2
  <2>2. Single'
    BY <1>5, <2>1 DEF Single
  <2>3. Written'
    BY <1>5 DEF Written
  <2> QED  BY <2>2, <2>3
<1>10. Documents'
  BY <1>1, <1>5, <1>6 DEF Documents, Clean, IsDocument
<1>11. Kept'
  <2>1. \A s \in InFlight : saver'[s].step = "over" /\ saver'[s].inode = None
    BY <1>2
  <2> QED  BY ZenonT(40), <1>1, <1>3, <2>1, SettingsAssumption DEF Kept, Clean, IsDocument, Types
<1>12. SavedSettingsHold'
  BY <1>1, <1>6 DEF SavedSettingsHold, Credentials
<1> QED  BY <1>7, <1>8, <1>9, <1>10, <1>11, <1>12

LEMMA ReloadInv == SettingsInv /\ Reload => SettingsInv'
<1> SUFFICES ASSUME SettingsInv, Reload PROVE SettingsInv'
  OBVIOUS
<1> USE DEF SettingsInv
<1>1. /\ level' = File.level
      /\ UNCHANGED <<content, main, tmp, saver, up, live, kept, shown, mixed>>
  BY DEF Reload
<1>2. File' = File /\ InFlight' = InFlight
  BY <1>1 DEF File, InFlight
<1>3. Types' /\ Names' /\ Single' /\ Written'
  BY <1>1, <1>2 DEF Types, SaverTypes, Names, Single, Written
<1>4. Documents' /\ Kept'
  BY <1>1, <1>2 DEF Documents, Kept, Clean, IsDocument
<1>5. SavedSettingsHold'
  BY <1>1, <1>2 DEF SavedSettingsHold, Credentials, Documents
<1> QED  BY <1>3, <1>4, <1>5

LEMMA SyncInv == ASSUME NEW s \in Savers PROVE SettingsInv /\ Sync(s) => SettingsInv'
<1> SUFFICES ASSUME SettingsInv, Sync(s) PROVE SettingsInv'
  OBVIOUS
<1> USE DEF SettingsInv
<1>1. /\ saver[s].step = "sync"
      /\ saver' = [saver EXCEPT ![s].step = "publish"]
      /\ UNCHANGED <<content, main, tmp, up, live, level, kept, shown, mixed>>
  BY DEF Sync
<1>2. /\ saver'[s] = [step |-> "publish", body |-> saver[s].body, cfg |-> saver[s].cfg,
                      inode |-> saver[s].inode, alone |-> saver[s].alone]
      /\ \A o \in Savers \ {s} : saver'[o] = saver[o]
      /\ saver' = [o \in Savers |-> saver'[o]]
  BY <1>1 DEF Types, SaverTypes
<1>3. /\ saver'[s].step = "publish" /\ saver'[s].body = saver[s].body
      /\ saver'[s].cfg = saver[s].cfg /\ saver'[s].inode = saver[s].inode
      /\ saver'[s].alone = saver[s].alone
  BY <1>2
<1>4. s \in InFlight /\ InFlight' = InFlight
  BY <1>1, <1>2, <1>3 DEF InFlight
<1>5. File' = File
  BY <1>1 DEF File
<1>6. Types'
  BY <1>1, <1>2, <1>3 DEF Types, SaverTypes
<1>7. Names' /\ Single'
  BY <1>1, <1>2, <1>3, <1>4 DEF Names, Single
<1>8. Written'
  BY <1>1, <1>2, <1>3, <1>4, <1>5 DEF Written
<1>9. Documents'
  BY <1>1, <1>2, <1>3, <1>4, <1>5 DEF Documents, Clean, IsDocument
<1>10. Kept' /\ SavedSettingsHold'
  BY <1>1, <1>2, <1>3, <1>5 DEF Kept, Clean, IsDocument, SavedSettingsHold, Credentials
<1> QED  BY <1>6, <1>7, <1>8, <1>9, <1>10

\* A saver that gives up leaves the others as they were.
LEMMA EndedInv ==
    ASSUME NEW s \in Savers, SettingsInv,
           saver' = Ended(s),
           tmp' = tmp \/ (s \in InFlight /\ tmp' = None),
           UNCHANGED <<content, main, up, live, level, kept, shown, mixed>>
    PROVE  SettingsInv'
<1> USE DEF SettingsInv
<1>2. /\ saver'[s] = [step |-> "over", body |-> None, cfg |-> None, inode |-> None, alone |-> FALSE]
      /\ \A o \in Savers \ {s} : saver'[o] = saver[o]
      /\ saver' = [o \in Savers |-> saver'[o]]
  BY DEF Types, SaverTypes, Ended
<1>3. /\ saver'[s].step = "over" /\ saver'[s].body = None /\ saver'[s].cfg = None
      /\ saver'[s].inode = None /\ saver'[s].alone = FALSE
  BY <1>2
<1>4. InFlight' = InFlight \ {s}
  BY <1>2, <1>3 DEF InFlight
<1>5. File' = File
  BY DEF File
<1>6. Types'
  <2> DEFINE S == {s}
  <2>1. /\ \A o \in S : saver'[o] = [step |-> "over", body |-> None, cfg |-> None,
                                    inode |-> None, alone |-> FALSE]
        /\ \A o \in Savers \ S : saver'[o] = saver[o]
        /\ S \in SUBSET Savers
    BY <1>2
  <2> HIDE DEF S
  <2>2. SaverTypes'
    BY <1>2, <2>1, OverTypes DEF Types
  <2> QED  BY <2>2 DEF Types
<1>7. Names'
  <2>1. tmp' # main'
    BY SettingsAssumption DEF Names, Types
  <2>2. ASSUME tmp' # None PROVE \E o \in Savers : saver'[o].inode \in {tmp', None}
    <3>1. PICK o \in Savers : saver[o].inode \in {tmp, None}
      BY <2>2 DEF Names
    <3>2. saver'[o].inode \in {tmp, None}
      BY <1>2, <1>3, <3>1
    <3> QED  BY <2>2, <3>2
  <2> QED  BY <2>1, <2>2 DEF Names
<1>11. Single'
  <2>1. \A o \in InFlight' : saver'[o] = saver[o] /\ o \in InFlight /\ o # s
    BY <1>2, <1>4 DEF InFlight
  <2>2. \A o \in Savers : saver'[o].alone => saver[o].alone /\ o # s
    BY <1>2, <1>3
  <2> QED  BY <1>4, <2>1, <2>2 DEF Single
<1>8. Written'
  <2> SUFFICES ASSUME NEW o \in InFlight, o # s,
                      ~mixed \/ saver[o].alone => InFlight = {o}
               PROVE  Written!(o)'
    BY <1>4 DEF Written, Single
  <2>1. saver'[o] = saver[o]
    BY <1>2 DEF InFlight
  <2> QED  BY <1>5, <2>1 DEF Written
<1>9. Documents'
  BY SMTT(30), <1>2, <1>3, <1>4, <1>5 DEF Documents, Clean, IsDocument, InFlight
<1>10. Kept' /\ SavedSettingsHold'
  BY <1>2, <1>3, <1>5, SettingsAssumption
     DEF Kept, Clean, IsDocument, SavedSettingsHold, Credentials, Types
<1> QED  BY <1>6, <1>7, <1>8, <1>9, <1>10, <1>11

LEMMA SaveFailsInv == ASSUME NEW s \in Savers PROVE SettingsInv /\ SaveFails(s) => SettingsInv'
<1> SUFFICES ASSUME SettingsInv, SaveFails(s) PROVE SettingsInv'
  OBVIOUS
<1>1. s \in InFlight
  BY DEF SaveFails, InFlight
<1> QED  BY <1>1, EndedInv DEF SaveFails

LEMMA OpenInv == ASSUME NEW s \in Savers PROVE SettingsInv /\ Open(s) => SettingsInv'
<1> SUFFICES ASSUME SettingsInv, Open(s) PROVE SettingsInv'
  OBVIOUS
<1> USE DEF SettingsInv
<1> DEFINE i == TempFile
<1>1. /\ saver[s].step = "open" /\ tmp' = i
      /\ content' = [content EXCEPT ![i] = Broken]
      /\ saver' = [saver EXCEPT ![s].step = "write", ![s].inode = i]
      /\ UNCHANGED <<main, up, live, level, kept, shown, mixed>>
  BY DEF Open
<1>2. i \in Inodes /\ i # main /\ i # None
  BY TempFileFree, SettingsAssumption
<1> HIDE DEF i
<1>3. /\ saver'[s] = [step |-> "write", body |-> saver[s].body, cfg |-> saver[s].cfg,
                      inode |-> i, alone |-> saver[s].alone]
      /\ \A o \in Savers \ {s} : saver'[o] = saver[o]
      /\ saver' = [o \in Savers |-> saver'[o]]
  <2> DEFINE mid == [saver EXCEPT ![s].step = "write"]
  <2>1. /\ mid[s] = [step |-> "write", body |-> saver[s].body, cfg |-> saver[s].cfg,
                     inode |-> saver[s].inode, alone |-> saver[s].alone]
        /\ \A o \in Savers \ {s} : mid[o] = saver[o]
        /\ mid = [o \in Savers |-> mid[o]]
    BY DEF Types, SaverTypes
  <2>2. saver' = [mid EXCEPT ![s].inode = i]
    BY <1>1, Zenon
  <2> HIDE DEF mid
  <2> QED  BY <2>1, <2>2
<1>4. /\ saver'[s].step = "write" /\ saver'[s].body = saver[s].body
      /\ saver'[s].cfg = saver[s].cfg /\ saver'[s].inode = i
      /\ saver'[s].alone = saver[s].alone
  BY <1>3
<1>5. s \in InFlight /\ InFlight' = InFlight
  BY <1>1, <1>3, <1>4 DEF InFlight
<1>6. File' = File /\ content'[tmp'] = Broken /\ content' = [j \in Inodes |-> content'[j]]
  BY <1>1, <1>2 DEF File, Types
<1>7. Types'
  BY <1>1, <1>2, <1>3, <1>4, <1>6 DEF Types, SaverTypes
<1>8. Names'
  BY <1>1, <1>2, <1>4 DEF Names
<1>9. \A o \in InFlight :
        /\ saver'[o].alone = saver[o].alone /\ saver'[o].cfg = saver[o].cfg
        /\ o # s => saver'[o].step = saver[o].step
  BY <1>3, <1>4 DEF InFlight
<1>12. Single'
  BY ZenonT(40), <1>1, <1>3, <1>4, <1>5, <1>9 DEF Single
<1>13. Written'
  <2>1. \A o \in InFlight : o # s => mixed /\ ~saver[o].alone
    BY <1>5 DEF Single, Types
  <2> QED  BY <1>1, <1>4, <1>5, <1>9, <2>1 DEF Written
<1>10. Documents'
  <2>1. \A o \in InFlight' : Clean(saver'[o].cfg)
    BY <1>5, <1>9 DEF Documents
  <2>2. tmp' # None => content'[tmp'] = Broken \/ Clean(content'[tmp'])
    BY <1>6
  <2> QED  BY <1>1, <1>6, <2>1, <2>2 DEF Documents, Clean, IsDocument
<1>11. Kept' /\ SavedSettingsHold'
  BY ZenonT(40), <1>1, <1>2, <1>3, <1>4, <1>6 DEF Kept, Clean, IsDocument, SavedSettingsHold, Credentials
<1> QED  BY <1>7, <1>8, <1>10, <1>11, <1>12, <1>13

LEMMA WriteInv == ASSUME NEW s \in Savers PROVE SettingsInv /\ Write(s) => SettingsInv'
<1> SUFFICES ASSUME SettingsInv, Write(s) PROVE SettingsInv'
  OBVIOUS
<1> USE DEF SettingsInv
<1> DEFINE i == saver[s].inode
<1>1. PICK text \in {saver[s].cfg, Broken} :
      /\ saver[s].step = "write"
      /\ content' = [content EXCEPT ![i] = text]
      /\ shown' = IF i = main THEN shown \cup {content'[main]} ELSE shown
      /\ saver' = [saver EXCEPT ![s].step = "check", ![s].inode = None]
      /\ UNCHANGED <<main, tmp, up, live, level, kept, mixed>>
  BY DEF Write
<1>2. /\ saver'[s] = [step |-> "check", body |-> saver[s].body, cfg |-> saver[s].cfg,
                      inode |-> None, alone |-> saver[s].alone]
      /\ \A o \in Savers \ {s} : saver'[o] = saver[o]
      /\ saver' = [o \in Savers |-> saver'[o]]
  <2> DEFINE mid == [saver EXCEPT ![s].step = "check"]
  <2>1. /\ mid[s] = [step |-> "check", body |-> saver[s].body, cfg |-> saver[s].cfg,
                     inode |-> saver[s].inode, alone |-> saver[s].alone]
        /\ \A o \in Savers \ {s} : mid[o] = saver[o]
        /\ mid = [o \in Savers |-> mid[o]]
    BY DEF Types, SaverTypes
  <2>2. saver' = [mid EXCEPT ![s].inode = None]
    BY <1>1, Zenon
  <2> HIDE DEF mid
  <2> QED  BY <2>1, <2>2
<1>3. /\ saver'[s].step = "check" /\ saver'[s].body = saver[s].body
      /\ saver'[s].cfg = saver[s].cfg /\ saver'[s].inode = None
      /\ saver'[s].alone = saver[s].alone
  BY <1>2
<1>4. s \in InFlight /\ InFlight' = InFlight
  BY <1>1, <1>2, <1>3 DEF InFlight
<1>5. /\ File' = IF i = main THEN text ELSE File
      /\ tmp # None => content'[tmp] = IF i = tmp THEN text ELSE content[tmp]
      /\ content' = [j \in Inodes |-> content'[j]]
  BY <1>1 DEF File, Types
<1>6. text = Broken \/ Clean(text)
  BY <1>4 DEF Documents
<1>7. shown \subseteq shown' /\ File' \in shown'
  BY <1>1, <1>5 DEF File, Documents
<1>8. Types'
  BY <1>1, <1>2, <1>3, <1>5 DEF Types, SaverTypes
<1>9. Names'
  BY <1>1, <1>2, <1>3 DEF Names
<1>13. \A o \in InFlight :
        /\ saver'[o].alone = saver[o].alone /\ saver'[o].cfg = saver[o].cfg
        /\ o # s => saver'[o].step = saver[o].step
  BY <1>2, <1>3 DEF InFlight
<1>14. Single'
  BY ZenonT(40), <1>1, <1>2, <1>3, <1>4, <1>13 DEF Single
<1>10. Written'
  <2>1. \A o \in InFlight : o # s => mixed /\ ~saver[o].alone
    BY <1>4 DEF Single, Types
  <2> QED  BY <1>1, <1>3, <1>4, <1>13, <2>1 DEF Written
<1>11. Documents'
  <2>1. \A o \in InFlight : saver'[o].cfg = saver[o].cfg
    BY <1>2, <1>3 DEF InFlight
  <2>2. Clean(text) => IsDocument(text)
    BY DEF Clean
  <2> HIDE DEF i
  <2> QED  BY <1>1, <1>4, <1>5, <1>6, <1>7, <2>1, <2>2 DEF Documents, Clean, IsDocument
<1>12. Kept' /\ SavedSettingsHold'
  <2>1. Kept'
    <3>1. saver'[s].step \notin {"sync", "publish"} /\ saver'[s].inode # main
      BY <1>3, SettingsAssumption DEF Types
    <3>2. \A o \in Savers \ {s} : saver'[o].step = saver[o].step /\ saver'[o].inode = saver[o].inode
      BY <1>2
    <3> QED  BY <1>1, <3>1, <3>2 DEF Kept, Clean, IsDocument
  <2>2. kept # None => File' = File
    BY <1>5 DEF Kept
  <2>3. SavedSettingsHold'
    BY <1>1, <1>7, <2>2 DEF SavedSettingsHold, Credentials
  <2> QED  BY <2>1, <2>3
<1> QED  BY <1>8, <1>9, <1>10, <1>11, <1>12, <1>14

LEMMA CheckInv == ASSUME NEW s \in Savers PROVE SettingsInv /\ Check(s) => SettingsInv'
<1> SUFFICES ASSUME SettingsInv, Check(s) PROVE SettingsInv'
  OBVIOUS
<1>0. CASE ~(tmp # None /\ content[tmp] = saver[s].cfg)
  <2>1. s \in InFlight
    BY DEF Check, InFlight
  <2> QED  BY <1>0, <2>1, EndedInv DEF Check
<1>1. CASE tmp # None /\ content[tmp] = saver[s].cfg
  <2> USE DEF SettingsInv
  <2>1. /\ saver[s].step = "check"
        /\ saver' = [saver EXCEPT ![s].step = "rename"]
        /\ UNCHANGED <<content, main, tmp, up, live, level, kept, shown, mixed>>
    BY <1>1 DEF Check
  <2>2. /\ saver'[s] = [step |-> "rename", body |-> saver[s].body, cfg |-> saver[s].cfg,
                        inode |-> saver[s].inode, alone |-> saver[s].alone]
        /\ \A o \in Savers \ {s} : saver'[o] = saver[o]
        /\ saver' = [o \in Savers |-> saver'[o]]
    BY <2>1 DEF Types, SaverTypes
  <2>3. /\ saver'[s].step = "rename" /\ saver'[s].body = saver[s].body
        /\ saver'[s].cfg = saver[s].cfg /\ saver'[s].inode = saver[s].inode
        /\ saver'[s].alone = saver[s].alone
    BY <2>2
  <2>4. s \in InFlight /\ InFlight' = InFlight
    BY <2>1, <2>2, <2>3 DEF InFlight
  <2>5. File' = File
    BY <2>1 DEF File
  <2>6. Types'
    BY <2>1, <2>2, <2>3 DEF Types, SaverTypes
  <2>7. Names' /\ Single'
    BY <2>1, <2>2, <2>3, <2>4 DEF Names, Single
  <2>8. Written'
    BY <1>1, <2>1, <2>2, <2>3, <2>4, <2>5 DEF Written, InFlight
  <2>9. Documents'
    BY SMTT(30), <2>1, <2>2, <2>3, <2>4, <2>5 DEF Documents, Clean, IsDocument, InFlight
  <2>10. Kept' /\ SavedSettingsHold'
    BY <2>1, <2>2, <2>3, <2>5 DEF Kept, Clean, IsDocument, SavedSettingsHold, Credentials
  <2> QED  BY <2>6, <2>7, <2>8, <2>9, <2>10
<1> QED  BY <1>0, <1>1

LEMMA RenameInv == ASSUME NEW s \in Savers PROVE SettingsInv /\ Rename(s) => SettingsInv'
<1> SUFFICES ASSUME SettingsInv, Rename(s) PROVE SettingsInv'
  OBVIOUS
<1>0. CASE tmp = None
  <2>1. s \in InFlight
    BY DEF Rename, InFlight
  <2> QED  BY <1>0, <2>1, EndedInv DEF Rename
<1>1. CASE tmp # None
  <2> USE DEF SettingsInv
  <2>1. /\ saver[s].step = "rename"
        /\ saver' = [saver EXCEPT ![s].step = "sync"]
        /\ main' = tmp /\ tmp' = None /\ kept' = None
        /\ shown' = shown \cup {content[tmp]}
        /\ UNCHANGED <<content, up, live, level, mixed>>
    BY <1>1 DEF Rename
  <2>2. /\ saver'[s] = [step |-> "sync", body |-> saver[s].body, cfg |-> saver[s].cfg,
                        inode |-> saver[s].inode, alone |-> saver[s].alone]
        /\ \A o \in Savers \ {s} : saver'[o] = saver[o]
        /\ saver' = [o \in Savers |-> saver'[o]]
    BY <2>1 DEF Types, SaverTypes
  <2>3. /\ saver'[s].step = "sync" /\ saver'[s].body = saver[s].body
        /\ saver'[s].cfg = saver[s].cfg /\ saver'[s].inode = saver[s].inode
        /\ saver'[s].alone = saver[s].alone
    BY <2>2
  <2>4. s \in InFlight /\ InFlight' = InFlight
    BY <2>1, <2>2, <2>3 DEF InFlight
  <2>5. File' = content[tmp]
    BY <2>1 DEF File
  <2>6. Types'
    BY <1>1, <2>1, <2>2, <2>3 DEF Types, SaverTypes
  <2>7. \A o \in InFlight :
          /\ saver'[o].alone = saver[o].alone /\ saver'[o].cfg = saver[o].cfg
          /\ o # s => saver'[o].step = saver[o].step
    BY <2>2, <2>3 DEF InFlight
  <2>8. Names'
    BY <2>1, <2>6, SettingsAssumption DEF Names, Types
  <2>9. Single'
    BY <2>1, <2>2, <2>3, <2>4, <2>7 DEF Single
  <2>10. Written'
    <3>1. \A o \in InFlight : o # s => mixed /\ ~saver[o].alone
      BY <2>4 DEF Single, Types
    <3>2. ~mixed \/ saver[s].alone => saver[s].cfg = File' /\ File' \in shown'
      BY <2>1, <2>4, <2>5 DEF Written
    <3> QED  BY <2>1, <2>3, <2>4, <2>7, <3>1, <3>2 DEF Written
  <2>11. Documents'
    <3>1. Clean(content[tmp]) => IsDocument(content[tmp])
      BY DEF Clean
    <3> QED  BY <1>1, <2>1, <2>4, <2>5, <2>7, <3>1 DEF Documents, Clean, IsDocument
  <2>12. Kept' /\ SavedSettingsHold'
    BY <2>1 DEF Kept, SavedSettingsHold, Credentials
  <2> QED  BY <2>6, <2>8, <2>9, <2>10, <2>11, <2>12
<1> QED  BY <1>0, <1>1

LEMMA PublishInv == ASSUME NEW s \in Savers PROVE SettingsInv /\ Publish(s) => SettingsInv'
<1> SUFFICES ASSUME SettingsInv, Publish(s) PROVE SettingsInv'
  OBVIOUS
<1> USE DEF SettingsInv
<1>1. /\ saver[s].step = "publish"
      /\ live' = IF saver[s].body.password = None THEN live ELSE SetHash(live, saver[s].cfg)
      /\ kept' = IF saver[s].alone
                 THEN [cfg |-> saver[s].cfg, password |-> saver[s].body.password # None]
                 ELSE kept
      /\ saver' = Ended(s)
      /\ UNCHANGED <<content, main, tmp, up, level, shown, mixed>>
  BY DEF Publish
<1>2. /\ saver'[s] = [step |-> "over", body |-> None, cfg |-> None, inode |-> None, alone |-> FALSE]
      /\ \A o \in Savers \ {s} : saver'[o] = saver[o]
      /\ saver' = [o \in Savers |-> saver'[o]]
  BY <1>1 DEF Types, SaverTypes, Ended
<1>3. /\ saver'[s].step = "over" /\ saver'[s].body = None /\ saver'[s].cfg = None
      /\ saver'[s].inode = None /\ saver'[s].alone = FALSE
  BY <1>2
<1>4. s \in InFlight /\ InFlight' = InFlight \ {s}
  BY <1>1, <1>2, <1>3 DEF InFlight
<1>5. File' = File /\ kept = None
  BY <1>1 DEF File, Kept
<1>6. Types'
  <2> DEFINE S == {s}
  <2>1. /\ \A o \in S : saver'[o] = [step |-> "over", body |-> None, cfg |-> None,
                                    inode |-> None, alone |-> FALSE]
        /\ \A o \in Savers \ S : saver'[o] = saver[o]
        /\ S \in SUBSET Savers
    BY <1>2
  <2> HIDE DEF S
  <2>2. SaverTypes'
    BY <1>2, <2>1, OverTypes DEF Types
  <2> QED  BY <1>1, <2>2 DEF Types
<1>7. Names'
  BY <1>1, <1>2, <1>3 DEF Names
<1>8. \A o \in InFlight' : saver'[o] = saver[o] /\ o \in InFlight /\ o # s
  BY <1>2, <1>4 DEF InFlight
<1>9. Single'
  <2>1. \A o \in Savers : saver'[o].alone => saver[o].alone /\ o # s
    BY <1>2, <1>3
  <2> QED  BY <1>1, <1>4, <1>8, <2>1 DEF Single
<1>10. Written'
  <2>1. \A o \in InFlight : o # s => mixed /\ ~saver[o].alone
    BY <1>4 DEF Single, Types
  <2> QED  BY <1>1, <1>8, <2>1 DEF Written
<1>11. Documents'
  BY <1>1, <1>4, <1>5, <1>8 DEF Documents, Clean, IsDocument
<1>12. ASSUME saver[s].alone
       PROVE  kept'.cfg = saver[s].cfg /\ kept'.password = (saver[s].body.password # None)
  BY <1>1, <1>12
<1>13. Kept'
  <2> SUFFICES ASSUME saver[s].alone PROVE Kept'
    BY <1>1, <1>5 DEF Kept
  <2>1. InFlight' = {}
    BY <1>4 DEF Single
  <2>2. \A o \in Savers : saver'[o].inode = None /\ saver'[o].step \notin {"sync", "publish"}
    BY <1>6, <2>1 DEF InFlight, Types, SaverTypes
  <2>3. Clean(kept'.cfg)
    BY <1>4, <1>12 DEF Documents
  <2> QED  BY <1>1, <2>2, <2>3, SettingsAssumption DEF Kept, Clean, IsDocument, Types
<1>14. SavedSettingsHold'
  <2>1. ~mixed => saver[s].cfg \in shown
    BY <1>1, <1>4 DEF Written
  <2>2. live' \subseteq live \cup Credentials(saver[s].cfg)
    BY <1>1 DEF SetHash
  <2>3. ~mixed => live' \subseteq UNION {Credentials(cfg) : cfg \in shown}
    BY <2>1, <2>2 DEF SavedSettingsHold
  <2>4. ASSUME saver[s].alone
        PROVE  /\ File' = kept'.cfg
               /\ kept'.password => Credentials(kept'.cfg) \subseteq live'
    BY <1>1, <1>4, <1>5, <1>12, <2>4 DEF Written, SetHash
  <2>5. kept' # None => saver[s].alone
    BY <1>1, <1>5
  <2> QED  BY <1>1, <2>3, <2>4, <2>5 DEF SavedSettingsHold, Credentials
<1> QED  BY <1>6, <1>7, <1>9, <1>10, <1>11, <1>13, <1>14

\* A saver that is no longer alone.
Joined(s) == [saver[s] EXCEPT !.alone = FALSE]
SaverOf(step, body, cfg, inode, alone) ==
    [step |-> step, body |-> body, cfg |-> cfg, inode |-> inode, alone |-> alone]

LEMMA JoinedIs ==
    ASSUME SaverTypes, NEW s \in Savers
    PROVE  Joined(s) = SaverOf(saver[s].step, saver[s].body, saver[s].cfg, saver[s].inode, FALSE)
<1> DEFINE no == FALSE
<1>1. saver[s] = SaverOf(saver[s].step, saver[s].body, saver[s].cfg, saver[s].inode, saver[s].alone)
  BY DEF SaverTypes, SaverOf
<1> HIDE DEF no
<1>2. [SaverOf(saver[s].step, saver[s].body, saver[s].cfg, saver[s].inode, saver[s].alone)
         EXCEPT !.alone = no]
        = SaverOf(saver[s].step, saver[s].body, saver[s].cfg, saver[s].inode, no)
  BY DEF SaverOf
<1>3. [saver[s] EXCEPT !.alone = no]
        = SaverOf(saver[s].step, saver[s].body, saver[s].cfg, saver[s].inode, no)
  BY <1>1, <1>2, Zenon
<1> QED  BY <1>3, Zenon DEF Joined, no

LEMMA SubmitInv ==
    ASSUME NEW s \in Savers, NEW body \in Bodies
    PROVE  SettingsInv /\ Submit(s, body) => SettingsInv'
<1> SUFFICES ASSUME SettingsInv, Submit(s, body) PROVE SettingsInv'
  OBVIOUS
<1> DEFINE refused == File = Broken \/ ~Valid(File) \/ (body.auth /\ (Edited(File, body).user = None
                                                        \/ Edited(File, body).hash = None))
           cfg == Edited(File, body)
<1>0. CASE refused
  BY <1>0, EndedInv DEF Submit
<1>1. CASE ~refused
  <2> USE DEF SettingsInv
  <2>1. /\ up /\ saver[s].step = "new"
        /\ saver' = [o \in Savers |->
                        IF o = s THEN [step |-> "open", body |-> body, cfg |-> cfg,
                                       inode |-> None, alone |-> InFlight = {}]
                        ELSE [saver[o] EXCEPT !.alone = FALSE]]
        /\ mixed' = (mixed \/ InFlight # {})
        /\ UNCHANGED <<content, main, tmp, up, live, level, kept, shown>>
    BY <1>1 DEF Submit
  <2>2. Clean(cfg)
    BY <1>1, <2>1, EditedClean DEF Documents
  <2> HIDE DEF cfg, refused
  <2>3. saver'[s] = [step |-> "open", body |-> body, cfg |-> cfg, inode |-> None,
                     alone |-> InFlight = {}]
    BY <2>1
  <2>4. ASSUME NEW o \in Savers \ {s}
        PROVE  saver'[o] = SaverOf(saver[o].step, saver[o].body, saver[o].cfg, saver[o].inode, FALSE)
    <3>1. saver'[o] = Joined(o)
      BY <2>1 DEF Joined
    <3> QED  BY <3>1, JoinedIs DEF Types
  <2>5. /\ saver'[s].step = "open" /\ saver'[s].cfg = cfg /\ saver'[s].inode = None
        /\ saver'[s].alone = (InFlight = {})
        /\ saver'[s] = [step |-> saver'[s].step, body |-> saver'[s].body, cfg |-> saver'[s].cfg,
                        inode |-> saver'[s].inode, alone |-> saver'[s].alone]
    BY <2>3
  <2>6. \A o \in Savers \ {s} :
           /\ saver'[o].step = saver[o].step /\ saver'[o].cfg = saver[o].cfg
           /\ saver'[o].inode = saver[o].inode /\ saver'[o].alone = FALSE
           /\ saver'[o] = [step |-> saver'[o].step, body |-> saver'[o].body, cfg |-> saver'[o].cfg,
                           inode |-> saver'[o].inode, alone |-> saver'[o].alone]
    <3> SUFFICES ASSUME NEW o \in Savers \ {s} PROVE <2>6!(o)
      OBVIOUS
    <3>1. saver'[o] = SaverOf(saver[o].step, saver[o].body, saver[o].cfg, saver[o].inode, FALSE)
      BY <2>4
    <3> QED  BY <3>1 DEF SaverOf
  <2>7. s \notin InFlight /\ InFlight' = InFlight \cup {s}
    BY ZenonT(40), <2>1, <2>5, <2>6 DEF InFlight
  <2>8. File' = File
    BY <2>1 DEF File
  <2>9. saver' = [o \in Savers |-> saver'[o]]
    BY <2>1
  <2>10. Types'
    <3>1. saver'[s].alone \in BOOLEAN
      BY <2>5
    <3>2. ASSUME NEW o \in Savers PROVE SaverTypes!2!(o)'
      <4>1. CASE o = s
        BY <2>5, <3>1, <4>1
      <4>2. CASE o # s
        BY <2>6, <4>2 DEF Types, SaverTypes
      <4> QED  BY <4>1, <4>2
    <3>3. SaverTypes'
      BY <2>9, <3>2 DEF SaverTypes
    <3> QED  BY <2>1, <3>3 DEF Types
  <2>11. Names'
    BY <2>1, <2>5, <2>6 DEF Names
  <2>12. Single'
    BY <2>1, <2>5, <2>6, <2>7 DEF Single, Types, InFlight
  <2>13. Written'
    BY <2>1, <2>5, <2>6, <2>7 DEF Written, InFlight
  <2>14. Documents'
    <3>1. \A o \in InFlight' : Clean(saver'[o].cfg)
      BY <2>2, <2>5, <2>6, <2>7 DEF Documents, InFlight
    <3> QED  BY <2>1, <2>8, <3>1 DEF Documents, Clean, IsDocument
  <2>15. Kept'
    BY <2>1, <2>5, <2>6, SettingsAssumption DEF Kept, Clean, IsDocument, Types
  <2>16. SavedSettingsHold'
    BY <2>1, <2>8 DEF SavedSettingsHold, Credentials, Types
  <2> QED  BY <2>10, <2>11, <2>12, <2>13, <2>14, <2>15, <2>16
<1> QED  BY <1>0, <1>1

LEMMA EditFileInv == ASSUME NEW l \in Levels PROVE SettingsInv /\ EditFile(l) => SettingsInv'
<1> SUFFICES ASSUME SettingsInv, EditFile(l) PROVE SettingsInv'
  OBVIOUS
<1> USE DEF SettingsInv
<1> DEFINE i == Fresh
           cfg == [File EXCEPT !.level = l]
<1>1. /\ File # Broken
      /\ main' = i
      /\ content' = [content EXCEPT ![i] = cfg]
      /\ shown' = shown \cup {content'[main']}
      /\ saver' = [s \in Savers |-> Joined(s)]
      /\ kept' = None
      /\ UNCHANGED <<tmp, up, live, level, mixed>>
  BY DEF EditFile, Joined
<1>2. i \in Inodes /\ i # tmp
  BY FreshFree DEF InUse
<1>3. IsDocument(cfg) /\ (Clean(File) => Clean(cfg))
  <2>1. File = DocumentOf(File.auth, File.user, File.hash, File.plain, File.level)
    BY <1>1 DEF Documents, IsDocument, DocumentOf
  <2>2. [DocumentOf(File.auth, File.user, File.hash, File.plain, File.level) EXCEPT !.level = l]
          = DocumentOf(File.auth, File.user, File.hash, File.plain, l)
    BY DEF DocumentOf
  <2>3. cfg = DocumentOf(File.auth, File.user, File.hash, File.plain, l)
    BY <2>1, <2>2, Zenon
  <2> HIDE DEF cfg
  <2> QED  BY <2>3 DEF DocumentOf, IsDocument, Clean
<1> HIDE DEF i, cfg
<1>4. File' = cfg /\ (tmp # None => content'[tmp] = content[tmp])
  BY <1>1, <1>2 DEF File, Types
<1>5. \A s \in Savers :
         /\ saver'[s].step = saver[s].step /\ saver'[s].cfg = saver[s].cfg
         /\ saver'[s].inode = saver[s].inode /\ saver'[s].alone = FALSE
         /\ saver'[s] = [step |-> saver'[s].step, body |-> saver'[s].body, cfg |-> saver'[s].cfg,
                         inode |-> saver'[s].inode, alone |-> saver'[s].alone]
  <2> SUFFICES ASSUME NEW s \in Savers PROVE <1>5!(s)
    OBVIOUS
  <2>1. saver'[s] = SaverOf(saver[s].step, saver[s].body, saver[s].cfg, saver[s].inode, FALSE)
    BY <1>1, JoinedIs DEF Types
  <2> QED  BY <2>1 DEF SaverOf
<1>6. InFlight' = InFlight
  BY <1>5 DEF InFlight
<1>7. Types'
  BY ZenonT(40), <1>1, <1>2, <1>5 DEF Types, SaverTypes
<1>8. Names'
  BY <1>1, <1>2, <1>5 DEF Names
<1>9. Single'
  BY <1>1, <1>5, <1>6 DEF Single, InFlight
<1>10. Written'
  BY <1>1, <1>4, <1>5, <1>6 DEF Written, InFlight
<1>11. Documents'
  <2>1. \A s \in InFlight' : Clean(saver'[s].cfg)
    BY <1>5, <1>6 DEF Documents, InFlight
  <2>2. File' \in shown'
    BY <1>1 DEF File
  <2> QED  BY <1>1, <1>3, <1>4, <2>1, <2>2 DEF Documents, Clean, IsDocument
<1>12. Kept' /\ SavedSettingsHold'
  BY <1>1 DEF Kept, SavedSettingsHold, Credentials
<1> QED  BY <1>7, <1>8, <1>9, <1>10, <1>11, <1>12

LEMMA SettingsNextInv == SettingsInv /\ [SetNext]_setVars => SettingsInv'
<1>1. CASE UNCHANGED setVars
  <2> SUFFICES ASSUME SettingsInv PROVE SettingsInv'
    OBVIOUS
  <2>1. File' = File /\ InFlight' = InFlight
    BY <1>1 DEF setVars, File, InFlight
  <2> QED  BY ZenonT(40), <1>1, <2>1 DEF setVars, SettingsInv, Types, SaverTypes, Names, Single, Written,
              Documents, Kept, Clean, IsDocument, SavedSettingsHold, Credentials
<1>2. CASE SetNext
  BY <1>2, StartInv, StartFailsInv, StopInv, ReloadInv, EditFileInv, SubmitInv, SaveFailsInv, OpenInv,
     WriteInv, CheckInv, RenameInv, SyncInv, PublishInv DEF SetNext
<1> QED  BY <1>1, <1>2

-----------------------------------------------------------------------------
(* The audit log                                                           *)

\* The files as they could be: G in the place of gen.
AreFiles(G) == G \in [Files -> Seq(Lines) \cup {Absent}]

\* What AckedKept says of them after n rotations; a rotation moves a line at
\* most one file on.
Keeps(G, n) ==
    \A a \in acked : ~a.behind /\ n - a.drops < Generations =>
       \E f \in Files : f <= n - a.drops /\ G[f] # Absent /\ a.ev \in Readable(G[f])

Ordered(G) ==
    \A f, g \in {h \in Files : G[h] # Absent} : \A j \in DOMAIN G[f], k \in DOMAIN G[g] :
       f > g \/ (f = g /\ j < k) => G[f][j].ev < G[g][k].ev

Past(G, n) ==
    \A f \in Files : G[f] # Absent => \A j \in DOMAIN G[f] : G[f][j].ev <= n

Sound(G, n) == AreFiles(G) /\ Keeps(G, n) /\ Ordered(G) /\ Past(G, logged)

AuditInv ==
    /\ logged \in Nat
    /\ drops \in Nat
    /\ \A a \in acked : a.ev \in Nat /\ a.drops \in Nat /\ a.drops <= drops /\ a.ev <= logged
    /\ Sound(gen, drops)

\* A longer file still shows what it showed.
LEMMA AppendReadable ==
    ASSUME NEW f \in Seq(Lines), NEW e \in Lines
    PROVE  /\ Append(f, e) \in Seq(Lines)
           /\ Readable(f) \subseteq Readable(Append(f, e))
           /\ e.whole /\ ~(f # <<>> /\ ~Last(f).whole) => e.ev \in Readable(Append(f, e))
<1> DEFINE h == Append(f, e)
<1>1. /\ h \in Seq(Lines)
      /\ Len(h) = Len(f) + 1
      /\ \A i \in 1 .. Len(f) : h[i] = f[i]
      /\ h[Len(f) + 1] = e
  BY AppendProperties
<1>2. Len(f) \in Nat /\ DOMAIN f = 1 .. Len(f) /\ DOMAIN h = 1 .. Len(f) + 1
  BY <1>1, LenProperties
<1> HIDE DEF h
<1>3. ASSUME NEW k \in DOMAIN f, f[k].whole, k > 1 => f[k - 1].whole
      PROVE  f[k].ev \in Readable(h)
  <2>1. k \in DOMAIN h /\ h[k] = f[k] /\ (k > 1 => h[k - 1] = f[k - 1])
    BY <1>1, <1>2
  <2> QED  BY <1>3, <2>1 DEF Readable
<1>4. ASSUME e.whole, ~(f # <<>> /\ ~Last(f).whole)
      PROVE  e.ev \in Readable(h)
  <2> DEFINE k == Len(f) + 1
  <2>1. k > 1 => h[k - 1] = f[Len(f)] /\ f # <<>>
    BY <1>1, <1>2
  <2>2. k > 1 => h[k - 1].whole
    BY <1>4, <2>1 DEF Last
  <2>3. k \in DOMAIN h /\ h[k] = e
    BY <1>1, <1>2
  <2> QED  BY <1>4, <2>2, <2>3 DEF Readable
<1> QED  BY <1>1, <1>3, <1>4 DEF Readable, h

\* So does one that lost only lines nobody was told of.
LEMMA SubSeqReadable ==
    ASSUME NEW f \in Seq(Lines), NEW n \in 0 .. Len(f), NEW v \in Readable(f),
           \A k \in n + 1 .. Len(f) : f[k].ev # v
    PROVE  v \in Readable(SubSeq(f, 1, n))
<1>1. PICK k \in DOMAIN f : v = f[k].ev /\ f[k].whole /\ (k > 1 => f[k - 1].whole)
  BY DEF Readable
<1>2. Len(f) \in Nat /\ DOMAIN f = 1 .. Len(f)
  BY LenProperties
<1>3. k \in 1 .. n
  BY <1>1, <1>2
<1> DEFINE h == SubSeq(f, 1, n)
<1>4. h \in Seq(Lines) /\ Len(h) = n /\ \A i \in 1 .. n : h[i] = f[i]
  <2>1. \A i \in 1 .. n : f[i] \in Lines
    BY <1>2, ElementOfSeq
  <2>2. /\ h \in Seq(Lines)
        /\ Len(h) = IF 1 <= n THEN n - 1 + 1 ELSE 0
        /\ \A i \in 1 .. n - 1 + 1 : h[i] = f[1 + i - 1]
    BY <2>1, SubSeqProperties
  <2> QED  BY <2>2
<1>5. DOMAIN h = 1 .. n
  BY <1>4, LenProperties
<1> HIDE DEF h
<1>6. k \in DOMAIN h /\ h[k] = f[k] /\ (k > 1 => h[k - 1] = f[k - 1])
  BY <1>3, <1>4, <1>5
<1>7. v \in Readable(h)
  BY <1>1, <1>6 DEF Readable
<1> QED  BY <1>7 DEF h

\* Opening creates an empty file.
LEMMA OpenedSound == AuditInv => Sound(Opened, drops) /\ Opened[0] # Absent
<1> SUFFICES ASSUME AuditInv PROVE Sound(Opened, drops) /\ Opened[0] # Absent
  OBVIOUS
<1> USE DEF AuditInv, Sound
<1>0. 0 \in Files
  BY AuditAssumption DEF Files
<1>1. CASE gen[0] # Absent
  BY <1>1 DEF Opened
<1>2. CASE gen[0] = Absent
  <2>1. Opened = [gen EXCEPT ![0] = <<>>]
    BY <1>2 DEF Opened
  <2>2. <<>> \in Seq(Lines) /\ <<>> # Absent
    BY EmptySeq, AuditAssumption
  <2>3. AreFiles(Opened) /\ Opened[0] = <<>> /\ \A f \in Files \ {0} : Opened[f] = gen[f]
    BY <1>0, <2>1, <2>2 DEF AreFiles
  <2>4. Keeps(Opened, drops)
    BY <1>2, <2>3 DEF Keeps
  <2>5. Ordered(Opened) /\ Past(Opened, logged)
    <3>1. DOMAIN Opened[0] = {}
      BY <2>3
    <3> QED  BY <2>3, <3>1 DEF Ordered, Past
  <2> QED  BY <2>2, <2>3, <2>4, <2>5
<1> QED  BY <1>1, <1>2

\* What k steps of a rotation leave is sound: the oldest file is gone, and
\* counted.
LEMMA AfterSound ==
    ASSUME AuditInv, NEW k \in 0 .. Generations
    PROVE  Sound(After(k), IF k > 0 THEN drops + 1 ELSE drops)
<1> DEFINE n == IF k > 0 THEN drops + 1 ELSE drops
           G == After(k)
           from(f) == IF k = 0 \/ f < Generations - k THEN f ELSE f - 1
<1>0. Sound(Opened, drops)
  BY OpenedSound
<1>1. AreFiles(G)
  BY <1>0, AuditAssumption DEF Sound, AreFiles, After, Files
<1>2. ASSUME NEW f \in Files
      PROVE  IF k > 0 /\ f = Generations - k THEN G[f] = Absent
             ELSE from(f) \in Files /\ G[f] = Opened[from(f)]
  BY AuditAssumption DEF After, Files
<1>3. ASSUME NEW f \in Files, NEW g \in Files, f > g, G[f] # Absent, G[g] # Absent
      PROVE  from(f) > from(g)
  BY <1>2, <1>3, AuditAssumption DEF Files
<1> HIDE DEF G
<1>4. Keeps(G, n)
  <2> SUFFICES ASSUME NEW a \in acked, ~a.behind, n - a.drops < Generations
               PROVE  \E f \in Files : f <= n - a.drops /\ G[f] # Absent /\ a.ev \in Readable(G[f])
    BY DEF Keeps
  <2>1. /\ drops \in Nat /\ a.drops \in Nat /\ a.drops <= drops
        /\ drops <= n
    BY DEF AuditInv
  <2>2. PICK f \in Files : f <= drops - a.drops /\ Opened[f] # Absent /\ a.ev \in Readable(Opened[f])
    BY <1>0, <2>1, AuditAssumption DEF Sound, Keeps
  <2>3. CASE k = 0 \/ f < Generations - k
    <3>1. G[f] = Opened[f]
      BY <2>3 DEF After, G
    <3> QED  BY <2>1, <2>2, <3>1, AuditAssumption DEF Files
  <2>4. CASE ~(k = 0 \/ f < Generations - k)
    <3>1. f + 1 \in Files /\ f + 1 <= n - a.drops
      <4>1. n = drops + 1
        BY <2>4
      <4>2. f \in Nat /\ f <= drops - a.drops
        BY <2>2 DEF Files
      <4> HIDE DEF n
      <4>3. f + 1 <= n - a.drops
        BY <2>1, <4>1, <4>2
      <4>4. f + 1 < Generations
        BY <2>1, <4>1, <4>2, AuditAssumption
      <4> QED  BY <4>2, <4>3, <4>4, AuditAssumption DEF Files
    <3>2. G[f + 1] = Opened[f]
      BY <2>4, <3>1, AuditAssumption DEF After, Files, G
    <3> QED  BY <2>2, <3>1, <3>2
  <2> QED  BY <2>3, <2>4
<1>5. Ordered(G)
  <2> SUFFICES ASSUME NEW f \in Files, NEW g \in Files, G[f] # Absent, G[g] # Absent,
                      NEW i \in DOMAIN G[f], NEW j \in DOMAIN G[g], f > g \/ (f = g /\ i < j)
               PROVE  G[f][i].ev < G[g][j].ev
    BY DEF Ordered
  <2>1. /\ from(f) \in Files /\ G[f] = Opened[from(f)]
        /\ from(g) \in Files /\ G[g] = Opened[from(g)]
    BY <1>2
  <2>2. from(f) > from(g) \/ (from(f) = from(g) /\ i < j)
    BY <1>3
  <2> HIDE DEF from
  <2> QED  BY <1>0, <2>1, <2>2 DEF Sound, Ordered
<1>6. Past(G, logged)
  BY <1>0, <1>2 DEF Sound, Past
<1> QED  BY <1>1, <1>4, <1>5, <1>6 DEF Sound, G

\* What Log writes to is sound.
LEMMA TargetSound ==
    ASSUME AuditInv
    PROVE  Sound(Target, IF Full THEN drops + 1 ELSE drops) /\ Target[0] # Absent
<1>0. 0 \in Files /\ Generations > 0 /\ Generations \in 0 .. Generations
  BY AuditAssumption DEF Files
<1>1. CASE ~Full
  BY <1>1, OpenedSound DEF Target
<1>2. CASE Full
  <2> DEFINE G == After(Generations)
  <2>1. Sound(G, drops + 1)
    BY <1>0, AfterSound
  <2>2. G[0] = Absent
    BY <1>0, AuditAssumption DEF After
  <2> HIDE DEF G
  <2>3. Target = [G EXCEPT ![0] = <<>>]
    BY <1>2 DEF Target, G
  <2>4. <<>> \in Seq(Lines) /\ <<>> # Absent
    BY EmptySeq, AuditAssumption
  <2>5. AreFiles(Target) /\ Target[0] = <<>> /\ \A f \in Files \ {0} : Target[f] = G[f]
    BY <1>0, <2>1, <2>3, <2>4 DEF AreFiles, Sound
  <2>6. Keeps(Target, drops + 1)
    BY <2>1, <2>2, <2>5 DEF Sound, Keeps
  <2>7. Ordered(Target) /\ Past(Target, logged)
    <3>1. DOMAIN Target[0] = {}
      BY <2>5
    <3> QED  BY <2>1, <2>5, <3>1 DEF Sound, Ordered, Past
  <2> QED  BY <1>2, <2>4, <2>5, <2>6, <2>7 DEF Sound
<1> QED  BY <1>1, <1>2

\* So are the files with one more line, newer than any other.
LEMMA LineSound ==
    ASSUME AuditInv, NEW G, NEW n, Sound(G, n), G[0] # Absent,
           NEW e \in Lines, e.ev = logged + 1
    PROVE  LET H == [G EXCEPT ![0] = Append(@, e)]
           IN  /\ AreFiles(H) /\ Keeps(H, n) /\ Ordered(H) /\ Past(H, logged + 1)
               /\ H[0] # Absent
               /\ e.whole /\ ~(G[0] # <<>> /\ ~Last(G[0]).whole) => e.ev \in Readable(H[0])
<1> DEFINE H == [G EXCEPT ![0] = Append(@, e)]
           h == Append(G[0], e)
<1>0. 0 \in Files /\ logged \in Nat
  BY AuditAssumption DEF Files, AuditInv
<1>1. G[0] \in Seq(Lines)
  BY <1>0 DEF Sound, AreFiles
<1>2. /\ h \in Seq(Lines) /\ h # Absent
      /\ Readable(G[0]) \subseteq Readable(h)
      /\ e.whole /\ ~(G[0] # <<>> /\ ~Last(G[0]).whole) => e.ev \in Readable(h)
  BY <1>1, AppendReadable, AuditAssumption
<1>3. /\ DOMAIN G[0] = 1 .. Len(G[0]) /\ Len(G[0]) \in Nat
      /\ DOMAIN h = 1 .. Len(G[0]) + 1
      /\ \A i \in 1 .. Len(G[0]) : h[i] = G[0][i]
      /\ h[Len(G[0]) + 1] = e
  BY <1>1, <1>2, AppendProperties, LenProperties
<1> HIDE DEF h
<1>4. AreFiles(H) /\ H[0] = h /\ \A f \in Files \ {0} : H[f] = G[f]
  BY <1>0, <1>2 DEF Sound, AreFiles, h
<1> HIDE DEF H
<1>5. Keeps(H, n)
  BY <1>1, <1>2, <1>4 DEF Sound, Keeps
<1>6. ASSUME NEW f \in Files, G[f] # Absent, NEW j \in DOMAIN G[f]
      PROVE  G[f][j].ev \in Nat /\ G[f][j].ev <= logged
  <2>1. G[f] \in Seq(Lines)
    BY <1>6 DEF Sound, AreFiles
  <2>2. G[f][j] \in Lines
    BY <1>6, <2>1, ElementOfSeq, LenProperties
  <2> QED  BY <1>6, <2>2 DEF Sound, Past, Lines
<1>7. Past(H, logged + 1)
  <2> SUFFICES ASSUME NEW f \in Files, H[f] # Absent, NEW j \in DOMAIN H[f]
               PROVE  H[f][j].ev <= logged + 1
    BY DEF Past
  <2>1. CASE f # 0
    BY <1>0, <1>4, <1>6, <2>1
  <2>2. CASE f = 0
    <3>1. CASE j = Len(G[0]) + 1
      BY <1>0, <1>3, <1>4, <2>2, <3>1
    <3>2. CASE j # Len(G[0]) + 1
      <4>1. j \in DOMAIN G[0] /\ H[f][j] = G[0][j]
        BY <1>3, <1>4, <2>2, <3>2
      <4> QED  BY <1>0, <1>6, <4>1
    <3> QED  BY <3>1, <3>2
  <2> QED  BY <2>1, <2>2
<1>8. Ordered(H)
  <2> SUFFICES ASSUME NEW f \in Files, NEW g \in Files, H[f] # Absent, H[g] # Absent,
                      NEW i \in DOMAIN H[f], NEW j \in DOMAIN H[g], f > g \/ (f = g /\ i < j)
               PROVE  H[f][i].ev < H[g][j].ev
    BY DEF Ordered
  <2>1. G[f] # Absent /\ i \in DOMAIN G[f] /\ H[f][i] = G[f][i]
    <3>1. CASE f # 0
      BY <1>4, <3>1
    <3>2. CASE f = 0
      <4>1. g = 0 /\ i < j
        BY <3>2 DEF Files
      <4>2. i \in 1 .. Len(G[0])
        BY <1>3, <1>4, <3>2, <4>1
      <4> QED  BY <1>3, <1>4, <3>2, <4>2
    <3> QED  BY <3>1, <3>2
  <2>2. G[f][i].ev \in Nat /\ G[f][i].ev <= logged
    BY <1>6, <2>1
  <2>3. CASE g = 0 /\ j = Len(G[0]) + 1
    BY <1>0, <1>3, <1>4, <2>1, <2>2, <2>3
  <2>4. CASE ~(g = 0 /\ j = Len(G[0]) + 1)
    <3>1. G[g] # Absent /\ j \in DOMAIN G[g] /\ H[g][j] = G[g][j]
      BY <1>3, <1>4, <2>4
    <3> QED  BY <2>1, <3>1 DEF Sound, Ordered
  <2> QED  BY <2>3, <2>4
<1> QED  BY <1>2, <1>4, <1>5, <1>7, <1>8 DEF H

\* What is sound stays sound when later events are counted.
LEMMA PastMore ==
    ASSUME AuditInv, NEW G, AreFiles(G), Past(G, logged)
    PROVE  Past(G, logged + 1)
<1> SUFFICES ASSUME NEW f \in Files, G[f] # Absent, NEW j \in DOMAIN G[f]
             PROVE  G[f][j].ev <= logged + 1
  BY DEF Past
<1>1. G[f] \in Seq(Lines)
  BY DEF AreFiles
<1>2. G[f][j] \in Lines
  BY <1>1, ElementOfSeq, LenProperties
<1> QED  BY <1>2 DEF Past, Lines, AuditInv

LEMMA AuditInitInv == AuditInit => AuditInv
<1> SUFFICES ASSUME AuditInit PROVE AuditInv
  OBVIOUS
<1> QED  BY DEF AuditInit, AuditInv, Sound, AreFiles, Keeps, Ordered, Past

LEMMA LogFailsEarlyInv ==
    AuditInv /\ LogFailsEarly /\ logged' = logged + 1 => AuditInv'
<1> SUFFICES ASSUME AuditInv, LogFailsEarly, logged' = logged + 1 PROVE AuditInv'
  OBVIOUS
<1>1. acked' = acked
  BY DEF LogFailsEarly
<1>2. Sound(gen', drops') /\ drops' \in Nat /\ drops <= drops'
  <2>1. CASE gen' \in {gen, Opened} /\ drops' = drops
    BY <2>1, OpenedSound DEF AuditInv
  <2>2. CASE ~(gen' \in {gen, Opened} /\ drops' = drops)
    <3>1. PICK k \in 0 .. Generations :
                  gen' = After(k) /\ drops' = IF k > 0 THEN drops + 1 ELSE drops
      BY <2>2 DEF LogFailsEarly
    <3> QED  BY <3>1, AfterSound DEF AuditInv
  <2> QED  BY <2>1, <2>2
<1>3. Past(gen', logged')
  BY <1>2, PastMore DEF Sound
<1> QED  BY <1>1, <1>2, <1>3 DEF AuditInv, Sound, AreFiles, Keeps, Ordered, Past

LEMMA LogFailsLateInv ==
    AuditInv /\ LogFailsLate /\ logged' = logged + 1 => AuditInv'
<1> SUFFICES ASSUME AuditInv, LogFailsLate, logged' = logged + 1 PROVE AuditInv'
  OBVIOUS
<1>1. acked' = acked /\ drops' = (IF Full THEN drops + 1 ELSE drops)
  BY DEF LogFailsLate
<1>2. 0 \in Files /\ Sound(Target, drops') /\ Target[0] # Absent
  BY <1>1, TargetSound, AuditAssumption DEF Files
<1>3. Target[0] \in Seq(Lines) /\ Target = [f \in Files |-> Target[f]]
  BY <1>2 DEF Sound, AreFiles
<1>4. AreFiles(gen') /\ Keeps(gen', drops') /\ Ordered(gen') /\ Past(gen', logged')
  <2>1. CASE gen' = [Target EXCEPT ![0] = @ \o <<>>]
    <3>1. Target[0] \o <<>> = Target[0]
      BY <1>3, ConcatEmptySeq
    <3>2. gen' = Target
      BY <1>3, <2>1, <3>1
    <3> QED  BY <1>2, <3>2, PastMore DEF Sound
  <2>2. ASSUME NEW e \in Lines, e.ev = logged + 1, gen' = [Target EXCEPT ![0] = @ \o <<e>>]
        PROVE  AreFiles(gen') /\ Keeps(gen', drops') /\ Ordered(gen') /\ Past(gen', logged')
    <3>1. Target[0] \o <<e>> = Append(Target[0], e)
      BY <1>3, AppendIsConcat
    <3>2. gen' = [Target EXCEPT ![0] = Append(@, e)]
      BY <2>2, <3>1
    <3> QED  BY ZenonT(40), <1>2, <2>2, <3>2, LineSound
  <2>3. ASSUME NEW w \in BOOLEAN
        PROVE  [ev |-> logged + 1, whole |-> w] \in Lines
    BY DEF AuditInv, Lines
  <2>4. PICK left \in {<<>>, <<[ev |-> logged + 1, whole |-> FALSE]>>, <<[ev |-> logged + 1, whole |-> TRUE]>>} :
                gen' = [Target EXCEPT ![0] = @ \o left]
    BY DEF LogFailsLate
  <2>5. CASE left = <<>>
    BY <2>1, <2>4, <2>5
  <2>6. CASE left = <<[ev |-> logged + 1, whole |-> FALSE]>>
    BY <2>2, <2>3, <2>4, <2>6
  <2>7. CASE left = <<[ev |-> logged + 1, whole |-> TRUE]>>
    BY <2>2, <2>3, <2>4, <2>7
  <2> QED  BY <2>4, <2>5, <2>6, <2>7
<1> QED  BY <1>1, <1>4 DEF AuditInv, Sound, AreFiles, Keeps, Ordered, Past

LEMMA LogSucceedsInv ==
    AuditInv /\ LogSucceeds /\ logged' = logged + 1 => AuditInv'
<1> SUFFICES ASSUME AuditInv, LogSucceeds, logged' = logged + 1 PROVE AuditInv'
  OBVIOUS
<1> DEFINE e == [ev |-> logged + 1, whole |-> TRUE]
           b == [ev |-> logged + 1, drops |-> drops',
                 behind |-> Target[0] # <<>> /\ ~Last(Target[0]).whole]
<1>1. /\ gen' = [Target EXCEPT ![0] = Append(@, e)]
      /\ drops' = (IF Full THEN drops + 1 ELSE drops)
      /\ acked' = acked \cup {b}
  BY DEF LogSucceeds
<1>2. e \in Lines /\ e.ev = logged + 1 /\ e.whole
  BY DEF AuditInv, Lines
<1>3. /\ b.ev = logged + 1 /\ b.drops = drops'
      /\ b.behind = (Target[0] # <<>> /\ ~Last(Target[0]).whole)
  OBVIOUS
<1>4. 0 \in Files /\ Sound(Target, drops') /\ Target[0] # Absent
  BY <1>1, TargetSound, AuditAssumption DEF Files
<1> HIDE DEF b
<1>5. /\ AreFiles(gen') /\ Keeps(gen', drops') /\ Ordered(gen') /\ Past(gen', logged')
      /\ gen'[0] # Absent
      /\ ~b.behind => b.ev \in Readable(gen'[0])
  <2> HIDE DEF e
  <2> QED  BY <1>1, <1>2, <1>3, <1>4, LineSound
<1>6. drops' \in Nat /\ drops <= drops'
  BY <1>1 DEF AuditInv
<1>7. Keeps(gen, drops)'
  <2> SUFFICES ASSUME NEW a \in acked', ~a.behind, drops' - a.drops < Generations
               PROVE  \E f \in Files : f <= drops' - a.drops /\ gen'[f] # Absent
                                       /\ a.ev \in Readable(gen'[f])
    BY DEF Keeps, Readable
  <2>1. CASE a = b
    BY <1>3, <1>4, <1>5, <1>6, <2>1
  <2>2. CASE a \in acked
    BY <1>5, <2>2 DEF Keeps
  <2> QED  BY <1>1, <2>1, <2>2
<1>8. \A a \in acked' : a.ev \in Nat /\ a.drops \in Nat /\ a.drops <= drops' /\ a.ev <= logged'
  BY <1>1, <1>3, <1>6 DEF AuditInv
<1> QED  BY <1>5, <1>6, <1>7, <1>8 DEF AuditInv, Sound, AreFiles, Ordered, Past

LEMMA CrashInv == AuditInv /\ Crash => AuditInv'
<1> SUFFICES ASSUME AuditInv, Crash PROVE AuditInv'
  OBVIOUS
<1>0. UNCHANGED <<logged, acked, drops>> /\ 0 \in Files
  BY AuditAssumption DEF Crash, Files
<1>1. CASE gen[0] = Absent
  <2>1. gen' = gen
    BY <1>1 DEF Crash
  <2> QED  BY <1>0, <2>1 DEF AuditInv, Sound, AreFiles, Keeps, Ordered, Past
<1>2. CASE gen[0] # Absent
  <2>1. PICK n \in 0 .. Len(gen[0]) :
                /\ \A k \in n + 1 .. Len(gen[0]) : ~\E a \in acked : a.ev >= gen[0][k].ev
                /\ gen' = [gen EXCEPT ![0] = SubSeq(@, 1, n)]
    BY <1>2 DEF Crash
  <2> DEFINE h == SubSeq(gen[0], 1, n)
  <2>2. gen[0] \in Seq(Lines)
    BY <1>0, <1>2 DEF AuditInv, Sound, AreFiles
  <2>3. Len(gen[0]) \in Nat /\ DOMAIN gen[0] = 1 .. Len(gen[0])
    BY <2>2, LenProperties
  <2>4. h \in Seq(Lines) /\ Len(h) = n /\ \A i \in 1 .. n : h[i] = gen[0][i]
    <3>1. \A i \in 1 .. n : gen[0][i] \in Lines
      BY <2>2, <2>3, ElementOfSeq
    <3>2. /\ h \in Seq(Lines)
          /\ Len(h) = IF 1 <= n THEN n - 1 + 1 ELSE 0
          /\ \A i \in 1 .. n - 1 + 1 : h[i] = gen[0][1 + i - 1]
      BY <3>1, SubSeqProperties
    <3> QED  BY <3>2
  <2>5. DOMAIN h = 1 .. n /\ h # Absent
    BY <2>4, LenProperties, AuditAssumption
  <2>6. ASSUME NEW a \in acked, a.ev \in Readable(gen[0])
        PROVE  a.ev \in Readable(h)
    <3>1. \A k \in n + 1 .. Len(gen[0]) : gen[0][k].ev # a.ev
      BY <2>1 DEF AuditInv
    <3> QED  BY <2>2, <2>6, <3>1, SubSeqReadable
  <2> HIDE DEF h
  <2>7. AreFiles(gen') /\ gen'[0] = h /\ \A f \in Files \ {0} : gen'[f] = gen[f]
    BY <1>0, <2>1, <2>4 DEF AuditInv, Sound, AreFiles, h
  <2>8. ASSUME NEW f \in Files, gen'[f] # Absent
        PROVE  gen[f] # Absent /\ \A i \in DOMAIN gen'[f] : i \in DOMAIN gen[f] /\ gen'[f][i] = gen[f][i]
    <3>1. CASE f = 0
      <4>1. \A i \in 1 .. n : i \in 1 .. Len(gen[0])
        BY <2>3
      <4> QED  BY <1>2, <2>3, <2>4, <2>5, <2>7, <3>1, <4>1
    <3> QED  BY <2>7, <2>8, <3>1
  <2>9. Keeps(gen, drops)'
    BY <1>0, <2>5, <2>6, <2>7 DEF AuditInv, Sound, Keeps
  <2>10. Ordered(gen')
    BY <2>8 DEF AuditInv, Sound, Ordered
  <2>11. Past(gen', logged')
    BY <1>0, <2>8 DEF AuditInv, Sound, Past
  <2> QED  BY <1>0, <2>7, <2>9, <2>10, <2>11 DEF AuditInv, Sound, AreFiles, Ordered, Past
<1> QED  BY <1>1, <1>2

LEMMA AuditNextInv == AuditInv /\ [AuditNext]_auditVars => AuditInv'
<1> SUFFICES ASSUME AuditInv, [AuditNext]_auditVars PROVE AuditInv'
  OBVIOUS
<1>1. CASE UNCHANGED auditVars \/ Close
  BY <1>1 DEF auditVars, Close, AuditInv, Sound, AreFiles, Keeps, Ordered, Past
<1> QED
  BY <1>1, LogSucceedsInv, LogFailsEarlyInv, LogFailsLateInv, CrashInv DEF AuditNext, Log

-----------------------------------------------------------------------------
(* The log stream                                                          *)

Readers == Instances \X Pipes
Posts   == Instances \X Posters

ReaderSteps == {"read", "store", "send", "gap"}
PosterSteps == {"running", "idle", "numbered", "sending", "over"}

ReaderRecords == [left : Nat, ev : Events \cup {Nothing}, step : ReaderSteps]
FeedRecords   == [open : BOOLEAN, buf : Seq(Events)]
PosterRecords == [step : PosterSteps, ev : Events \cup {Nothing}, todo : SUBSET Clients,
                  dropped : Nat]
BrokerRecords == [seq : Nat, members : SUBSET Clients, dropped : Nat]

ClientTypes ==
    /\ client = [c \in Clients |-> client[c]]
    /\ \A c \in Clients :
          /\ client[c] = [step |-> client[c].step, closed |-> client[c].closed,
                          seen |-> client[c].seen, buf |-> client[c].buf, got |-> client[c].got]
          /\ client[c].buf \in Seq(Events)
          /\ client[c].got \in Seq(Events)

LogTypes ==
    /\ clock \in Nat
    /\ reader \in [Readers -> ReaderRecords]
    /\ feed \in [Instances -> FeedRecords]
    /\ poster \in [Posts -> PosterRecords]
    /\ broker \in BrokerRecords
    /\ owed \in [Clients -> SUBSET Events]
    /\ ClientTypes

\* One line is another one's predecessor on its pipe, or on another pipe.
Before(d, e) ==
    /\ d # e
    /\ d.inst = e.inst /\ d.stream = e.stream /\ d.stream # "system" => d.at < e.at

Held(r)   == reader[r].step # "read"
Queued(i) == {feed[i].buf[k] : k \in DOMAIN feed[i].buf}
Posted(p) == poster[p].step \in {"numbered", "sending"}

\* Where a line can be, upstream first, and that it was read by now.
ReaderInv ==
    \A r \in Readers : Held(r) =>
        /\ reader[r].ev \in Events
        /\ reader[r].ev.at <= clock
        /\ reader[r].ev.inst = r[1]
        /\ reader[r].ev.stream = IF reader[r].step = "gap" THEN "system" ELSE r[2]

FeedInv ==
    \A i \in Instances :
        /\ \A e \in Queued(i) : e.inst = i /\ e.at <= clock
        /\ \A j, k \in DOMAIN feed[i].buf : j < k => Before(feed[i].buf[j], feed[i].buf[k])
        /\ feed[i].open => poster[<<i, "exit">>].step = "running"

PosterInv ==
    \A p \in Posts :
        /\ poster[p].step # "sending" => poster[p].todo = {} /\ poster[p].dropped = 0
        /\ IF Posted(p)
           THEN /\ poster[p].ev \in Events
                /\ poster[p].ev.at <= clock
                /\ poster[p].ev.inst = p[1]
                /\ p[2] = "exit" => poster[p].ev.stream = "system"
           ELSE poster[p].ev = Nothing

OwedInv == \A c \in Clients : \A d \in owed[c] : d.at <= clock

\* A line further on is before every line behind it.
HandOrder ==
    \A r \in Readers : Held(r) =>
        /\ \A q \in Readers \ {r} : Held(q) => reader[q].ev # reader[r].ev
        /\ \A i \in Instances : \A e \in Queued(i) : Before(e, reader[r].ev)
        /\ \A p \in Posts : Posted(p) => Before(poster[p].ev, reader[r].ev)
        /\ \A c \in Clients : \A d \in owed[c] : Before(d, reader[r].ev)

QueueOrder ==
    \A i \in Instances : \A e \in Queued(i) :
        /\ \A p \in Posts : Posted(p) => Before(poster[p].ev, e)
        /\ \A c \in Clients : \A d \in owed[c] : Before(d, e)

PostOrder ==
    \A p \in Posts : Posted(p) =>
        /\ \A q \in Posts \ {p} : Posted(q) => poster[q].ev # poster[p].ev
        /\ \A c \in Clients : \A d \in owed[c] :
              Before(d, poster[p].ev) \/ (d = poster[p].ev /\ poster[p].step = "sending")

\* A view holds what it was promised, in order, and no line on its way to it.
LiveInv ==
    \A c \in Clients :
        /\ Range(Live(c)) \subseteq owed[c]
        /\ \A j, k \in DOMAIN Live(c) : j < k => Before(Live(c)[j], Live(c)[k])
        /\ \A p \in Posts : c \in poster[p].todo =>
              /\ poster[p].ev \notin Range(Live(c))
              /\ poster[p].ev \in owed[c] <=> Wants(c, poster[p].ev)

\* Who misses the line p is sending, and what is missed for good.
Missing(p) == {c \in Clients : poster[p].ev \in Unseen(c)}
Settled == {x \in Lost : \A p \in DOMAIN poster : x[2] # poster[p].ev}

CountInv ==
    /\ \A p \in Posts : poster[p].dropped = Cardinality(Missing(p))
    /\ IsFiniteSet(Settled)
    /\ broker.dropped = Cardinality(Settled)

OrderInv == ReaderInv /\ FeedInv /\ PosterInv /\ OwedInv /\ HandOrder /\ QueueOrder /\ PostOrder

LogInv == LogTypes /\ OrderInv /\ LiveInv /\ CountInv

\* What a subscriber takes from its buffer stays in its view.
LEMMA TakenStays ==
    ASSUME NEW got \in Seq(Events), NEW buf \in Seq(Events), buf # <<>>
    PROVE  Append(got, Head(buf)) \o Tail(buf) = got \o buf
<1> DEFINE h == Append(got, Head(buf))
           t == Tail(buf)
<1>1. /\ Len(buf) \in Nat \ {0} /\ Len(got) \in Nat
      /\ Head(buf) \in Events /\ Head(buf) = buf[1]
      /\ t \in Seq(Events) /\ Len(t) = Len(buf) - 1
      /\ \A k \in 1 .. Len(t) : t[k] = buf[k + 1]
  BY EmptySeq, LenProperties, HeadTailProperties
<1>2. /\ h \in Seq(Events) /\ Len(h) = Len(got) + 1
      /\ \A k \in 1 .. Len(got) : h[k] = got[k]
      /\ h[Len(got) + 1] = buf[1]
  BY <1>1, AppendProperties
<1> HIDE DEF h, t
<1>3. /\ h \o t \in Seq(Events) /\ Len(h \o t) = Len(h) + Len(t)
      /\ \A k \in 1 .. Len(h) + Len(t) :
            (h \o t)[k] = IF k <= Len(h) THEN h[k] ELSE t[k - Len(h)]
  BY ZenonT(40), <1>1, <1>2, ConcatProperties
<1>4. /\ got \o buf \in Seq(Events) /\ Len(got \o buf) = Len(got) + Len(buf)
      /\ \A k \in 1 .. Len(got) + Len(buf) :
            (got \o buf)[k] = IF k <= Len(got) THEN got[k] ELSE buf[k - Len(got)]
  BY ConcatProperties
<1>5. Len(h \o t) = Len(got \o buf)
  BY <1>1, <1>2, <1>3, <1>4
<1>6. ASSUME NEW k \in 1 .. Len(h \o t)
      PROVE  (h \o t)[k] = (got \o buf)[k]
  <2>0. /\ k \in Nat /\ k \in 1 .. Len(h) + Len(t) /\ k \in 1 .. Len(got) + Len(buf)
        /\ Len(got) \in Nat /\ Len(h) = Len(got) + 1
    BY <1>1, <1>2, <1>3
  <2>1. CASE k <= Len(got)
    BY <1>2, <1>3, <1>4, <2>0, <2>1
  <2>2. CASE k = Len(got) + 1
    BY <1>1, <1>2, <1>3, <1>4, <2>0, <2>2
  <2>3. CASE k > Len(got) + 1
    <3>1. k - Len(h) \in 1 .. Len(t) /\ k - Len(h) + 1 = k - Len(got)
      BY <1>1, <2>0, <2>3
    <3>2. t[k - Len(h)] = buf[k - Len(got)]
      BY <1>1, <3>1
    <3>3. ~(k <= Len(h)) /\ ~(k <= Len(got))
      BY <2>0, <2>3
    <3>4. (h \o t)[k] = t[k - Len(h)]
      BY <1>3, <2>0, <3>3
    <3>5. (got \o buf)[k] = buf[k - Len(got)]
      BY <1>4, <2>0, <3>3
    <3> QED  BY <3>2, <3>4, <3>5
  <2> QED  BY <2>0, <2>1, <2>2, <2>3
<1> QED  BY <1>3, <1>4, <1>5, <1>6, SeqEqual DEF h, t

\* What it is sent comes last.
LEMMA SentLast ==
    ASSUME NEW got \in Seq(Events), NEW buf \in Seq(Events), NEW e \in Events
    PROVE  /\ got \o Append(buf, e) = Append(got \o buf, e)
           /\ Append(got \o buf, e) \in Seq(Events)
<1>1. Append(buf, e) = buf \o <<e>> /\ <<e>> \in Seq(Events)
  BY AppendIsConcat
<1>2. got \o buf \in Seq(Events)
  BY ConcatProperties
<1>3. Append(got \o buf, e) = (got \o buf) \o <<e>>
  BY <1>2, AppendIsConcat
<1>4. (got \o buf) \o <<e>> = got \o (buf \o <<e>>)
  BY <1>1, ConcatAssociative
<1> QED  BY <1>1, <1>2, <1>3, <1>4, AppendProperties

\* What is in a queue with one more line.
LEMMA QueueAppend ==
    ASSUME NEW b \in Seq(Events), NEW e \in Events
    PROVE  LET h == Append(b, e)
           IN  /\ h \in Seq(Events)
               /\ {h[k] : k \in DOMAIN h} = {b[k] : k \in DOMAIN b} \cup {e}
               /\ (\A j, k \in DOMAIN b : j < k => Before(b[j], b[k]))
                     /\ (\A d \in {b[k] : k \in DOMAIN b} : Before(d, e))
                     => \A j, k \in DOMAIN h : j < k => Before(h[j], h[k])
<1> DEFINE h == Append(b, e)
<1>1. /\ h \in Seq(Events) /\ Len(h) = Len(b) + 1 /\ Len(b) \in Nat
      /\ \A k \in 1 .. Len(b) : h[k] = b[k]
      /\ h[Len(b) + 1] = e
      /\ DOMAIN b = 1 .. Len(b)
  BY AppendProperties, LenProperties
<1>2. DOMAIN h = 1 .. Len(b) + 1
  BY <1>1, LenProperties
<1> HIDE DEF h
<1>3. {h[k] : k \in DOMAIN h} = {b[k] : k \in DOMAIN b} \cup {e}
  <2>1. ASSUME NEW k \in DOMAIN h PROVE h[k] \in {b[j] : j \in DOMAIN b} \cup {e}
    <3>1. k = Len(b) + 1 \/ k \in 1 .. Len(b)
      BY <1>1, <1>2
    <3> QED  BY <1>1, <3>1
  <2>2. ASSUME NEW k \in DOMAIN b PROVE k \in DOMAIN h /\ h[k] = b[k]
    BY <1>1, <1>2
  <2>3. Len(b) + 1 \in DOMAIN h /\ h[Len(b) + 1] = e
    BY <1>1, <1>2
  <2> QED  BY <2>1, <2>2, <2>3
<1>4. ASSUME \A j, k \in DOMAIN b : j < k => Before(b[j], b[k]),
             \A d \in {b[k] : k \in DOMAIN b} : Before(d, e),
             NEW j \in DOMAIN h, NEW k \in DOMAIN h, j < k
      PROVE  Before(h[j], h[k])
  <2>1. j \in DOMAIN b /\ h[j] = b[j]
    BY <1>1, <1>2, <1>4
  <2>2. CASE k = Len(b) + 1
    BY <1>1, <1>4, <2>1, <2>2
  <2>3. CASE k # Len(b) + 1
    <3>1. k \in DOMAIN b /\ h[k] = b[k]
      BY <1>1, <1>2, <2>3
    <3> QED  BY <1>4, <2>1, <3>1
  <2> QED  BY <2>2, <2>3
<1> QED  BY <1>1, <1>3, <1>4 DEF h

\* What is left of it behind its first line.
LEMMA QueueTail ==
    ASSUME NEW b \in Seq(Events), b # <<>>,
           \A j, k \in DOMAIN b : j < k => Before(b[j], b[k])
    PROVE  LET t == Tail(b)
           IN  /\ t \in Seq(Events)
               /\ Head(b) \in {b[k] : k \in DOMAIN b}
               /\ {t[k] : k \in DOMAIN t} \subseteq {b[k] : k \in DOMAIN b}
               /\ \A d \in {t[k] : k \in DOMAIN t} : Before(Head(b), d)
               /\ \A j, k \in DOMAIN t : j < k => Before(t[j], t[k])
<1> DEFINE t == Tail(b)
<1>1. /\ Len(b) \in Nat \ {0} /\ DOMAIN b = 1 .. Len(b) /\ Head(b) = b[1]
      /\ t \in Seq(Events) /\ Len(t) = Len(b) - 1
      /\ \A k \in 1 .. Len(t) : t[k] = b[k + 1]
  BY EmptySeq, LenProperties, HeadTailProperties
<1>2. DOMAIN t = 1 .. Len(b) - 1
  BY <1>1, LenProperties
<1> HIDE DEF t
<1>3. \A k \in DOMAIN t : k + 1 \in DOMAIN b /\ 1 \in DOMAIN b /\ 1 < k + 1 /\ t[k] = b[k + 1]
  BY <1>1, <1>2
<1>4. \A k \in DOMAIN t : Before(b[1], t[k])
  BY <1>3
<1>5. ASSUME NEW j \in DOMAIN t, NEW k \in DOMAIN t, j < k PROVE Before(t[j], t[k])
  <2>1. j + 1 < k + 1
    BY <1>2, <1>5
  <2> QED  BY <1>3, <2>1
<1>6. 1 \in DOMAIN b
  BY <1>1
<1> QED  BY <1>1, <1>3, <1>4, <1>5, <1>6 DEF t

\* A line read now is behind every other.
LEMMA NewLine ==
    ASSUME LogTypes, NEW e \in Events, e.at = clock + 1, NEW d \in Events, d.at <= clock
    PROVE  Before(d, e) /\ d # e
BY DEF LogTypes, Before, Events

\* What is missed stays, if nobody misses more and nobody is promised anything.
LEMMA SameCounts ==
    ASSUME LogTypes, LogTypes', CountInv,
           \A c \in Clients : Unseen(c)' = Unseen(c),
           broker'.dropped = broker.dropped,
           \A p \in Posts : poster'[p].ev = poster[p].ev /\ poster'[p].dropped = poster[p].dropped
    PROVE  CountInv'
<1>1. DOMAIN poster = Posts /\ DOMAIN poster' = Posts
  BY DEF LogTypes
<1>2. Settled' = Settled
  BY <1>1 DEF Settled, Lost
<1>3. \A p \in Posts : Missing(p)' = Missing(p)
  BY DEF Missing
<1> QED  BY <1>2, <1>3 DEF CountInv

\* What the subscribers were sent and promised, while nobody sends.
LEMMA SameViews ==
    ASSUME LogTypes, LogTypes', LiveInv, CountInv,
           client' = client \/ \A c \in Clients : Live(c)' = Live(c),
           owed' = owed, broker'.dropped = broker.dropped,
           \A p \in Posts : /\ poster'[p].ev = poster[p].ev
                            /\ poster'[p].todo = poster[p].todo
                            /\ poster'[p].dropped = poster[p].dropped
    PROVE  LiveInv' /\ CountInv'
<1>1. \A c \in Clients : Live(c)' = Live(c)
  BY DEF Live
<1>2. DOMAIN poster = Posts /\ DOMAIN poster' = Posts
  BY DEF LogTypes
<1>3. \A c \in Clients : OnTheWay(c)' = OnTheWay(c)
  BY <1>2 DEF OnTheWay
<1>4. \A c \in Clients : Unseen(c)' = Unseen(c)
  BY <1>1, <1>3 DEF Unseen
<1>5. CountInv'
  BY <1>4, SameCounts
<1>6. LiveInv'
  BY <1>1 DEF LiveInv, Wants
<1> QED  BY <1>5, <1>6

\* Every line in a queue is a line.
LEMMA QueuedEvents == LogTypes => \A i \in Instances : \A d \in Queued(i) : d \in Events
BY ElementOfSeq, LenProperties DEF LogTypes, Queued, FeedRecords

LEMMA ReadInv ==
    ASSUME NEW i \in Instances, NEW s \in Pipes
    PROVE  LogInv /\ Read(i, s) => LogInv'
<1> SUFFICES ASSUME LogInv, Read(i, s) PROVE LogInv'
  OBVIOUS
<1> USE DEF LogInv, OrderInv
<1> DEFINE r == <<i, s>>
           e == [inst |-> i, stream |-> s, at |-> clock + 1]
<1>1. /\ reader[r].left > 0 /\ reader[r].step = "read"
      /\ reader' = [reader EXCEPT ![r] = [left |-> @.left - 1, ev |-> e, step |-> "store"]]
      /\ clock' = clock + 1
      /\ UNCHANGED <<store, feed, poster, broker, client, owed>>
  BY DEF Read
<1>2. r \in Readers /\ r[1] = i /\ r[2] = s
  BY DEF Readers
<1>3. e \in Events /\ e.inst = i /\ e.stream = s /\ e.at = clock + 1
  BY DEF Events, LogTypes, Pipes
<1> HIDE DEF r, e
<1>4. /\ reader'[r] = [left |-> reader[r].left - 1, ev |-> e, step |-> "store"]
      /\ \A q \in Readers \ {r} : reader'[q] = reader[q]
      /\ reader' \in [Readers -> ReaderRecords]
  <2> DEFINE x == [left |-> reader[r].left - 1, ev |-> e, step |-> "store"]
  <2>1. x \in ReaderRecords
    BY <1>1, <1>2, <1>3 DEF LogTypes, ReaderRecords, ReaderSteps
  <2>2. reader' = [reader EXCEPT ![r] = x]
    BY <1>1
  <2> HIDE DEF x
  <2>3. reader'[r] = x /\ (\A q \in Readers \ {r} : reader'[q] = reader[q])
        /\ reader' \in [Readers -> ReaderRecords]
    BY <1>2, <2>1, <2>2 DEF LogTypes
  <2> QED  BY <2>3 DEF x
<1>5. LogTypes'
  BY <1>1, <1>4 DEF LogTypes, ClientTypes
<1>6. /\ Held(r)' /\ reader'[r].ev = e /\ reader'[r].step = "store"
      /\ \A q \in Readers \ {r} : Held(q)' = Held(q)
      /\ \A j \in Instances : Queued(j)' = Queued(j)
      /\ \A p \in Posts : Posted(p)' = Posted(p)
  BY <1>1, <1>4 DEF Held, Queued, Posted
<1>7. ReaderInv'
  <2>1. \A q \in Readers : Held(q) => reader[q].ev.at <= clock + 1
    BY DEF ReaderInv, LogTypes, Events
  <2> QED  BY <1>1, <1>2, <1>3, <1>4, <1>6, <2>1 DEF ReaderInv, LogTypes
<1>8. FeedInv' /\ PosterInv' /\ OwedInv'
  <2>1. clock \in Nat
    BY DEF LogTypes
  <2>2. FeedInv'
    <3>1. ASSUME NEW j \in Instances PROVE FeedInv!(j)'
      <4>1. \A d \in Queued(j) : d \in Events /\ d.inst = j /\ d.at <= clock
        BY QueuedEvents DEF FeedInv
      <4>2. \A d \in Queued(j) : d.inst = j /\ d.at <= clock + 1
        BY <2>1, <4>1 DEF Events
      <4> QED  BY <1>1, <1>6, <4>2 DEF FeedInv
    <3> QED  BY <3>1 DEF FeedInv
  <2>3. PosterInv'
    BY <1>1, <1>6, <2>1 DEF PosterInv, Events
  <2>4. OwedInv'
    BY <1>1, <2>1 DEF OwedInv, LogTypes, Events
  <2> QED  BY <2>2, <2>3, <2>4
<1>9. HandOrder'
  <2>1. \A q \in Readers \ {r} : Held(q) => reader[q].ev # e
    BY <1>3, NewLine DEF ReaderInv
  <2>2. \A j \in Instances : \A d \in Queued(j) : Before(d, e)
    BY <1>3, QueuedEvents, NewLine DEF FeedInv
  <2>3. \A p \in Posts : Posted(p) => Before(poster[p].ev, e)
    BY <1>3, NewLine DEF PosterInv
  <2>4. \A c \in Clients : \A d \in owed[c] : Before(d, e)
    BY <1>3, NewLine DEF OwedInv, LogTypes
  <2> QED  BY <1>1, <1>4, <1>6, <2>1, <2>2, <2>3, <2>4 DEF HandOrder
<1>10. QueueOrder' /\ PostOrder'
  BY <1>1, <1>6 DEF QueueOrder, PostOrder
<1>11. LiveInv' /\ CountInv'
  BY <1>1, <1>5, SameViews
<1> QED  BY <1>5, <1>7, <1>8, <1>9, <1>10, <1>11

LEMMA StoreInv ==
    ASSUME NEW i \in Instances, NEW s \in Pipes
    PROVE  LogInv /\ Store(i, s) => LogInv'
<1> SUFFICES ASSUME LogInv, Store(i, s) PROVE LogInv'
  OBVIOUS
<1> USE DEF LogInv, OrderInv
<1> DEFINE r == <<i, s>>
<1>1. /\ reader[r].step = "store"
      /\ reader' = [reader EXCEPT ![r].step = "send"]
      /\ UNCHANGED <<clock, feed, poster, broker, client, owed>>
  BY DEF Store
<1>2. r \in Readers
  BY DEF Readers
<1> HIDE DEF r
<1>4. /\ reader' \in [Readers -> ReaderRecords]
      /\ reader'[r].ev = reader[r].ev /\ reader'[r].step = "send"
      /\ \A q \in Readers \ {r} : reader'[q] = reader[q]
  <2>1. reader \in [Readers -> ReaderRecords]
    BY DEF LogTypes
  <2> QED  BY <1>1, <1>2, <2>1 DEF ReaderRecords, ReaderSteps
<1>3. LogTypes'
  BY <1>1, <1>4 DEF LogTypes, ClientTypes
<1>5. /\ \A q \in Readers : Held(q)' = Held(q) /\ reader'[q].ev = reader[q].ev
      /\ \A q \in Readers : (reader'[q].step = "gap") = (reader[q].step = "gap")
      /\ \A j \in Instances : Queued(j)' = Queued(j)
      /\ \A p \in Posts : Posted(p)' = Posted(p)
  BY <1>1, <1>4 DEF Held, Queued, Posted
<1>6. ReaderInv' /\ FeedInv' /\ PosterInv' /\ OwedInv'
  BY <1>1, <1>5 DEF ReaderInv, FeedInv, PosterInv, OwedInv
<1>7. HandOrder' /\ QueueOrder' /\ PostOrder'
  BY <1>1, <1>5 DEF HandOrder, QueueOrder, PostOrder
<1>8. LiveInv' /\ CountInv'
  BY <1>1, <1>3, SameViews
<1> QED  BY <1>3, <1>6, <1>7, <1>8

\* A line leaves the reader's hand for the feed, if that takes it.
Offered(i, s) ==
    /\ Held(<<i, s>>)
    /\ reader' = [reader EXCEPT ![<<i, s>>].ev = Nothing, ![<<i, s>>].step = "read"]
    /\ \/ feed' = feed
       \/ feed' = [feed EXCEPT ![i].buf = Append(@, reader[<<i, s>>].ev)]
    /\ UNCHANGED <<clock, poster, broker, client, owed>>

LEMMA OfferedInv ==
    ASSUME LogInv, NEW i \in Instances, NEW s \in Pipes, Offered(i, s)
    PROVE  LogInv'
<1> USE DEF LogInv, OrderInv
<1> DEFINE r == <<i, s>>
           e == reader[r].ev
           mid == [reader EXCEPT ![r].ev = Nothing]
<1>1. r \in Readers /\ r[1] = i /\ r[2] = s
  BY DEF Readers
<1>0. Held(r) /\ UNCHANGED <<clock, poster, broker, client, owed>>
  BY DEF Offered
<1>2. e \in Events /\ e.at <= clock /\ e.inst = i
  BY <1>0, <1>1 DEF ReaderInv
<1>3. reader' = [mid EXCEPT ![r].step = "read"]
  BY Zenon DEF Offered
<1>4. /\ mid \in [Readers -> ReaderRecords]
      /\ \A q \in Readers \ {r} : mid[q] = reader[q]
  <2>1. reader \in [Readers -> ReaderRecords]
    BY DEF LogTypes
  <2> QED  BY <1>1, <2>1 DEF ReaderRecords
<1> HIDE DEF mid, r
<1>5. /\ reader' \in [Readers -> ReaderRecords]
      /\ reader'[r].step = "read"
      /\ \A q \in Readers \ {r} : reader'[q] = reader[q]
  BY <1>1, <1>3, <1>4 DEF ReaderRecords, ReaderSteps
<1> HIDE DEF e
<1>6. /\ \A q \in Readers \ {r} : Held(q)' = Held(q)
      /\ ~Held(r)'
      /\ \A p \in Posts : Posted(p)' = Posted(p)
  BY <1>0, <1>5 DEF Held, Posted
<1>7. PosterInv' /\ OwedInv' /\ PostOrder'
  BY <1>0, <1>6 DEF PosterInv, OwedInv, PostOrder
<1>8. ReaderInv'
  BY <1>0, <1>5, <1>6 DEF ReaderInv
<1>9. CASE feed' = feed
  <2>1. \A j \in Instances : Queued(j)' = Queued(j)
    BY <1>9 DEF Queued
  <2>2. LogTypes'
    BY <1>0, <1>5, <1>9 DEF LogTypes, ClientTypes
  <2>3. FeedInv' /\ QueueOrder'
    BY <1>0, <1>6, <1>9, <2>1 DEF FeedInv, QueueOrder
  <2>4. HandOrder'
    <3> SUFFICES ASSUME NEW q \in Readers, Held(q)' PROVE HandOrder!(q)!2'
      BY DEF HandOrder
    <3>1. q # r /\ Held(q) /\ reader'[q] = reader[q]
      BY <1>5, <1>6
    <3> QED  BY <1>0, <1>5, <1>6, <2>1, <3>1 DEF HandOrder
  <2> QED  BY <1>0, <1>7, <1>8, <2>2, <2>3, <2>4, SameViews
<1>10. CASE feed' = [feed EXCEPT ![i].buf = Append(@, e)]
  <2> DEFINE b == feed[i].buf
             h == Append(b, e)
  <2>0. b \in Seq(Events)
    BY DEF LogTypes, FeedRecords
  <2>1. \A d \in Queued(i) : Before(d, e)
    BY <1>0, <1>1 DEF HandOrder, e, r
  <2>2. /\ h \in Seq(Events)
        /\ {h[k] : k \in DOMAIN h} = Queued(i) \cup {e}
        /\ \A j, k \in DOMAIN h : j < k => Before(h[j], h[k])
    <3>1. /\ \A j, k \in DOMAIN b : j < k => Before(b[j], b[k])
          /\ \A d \in {b[k] : k \in DOMAIN b} : Before(d, e)
      BY <2>1 DEF FeedInv, Queued
    <3> HIDE DEF b
    <3> QED  BY <1>2, <2>0, <3>1, QueueAppend DEF Queued, b
  <2>3. /\ feed' \in [Instances -> FeedRecords]
        /\ feed'[i].buf = h /\ feed'[i].open = feed[i].open
        /\ \A j \in Instances \ {i} : feed'[j] = feed[j]
    <3> HIDE DEF h
    <3>1. feed' = [feed EXCEPT ![i].buf = h]
      BY <1>10 DEF h
    <3>2. feed \in [Instances -> FeedRecords]
      BY DEF LogTypes
    <3> QED  BY <2>2, <3>1, <3>2 DEF FeedRecords
  <2> HIDE DEF b, h
  <2>4. LogTypes'
    <3>1. ClientTypes'
      BY <1>0 DEF LogTypes, ClientTypes
    <3> QED  BY <1>0, <1>5, <2>3, <3>1 DEF LogTypes
  <2>5. Queued(i)' = Queued(i) \cup {e} /\ \A j \in Instances \ {i} : Queued(j)' = Queued(j)
    <3>1. Queued(i)' = {h[k] : k \in DOMAIN h}
      BY <2>3 DEF Queued
    <3>2. \A j \in Instances \ {i} : Queued(j)' = Queued(j)
      BY <2>3 DEF Queued
    <3> QED  BY <2>2, <3>1, <3>2
  <2>6. FeedInv'
    <3>1. ASSUME NEW j \in Instances PROVE FeedInv!(j)'
      <4>1. CASE j = i
        BY <1>2, <2>2, <2>3, <2>5, <1>0, <4>1 DEF FeedInv
      <4>2. CASE j # i
        BY <2>3, <2>5, <1>0, <4>2 DEF FeedInv
      <4> QED  BY <4>1, <4>2
    <3> QED  BY <3>1 DEF FeedInv
  <2>7. QueueOrder'
    <3>1. /\ \A p \in Posts : Posted(p) => Before(poster[p].ev, e)
          /\ \A c \in Clients : \A d \in owed[c] : Before(d, e)
      BY <1>0, <1>1 DEF HandOrder, e, r
    <3> QED  BY <1>0, <1>6, <2>5, <3>1 DEF QueueOrder
  <2>8. \A q \in Readers \ {r} : Held(q) => Before(e, reader[q].ev)
    <3> SUFFICES ASSUME NEW q \in Readers \ {r}, Held(q) PROVE Before(e, reader[q].ev)
      OBVIOUS
    <3>1. e # reader[q].ev
      BY <1>0, <1>1 DEF HandOrder, e, r
    <3>2. e.inst = reader[q].ev.inst /\ e.stream = reader[q].ev.stream => e.stream = "system"
      <4>1. q[1] # i \/ q[2] # s
        BY DEF Readers, r
      <4>2. e.stream = s \/ e.stream = "system"
        BY <1>0, <1>1 DEF ReaderInv, e, r
      <4>3. reader[q].ev.stream = q[2] \/ reader[q].ev.stream = "system"
        BY DEF ReaderInv
      <4> QED  BY <1>2, <4>1, <4>2, <4>3 DEF ReaderInv
    <3> QED  BY <3>1, <3>2 DEF Before
  <2>9. HandOrder'
    <3> SUFFICES ASSUME NEW q \in Readers, Held(q)' PROVE HandOrder!(q)!2'
      BY DEF HandOrder
    <3>1. q # r /\ Held(q) /\ reader'[q] = reader[q]
      BY <1>5, <1>6
    <3>2. \A j \in Instances : \A d \in Queued(j)' : Before(d, reader[q].ev)
      BY <2>5, <2>8, <3>1 DEF HandOrder
    <3> QED  BY <1>0, <1>5, <1>6, <3>1, <3>2 DEF HandOrder
  <2> QED  BY <1>0, <1>7, <1>8, <2>4, <2>6, <2>7, <2>9, SameViews
<1>11. feed' = feed \/ feed' = [feed EXCEPT ![i].buf = Append(@, e)]
  BY DEF Offered, e, r
<1> QED  BY <1>9, <1>10, <1>11

LEMMA SendInv ==
    ASSUME NEW i \in Instances, NEW s \in Pipes
    PROVE  LogInv /\ Send(i, s) => LogInv'
<1> SUFFICES ASSUME LogInv, Send(i, s) PROVE LogInv'
  OBVIOUS
<1> DEFINE r == <<i, s>>
           gap == [inst |-> i, stream |-> "system", at |-> clock + 1]
<1>0. r \in Readers /\ r[1] = i /\ r[2] = s
  BY DEF Readers
<1>1. CASE ~(feed[i].open /\ ~Fits(i))
  <2>1. Offered(i, s)
    BY <1>1 DEF Send, Offered, Held
  <2> QED  BY <2>1, OfferedInv
<1>2. CASE feed[i].open /\ ~Fits(i)
  <2> USE DEF LogInv, OrderInv
  <2>1. /\ reader[r].step = "send"
        /\ clock' = clock + 1
        /\ reader' = [reader EXCEPT ![r].ev = gap, ![r].step = "gap"]
        /\ UNCHANGED <<feed, poster, broker, client, owed>>
    BY <1>2 DEF Send
  <2>2. gap \in Events /\ gap.inst = i /\ gap.stream = "system" /\ gap.at = clock + 1
    BY DEF Events, LogTypes
  <2> HIDE DEF r, gap
  <2> DEFINE mid == [reader EXCEPT ![r].ev = gap]
  <2>3. reader' = [mid EXCEPT ![r].step = "gap"]
    BY <2>1, Zenon
  <2>4. mid \in [Readers -> ReaderRecords] /\ mid[r].ev = gap /\ \A q \in Readers \ {r} : mid[q] = reader[q]
    <3>1. reader \in [Readers -> ReaderRecords]
      BY DEF LogTypes
    <3> QED  BY <1>0, <2>2, <3>1 DEF ReaderRecords
  <2> HIDE DEF mid
  <2>5. /\ reader' \in [Readers -> ReaderRecords]
        /\ reader'[r].step = "gap" /\ reader'[r].ev = gap
        /\ \A q \in Readers \ {r} : reader'[q] = reader[q]
    BY <1>0, <2>3, <2>4 DEF ReaderRecords, ReaderSteps
  <2>6. LogTypes'
    <3>1. ClientTypes'
      BY <2>1 DEF LogTypes, ClientTypes
    <3> QED  BY <2>1, <2>5, <3>1 DEF LogTypes
  <2>7. /\ Held(r) /\ Held(r)'
        /\ \A q \in Readers \ {r} : Held(q)' = Held(q)
        /\ \A j \in Instances : Queued(j)' = Queued(j)
        /\ \A p \in Posts : Posted(p)' = Posted(p)
    BY <2>1, <2>5 DEF Held, Queued, Posted
  <2>8. ReaderInv'
    <3>1. \A q \in Readers : Held(q) => reader[q].ev.at <= clock + 1
      BY DEF ReaderInv, LogTypes, Events
    <3> QED  BY <1>0, <2>1, <2>2, <2>5, <2>7, <3>1 DEF ReaderInv, LogTypes
  <2>9. FeedInv' /\ PosterInv' /\ OwedInv'
    <3>0. clock \in Nat
      BY DEF LogTypes
    <3>1. ASSUME NEW j \in Instances PROVE FeedInv!(j)'
      <4>1. \A d \in Queued(j) : d \in Events /\ d.inst = j /\ d.at <= clock
        BY QueuedEvents DEF FeedInv
      <4>2. \A d \in Queued(j) : d.inst = j /\ d.at <= clock + 1
        BY <3>0, <4>1 DEF Events
      <4> QED  BY <2>1, <2>7, <4>2 DEF FeedInv
    <3>2. PosterInv'
      BY <2>1, <2>7, <3>0 DEF PosterInv, Events
    <3>3. OwedInv'
      BY <2>1, <3>0 DEF OwedInv, LogTypes, Events
    <3> QED  BY <3>1, <3>2, <3>3 DEF FeedInv
  <2>10. HandOrder'
    <3>1. \A q \in Readers \ {r} : Held(q) => reader[q].ev # gap
      BY <2>2, NewLine DEF ReaderInv
    <3>2. \A j \in Instances : \A d \in Queued(j) : Before(d, gap)
      BY <2>2, QueuedEvents, NewLine DEF FeedInv
    <3>3. \A p \in Posts : Posted(p) => Before(poster[p].ev, gap)
      BY <2>2, NewLine DEF PosterInv
    <3>4. \A c \in Clients : \A d \in owed[c] : Before(d, gap)
      BY <2>2, NewLine DEF OwedInv, LogTypes
    <3> QED  BY <2>1, <2>5, <2>7, <3>1, <3>2, <3>3, <3>4 DEF HandOrder
  <2>11. QueueOrder' /\ PostOrder'
    BY <2>1, <2>7 DEF QueueOrder, PostOrder
  <2>12. LiveInv' /\ CountInv'
    BY <2>1, <2>6, SameViews
  <2> QED  BY <2>6, <2>8, <2>9, <2>10, <2>11, <2>12
<1> QED  BY <1>1, <1>2

LEMMA SendGapInv ==
    ASSUME NEW i \in Instances, NEW s \in Pipes
    PROVE  LogInv /\ SendGap(i, s) => LogInv'
<1> SUFFICES ASSUME LogInv, SendGap(i, s) PROVE LogInv'
  OBVIOUS
<1>1. Offered(i, s)
  BY DEF SendGap, Offered, Held
<1> QED  BY <1>1, OfferedInv

LEMMA EndsInv ==
    ASSUME NEW i \in Instances
    PROVE  LogInv /\ Ends(i) => LogInv'
<1> SUFFICES ASSUME LogInv, Ends(i) PROVE LogInv'
  OBVIOUS
<1> USE DEF LogInv, OrderInv
<1> DEFINE x == <<i, "exit">>
<1>1. /\ feed[i].open
      /\ feed' = [feed EXCEPT ![i].open = FALSE]
      /\ reader' = [r \in DOMAIN reader |-> IF r[1] = i THEN [reader[r] EXCEPT !.left = 0] ELSE reader[r]]
      /\ poster' = [poster EXCEPT ![x].step = "idle"]
      /\ UNCHANGED <<clock, store, broker, client, owed>>
  BY DEF Ends
<1>2. x \in Posts /\ poster[x].step = "running"
  BY <1>1 DEF FeedInv, Posts, Posters
<1>3. reader \in [Readers -> ReaderRecords] /\ feed \in [Instances -> FeedRecords]
      /\ poster \in [Posts -> PosterRecords]
  BY DEF LogTypes
<1> HIDE DEF x
<1>4. /\ reader' \in [Readers -> ReaderRecords]
      /\ \A r \in Readers : reader'[r].ev = reader[r].ev /\ reader'[r].step = reader[r].step
  <2>1. \A r \in Readers : reader[r] \in ReaderRecords
    BY <1>3
  <2>2. \A r \in Readers : /\ [reader[r] EXCEPT !.left = 0] \in ReaderRecords
                           /\ [reader[r] EXCEPT !.left = 0].ev = reader[r].ev
                           /\ [reader[r] EXCEPT !.left = 0].step = reader[r].step
    BY <2>1 DEF ReaderRecords
  <2>3. DOMAIN reader = Readers
    BY <1>3
  <2>4. reader' = [r \in Readers |-> IF r[1] = i THEN [reader[r] EXCEPT !.left = 0] ELSE reader[r]]
    BY <1>1, <2>3
  <2> QED  BY <2>1, <2>2, <2>4
<1>5. /\ feed' \in [Instances -> FeedRecords]
      /\ \A j \in Instances : feed'[j].buf = feed[j].buf /\ (feed'[j].open => feed[j].open /\ j # i)
  <2> DEFINE no == FALSE
  <2>1. feed' = [feed EXCEPT ![i].open = no] /\ no \in BOOLEAN /\ ~no
    BY <1>1
  <2> HIDE DEF no
  <2> QED  BY <1>3, <2>1 DEF FeedRecords
<1>6. /\ poster' \in [Posts -> PosterRecords]
      /\ poster'[x].step = "idle" /\ poster'[x].ev = poster[x].ev
      /\ poster'[x].todo = poster[x].todo /\ poster'[x].dropped = poster[x].dropped
      /\ \A p \in Posts \ {x} : poster'[p] = poster[p]
  BY <1>1, <1>2, <1>3 DEF PosterRecords, PosterSteps
<1>7. LogTypes'
  <2>1. ClientTypes'
    BY <1>1 DEF LogTypes, ClientTypes
  <2> QED  BY <1>1, <1>4, <1>5, <1>6, <2>1 DEF LogTypes
<1>8. /\ \A r \in Readers : Held(r)' = Held(r)
      /\ \A j \in Instances : Queued(j)' = Queued(j)
      /\ \A p \in Posts : Posted(p)' = Posted(p) /\ poster'[p].ev = poster[p].ev
                          /\ poster'[p].todo = poster[p].todo
                          /\ poster'[p].dropped = poster[p].dropped
                          /\ (poster'[p].step = "sending") = (poster[p].step = "sending")
  BY <1>2, <1>4, <1>5, <1>6 DEF Held, Queued, Posted
<1>9. ReaderInv' /\ PosterInv' /\ OwedInv'
  BY <1>1, <1>4, <1>8 DEF ReaderInv, PosterInv, OwedInv
<1>10. FeedInv'
  <2>1. ASSUME NEW j \in Instances, j # i PROVE poster'[<<j, "exit">>] = poster[<<j, "exit">>]
    <3>1. <<j, "exit">> \in Posts /\ <<j, "exit">> # x
      BY <2>1 DEF Posts, Posters, x
    <3> QED  BY <1>6, <3>1
  <2>2. ASSUME NEW j \in Instances PROVE FeedInv!(j)'
    <3>1. feed'[j].open => feed[j].open /\ poster'[<<j, "exit">>] = poster[<<j, "exit">>]
      BY <1>5, <2>1
    <3>2. feed'[j].open => poster'[<<j, "exit">>].step = "running"
      BY <3>1 DEF FeedInv
    <3>3. clock' = clock
      BY <1>1
    <3>4. feed'[j].buf = feed[j].buf /\ Queued(j)' = Queued(j)
      BY <1>5, <1>8
    <3>5. \A e \in Queued(j)' : e.inst = j /\ e.at <= clock'
      BY <3>3, <3>4 DEF FeedInv
    <3>6. \A k, m \in DOMAIN feed'[j].buf : k < m => Before(feed'[j].buf[k], feed'[j].buf[m])
      BY <3>4 DEF FeedInv
    <3> QED  BY <3>2, <3>5, <3>6
  <2> QED  BY <2>2 DEF FeedInv
<1>11. HandOrder' /\ QueueOrder' /\ PostOrder'
  BY <1>1, <1>4, <1>8 DEF HandOrder, QueueOrder, PostOrder
<1>12. LiveInv' /\ CountInv'
  BY <1>1, <1>7, <1>8, SameViews
<1> QED  BY <1>7, <1>9, <1>10, <1>11, <1>12

\* An event the broker has just numbered: nobody was promised it yet.
NumberedAs(p, e) ==
    /\ ~Posted(p)
    /\ poster' \in [Posts -> PosterRecords]
    /\ poster'[p].step = "numbered" /\ poster'[p].ev = e
    /\ poster'[p].todo = poster[p].todo /\ poster'[p].dropped = poster[p].dropped
    /\ \A q \in Posts \ {p} : poster'[q] = poster[q]
    /\ broker' \in BrokerRecords /\ broker'.dropped = broker.dropped
    /\ client' = client /\ owed' = owed

LEMMA NumberIs ==
    ASSUME LogTypes, NEW p \in Posts, NEW e \in Events, Number(p, e)
    PROVE  /\ poster' \in [Posts -> PosterRecords]
           /\ poster'[p].step = "numbered" /\ poster'[p].ev = e
           /\ poster'[p].todo = poster[p].todo /\ poster'[p].dropped = poster[p].dropped
           /\ \A q \in Posts \ {p} : poster'[q] = poster[q]
           /\ broker' \in BrokerRecords /\ broker'.dropped = broker.dropped
<1> DEFINE mid == [poster EXCEPT ![p].step = "numbered"]
<1>1. poster \in [Posts -> PosterRecords] /\ broker \in BrokerRecords
  BY DEF LogTypes
<1>2. broker' = [broker EXCEPT !.seq = @ + 1] /\ poster' = [mid EXCEPT ![p].ev = e]
  BY Zenon DEF Number
<1>3. /\ mid \in [Posts -> PosterRecords]
      /\ mid[p].step = "numbered" /\ mid[p].ev = poster[p].ev
      /\ mid[p].todo = poster[p].todo /\ mid[p].dropped = poster[p].dropped
      /\ \A q \in Posts \ {p} : mid[q] = poster[q]
  BY <1>1 DEF PosterRecords, PosterSteps
<1> HIDE DEF mid
<1>4. /\ poster' \in [Posts -> PosterRecords]
      /\ poster'[p].step = "numbered" /\ poster'[p].ev = e
      /\ poster'[p].todo = poster[p].todo /\ poster'[p].dropped = poster[p].dropped
      /\ \A q \in Posts \ {p} : poster'[q] = poster[q]
  BY <1>2, <1>3 DEF PosterRecords
<1>5. broker' \in BrokerRecords /\ broker'.dropped = broker.dropped
  BY <1>1, <1>2 DEF BrokerRecords
<1> QED  BY <1>4, <1>5

\* Nobody misses what nobody was promised.
LEMMA NobodyMisses ==
    ASSUME LogTypes, NEW p \in Posts, \A c \in Clients : poster[p].ev \notin owed[c]
    PROVE  Missing(p) = {} /\ Cardinality(Missing(p)) = 0
BY FS_EmptySet DEF Missing, Unseen

LEMMA NothingOwed == LogTypes => \A c \in Clients : Nothing \notin owed[c]
BY LogAssumption DEF LogTypes

LEMMA NumberedViews ==
    ASSUME LogTypes, LogTypes', PosterInv, LiveInv, CountInv, NEW p \in Posts, NEW e \in Events,
           \A c \in Clients : e \notin owed[c], NumberedAs(p, e)
    PROVE  LiveInv' /\ CountInv'
<1>1. /\ poster[p].ev = Nothing /\ poster[p].todo = {} /\ poster[p].dropped = 0
      /\ poster'[p].todo = {} /\ poster'[p].dropped = 0 /\ poster'[p].ev = e
      /\ \A q \in Posts \ {p} : poster'[q] = poster[q]
  BY DEF NumberedAs, PosterInv, Posted
<1>2. DOMAIN poster = Posts /\ DOMAIN poster' = Posts
  BY DEF LogTypes
<1>3. \A c \in Clients : Live(c)' = Live(c) /\ owed'[c] = owed[c]
  BY DEF NumberedAs, Live
<1>4. \A c \in Clients : OnTheWay(c)' = OnTheWay(c)
  BY <1>1, <1>2 DEF OnTheWay
<1>5. \A c \in Clients : Unseen(c)' = Unseen(c)
  BY <1>3, <1>4 DEF Unseen
<1>6. \A c \in Clients : Nothing \notin Unseen(c) /\ e \notin Unseen(c)
  BY NothingOwed DEF Unseen
<1>7. Settled' = Settled
  <2>1. Lost' = Lost
    BY <1>5 DEF Lost
  <2>2. \A x \in Lost : x[2] # e /\ x[2] # Nothing
    BY <1>6 DEF Lost
  <2>3. \A x \in Lost : (\A q \in Posts : x[2] # poster'[q].ev) <=> (\A q \in Posts : x[2] # poster[q].ev)
    BY <1>1, <2>2
  <2> QED  BY <1>2, <2>1, <2>3 DEF Settled
<1>8. CountInv'
  <2>1. \A q \in Posts \ {p} : Missing(q)' = Missing(q)
    BY <1>1, <1>5 DEF Missing
  <2>2. Missing(p)' = {}
    BY <1>1, <1>5, <1>6 DEF Missing
  <2>3. broker'.dropped = broker.dropped
    BY DEF NumberedAs
  <2> QED  BY <1>1, <1>7, <2>1, <2>2, <2>3, FS_EmptySet DEF CountInv
<1>9. LiveInv'
  BY <1>1, <1>3 DEF LiveInv, Wants
<1> QED  BY <1>8, <1>9

LEMMA ForwardInv ==
    ASSUME NEW i \in Instances
    PROVE  LogInv /\ Forward(i) => LogInv'
<1> SUFFICES ASSUME LogInv, Forward(i) PROVE LogInv'
  OBVIOUS
<1> USE DEF LogInv, OrderInv
<1> DEFINE p == <<i, "forward">>
           b == feed[i].buf
           e == Head(b)
           t == Tail(b)
<1>1. /\ poster[p].step = "idle" /\ b # <<>>
      /\ Number(p, e)
      /\ feed' = [feed EXCEPT ![i].buf = t]
      /\ UNCHANGED <<clock, reader, store, client, owed>>
  BY DEF Forward
<1>2. p \in Posts /\ p[1] = i /\ p[2] # "exit"
  BY DEF Posts, Posters
<1>3. feed \in [Instances -> FeedRecords] /\ b \in Seq(Events)
  BY DEF LogTypes, FeedRecords
<1>4. /\ t \in Seq(Events)
      /\ e \in Queued(i)
      /\ {t[k] : k \in DOMAIN t} \subseteq Queued(i)
      /\ \A d \in {t[k] : k \in DOMAIN t} : Before(e, d)
      /\ \A j, k \in DOMAIN t : j < k => Before(t[j], t[k])
  <2>1. \A j, k \in DOMAIN b : j < k => Before(b[j], b[k])
    BY DEF FeedInv
  <2> HIDE DEF b
  <2> QED  BY <1>1, <1>3, <2>1, QueueTail DEF Queued, b
<1>5. e \in Events /\ e.inst = i /\ e.at <= clock
  BY <1>4, QueuedEvents DEF FeedInv
<1> HIDE DEF p, b, e, t
<1>6. /\ feed' \in [Instances -> FeedRecords]
      /\ feed'[i].buf = t /\ feed'[i].open = feed[i].open
      /\ \A j \in Instances \ {i} : feed'[j] = feed[j]
  BY <1>1, <1>3, <1>4 DEF FeedRecords
<1>7. ~Posted(p) /\ NumberedAs(p, e)
  BY <1>1, <1>2, <1>5, NumberIs DEF NumberedAs, Posted
<1>8. /\ poster' \in [Posts -> PosterRecords] /\ broker' \in BrokerRecords
      /\ poster'[p].step = "numbered" /\ poster'[p].ev = e
      /\ poster'[p].todo = {} /\ poster'[p].dropped = 0
      /\ \A q \in Posts \ {p} : poster'[q] = poster[q]
  BY <1>2, <1>7 DEF NumberedAs, PosterInv, Posted
<1>9. LogTypes'
  <2>1. ClientTypes'
    BY <1>1 DEF LogTypes, ClientTypes
  <2> QED  BY <1>1, <1>6, <1>8, <2>1 DEF LogTypes
<1>10. /\ \A r \in Readers : Held(r)' = Held(r) /\ reader'[r] = reader[r]
       /\ Posted(p)' /\ \A q \in Posts \ {p} : Posted(q)' = Posted(q)
       /\ \A j \in Instances \ {i} : Queued(j)' = Queued(j)
       /\ Queued(i)' = {t[k] : k \in DOMAIN t}
  BY <1>1, <1>6, <1>8 DEF Held, Posted, Queued
<1>11. \A j \in Instances : Queued(j)' \subseteq Queued(j)
  BY <1>4, <1>10
<1>12. ReaderInv' /\ PosterInv' /\ OwedInv'
  BY <1>1, <1>2, <1>5, <1>8, <1>10 DEF ReaderInv, PosterInv, OwedInv
<1>13. FeedInv'
  <2>1. ASSUME NEW j \in Instances PROVE FeedInv!(j)'
    <3>1. feed'[j].open => poster'[<<j, "exit">>].step = "running"
      <4>1. <<j, "exit">> \in Posts \ {p}
        BY DEF Posts, Posters, p
      <4> QED  BY <1>6, <1>8, <4>1 DEF FeedInv
    <3>2. \A d \in Queued(j)' : d.inst = j /\ d.at <= clock'
      BY <1>1, <1>11 DEF FeedInv
    <3>3. \A k, m \in DOMAIN feed'[j].buf : k < m => Before(feed'[j].buf[k], feed'[j].buf[m])
      BY ZenonT(40), <1>4, <1>6 DEF FeedInv
    <3> QED  BY <3>1, <3>2, <3>3
  <2> QED  BY <2>1 DEF FeedInv
<1>14. HandOrder'
  <2>1. \A r \in Readers : Held(r) => Before(e, reader[r].ev)
    BY <1>4 DEF HandOrder
  <2> QED  BY <1>1, <1>8, <1>10, <1>11, <2>1 DEF HandOrder
<1>15. \A j \in Instances : \A d \in Queued(j)' : Before(e, d)
  <2> SUFFICES ASSUME NEW j \in Instances, j # i, NEW d \in Queued(j) PROVE Before(e, d)
    BY <1>4, <1>10
  <2>1. d.inst # e.inst
    BY <1>5 DEF FeedInv
  <2> QED  BY <2>1 DEF Before
<1>16. QueueOrder'
  BY <1>1, <1>8, <1>10, <1>11, <1>15 DEF QueueOrder
<1>17. /\ \A q \in Posts : Posted(q) => Before(poster[q].ev, e)
       /\ \A c \in Clients : \A d \in owed[c] : Before(d, e)
  BY <1>4 DEF QueueOrder
<1>18. PostOrder'
  <2>1. \A q \in Posts \ {p} : Posted(q) => poster[q].ev # e
    BY <1>17 DEF Before
  <2> QED  BY <1>1, <1>8, <1>10, <1>17, <2>1 DEF PostOrder
<1>19. LiveInv' /\ CountInv'
  <2>1. \A c \in Clients : e \notin owed[c]
    BY <1>17 DEF Before
  <2> QED  BY <1>2, <1>5, <1>7, <1>9, <2>1, NumberedViews
<1> QED  BY <1>9, <1>12, <1>13, <1>14, <1>16, <1>18, <1>19

LEMMA AnnounceInv ==
    ASSUME NEW i \in Instances
    PROVE  LogInv /\ Announce(i) => LogInv'
<1> SUFFICES ASSUME LogInv, Announce(i) PROVE LogInv'
  OBVIOUS
<1> USE DEF LogInv, OrderInv
<1> DEFINE p == <<i, "exit">>
           e == [inst |-> i, stream |-> "system", at |-> clock + 1]
<1>1. /\ poster[p].step = "idle"
      /\ Number(p, e)
      /\ clock' = clock + 1
      /\ UNCHANGED <<reader, store, feed, client, owed>>
  BY DEF Announce
<1>2. p \in Posts /\ p[1] = i
  BY DEF Posts, Posters
<1>3. e \in Events /\ e.inst = i /\ e.stream = "system" /\ e.at = clock + 1 /\ clock \in Nat
  BY DEF Events, LogTypes
<1> HIDE DEF e
<1>4. ~Posted(p) /\ NumberedAs(p, e)
  BY <1>1, <1>2, <1>3, NumberIs DEF NumberedAs, Posted
<1>5. /\ poster' \in [Posts -> PosterRecords] /\ broker' \in BrokerRecords
      /\ poster'[p].step = "numbered" /\ poster'[p].ev = e
      /\ poster'[p].todo = {} /\ poster'[p].dropped = 0
      /\ \A q \in Posts \ {p} : poster'[q] = poster[q]
  BY <1>2, <1>4 DEF NumberedAs, PosterInv, Posted
<1>6. LogTypes'
  <2>1. ClientTypes'
    BY <1>1 DEF LogTypes, ClientTypes
  <2> QED  BY <1>1, <1>3, <1>5, <2>1 DEF LogTypes
<1>7. /\ \A r \in Readers : Held(r)' = Held(r) /\ reader'[r] = reader[r]
      /\ Posted(p)' /\ \A q \in Posts \ {p} : Posted(q)' = Posted(q)
      /\ \A j \in Instances : Queued(j)' = Queued(j)
  BY <1>1, <1>5 DEF Held, Posted, Queued
<1>8. /\ \A r \in Readers : Held(r) => Before(reader[r].ev, e) /\ reader[r].ev.at <= clock + 1
      /\ \A j \in Instances : \A d \in Queued(j) : Before(d, e) /\ d.at <= clock + 1
      /\ \A q \in Posts : Posted(q) => Before(poster[q].ev, e) /\ poster[q].ev.at <= clock + 1
      /\ \A c \in Clients : \A d \in owed[c] : Before(d, e) /\ d.at <= clock + 1
  <2>0. \A d \in Events : d.at <= clock => d.at <= clock + 1
    BY <1>3 DEF Events
  <2>1. \A r \in Readers : Held(r) => Before(reader[r].ev, e) /\ reader[r].ev.at <= clock + 1
    BY <1>3, <2>0, NewLine DEF ReaderInv
  <2>2. \A j \in Instances : \A d \in Queued(j) : Before(d, e) /\ d.at <= clock + 1
    BY <1>3, <2>0, NewLine, QueuedEvents DEF FeedInv
  <2>3. \A q \in Posts : Posted(q) => Before(poster[q].ev, e) /\ poster[q].ev.at <= clock + 1
    BY <1>3, <2>0, NewLine DEF PosterInv
  <2>4. \A c \in Clients : \A d \in owed[c] : Before(d, e) /\ d.at <= clock + 1
    BY <1>3, <2>0, NewLine DEF OwedInv, LogTypes
  <2> QED  BY <2>1, <2>2, <2>3, <2>4
\* A system line is before any other one that is not itself.
<1>9. \A d : d # e => Before(e, d)
  BY <1>3 DEF Before
<1>10. ReaderInv' /\ OwedInv'
  BY <1>1, <1>7, <1>8 DEF ReaderInv, OwedInv
<1>11. PosterInv'
  BY <1>1, <1>2, <1>3, <1>5, <1>7, <1>8 DEF PosterInv
<1>12. FeedInv'
  <2>1. ASSUME NEW j \in Instances PROVE FeedInv!(j)'
    <3>1. feed'[j].open => poster'[<<j, "exit">>].step = "running"
      <4>1. CASE j # i
        <5>1. <<j, "exit">> \in Posts \ {p}
          BY <4>1 DEF Posts, Posters
        <5> QED  BY <1>1, <1>5, <5>1 DEF FeedInv
      <4>2. CASE j = i
        BY <1>1, <4>2 DEF FeedInv
      <4> QED  BY <4>1, <4>2
    <3> QED  BY <1>1, <1>7, <1>8, <3>1 DEF FeedInv
  <2> QED  BY <2>1 DEF FeedInv
<1> HIDE DEF p
<1>13. HandOrder'
  <2>1. \A r \in Readers : Held(r) => Before(e, reader[r].ev)
    BY <1>8, <1>9 DEF Before
  <2> QED  BY <1>1, <1>5, <1>7, <2>1 DEF HandOrder
<1>14. QueueOrder'
  <2>1. \A j \in Instances : \A d \in Queued(j) : Before(e, d)
    BY <1>8, <1>9 DEF Before
  <2> QED  BY <1>1, <1>5, <1>7, <2>1 DEF QueueOrder
<1>15. PostOrder'
  <2>1. \A q \in Posts \ {p} : Posted(q) => poster[q].ev # e
    BY <1>8 DEF Before
  <2> QED  BY <1>1, <1>5, <1>7, <1>8, <2>1 DEF PostOrder
<1>16. LiveInv' /\ CountInv'
  <2>1. \A c \in Clients : e \notin owed[c]
    BY <1>8 DEF Before
  <2> QED  BY <1>2, <1>3, <1>4, <1>6, <2>1, NumberedViews
<1> QED  BY <1>6, <1>10, <1>11, <1>12, <1>13, <1>14, <1>15, <1>16

LEMMA SnapshotInv ==
    ASSUME NEW p \in Posts
    PROVE  LogInv /\ Snapshot(p) => LogInv'
<1> SUFFICES ASSUME LogInv, Snapshot(p) PROVE LogInv'
  OBVIOUS
<1> USE DEF LogInv, OrderInv
<1> DEFINE e == poster[p].ev
           M == broker.members
           mid == [poster EXCEPT ![p].step = "sending"]
<1>1. /\ poster[p].step = "numbered"
      /\ poster' = [mid EXCEPT ![p].todo = M]
      /\ owed' = [c \in Clients |-> IF c \in M /\ Wants(c, e) THEN owed[c] \cup {e} ELSE owed[c]]
      /\ UNCHANGED <<clock, reader, store, feed, broker, client>>
  BY Zenon DEF Snapshot
<1>2. /\ poster \in [Posts -> PosterRecords] /\ broker \in BrokerRecords
      /\ owed \in [Clients -> SUBSET Events]
  BY DEF LogTypes
<1>3. M \in SUBSET Clients
  BY <1>2 DEF BrokerRecords
<1>4. /\ mid \in [Posts -> PosterRecords]
      /\ mid[p].step = "sending" /\ mid[p].ev = poster[p].ev
      /\ mid[p].dropped = poster[p].dropped
      /\ \A q \in Posts \ {p} : mid[q] = poster[q]
  BY <1>2 DEF PosterRecords, PosterSteps
<1>5. Posted(p) /\ e \in Events /\ e.at <= clock /\ poster[p].todo = {} /\ poster[p].dropped = 0
  BY <1>1 DEF Posted, PosterInv
<1> HIDE DEF mid, M
<1>6. /\ poster' \in [Posts -> PosterRecords]
      /\ poster'[p].step = "sending" /\ poster'[p].ev = e
      /\ poster'[p].todo = M /\ poster'[p].dropped = 0
      /\ \A q \in Posts \ {p} : poster'[q] = poster[q]
  BY <1>1, <1>3, <1>4, <1>5 DEF PosterRecords
<1> HIDE DEF e
<1>7. \A c \in Clients : owed'[c] = IF c \in M /\ Wants(c, e) THEN owed[c] \cup {e} ELSE owed[c]
  BY <1>1
<1>8. LogTypes'
  <2>1. ClientTypes'
    BY <1>1 DEF LogTypes, ClientTypes
  <2>2. owed' \in [Clients -> SUBSET Events]
    BY <1>1, <1>2, <1>5
  <2> QED  BY <1>1, <1>6, <2>1, <2>2 DEF LogTypes
<1>9. /\ \A r \in Readers : Held(r)' = Held(r) /\ reader'[r] = reader[r]
      /\ \A q \in Posts : Posted(q)' = Posted(q) /\ poster'[q].ev = poster[q].ev
      /\ \A j \in Instances : Queued(j)' = Queued(j)
  BY <1>1, <1>6 DEF Held, Posted, Queued, e
<1>10. ReaderInv' /\ PosterInv'
  BY <1>1, <1>6, <1>9 DEF ReaderInv, PosterInv
<1>11. OwedInv'
  BY <1>1, <1>5, <1>7 DEF OwedInv
<1>12. FeedInv'
  <2>1. ASSUME NEW j \in Instances PROVE FeedInv!(j)'
    <3>1. feed'[j].open => poster'[<<j, "exit">>].step = "running"
      <4>1. <<j, "exit">> \in Posts
        BY DEF Posts, Posters
      <4> QED  BY <1>1, <1>6, <4>1 DEF FeedInv
    <3> QED  BY <1>1, <1>9, <3>1 DEF FeedInv
  <2> QED  BY <2>1 DEF FeedInv
<1>13. HandOrder'
  <2>1. \A r \in Readers : Held(r) => Before(e, reader[r].ev)
    BY <1>5 DEF HandOrder, e
  <2> QED  BY <1>1, <1>7, <1>9, <2>1 DEF HandOrder
<1>14. QueueOrder'
  <2>1. \A j \in Instances : \A d \in Queued(j) : Before(e, d)
    BY <1>5 DEF QueueOrder, e
  <2> QED  BY <1>1, <1>7, <1>9, <2>1 DEF QueueOrder
<1>15. PostOrder'
  <2> SUFFICES ASSUME NEW q \in Posts, Posted(q)'
               PROVE  /\ \A o \in Posts \ {q} : Posted(o)' => poster'[o].ev # poster'[q].ev
                      /\ \A c \in Clients : \A d \in owed'[c] :
                            \/ Before(d, poster'[q].ev)
                            \/ d = poster'[q].ev /\ poster'[q].step = "sending"
    BY DEF PostOrder
  <2>1. \A o \in Posts \ {q} : Posted(o)' => poster'[o].ev # poster'[q].ev
    BY <1>9 DEF PostOrder
  <2>2. ASSUME q = p, NEW c \in Clients, NEW d \in owed'[c]
        PROVE  \/ Before(d, poster'[q].ev)
               \/ d = poster'[q].ev /\ poster'[q].step = "sending"
    <3>1. d \in owed[c] \/ d = e
      BY <1>7
    <3>2. d \in owed[c] => Before(d, e) \/ d = e
      BY <1>5 DEF PostOrder, e
    <3> QED  BY <1>6, <2>2, <3>1, <3>2
  <2>3. ASSUME q # p, NEW c \in Clients, NEW d \in owed'[c]
        PROVE  \/ Before(d, poster'[q].ev)
               \/ d = poster'[q].ev /\ poster'[q].step = "sending"
    <3>1. poster'[q] = poster[q] /\ Posted(q)
      BY <1>6, <1>9, <2>3
    <3>2. CASE d \in owed[c]
      BY <3>1, <3>2 DEF PostOrder
    <3>3. CASE d = e
\* Another Publish at the same time: of another run, or of another kind.
      <4>1. e # poster[q].ev
        BY <1>5, <2>3, <3>1 DEF PostOrder, e
      <4>2. e.inst = poster[q].ev.inst /\ e.stream = poster[q].ev.stream
               => e.stream = "system"
        <5>1. p[1] # q[1] \/ p[2] = "exit" \/ q[2] = "exit"
          BY <2>3 DEF Posts, Posters
        <5> QED  BY <1>5, <2>3, <3>1, <5>1 DEF PosterInv, e
      <4> QED  BY <3>1, <3>3, <4>1, <4>2 DEF Before
    <3> QED  BY <1>7, <2>3, <3>2, <3>3
  <2> QED  BY <2>1, <2>2, <2>3
<1>16. DOMAIN poster = Posts /\ DOMAIN poster' = Posts
  BY <1>8 DEF LogTypes
<1>17. \A c \in Clients : e \notin owed[c]
  BY <1>1, <1>5 DEF PostOrder, Before, e
<1>18. \A c \in Clients : Live(c)' = Live(c)
  BY <1>1 DEF Live
<1>19. ASSUME NEW c \in Clients
       PROVE  OnTheWay(c)' = IF c \in M THEN OnTheWay(c) \cup {e} ELSE OnTheWay(c)
  BY <1>2, <1>5, <1>6, <1>16 DEF OnTheWay
<1>20. \A c \in Clients : Unseen(c)' = Unseen(c)
  <2> SUFFICES ASSUME NEW c \in Clients PROVE Unseen(c)' = Unseen(c)
    OBVIOUS
  <2>1. e \notin owed[c]
    BY <1>17
  <2>2. CASE c \in M
    BY <1>7, <1>18, <1>19, <2>1, <2>2 DEF Unseen
  <2>3. CASE c \notin M
    BY <1>7, <1>18, <1>19, <2>3 DEF Unseen
  <2> QED  BY <2>2, <2>3
<1>21. CountInv'
  BY <1>1, <1>5, <1>6, <1>9, <1>20, SameCounts, <1>8
<1>22. LiveInv'
  <2> SUFFICES ASSUME NEW c \in Clients
               PROVE  /\ Range(Live(c)) \subseteq owed'[c]
                      /\ \A q \in Posts : c \in poster'[q].todo =>
                            /\ poster'[q].ev \notin Range(Live(c))
                            /\ poster'[q].ev \in owed'[c] <=> Wants(c, poster'[q].ev)
    BY <1>18 DEF LiveInv
  <2>1. Range(Live(c)) \subseteq owed'[c]
    BY <1>7 DEF LiveInv
  <2>2. e \notin Range(Live(c)) /\ e \notin owed[c]
    BY <1>17 DEF LiveInv
  <2>3. c \in M => (e \in owed'[c] <=> Wants(c, e))
    BY <1>7, <2>2
  <2>4. ASSUME NEW q \in Posts \ {p}, c \in poster[q].todo
        PROVE  /\ poster[q].ev \notin Range(Live(c))
               /\ poster[q].ev \in owed'[c] <=> Wants(c, poster[q].ev)
    <3>1. poster[q].step = "sending"
      BY <2>4 DEF PosterInv
    <3>2. poster[q].ev # e
      BY <1>5, <2>4, <3>1 DEF PostOrder, Posted, e
    <3> QED  BY <1>7, <2>4, <3>2 DEF LiveInv
  <2> QED  BY <1>6, <2>1, <2>2, <2>3, <2>4
<1> QED  BY <1>8, <1>10, <1>11, <1>12, <1>13, <1>14, <1>15, <1>21, <1>22

\* A client by its fields, and with one of them changed.
ClientOf(step, closed, seen, buf, got) ==
    [step |-> step, closed |-> closed, seen |-> seen, buf |-> buf, got |-> got]

WithStep(x, v)   == [x EXCEPT !.step = v]
WithClosed(x, v) == [x EXCEPT !.closed = v]
WithSeen(x, v)   == [x EXCEPT !.seen = v]
WithBuf(x, v)    == [x EXCEPT !.buf = v]
WithGot(x, v)    == [x EXCEPT !.got = v]

LEMMA ClientWith ==
    ASSUME NEW a1, NEW a2, NEW a3, NEW a4, NEW a5, NEW v
    PROVE  /\ WithStep(ClientOf(a1, a2, a3, a4, a5), v) = ClientOf(v, a2, a3, a4, a5)
           /\ WithClosed(ClientOf(a1, a2, a3, a4, a5), v) = ClientOf(a1, v, a3, a4, a5)
           /\ WithSeen(ClientOf(a1, a2, a3, a4, a5), v) = ClientOf(a1, a2, v, a4, a5)
           /\ WithBuf(ClientOf(a1, a2, a3, a4, a5), v) = ClientOf(a1, a2, a3, v, a5)
           /\ WithGot(ClientOf(a1, a2, a3, a4, a5), v) = ClientOf(a1, a2, a3, a4, v)
<1>1. WithStep(ClientOf(a1, a2, a3, a4, a5), v) = ClientOf(v, a2, a3, a4, a5)
  BY DEF WithStep, ClientOf
<1>2. WithClosed(ClientOf(a1, a2, a3, a4, a5), v) = ClientOf(a1, v, a3, a4, a5)
  BY DEF WithClosed, ClientOf
<1>3. WithSeen(ClientOf(a1, a2, a3, a4, a5), v) = ClientOf(a1, a2, v, a4, a5)
  BY DEF WithSeen, ClientOf
<1>4. WithBuf(ClientOf(a1, a2, a3, a4, a5), v) = ClientOf(a1, a2, a3, v, a5)
  BY DEF WithBuf, ClientOf
<1>5. WithGot(ClientOf(a1, a2, a3, a4, a5), v) = ClientOf(a1, a2, a3, a4, v)
  BY DEF WithGot, ClientOf
<1> QED  BY <1>1, <1>2, <1>3, <1>4, <1>5

LEMMA ClientIs ==
    ASSUME ClientTypes, NEW c \in Clients
    PROVE  client[c] = ClientOf(client[c].step, client[c].closed, client[c].seen,
                                client[c].buf, client[c].got)
BY DEF ClientTypes, ClientOf

Becomes(c, x) == client' = [client EXCEPT ![c] = x]

\* A client with other queues or another step is still one.
LEMMA ClientSet ==
    ASSUME ClientTypes, NEW c \in Clients, NEW a1, NEW a2, NEW a3,
           NEW buf \in Seq(Events), NEW got \in Seq(Events),
           Becomes(c, ClientOf(a1, a2, a3, buf, got))
    PROVE  /\ ClientTypes'
           /\ client'[c].buf = buf /\ client'[c].got = got
           /\ \A d \in Clients \ {c} : client'[d] = client[d]
<1> DEFINE x == ClientOf(a1, a2, a3, buf, got)
<1>1. x = ClientOf(x.step, x.closed, x.seen, x.buf, x.got) /\ x.buf = buf /\ x.got = got
  BY DEF ClientOf
<1>2. client = [d \in Clients |-> client[d]] /\ client' = [client EXCEPT ![c] = x]
  BY DEF ClientTypes, Becomes
<1> HIDE DEF x
<1>3. /\ client'[c] = x /\ (\A d \in Clients \ {c} : client'[d] = client[d])
      /\ client' = [d \in Clients |-> client'[d]]
  BY <1>2
<1>4. ClientTypes'
  BY <1>1, <1>3 DEF ClientTypes, ClientOf
<1> QED  BY <1>1, <1>3, <1>4

\* A step of a handler that leaves its view as it is.
ViewStays(c) ==
    /\ ClientTypes'
    /\ Live(c)' = Live(c)
    /\ \A d \in Clients \ {c} : client'[d] = client[d]
    /\ broker' \in BrokerRecords /\ broker'.dropped = broker.dropped
    /\ UNCHANGED <<clock, reader, feed, poster, owed>>

LEMMA ViewStaysInv ==
    ASSUME LogInv, NEW c \in Clients, ViewStays(c)
    PROVE  LogInv'
<1> USE DEF LogInv, OrderInv
<1>1. UNCHANGED <<clock, reader, feed, poster, owed>>
  BY DEF ViewStays
<1>2. LogTypes'
  BY <1>1 DEF LogTypes, ViewStays
<1>3. /\ \A r \in Readers : Held(r)' = Held(r)
      /\ \A q \in Posts : Posted(q)' = Posted(q)
      /\ \A j \in Instances : Queued(j)' = Queued(j)
  BY <1>1 DEF Held, Posted, Queued
<1>4. ReaderInv' /\ FeedInv' /\ PosterInv' /\ OwedInv' /\ HandOrder' /\ QueueOrder' /\ PostOrder'
  BY <1>1, <1>3 DEF ReaderInv, FeedInv, PosterInv, OwedInv, HandOrder, QueueOrder, PostOrder
<1>5. \A d \in Clients : Live(d)' = Live(d)
  BY DEF ViewStays, Live
<1>6. LiveInv' /\ CountInv'
  <2>1. broker'.dropped = broker.dropped
    BY DEF ViewStays
  <2> QED  BY <1>1, <1>2, <1>5, <2>1, SameViews
<1> QED  BY <1>2, <1>4, <1>6

LEMMA ClientInv ==
    ASSUME NEW c \in Clients
    PROVE  LogInv /\ (Replay(c) \/ Subscribe(c) \/ Take(c) \/ Leave(c) \/ Closed(c)) => LogInv'
<1> SUFFICES ASSUME LogInv, Replay(c) \/ Subscribe(c) \/ Take(c) \/ Leave(c) \/ Closed(c)
             PROVE  LogInv'
  OBVIOUS
<1> DEFINE x == client[c]
<1>1. /\ ClientTypes /\ broker \in BrokerRecords
      /\ x.buf \in Seq(Events) /\ x.got \in Seq(Events)
  BY DEF LogInv, LogTypes, ClientTypes
<1>2. x = ClientOf(x.step, x.closed, x.seen, x.buf, x.got)
  BY <1>1, ClientIs
<1>3. broker' \in BrokerRecords /\ broker'.dropped = broker.dropped
  <2>1. ASSUME NEW m \in SUBSET Clients, broker' = [broker EXCEPT !.members = m]
        PROVE  broker' \in BrokerRecords /\ broker'.dropped = broker.dropped
    BY <1>1, <2>1 DEF BrokerRecords
  <2>2. broker.members \cup {c} \in SUBSET Clients /\ broker.members \ {c} \in SUBSET Clients
    BY <1>1 DEF BrokerRecords
  <2>3. \/ broker' = broker
        \/ broker' = [broker EXCEPT !.members = broker.members \cup {c}]
        \/ broker' = [broker EXCEPT !.members = broker.members \ {c}]
    BY DEF Replay, Subscribe, Take, Leave, Closed
  <2> QED  BY <1>1, <2>1, <2>2, <2>3
<1>4. UNCHANGED <<clock, reader, feed, poster, owed>>
  BY DEF Replay, Subscribe, Take, Leave, Closed
<1>5. ASSUME NEW a1, NEW a2, NEW a3, NEW buf \in Seq(Events), NEW got \in Seq(Events),
             client' = [client EXCEPT ![c] = ClientOf(a1, a2, a3, buf, got)],
             got \o buf = x.got \o x.buf
      PROVE  LogInv'
  <2>1. /\ ClientTypes'
        /\ client'[c].buf = buf /\ client'[c].got = got
        /\ \A d \in Clients \ {c} : client'[d] = client[d]
    BY <1>1, <1>5, ClientSet DEF Becomes
  <2>2. Live(c)' = Live(c)
    BY <1>5, <2>1 DEF Live
  <2> QED  BY <1>3, <1>4, <2>1, <2>2, ViewStaysInv DEF ViewStays
<1>6. ASSUME NEW v, client' = [client EXCEPT ![c] = WithStep(x, v)]
      PROVE  LogInv'
  <2>1. WithStep(x, v) = ClientOf(v, x.closed, x.seen, x.buf, x.got)
    BY <1>2, ClientWith
  <2> QED  BY <1>1, <1>5, <1>6, <2>1
<1>7. CASE Subscribe(c) \/ Leave(c)
  <2>1. PICK v : client' = [client EXCEPT ![c] = WithStep(x, v)]
    BY <1>7, Zenon DEF Subscribe, Leave, WithStep
  <2> QED  BY <1>6, <2>1
<1>8. CASE Replay(c)
  <2> DEFINE q == Query(Watched[c], 1, 2 * PageCap)
             y == WithStep(x, "replayed")
             mid == [client EXCEPT ![c] = y]
  <2>1. client' = [mid EXCEPT ![c] = WithSeen(mid[c], q)]
    BY <1>8, Zenon DEF Replay, WithStep, WithSeen
  <2>2. y = ClientOf("replayed", x.closed, x.seen, x.buf, x.got)
    BY <1>2, ClientWith
  <2>3. WithSeen(y, q) = ClientOf("replayed", x.closed, q, x.buf, x.got)
    BY <2>2, ClientWith
  <2>4. client = [d \in Clients |-> client[d]]
    BY <1>1 DEF ClientTypes
  <2> HIDE DEF y, q
  <2>5. client' = [client EXCEPT ![c] = WithSeen(y, q)]
    BY <2>1, <2>4
  <2> QED  BY <1>1, <1>5, <2>3, <2>5
<1>9. CASE Closed(c)
  <2> DEFINE yes == TRUE
             y == WithStep(x, "over")
             mid == [client EXCEPT ![c] = y]
  <2>1. client' = [mid EXCEPT ![c] = WithClosed(mid[c], yes)]
    BY <1>9, Zenon DEF Closed, WithStep, WithClosed
  <2> HIDE DEF yes
  <2>2. y = ClientOf("over", x.closed, x.seen, x.buf, x.got)
    BY <1>2, ClientWith
  <2>3. WithClosed(y, yes) = ClientOf("over", yes, x.seen, x.buf, x.got)
    BY <2>2, ClientWith
  <2>4. client = [d \in Clients |-> client[d]]
    BY <1>1 DEF ClientTypes
  <2> HIDE DEF y
  <2>5. client' = [client EXCEPT ![c] = WithClosed(y, yes)]
    BY <2>1, <2>4
  <2> QED  BY <1>1, <1>5, <2>3, <2>5
<1>10. CASE Take(c)
  <2> DEFINE b == Tail(x.buf)
             g == Append(x.got, Head(x.buf))
             y == WithBuf(x, b)
             mid == [client EXCEPT ![c] = y]
  <2>1. client' = [mid EXCEPT ![c] = WithGot(mid[c], Append(mid[c].got, Head(x.buf)))]
    BY <1>10, Zenon DEF Take, WithBuf, WithGot
  <2>2. y = ClientOf(x.step, x.closed, x.seen, b, x.got)
    BY <1>2, ClientWith
  <2>3. WithGot(y, g) = ClientOf(x.step, x.closed, x.seen, b, g)
    BY <2>2, ClientWith
  <2>4. client = [d \in Clients |-> client[d]]
    BY <1>1 DEF ClientTypes
  <2>5. x.buf # <<>>
    BY <1>10 DEF Take
  <2>6. b \in Seq(Events) /\ g \in Seq(Events) /\ g \o b = x.got \o x.buf
    BY <1>1, <2>5, HeadTailProperties, AppendProperties, TakenStays
  <2>7. y.got = x.got
    <3> HIDE DEF y, b
    <3> QED  BY <2>2 DEF ClientOf
  <2> HIDE DEF y
  <2>8. client' = [client EXCEPT ![c] = WithGot(y, g)]
    BY <2>1, <2>4, <2>7
  <2> QED  BY <1>5, <2>3, <2>6, <2>8
<1> QED  BY <1>7, <1>8, <1>9, <1>10

LEMMA MissingFinite ==
    ASSUME NEW p
    PROVE  IsFiniteSet(Missing(p)) /\ Cardinality(Missing(p)) \in Nat
BY FS_Subset, FS_CardinalityType, LogAssumption DEF Missing

\* What one step of Publish towards c changes: e arrives, is skipped or missed.
DeliveredTo(p, c, e) ==
    /\ poster' \in [Posts -> PosterRecords]
    /\ poster'[p].step = "sending" /\ poster'[p].ev = e
    /\ poster'[p].todo = poster[p].todo \ {c}
    /\ \A q \in Posts \ {p} : poster'[q] = poster[q]
    /\ ClientTypes'
    /\ \A d \in Clients \ {c} : client'[d] = client[d] /\ owed'[d] = owed[d]
    /\ owed' \in [Clients -> SUBSET Events]
    /\ \/ \* skipped
          /\ Live(c)' = Live(c) /\ owed'[c] = owed[c] \ {e}
          /\ poster'[p].dropped = poster[p].dropped
       \/ \* arrived
          /\ e \in owed[c]
          /\ Live(c)' = Append(Live(c), e) /\ owed'[c] = owed[c]
          /\ poster'[p].dropped = poster[p].dropped
       \/ \* missed
          /\ e \in owed[c]
          /\ Live(c)' = Live(c) /\ owed'[c] = owed[c]
          /\ poster'[p].dropped = poster[p].dropped + 1
    /\ UNCHANGED <<clock, reader, feed, broker>>

LEMMA DeliverIs ==
    ASSUME LogInv, NEW p \in Posts, NEW c \in Clients, Deliver(p, c)
    PROVE  DeliveredTo(p, c, poster[p].ev) /\ poster[p].step = "sending" /\ c \in poster[p].todo
<1> USE DEF LogInv, OrderInv
<1> DEFINE e    == poster[p].ev
           full == Len(client[c].buf) >= BufferCap
           sent == ~client[c].closed /\ Wants(c, e)
           n    == IF sent /\ full THEN poster[p].dropped + 1 ELSE poster[p].dropped
           rest == poster[p].todo \ {c}
           mid  == [poster EXCEPT ![p].todo = rest]
           buf  == Append(client[c].buf, e)
<1>1. /\ poster[p].step = "sending" /\ c \in poster[p].todo
      /\ poster' = [mid EXCEPT ![p].dropped = IF sent /\ full THEN @ + 1 ELSE @]
      /\ client' = IF sent /\ ~full THEN [client EXCEPT ![c] = WithBuf(client[c], buf)] ELSE client
      /\ owed' = IF client[c].closed THEN [owed EXCEPT ![c] = owed[c] \ {e}] ELSE owed
      /\ UNCHANGED <<clock, reader, store, feed, broker>>
  BY Zenon DEF Deliver, WithBuf
<1>2. poster \in [Posts -> PosterRecords] /\ owed \in [Clients -> SUBSET Events] /\ ClientTypes
  BY DEF LogTypes
<1>3. e \in Events
  BY <1>1 DEF PosterInv, Posted
<1>4. rest \in SUBSET Clients /\ n \in Nat
  BY <1>2 DEF PosterRecords
<1>5. /\ mid \in [Posts -> PosterRecords]
      /\ mid[p].step = "sending" /\ mid[p].ev = e
      /\ mid[p].todo = rest /\ mid[p].dropped = poster[p].dropped
      /\ \A q \in Posts \ {p} : mid[q] = poster[q]
  BY <1>1, <1>2, <1>4 DEF PosterRecords
<1>6. poster' = [mid EXCEPT ![p].dropped = n]
  BY <1>1, <1>5
<1> HIDE DEF n, mid, rest
<1>7. /\ poster' \in [Posts -> PosterRecords]
      /\ poster'[p].step = "sending" /\ poster'[p].ev = e
      /\ poster'[p].todo = rest /\ poster'[p].dropped = n
      /\ \A q \in Posts \ {p} : poster'[q] = poster[q]
  BY <1>4, <1>5, <1>6 DEF PosterRecords
<1>8. /\ owed' \in [Clients -> SUBSET Events]
      /\ owed'[c] = IF client[c].closed THEN owed[c] \ {e} ELSE owed[c]
      /\ \A d \in Clients \ {c} : owed'[d] = owed[d]
  BY <1>1, <1>2
<1>9. e \in owed[c] <=> Wants(c, e)
  BY <1>1 DEF LiveInv
<1>10. CASE sent /\ ~full
  <2>1. /\ client[c].buf \in Seq(Events) /\ client[c].got \in Seq(Events)
        /\ buf \in Seq(Events)
    BY <1>2, <1>3, AppendProperties DEF ClientTypes
  <2>2. WithBuf(client[c], buf) = ClientOf(client[c].step, client[c].closed, client[c].seen,
                                           buf, client[c].got)
    <3> HIDE DEF buf
    <3> QED  BY <1>2, ClientIs, ClientWith
  <2>3. client' = [client EXCEPT ![c] = ClientOf(client[c].step, client[c].closed,
                                                 client[c].seen, buf, client[c].got)]
    BY <1>1, <1>10, <2>2
  <2>4. /\ ClientTypes' /\ client'[c].buf = buf /\ client'[c].got = client[c].got
        /\ \A d \in Clients \ {c} : client'[d] = client[d]
    <3> HIDE DEF buf
    <3>1. Becomes(c, ClientOf(client[c].step, client[c].closed, client[c].seen, buf, client[c].got))
      BY <2>3 DEF Becomes
    <3> QED  BY <1>2, <2>1, <3>1, ClientSet
  <2>5. Live(c)' = Append(Live(c), e)
    <3>1. Live(c)' = client[c].got \o buf
      BY <2>4 DEF Live
    <3>2. client[c].got \o buf = Append(client[c].got \o client[c].buf, e)
      BY <1>3, <2>1, SentLast
    <3> HIDE DEF buf
    <3> QED  BY <3>1, <3>2 DEF Live
  <2>6. n = poster[p].dropped
    BY <1>10 DEF n
  <2> QED  BY <1>1, <1>7, <1>8, <1>9, <1>10, <2>4, <2>5, <2>6 DEF DeliveredTo, rest
<1>11. CASE ~(sent /\ ~full)
  <2>1. client' = client
    BY <1>1, <1>11
  <2>2. ClientTypes' /\ Live(c)' = Live(c) /\ \A d \in Clients \ {c} : client'[d] = client[d]
    BY <1>2, <2>1 DEF ClientTypes, Live
  <2>3. CASE sent /\ full
    <3>1. n = poster[p].dropped + 1
      BY <2>3 DEF n
    <3> QED  BY <1>1, <1>7, <1>8, <1>9, <2>2, <2>3, <3>1 DEF DeliveredTo, rest
  <2>4. CASE ~sent
    <3>1. n = poster[p].dropped
      BY <2>4 DEF n
    <3>2. owed'[c] = owed[c] \ {e}
      BY <1>8, <1>9, <2>4
    <3> QED  BY <1>1, <1>7, <1>8, <2>2, <3>1, <3>2 DEF DeliveredTo, rest
  <2> QED  BY <1>11, <2>3, <2>4
<1> QED  BY <1>1, <1>10, <1>11

\* A view with the event it has just been sent.
LEMMA ViewGrows ==
    ASSUME NEW v \in Seq(Events), NEW e \in Events,
           \A j, k \in DOMAIN v : j < k => Before(v[j], v[k]),
           \A d \in Range(v) : Before(d, e)
    PROVE  LET h == Append(v, e)
           IN  /\ Range(h) = Range(v) \cup {e}
               /\ \A j, k \in DOMAIN h : j < k => Before(h[j], h[k])
BY QueueAppend DEF Range

LEMMA DeliverInv ==
    ASSUME NEW p \in Posts, NEW c \in Clients
    PROVE  LogInv /\ Deliver(p, c) => LogInv'
<1> SUFFICES ASSUME LogInv, Deliver(p, c) PROVE LogInv'
  OBVIOUS
<1> USE DEF LogInv, OrderInv
<1> DEFINE e == poster[p].ev
<1>1. /\ DeliveredTo(p, c, e) /\ poster[p].step = "sending" /\ c \in poster[p].todo
      /\ UNCHANGED <<clock, reader, feed, broker>>
  BY DeliverIs DEF DeliveredTo
<1>2. Posted(p) /\ e \in Events
  BY <1>1 DEF Posted, PosterInv
<1>3. e \notin Range(Live(c)) /\ Range(Live(c)) \subseteq owed[c]
  BY <1>1 DEF LiveInv
<1>4. \A q \in Posts \ {p} : poster[q].ev # e
  <2>1. e # Nothing
    BY <1>2, LogAssumption
  <2> QED  BY <1>2, <2>1 DEF PostOrder, PosterInv
<1> HIDE DEF e
<1>5. /\ poster' \in [Posts -> PosterRecords]
      /\ poster'[p].step = "sending" /\ poster'[p].ev = e
      /\ poster'[p].todo = poster[p].todo \ {c}
      /\ \A q \in Posts \ {p} : poster'[q] = poster[q]
      /\ poster[p].ev = e
      /\ \A q \in Posts : poster'[q].ev = poster[q].ev /\ poster'[q].step = poster[q].step
  BY <1>1 DEF DeliveredTo, e
<1>6. /\ owed' \in [Clients -> SUBSET Events]
      /\ \A d \in Clients : owed'[d] \subseteq owed[d]
      /\ \A d \in Clients \ {c} : owed'[d] = owed[d] /\ client'[d] = client[d]
  BY <1>1 DEF DeliveredTo
<1>7. LogTypes'
  BY <1>1, <1>5, <1>6 DEF LogTypes, DeliveredTo
<1>8. /\ \A r \in Readers : Held(r)' = Held(r) /\ reader'[r] = reader[r]
      /\ \A q \in Posts : Posted(q)' = Posted(q)
      /\ \A j \in Instances : Queued(j)' = Queued(j)
  BY <1>1, <1>5 DEF Held, Posted, Queued
<1>9. ReaderInv' /\ PosterInv' /\ OwedInv'
  BY <1>1, <1>5, <1>6, <1>8 DEF ReaderInv, PosterInv, OwedInv
<1>10. FeedInv'
  <2>1. ASSUME NEW j \in Instances PROVE FeedInv!(j)'
    <3>1. <<j, "exit">> \in Posts
      BY DEF Posts, Posters
    <3> QED  BY <1>1, <1>5, <1>8, <3>1 DEF FeedInv
  <2> QED  BY <2>1 DEF FeedInv
<1>11. HandOrder' /\ QueueOrder' /\ PostOrder'
  BY <1>5, <1>6, <1>8 DEF HandOrder, QueueOrder, PostOrder
<1>12. Live(c) \in Seq(Events) /\ Live(c)' \in Seq(Events)
  <2>1. /\ client[c].buf \in Seq(Events) /\ client[c].got \in Seq(Events)
        /\ client'[c].buf \in Seq(Events) /\ client'[c].got \in Seq(Events)
    BY <1>7 DEF LogTypes, ClientTypes
  <2> QED  BY <2>1, ConcatProperties DEF Live
<1>13. /\ Range(Live(c)') \subseteq owed'[c]
       /\ Range(Live(c)) \subseteq Range(Live(c)') /\ Range(Live(c)') \subseteq Range(Live(c)) \cup {e}
       /\ \A j, k \in DOMAIN Live(c)' : j < k => Before(Live(c)'[j], Live(c)'[k])
  <2>1. \A j, k \in DOMAIN Live(c) : j < k => Before(Live(c)[j], Live(c)[k])
    BY DEF LiveInv
  <2>2. CASE Live(c)' = Live(c) /\ owed[c] \ {e} \subseteq owed'[c]
    BY <1>3, <2>1, <2>2
  <2>3. CASE e \in owed[c] /\ Live(c)' = Append(Live(c), e) /\ owed'[c] = owed[c]
    <3>1. \A d \in Range(Live(c)) : Before(d, e)
      BY <1>2, <1>3 DEF PostOrder, e
    <3>2. /\ Range(Append(Live(c), e)) = Range(Live(c)) \cup {e}
          /\ \A j, k \in DOMAIN Append(Live(c), e) :
                j < k => Before(Append(Live(c), e)[j], Append(Live(c), e)[k])
      BY <1>2, <1>12, <2>1, <3>1, ViewGrows
    <3> QED  BY <1>3, <2>3, <3>2
  <2> QED  BY <1>1, <2>2, <2>3 DEF DeliveredTo
<1>14. \A d \in Clients \ {c} : Live(d)' = Live(d)
  BY <1>6 DEF Live
<1>15. LiveInv'
  <2>1. ASSUME NEW d \in Clients, NEW q \in Posts, d \in poster'[q].todo
        PROVE  /\ poster'[q].ev \notin Range(Live(d)')
               /\ poster'[q].ev \in owed'[d] <=> Wants(d, poster'[q].ev)
    <3>1. d \in poster[q].todo /\ poster'[q].ev = poster[q].ev /\ (q = p => d # c)
      BY <1>5, <2>1
    <3>2. CASE d # c
      BY <1>6, <1>14, <3>1, <3>2 DEF LiveInv
    <3>3. CASE d = c
      <4>1. q # p /\ poster[q].ev # e
        BY <1>4, <3>1, <3>3
      <4>2. owed'[c] = owed[c] \/ owed'[c] = owed[c] \ {e}
        BY <1>1 DEF DeliveredTo
      <4>3. poster[q].ev \notin Range(Live(c)) /\ (poster[q].ev \in owed[c] <=> Wants(c, poster[q].ev))
        BY <3>1, <3>3 DEF LiveInv
      <4> QED  BY <1>13, <3>1, <3>3, <4>1, <4>2, <4>3
    <3> QED  BY <3>2, <3>3
  <2>2. ASSUME NEW d \in Clients \ {c}
        PROVE  /\ Range(Live(d)') \subseteq owed'[d]
               /\ \A j, k \in DOMAIN Live(d)' : j < k => Before(Live(d)'[j], Live(d)'[k])
    BY <1>6, <1>14 DEF LiveInv
  <2> QED  BY <1>13, <2>1, <2>2 DEF LiveInv, Wants
<1>16. DOMAIN poster = Posts /\ DOMAIN poster' = Posts
  BY <1>7 DEF LogTypes
<1>17. /\ e \in OnTheWay(c)
       /\ OnTheWay(c)' = OnTheWay(c) \ {e}
       /\ \A d \in Clients \ {c} : OnTheWay(d)' = OnTheWay(d)
  <2>1. e \in OnTheWay(c)
    BY <1>1, <1>16 DEF OnTheWay, e
  <2>2. OnTheWay(c)' = OnTheWay(c) \ {e}
    BY <1>4, <1>5, <1>16 DEF OnTheWay
  <2>3. \A d \in Clients \ {c} : OnTheWay(d)' = OnTheWay(d)
    BY <1>5, <1>16 DEF OnTheWay
  <2> QED  BY <2>1, <2>2, <2>3
<1>18. e \notin Unseen(c) /\ \A d \in Clients \ {c} : Unseen(d)' = Unseen(d)
  BY <1>6, <1>14, <1>17 DEF Unseen
<1>19. /\ broker'.dropped = broker.dropped
       /\ \A q \in Posts : poster'[q].ev = poster[q].ev
       /\ \A q \in Posts \ {p} : poster'[q].dropped = poster[q].dropped
  BY <1>1, <1>5
<1>20. CASE Unseen(c)' = Unseen(c) /\ poster'[p].dropped = poster[p].dropped
  <2>1. CountInv'
    BY <1>7, <1>18, <1>19, <1>20, SameCounts
  <2> QED  BY <1>7, <1>9, <1>10, <1>11, <1>15, <2>1
<1>21. CASE Unseen(c)' = Unseen(c) \cup {e} /\ poster'[p].dropped = poster[p].dropped + 1
  <2>1. \A q \in Posts \ {p} : Missing(q)' = Missing(q)
    BY <1>4, <1>18, <1>19, <1>21 DEF Missing
  <2>2. Missing(p)' = Missing(p) \cup {c} /\ c \notin Missing(p)
    BY <1>5, <1>18, <1>21 DEF Missing
  <2>3. Cardinality(Missing(p) \cup {c}) = Cardinality(Missing(p)) + 1
    BY <2>2, MissingFinite, FS_AddElement
  <2>4. Settled' = Settled
    <3>1. \A x \in Settled' : x[2] # e
      BY <1>5, <1>16 DEF Settled
    <3>2. \A x \in Settled : x[2] # e
      BY <1>5, <1>16 DEF Settled
    <3>3. ASSUME NEW x, x[2] # e PROVE x \in Lost' <=> x \in Lost
      <4>1. \A d \in Clients : x[2] \in Unseen(d)' <=> x[2] \in Unseen(d)
        BY <1>18, <1>21, <3>3
      <4> QED  BY <4>1 DEF Lost
    <3>4. ASSUME NEW x PROVE (\A q \in DOMAIN poster' : x[2] # poster'[q].ev)
                                 <=> (\A q \in DOMAIN poster : x[2] # poster[q].ev)
      BY <1>16, <1>19
    <3> QED  BY <3>1, <3>2, <3>3, <3>4 DEF Settled
  <2>5. CountInv'
    BY <1>19, <1>21, <2>1, <2>2, <2>3, <2>4 DEF CountInv
  <2> QED  BY <1>7, <1>9, <1>10, <1>11, <1>15, <2>5
<1>22. \/ Unseen(c)' = Unseen(c) /\ poster'[p].dropped = poster[p].dropped
       \/ Unseen(c)' = Unseen(c) \cup {e} /\ poster'[p].dropped = poster[p].dropped + 1
  <2>1. CASE Live(c)' = Live(c) /\ owed'[c] = owed[c] \ {e} /\ poster'[p].dropped = poster[p].dropped
    BY <1>17, <2>1 DEF Unseen
  <2>2. CASE /\ e \in owed[c] /\ Live(c)' = Append(Live(c), e) /\ owed'[c] = owed[c]
             /\ poster'[p].dropped = poster[p].dropped
    <3>1. Range(Live(c)') = Range(Live(c)) \cup {e}
      <4>1. \A d \in Range(Live(c)) : Before(d, e)
        BY <1>2, <1>3 DEF PostOrder, e
      <4>2. \A j, k \in DOMAIN Live(c) : j < k => Before(Live(c)[j], Live(c)[k])
        BY DEF LiveInv
      <4>3. Range(Append(Live(c), e)) = Range(Live(c)) \cup {e}
        BY <1>2, <1>12, <4>1, <4>2, ViewGrows
      <4> QED  BY <2>2, <4>3
    <3> QED  BY <1>17, <2>2, <3>1 DEF Unseen
  <2>3. CASE /\ e \in owed[c] /\ Live(c)' = Live(c) /\ owed'[c] = owed[c]
             /\ poster'[p].dropped = poster[p].dropped + 1
    BY <1>3, <1>17, <2>3 DEF Unseen
  <2> QED  BY <1>1, <2>1, <2>2, <2>3 DEF DeliveredTo
<1> QED  BY <1>20, <1>21, <1>22

LEMMA PublishedInv ==
    ASSUME NEW p \in Posts
    PROVE  LogInv /\ Published(p) => LogInv'
<1> SUFFICES ASSUME LogInv, Published(p) PROVE LogInv'
  OBVIOUS
<1> USE DEF LogInv, OrderInv
<1> DEFINE e == poster[p].ev
           n == poster[p].dropped
           x == [step |-> IF p[2] = "forward" THEN "idle" ELSE "over",
                 ev |-> Nothing, todo |-> {}, dropped |-> 0]
<1>1. /\ poster[p].step = "sending" /\ poster[p].todo = {}
      /\ broker' = [broker EXCEPT !.dropped = @ + n]
      /\ poster' = [poster EXCEPT ![p] = x]
      /\ UNCHANGED <<clock, reader, store, feed, client, owed>>
  BY DEF Published
<1>2. poster \in [Posts -> PosterRecords] /\ broker \in BrokerRecords /\ n \in Nat
  BY DEF LogTypes, PosterRecords
<1>3. Posted(p) /\ e \in Events
  BY <1>1 DEF Posted, PosterInv
<1>4. x \in PosterRecords
  BY DEF PosterRecords, PosterSteps
<1>5. /\ poster' \in [Posts -> PosterRecords]
      /\ poster'[p].step \notin {"numbered", "sending", "running"} /\ poster'[p].ev = Nothing
      /\ poster'[p].todo = {} /\ poster'[p].dropped = 0
      /\ \A q \in Posts \ {p} : poster'[q] = poster[q]
  BY <1>1, <1>2, <1>4
<1>6. broker' \in BrokerRecords /\ broker'.dropped = broker.dropped + n
  BY <1>1, <1>2 DEF BrokerRecords
<1>7. \A q \in Posts \ {p} : poster[q].ev # e
  <2>1. e # Nothing
    BY <1>3, LogAssumption
  <2> QED  BY <1>3, <2>1 DEF PostOrder, PosterInv
<1> HIDE DEF x
<1>8. LogTypes'
  <2>1. ClientTypes'
    BY <1>1 DEF LogTypes, ClientTypes
  <2> QED  BY <1>1, <1>5, <1>6, <2>1 DEF LogTypes
<1>9. /\ \A r \in Readers : Held(r)' = Held(r)
      /\ ~Posted(p)' /\ \A q \in Posts \ {p} : Posted(q)' = Posted(q)
      /\ \A j \in Instances : Queued(j)' = Queued(j)
  BY <1>1, <1>5 DEF Held, Posted, Queued
<1>10. ReaderInv' /\ PosterInv' /\ OwedInv'
  BY <1>1, <1>5, <1>9 DEF ReaderInv, PosterInv, OwedInv
<1>11. FeedInv'
  <2>1. ASSUME NEW j \in Instances PROVE FeedInv!(j)'
    <3>1. <<j, "exit">> \in Posts
      BY DEF Posts, Posters
    <3>2. feed[j].open => <<j, "exit">> # p
      BY <1>1 DEF FeedInv
    <3> QED  BY <1>1, <1>5, <1>9, <3>1, <3>2 DEF FeedInv
  <2> QED  BY <2>1 DEF FeedInv
<1>12. HandOrder' /\ QueueOrder' /\ PostOrder'
  BY <1>1, <1>5, <1>9 DEF HandOrder, QueueOrder, PostOrder
<1>13. \A c \in Clients : Live(c)' = Live(c) /\ owed'[c] = owed[c]
  BY <1>1 DEF Live
<1>14. LiveInv'
  BY <1>5, <1>13 DEF LiveInv, Wants
<1>15. DOMAIN poster = Posts /\ DOMAIN poster' = Posts
  BY <1>8 DEF LogTypes
<1>16. \A c \in Clients : OnTheWay(c)' = OnTheWay(c)
  BY <1>1, <1>5, <1>15 DEF OnTheWay
<1>17. \A c \in Clients : Unseen(c)' = Unseen(c)
  BY <1>13, <1>16 DEF Unseen
<1>18. \A q \in Posts \ {p} : Missing(q)' = Missing(q)
  BY <1>5, <1>17 DEF Missing
<1>19. Missing(p)' = {}
  <2>1. \A c \in Clients : Nothing \notin Unseen(c)
    BY NothingOwed DEF Unseen
  <2> QED  BY <1>5, <1>17, <2>1 DEF Missing
\* The misses of this event are counted for good now.
<1> DEFINE M == Missing(p)
           L == M \X {e}
<1>20. Settled' = Settled \cup L
  <2>1. Lost' = Lost
    BY <1>17 DEF Lost
  <2>2. ASSUME NEW y \in Lost
        PROVE  (\A q \in Posts : y[2] # poster'[q].ev) <=>
                  (\A q \in Posts : y[2] # poster[q].ev) \/ y[2] = e
    <3>1. y[2] # Nothing
      BY NothingOwed DEF Lost, Unseen
    <3> QED  BY <1>5, <1>7, <3>1
  <2>3. L = {y \in Lost : y[2] = e}
    <3>1. ASSUME NEW y \in L PROVE y \in Lost /\ y[2] = e
      <4>1. y = <<y[1], e>> /\ y[1] \in Clients /\ e \in Unseen(y[1])
        BY DEF Missing
      <4> QED  BY <4>1 DEF Lost
    <3>2. ASSUME NEW y \in Lost, y[2] = e PROVE y \in L
      <4>1. PICK c \in Clients : y \in {c} \X Unseen(c)
        BY DEF Lost
      <4>2. y = <<c, e>> /\ e \in Unseen(c)
        BY <3>2, <4>1
      <4> QED  BY <4>2 DEF Missing
    <3> QED  BY <3>1, <3>2
  <2> HIDE DEF L
  <2>4. Settled' = {y \in Lost : \A q \in Posts : y[2] # poster'[q].ev}
    BY <1>15, <2>1 DEF Settled
  <2>5. Settled = {y \in Lost : \A q \in Posts : y[2] # poster[q].ev}
    BY <1>15 DEF Settled
  <2> QED  BY <2>2, <2>3, <2>4, <2>5
<1>21. IsFiniteSet(L) /\ Cardinality(L) = Cardinality(M)
  <2> DEFINE f == [c \in M |-> <<c, e>>]
  <2>1. f \in Bijection(M, L)
    BY DEF Bijection, Injection, Surjection, IsInjective
  <2>2. IsFiniteSet(M)
    BY MissingFinite
  <2> HIDE DEF f, M, L
  <2> QED  BY <2>1, <2>2, FS_Bijection DEF ExistsBijection
<1>22. Settled \cap L = {}
  <2>1. \A y \in Settled : y[2] # e
    BY <1>15 DEF Settled
  <2>2. \A y \in L : y[2] = e
    OBVIOUS
  <2> QED  BY <2>1, <2>2
<1>23. n = Cardinality(M) /\ IsFiniteSet(Settled) /\ broker.dropped = Cardinality(Settled)
  BY DEF CountInv
<1> HIDE DEF L, M
<1>24. /\ IsFiniteSet(Settled \cup L)
       /\ Cardinality(Settled \cup L) = Cardinality(Settled) + Cardinality(L)
  <2>1. Cardinality(Settled \cap L) = 0
    BY <1>22, FS_EmptySet
  <2>2. Cardinality(Settled) \in Nat /\ Cardinality(L) \in Nat
    BY <1>21, <1>23, FS_CardinalityType
  <2>3. IsFiniteSet(Settled \cup L)
        /\ Cardinality(Settled \cup L) = Cardinality(Settled) + Cardinality(L) - Cardinality(Settled \cap L)
    BY <1>21, <1>23, FS_Union
  <2> QED  BY <2>1, <2>2, <2>3
<1>25. CountInv'
  <2>1. \A q \in Posts : poster'[q].dropped = Cardinality(Missing(q)')
    BY <1>5, <1>18, <1>19, FS_EmptySet DEF CountInv
  <2>2. IsFiniteSet(Settled') /\ broker'.dropped = Cardinality(Settled')
    BY <1>6, <1>20, <1>21, <1>23, <1>24
  <2> QED  BY <2>1, <2>2 DEF CountInv
<1> QED  BY <1>8, <1>10, <1>11, <1>12, <1>14, <1>25

LEMMA LogInitInv == LogInit => LogInv
<1> SUFFICES ASSUME NEW load \in Loads, LogStart(load) PROVE LogInv
  BY DEF LogInit
<1>1. LogTypes
  <2>1. load.lines \in [{"stdout", "stderr"} -> Nat]
    BY LogAssumption
  <2>2. reader \in [Readers -> ReaderRecords]
    <3>1. \A r \in Readers : load.lines[r[2]] \in Nat
      BY <2>1 DEF Readers, Pipes
    <3> QED  BY <3>1 DEF LogStart, Readers, ReaderRecords, ReaderSteps
  <2>3. feed \in [Instances -> FeedRecords]
    BY EmptySeq DEF LogStart, FeedRecords
  <2>4. poster \in [Posts -> PosterRecords]
    BY DEF LogStart, Posts, PosterRecords, PosterSteps
  <2>5. clock \in Nat /\ broker \in BrokerRecords /\ owed \in [Clients -> SUBSET Events]
    BY DEF LogStart, BrokerRecords
  <2>6. ClientTypes
    <3>1. client = [c \in Clients |-> ClientOf(IF c \in load.watching THEN "new" ELSE "over",
                                               FALSE, <<>>, <<>>, <<>>)]
      BY DEF LogStart, ClientOf
    <3>2. \A c \in Clients : client[c] = ClientOf(client[c].step, client[c].closed,
                                client[c].seen, client[c].buf, client[c].got)
                             /\ client[c].buf = <<>> /\ client[c].got = <<>>
      BY <3>1 DEF ClientOf
    <3>3. client = [c \in Clients |-> client[c]]
      BY <3>1
    <3> QED  BY <3>2, <3>3, EmptySeq DEF ClientTypes, ClientOf
  <2> QED  BY <2>2, <2>3, <2>4, <2>5, <2>6 DEF LogTypes
<1>2. /\ \A r \in Readers : ~Held(r)
      /\ \A i \in Instances : Queued(i) = {} /\ DOMAIN feed[i].buf = {}
      /\ \A p \in Posts : /\ ~Posted(p) /\ poster[p].ev = Nothing
                          /\ poster[p].todo = {} /\ poster[p].dropped = 0
      /\ \A c \in Clients : owed[c] = {}
  BY DEF LogStart, Held, Queued, Posted, Readers, Posts
<1>3. \A i \in Instances : poster[<<i, "exit">>].step = "running"
  BY DEF LogStart, Posters
<1>4. OrderInv
  BY <1>2, <1>3 DEF OrderInv, ReaderInv, FeedInv, PosterInv, OwedInv, HandOrder, QueueOrder, PostOrder
<1>5. \A c \in Clients : Live(c) = <<>>
  <2>1. \A c \in Clients : client[c].buf = <<>> /\ client[c].got = <<>>
    BY DEF LogStart
  <2> QED  BY <2>1, ConcatEmptySeq, EmptySeq DEF Live
<1>6. LiveInv
  BY <1>2, <1>5 DEF LiveInv, Range
<1>7. CountInv
  <2>1. \A c \in Clients : Unseen(c) = {}
    BY <1>2 DEF Unseen
  <2>2. Settled = {} /\ \A p \in Posts : Missing(p) = {}
    BY <2>1 DEF Settled, Lost, Missing
  <2>3. broker.dropped = 0
    BY DEF LogStart
  <2> QED  BY <1>2, <2>2, <2>3, FS_EmptySet DEF CountInv
<1> QED  BY <1>1, <1>4, <1>6, <1>7 DEF LogInv

LEMMA LogNextInv == LogInv /\ [LogNext]_logVars => LogInv'
<1> SUFFICES ASSUME LogInv, [LogNext]_logVars PROVE LogInv'
  OBVIOUS
<1>1. CASE UNCHANGED logVars
  <2> USE DEF LogInv, OrderInv
  <2>1. UNCHANGED <<clock, reader, feed, poster, broker, client, owed>>
    BY <1>1 DEF logVars
  <2>2. LogTypes'
    BY <2>1 DEF LogTypes, ClientTypes
  <2>3. OrderInv'
    BY <2>1 DEF ReaderInv, FeedInv, PosterInv, OwedInv, HandOrder, QueueOrder, PostOrder,
                Held, Queued, Posted
  <2> QED  BY <2>1, <2>2, <2>3, SameViews
<1>2. CASE \E i \in Instances, s \in Pipes : Read(i, s) \/ Store(i, s) \/ Send(i, s) \/ SendGap(i, s)
  BY <1>2, ReadInv, StoreInv, SendInv, SendGapInv
<1>3. CASE \E i \in Instances : Ends(i) \/ Forward(i) \/ Announce(i)
  BY <1>3, EndsInv, ForwardInv, AnnounceInv
<1>4. CASE \E p \in Instances \X Posters :
              \/ Snapshot(p)
              \/ Published(p)
              \/ \E c \in Clients : Deliver(p, c)
  BY <1>4, SnapshotInv, PublishedInv, DeliverInv DEF Posts
<1>5. CASE \E c \in Clients : Replay(c) \/ Subscribe(c) \/ Take(c) \/ Leave(c) \/ Closed(c)
  BY <1>5, ClientInv
<1> QED  BY <1>1, <1>2, <1>3, <1>4, <1>5 DEF LogNext

-----------------------------------------------------------------------------
(* The console                                                             *)

LEMMA ConsoleInitInv == ConsoleInit => LogInv /\ WebInv /\ AuditInv /\ SettingsInv
<1> SUFFICES ASSUME ConsoleInit PROVE LogInv /\ WebInv /\ AuditInv /\ SettingsInv
  OBVIOUS
<1>0. LogInit
  <2>1. CASE part = "log"
    BY <2>1 DEF ConsoleInit
  <2>2. CASE part # "log"
    <3>1. (CHOOSE load \in Loads : TRUE) \in Loads
      BY LogAssumption
    <3>2. LogStart(CHOOSE load \in Loads : TRUE)
      BY <2>2 DEF ConsoleInit
    <3> QED  BY <3>1, <3>2 DEF LogInit
  <2> QED  BY <2>1, <2>2
<1>1. WebInv /\ AuditInv
  BY WebInitInv, AuditInitInv DEF ConsoleInit
<1>2. SetInit
  <2>1. CASE part = "settings"
    BY <2>1 DEF ConsoleInit
  <2>2. CASE part # "settings"
    <3>1. (CHOOSE cfg \in Shipped : TRUE) \in Shipped
      BY SettingsAssumption
    <3>2. SetStart(CHOOSE cfg \in Shipped : TRUE)
      BY <2>2 DEF ConsoleInit
    <3> QED  BY <3>1, <3>2 DEF SetInit
  <2> QED  BY <2>1, <2>2
<1> QED  BY <1>0, <1>1, <1>2, LogInitInv, SettingsInitInv

LEMMA ConsoleStep ==
    [ConsoleNext]_consoleVars =>
        [LogNext]_logVars /\ [WebNext]_webVars /\ [AuditNext]_auditVars /\ [SetNext]_setVars
BY DEF ConsoleNext, consoleVars

(* No log line promised to a view is lost uncounted, and no view shows one pipe
   of one run out of order (StreamFaithful), for any number of runs, lines and
   subscribers and any capacity of the queues between them. *)
THEOREM StreamsAreFaithful == ConsoleSpec => []StreamFaithful
<1>1. LogInv => StreamFaithful
  <2> SUFFICES ASSUME LogInv PROVE StreamFaithful
    OBVIOUS
  <2>1. DOMAIN poster = Posts
    BY DEF LogInv, LogTypes
  <2>2. \A p \in DOMAIN poster :
           poster[p].dropped = Cardinality({c \in Clients : poster[p].ev \in Unseen(c)})
    BY <2>1 DEF LogInv, CountInv, Missing
  <2>3. broker.dropped = Cardinality({x \in Lost : \A p \in DOMAIN poster : x[2] # poster[p].ev})
    BY DEF LogInv, CountInv, Settled
  <2>4. \A c \in Clients : \A j, k \in DOMAIN Live(c) : j < k => Before(Live(c)[j], Live(c)[k])
    BY DEF LogInv, LiveInv
  <2> QED  BY <2>2, <2>3, <2>4 DEF StreamFaithful, Before
<1> QED
  BY <1>1, ConsoleInitInv, ConsoleStep, LogNextInv, PTL DEF ConsoleSpec

(* Whatever fails and whenever the server is stopped, the error Run returns is
   exactly what happened (OutcomeHonest), for every set of listeners. *)
THEOREM OutcomeIsHonest == ConsoleSpec => []OutcomeHonest
<1>1. WebInv => OutcomeHonest
  <2> SUFFICES ASSUME WebInv PROVE OutcomeHonest
    OBVIOUS
  <2>1. CASE stage # "returned"
    BY <2>1 DEF WebInv, StageInv, OutcomeHonest, NoError
  <2>2. CASE stage = "returned"
    <3>1. outcome.bind => bound = {} /\ \A r \in Requests : request[r] = "none"
      BY <2>2 DEF WebInv, ReturnInv, HistoryInv
    <3>2. ASSUME ~outcome.bind
          PROVE  /\ outcome.serve = broke
                 /\ outcome.shutdown # {} => expired
                 /\ outcome = NoError => cancelled
      BY <2>2, <3>2 DEF WebInv, FailuresInv, ReturnInv, NoError
    <3> QED  BY <3>1, <3>2 DEF OutcomeHonest
  <2> QED  BY <2>1, <2>2
<1> QED
  BY <1>1, ConsoleInitInv, ConsoleStep, WebNextInv, PTL DEF ConsoleSpec

(* An event whose Log call returned nil stays readable until as many rotations
   began as files are kept, and the files hold the events in their order
   (AckedKept), for any number of files and events and for any number of
   failing calls and crashes. *)
THEOREM AckedStayReadable == ConsoleSpec => []AckedKept
<1>1. AuditInv => AckedKept
  <2> SUFFICES ASSUME AuditInv PROVE AckedKept
    OBVIOUS
  <2>1. \A a \in acked : ~a.behind /\ drops - a.drops < Generations =>
           \E f \in Files : gen[f] # Absent /\ a.ev \in Readable(gen[f])
    BY DEF AuditInv, Sound, Keeps
  <2> QED  BY <2>1 DEF AuditInv, Sound, Ordered, AckedKept
<1> QED
  BY <1>1, ConsoleInitInv, ConsoleStep, AuditNextInv, PTL DEF ConsoleSpec

(* A save that nobody else wrote alongside holds once it is answered, and
   nothing is in force that the file has not held (SavedSettingsHold), for
   every set of savers, requests and shipped documents and for any number of
   failing calls, edits and stops. *)
THEOREM SettingsHold == ConsoleSpec => []SavedSettingsHold
<1>1. SettingsInv => SavedSettingsHold
  BY DEF SettingsInv
<1> QED
  BY <1>1, ConsoleInitInv, ConsoleStep, SettingsNextInv, PTL DEF ConsoleSpec
=============================================================================
