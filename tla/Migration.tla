------------------------------ MODULE Migration ------------------------------
(***************************************************************************)
(* Documents of older schemas as the catalogues they load as, and the      *)
(* legacy data a boot adds.  What was a profile is a model now: the        *)
(* defaults of its runtime, its own arguments, the physical model file and *)
(* the listening address become one argument list.                         *)
(*                                                                         *)
(* Legacy data is a record [version, runtimes, physical, profiles]:        *)
(*    runtimes   id -> [name, args, env]                                   *)
(*    physical   id -> [file, args]        models of the time              *)
(*    profiles   id -> [runtime, model, args, host, env, active]           *)
(*    pipelines  id -> [body, entries]     version 7 and later only        *)
(***************************************************************************)
EXTENDS Integers, Sequences

CONSTANTS
    HostFlag,   \* --host; a port is folded the same way
    NoHost,     \* the profile names no host
    NoId        \* the identity of a pipeline entry that has none yet

HasFlag(args) == \E i \in DOMAIN args : args[i] = HostFlag

\* The listening address is appended unless the arguments already set it.
Folded(args, host) ==
    IF host = NoHost \/ HasFlag(args) THEN args ELSE args \o <<HostFlag, host>>

Defaults(old, r) == IF r \in DOMAIN old.runtimes THEN old.runtimes[r].args ELSE <<>>

\* What the physical model of a profile adds; a schema may drop its arguments.
Physical(old, m, withArgs) ==
    IF m \notin DOMAIN old.physical THEN <<>>
    ELSE old.physical[m].file \o (IF withArgs THEN old.physical[m].args ELSE <<>>)

LegacyRuntimes(old) ==
    [r \in DOMAIN old.runtimes |->
        [name |-> old.runtimes[r].name, body |-> <<>>, env |-> old.runtimes[r].env]]

LegacyModel(old, p, physical, active) ==
    [runtime |-> p.runtime,
     body    |-> [active |-> active,
                  args   |-> Folded(Defaults(old, p.runtime) \o p.args \o physical, p.host)],
     env     |-> p.env]

MigrateV5(old) ==
    [runtimes  |-> LegacyRuntimes(old),
     models    |-> [p \in DOMAIN old.profiles |->
                      LET prof == old.profiles[p]
                      IN  LegacyModel(old, prof, Physical(old, prof.model, TRUE), prof.active)],
     pipelines |-> <<>>]

\* Version 6 has models already, without physical files.
MigrateV6ToV7(old) ==
    [runtimes  |-> LegacyRuntimes(old),
     models    |-> [m \in DOMAIN old.profiles |->
                      LegacyModel(old, old.profiles[m], <<>>, old.profiles[m].active)],
     pipelines |-> <<>>]

\* Entries without an identity get one; here and at load from their place.
Identified(p, entries, base) ==
    [i \in DOMAIN entries |->
        IF entries[i].id = NoId THEN [entries[i] EXCEPT !.id = <<p, base + i>>] ELSE entries[i]]

BackfillPipelineEntryIDs(d) ==
    [d EXCEPT !.pipelines =
        [p \in DOMAIN d.pipelines |->
            [d.pipelines[p] EXCEPT !.entries = Identified(p, @, 0)]]]

\* load() on a file that parses.
Loaded(f) ==
    BackfillPipelineEntryIDs(
        CASE f.version = 5 -> MigrateV5(f)
          [] f.version = 6 -> MigrateV6ToV7(f)
          [] f.version > 6 -> [runtimes |-> f.runtimes, models |-> f.models,
                               pipelines |-> f.pipelines])

-----------------------------------------------------------------------------
\* profiles.json, runtimes.json and models.json: arguments of physical models
\* are not carried over.
OldStoreModels(old) ==
    [p \in DOMAIN old.profiles |->
        LET prof == old.profiles[p]
        IN  LegacyModel(old, prof, Physical(old, prof.model, FALSE), prof.active)]

\* goal.json: a seeded model is always active.
SeededModels(old) ==
    [p \in DOMAIN old.profiles |->
        LET prof == old.profiles[p]
        IN  LegacyModel(old, prof, Physical(old, prof.model, TRUE), TRUE)]
=============================================================================
