------------------------------ MODULE Archives ------------------------------
(***************************************************************************)
(* The command line's archives: backups of the deployment, and bundles for *)
(* hosts without a network.  They may be damaged where they are kept, and   *)
(* are unpacked in one fixed directory of their kind, which some failures  *)
(* leave behind for the next command to find.                              *)
(***************************************************************************)
CONSTANTS ArchiveNames, \* archives that commands name
          Unpackers     \* `backup restore`, or `bundle install`, commands

VARIABLES kind,        \* what the archives are: backups or bundles
          database,    \* the archive its data came from; ruined by half a restore
          configured,  \* the archive the configuration files came from, or several
          first,       \* those that were there first
          kept,        \* each archive as it is kept
          unpacker,    \* each command that unpacks one
          held,        \* the archives in the fixed directory
          torn,        \* those of them that tar did not unpack to the end
          spoilt       \* an earlier command left it behind

archiveVars == <<kind, database, configured, first, kept, unpacker, held, torn, spoilt>>

OwnData == "own"
Parts == {"main", "config"}
NoArchive == [made |-> FALSE, parts |-> {}, damaged |-> {}]
RestingUnpacker == [at |-> "rest", asked |-> OwnData, picked |-> OwnData, verify |-> TRUE, dry |-> FALSE,
                    skip |-> {}, inPlace |-> FALSE, put |-> {}, said |-> "none", stray |-> FALSE]

(* Those that use the directory now.                                       *)
Busy == {u \in Unpackers : unpacker[u].at \notin {"rest", "over"} /\ ~unpacker[u].inPlace}

ArchivesInit ==
    /\ kind \in {"backup", "bundle"} /\ database = OwnData
    /\ configured \in IF kind = "backup" THEN {OwnData} ELSE {OwnData, "absent"}
    /\ first = configured
    /\ kept = [a \in ArchiveNames |-> NoArchive]
    /\ unpacker = [u \in Unpackers |-> RestingUnpacker]
    /\ held = {} /\ torn = {} /\ spoilt = FALSE

(* A part, or the metadata with the checksums, is altered or lost where    *)
(* the archive is kept.                                                    *)
Damage(a) ==
    /\ kept[a].made /\ kept[a].damaged = {} /\ a \notin held
    /\ \E part \in kept[a].parts \cup {"metadata"} : kept' = [kept EXCEPT ![a].damaged = {part}]
    /\ UNCHANGED <<kind, database, configured, first, unpacker, held, torn, spoilt>>
-----------------------------------------------------------------------------
Packs(a, parts) == ~kept[a].made /\ kept' = [kept EXCEPT ![a] = [made |-> TRUE, parts |-> parts, damaged |-> {}]]

(* createBackup: a dump that fails ends it, unless it is skipped; files    *)
(* that do not exist are left out, the dump and they from an audit-only    *)
(* backup.  Manifests and audit log are exported too if that succeeds; no  *)
(* restore reads them.  The metadata lists a checksum of each part.        *)
PackBackup(a) ==
    /\ kind = "backup" /\ \E parts \in SUBSET Parts : Packs(a, parts)
    /\ UNCHANGED <<kind, database, configured, first, unpacker, held, torn, spoilt>>

(* createBundle: images that cannot be pulled or saved, and files that do  *)
(* not exist, are left out.                                                *)
PackBundle(a) ==
    /\ kind = "bundle" /\ \E parts \in SUBSET Parts : Packs(a, parts)
    /\ UNCHANGED <<kind, database, configured, first, unpacker, held, torn, spoilt>>
-----------------------------------------------------------------------------
(* A command starts, beside those that use the directory, which it         *)
(* disturbs as they disturb it.                                            *)
Begins(u, how) ==
    unpacker' = [v \in Unpackers |->
        IF v = u THEN [how EXCEPT !.stray = spoilt \/ Busy # {}]
        ELSE IF v \in Busy THEN [unpacker[v] EXCEPT !.stray = TRUE] ELSE unpacker[v]]

(* --no-verify, --dry-run of a restore, and what is skipped: --skip-db or  *)
(* --skip-images, and --skip-config.                                       *)
Options == [verify : BOOLEAN, dry : BOOLEAN, skip : SUBSET Parts]
Told(a, options) ==
    [RestingUnpacker EXCEPT !.at = "picking", !.asked = a, !.verify = options.verify,
                            !.dry = options.dry, !.skip = options.skip]

(* The directory is made, unless it is there, and tar puts the archive     *)
(* beside whatever it holds.                                               *)
Unpack(u, a, options) ==
    /\ unpacker[u].at = "rest" /\ kept[a].made /\ (options.dry => kind = "backup")
    /\ Begins(u, Told(a, options))
    /\ held' = held \cup {a} /\ torn' = torn \ {a}
    /\ UNCHANGED <<kind, database, configured, first, kept, spoilt>>

(* tar throws, having unpacked some of it or nothing.                      *)
TarFails(u, a) ==
    /\ unpacker[u].at = "rest" /\ kept[a].made
    /\ Begins(u, [RestingUnpacker EXCEPT !.at = "over", !.asked = a, !.said = "failed"])
    /\ \/ held' = held \cup {a} /\ torn' = torn \cup {a}
       \/ UNCHANGED <<held, torn>>
    /\ spoilt' = TRUE
    /\ UNCHANGED <<kind, database, configured, first, kept>>

(* A bundle that is a directory is installed from where it is.             *)
UseInPlace(u, a, options) ==
    /\ kind = "bundle" /\ unpacker[u].at = "rest" /\ kept[a].made /\ ~options.dry
    /\ unpacker' = [unpacker EXCEPT ![u] = [Told(a, options) EXCEPT !.at = "verifying", !.picked = a,
                                                                    !.inPlace = TRUE]]
    /\ UNCHANGED <<kind, database, configured, first, kept, held, torn, spoilt>>

CommandEnds(u, said) == unpacker' = [unpacker EXCEPT ![u].at = "over", ![u].said = said]
Removes(u) == IF unpacker[u].inPlace THEN UNCHANGED <<held, torn, spoilt>>
              ELSE held' = {} /\ torn' = {} /\ spoilt' = FALSE
LeavesBehind(u) == UNCHANGED <<held, torn>> /\ spoilt' = (spoilt \/ ~unpacker[u].inPlace)

\* Mutated: a refused restore keeps the directory.
RefusalLeaves(u) == CommandEnds(u, "refused") /\ UNCHANGED <<held, torn, spoilt>>
(* No archive, no metadata or a wrong checksum: a restore removes the      *)
(* directory, an installation does not.                                    *)
Refuses(u) == CommandEnds(u, "refused") /\ IF kind = "backup" THEN Removes(u) ELSE LeavesBehind(u)

(* The first entry with the right prefix.                                  *)
Pick(u) ==
    /\ unpacker[u].at = "picking"
    /\ \E a \in held : unpacker' = [unpacker EXCEPT ![u].at = "verifying", ![u].picked = a]
    /\ UNCHANGED <<kind, database, configured, first, kept, held, torn, spoilt>>

Picked(u) == kept[unpacker[u].picked]
Gone(u) == ~unpacker[u].inPlace /\ unpacker[u].picked \notin held
Torn(u) == ~unpacker[u].inPlace /\ unpacker[u].picked \in torn
\* Mutated: only that the parts are there.
CountsOnly(u) == ~Gone(u)
(* The checksums that the metadata lists agree; nothing is told of damage  *)
(* to the metadata.                                                        *)
Sound(u) == ~Gone(u) /\ (unpacker[u].verify => Picked(u).damaged \subseteq {"metadata"} /\ ~Torn(u))

Refused(u) ==
    /\ \/ unpacker[u].at = "picking" /\ held = {}
       \/ unpacker[u].at = "verifying" /\ (~Sound(u) \/ "metadata" \in Picked(u).damaged \/ Torn(u))
    /\ Refuses(u)
    /\ UNCHANGED <<kind, database, configured, first, kept>>

(* The metadata is no JSON.                                                *)
MetadataThrows(u) ==
    /\ unpacker[u].at = "verifying" /\ ~Gone(u) /\ ("metadata" \in Picked(u).damaged \/ Torn(u))
    /\ CommandEnds(u, "failed") /\ LeavesBehind(u)
    /\ UNCHANGED <<kind, database, configured, first, kept>>

Verified(u) ==
    /\ unpacker[u].at = "verifying" /\ Sound(u)
    /\ IF unpacker[u].dry THEN CommandEnds(u, "complete") /\ Removes(u)
       ELSE unpacker' = [unpacker EXCEPT ![u].at = "main"] /\ UNCHANGED <<held, torn, spoilt>>
    /\ UNCHANGED <<kind, database, configured, first, kept>>

(* What is found of the archive: all of it but what is damaged, and the    *)
(* data unless the metadata says that there are none.                      *)
Surely(u) ==
    IF Gone(u) \/ Torn(u) THEN {}
    ELSE Picked(u).parts \ (Picked(u).damaged \cup IF "metadata" \in Picked(u).damaged THEN {"main"} ELSE {})
Found(u) == {parts \in SUBSET Picked(u).parts : Surely(u) \subseteq parts /\ (Gone(u) => parts = {})}

\* Mutated: what is to be skipped is looked up under the other name.
SkipsTheOther(u, parts) == parts \ (IF unpacker[u].skip = {} THEN {} ELSE Parts \ unpacker[u].skip)
Wanted(u, parts) == parts \ unpacker[u].skip

(* psql runs the dump if the archive has one, and says nothing of the      *)
(* statements that fail; images are loaded, and those that fail are passed *)
(* over.                                                                   *)
InstallMain(u) ==
    /\ unpacker[u].at = "main"
    /\ \E parts \in Found(u) : LET found == Wanted(u, parts) \cap {"main"} IN
       \E loaded \in IF kind = "backup" THEN {found} ELSE SUBSET found :
        /\ database' \in IF kind = "backup" /\ loaded # {} THEN {unpacker[u].picked, "ruined"} ELSE {database}
        /\ unpacker' = [unpacker EXCEPT ![u].at = "settings", ![u].put = loaded]
    /\ UNCHANGED <<kind, configured, first, kept, held, torn, spoilt>>

(* psql itself fails: the data are half restored and the directory stays.  *)
RestoreFails(u) ==
    /\ unpacker[u].at = "main" /\ kind = "backup"
    /\ \E parts \in Found(u) : "main" \in Wanted(u, parts)
    /\ database' = "ruined" /\ CommandEnds(u, "failed") /\ LeavesBehind(u)
    /\ UNCHANGED <<kind, configured, first, kept>>

(* A restore replaces the files, an installation leaves those there are.   *)
SettingsAre(to) == configured' = to /\ first' = IF first = "absent" THEN to ELSE first
InstallSettings(u) ==
    /\ unpacker[u].at = "settings"
    /\ \E parts \in Found(u) : LET found == Wanted(u, parts) \cap {"config"} IN
        /\ SettingsAre(IF found # {} /\ (kind = "backup" \/ configured = "absent")
                     THEN unpacker[u].picked ELSE configured)
        /\ unpacker' = [unpacker EXCEPT ![u].at = "cleaning", ![u].put = @ \cup found]
    /\ UNCHANGED <<kind, database, kept, held, torn, spoilt>>

(* A file cannot be read or written, after some.                           *)
SettingsFail(u) ==
    /\ unpacker[u].at = "settings"
    /\ \E parts \in Found(u) : "config" \in Wanted(u, parts)
    /\ \E to \in {configured, "several"} :
        SettingsAre(IF kind = "backup" \/ configured = "absent" THEN to ELSE configured)
    /\ CommandEnds(u, "failed") /\ LeavesBehind(u)
    /\ UNCHANGED <<kind, database, kept>>

(* The directory is removed, whatever it holds.                            *)
Completes(u) ==
    /\ unpacker[u].at = "cleaning" /\ CommandEnds(u, "complete") /\ Removes(u)
    /\ UNCHANGED <<kind, database, configured, first, kept>>

(* The command is interrupted between two of its steps.                    *)
Interrupted(u) ==
    /\ unpacker[u].at \notin {"rest", "over"} /\ CommandEnds(u, "failed") /\ LeavesBehind(u)
    /\ UNCHANGED <<kind, database, configured, first, kept>>

ArchivesNext ==
    \/ \E a \in ArchiveNames : Damage(a) \/ PackBackup(a) \/ PackBundle(a)
    \/ \E u \in Unpackers :
        \/ \E a \in ArchiveNames : \/ \E options \in Options : Unpack(u, a, options) \/ UseInPlace(u, a, options)
                                   \/ TarFails(u, a)
        \/ Pick(u) \/ Refused(u) \/ MetadataThrows(u) \/ Verified(u) \/ InstallMain(u) \/ RestoreFails(u)
        \/ InstallSettings(u) \/ SettingsFail(u) \/ Completes(u) \/ Interrupted(u)

ArchivesSpec == ArchivesInit /\ [][ArchivesNext]_archiveVars
-----------------------------------------------------------------------------
\* Types; an archive holds parts of its kind (backup.ts:76-242, bundle.ts:67-268).
ArchivesTypeOK ==
    /\ database \in ArchiveNames \cup {OwnData, "ruined"}
    /\ configured \in ArchiveNames \cup {OwnData, "absent", "several"}
    /\ \A a \in ArchiveNames : /\ kept[a].damaged \subseteq kept[a].parts \cup {"metadata"}
                               /\ kept[a].parts \subseteq Parts
    /\ torn \subseteq held /\ \A a \in held : kept[a].made
    /\ held # {} => spoilt \/ Busy # {}

\* Unless an earlier command left its directory behind or another shares it, a restore or
\* an installation unpacks the archive it was given, and what it verified is undamaged
\* until it is done, but for the metadata, and for a directory installed in place; a
\* restore that says complete without being a rehearsal has run the dump and replaced the
\* settings the archive has undamaged, except what it was told to skip; what one refuses
\* changes nothing, nor does one put in place what it was told to skip; and a bundle
\* never replaces settings that are there (backup.ts:248-381, bundle.ts:274-391).
UnpacksWhatWasAsked ==
    /\ \A u \in Unpackers : LET it == unpacker[u]
                                of == kept[it.asked] IN
        /\ ~it.stray => it.picked \in {OwnData, it.asked}
        /\ (kind = "backup" /\ it.said = "complete" /\ ~it.dry /\ ~it.stray /\ "metadata" \notin of.damaged)
            => of.parts \ (it.skip \cup of.damaged) \subseteq it.put
        /\ (it.verify /\ it.at \in {"main", "settings", "cleaning"} /\ ~it.stray /\ ~it.inPlace)
            => kept[it.picked].damaged \subseteq {"metadata"}
        /\ it.said = "refused" => it.put = {}
        /\ it.put \cap it.skip = {}
    /\ kind = "bundle" => configured = first
=============================================================================
