------------------------------ MODULE MCSystem ------------------------------
(* Instances of the modules about the installation itself for TLC: its       *)
(* updates, its backups and bundles, its templates and its domains. A        *)
(* behaviour is of one of them, chosen at the start.                         *)
EXTENDS SelfUpdate

CONSTANTS Parts,
          MaxProjects, Domains, Admin, Targets, Addrs, Clients, Editors, TTL, Timeout, MaxChanges,
          Slugs, MaxIds, Importers, MaxProjectFiles, MaxTotalFiles, MaxTotalBytes, MaxExports, UserChanges, BundleFaults, MaxCrashes,
          InstallIds, MaxGens, MaxBackups, InstallKills,
          TemplateIds, Paths, MaxFiles, Requests, SourceEdits, MaxWrites, FileFaults,
          FragIds, Anchors, Blocks, Keys, MaxInstances, FragEdits

VARIABLES part
VARIABLES proj, rows, nextRow, localRow, bound, cache, nextSweep, flights, conn, edit, certs, changes
VARIABLES host, tables, stored, dir, secrets, mapped, settings, next, staging, export, bundle, imp, counted
VARIABLES db, hot, torn, dirs, zips, server, pending, gen, back, archive, rest, calm, used
VARIABLES log, row, nextId, files, seeded, project, req, begun
VARIABLES frag, build, edits

D == INSTANCE DomainRoutes
ASSUME RouteBounds == D!BoundsOK
R == INSTANCE RecoveryBundle WITH MaxChanges <- UserChanges, MaxFaults <- BundleFaults, rows <- tables, proj <- stored, spent <- counted
ASSUME BundleBounds == R!BoundsOK
I == INSTANCE InstallBackup WITH MaxIds <- InstallIds, MaxKills <- InstallKills, spent <- used
ASSUME InstallBounds == I!BoundsOK
T == INSTANCE UserTemplates WITH MaxIds <- TemplateIds, MaxEdits <- SourceEdits, MaxFaults <- FileFaults, dir <- files, spent <- begun
ASSUME TemplateBounds == T!BoundsOK
B == INSTANCE ComposeBuilder WITH MaxEdits <- FragEdits, req <- build
ASSUME BuilderBounds == B!BoundsOK

Symmetry == Permutations(Clients) \cup Permutations(Targets)

Releases == {<<1, 0, 0>>, <<1, 0, 1>>, <<1, 1, 0>>}
Installed == <<1, 0, 0>>

(* A database whose volume is data, and a service whose volume is db-data.   *)
BuilderBlocks == {
    [service |-> <<"db">>, vols |-> {<<"data">>},
     vars |-> {[key |-> "Port", default |-> FALSE, gen |-> FALSE]}],
    [service |-> <<"web">>, vols |-> {<<"db", "data">>},
     vars |-> {[key |-> "Port", default |-> TRUE, gen |-> FALSE], [key |-> "Pw", default |-> FALSE, gen |-> TRUE]}]}
BuilderKeys == {<< >>, <<"db", 2>>}

-----------------------------------------------------------------------------
dvars == <<proj, rows, nextRow, localRow, bound, cache, nextSweep, flights, conn, edit, certs, changes>>
rvars == <<host, tables, stored, dir, secrets, mapped, settings, next, staging, export, bundle, imp, counted>>
ivars == <<db, hot, torn, dirs, zips, server, pending, gen, back, archive, rest, calm, used>>
tvars == <<log, row, nextId, files, seeded, project, req, begun>>
fvars == <<frag, build, edits>>
vars == <<part, yvars, dvars, rvars, ivars, tvars, fvars>>

(* A module that is not the part's starts in one state. Slugs and paths are  *)
(* interchangeable, so one choice of them is enough.                         *)
MCInit ==
    /\ part \in Parts
    /\ D!Init /\ I!Init /\ Init /\ R!Init /\ T!Init /\ B!Init
    /\ stored[1].slug = CHOOSE s \in Slugs : TRUE
    /\ log = CHOOSE s \in [1..MaxFiles -> Paths] : \A i, j \in 1..MaxFiles : i # j => s[i] # s[j]
    /\ latest = Current /\ (part # "update" => os = "unix")
    /\ part # "bundle" => stored[1].host = 0 /\ dir[1].n = 1 /\ dir[1].b = 0
    /\ part # "builder" => \A f \in FragIds : frag[f] = {}

MCNext ==
    /\ UNCHANGED part
    /\ \/ part = "update" /\ Next /\ UNCHANGED <<dvars, rvars, ivars, tvars, fvars>>
       \/ part = "domains" /\ D!Next /\ UNCHANGED <<yvars, rvars, ivars, tvars, fvars>>
       \/ part = "bundle" /\ R!Next /\ UNCHANGED <<yvars, dvars, ivars, tvars, fvars>>
       \/ part = "backup" /\ I!Next /\ UNCHANGED <<yvars, dvars, rvars, tvars, fvars>>
       \/ part = "templates" /\ T!Next /\ UNCHANGED <<yvars, dvars, rvars, ivars, fvars>>
       \/ part = "builder" /\ B!Next /\ UNCHANGED <<yvars, dvars, rvars, ivars, tvars>>

MCSpec == MCInit /\ [][MCNext]_vars

-----------------------------------------------------------------------------
(* What runs was verified and is no file of a package; an upgrade by policy  *)
(* is within the policy's ceiling, upgrades from the app never go back to an *)
(* older release, and no download is left lying about (Apply, autoApply,     *)
(* applyMu).                                                                 *)
OnlyVerifiedRuns ==
    /\ [](part = "update" =>
            TypeOK /\ NeverUnverified /\ PackageIsRespected /\ FilesAreOwned)
    /\ AutoWithinCeiling /\ InAppNeverGoesBack

(* A request is sent to the service its mapping names over its own name's    *)
(* handshake; a client that leaves makes no backend "down", nothing cached   *)
(* is listed again and expired entries are swept (CombinedHandler,           *)
(* resolveBackendCached, storeLocked).                                       *)
RoutesFollowMappings ==
    /\ [](part = "domains" =>
            D!TypeOK /\ D!AnswerIsOfTheMapping /\ D!ProxiedUnderItsOwnName
            /\ D!NoClientPoisonsTheCache /\ D!NoNeedlessListing)
    /\ [][D!SweepStep]_dvars

(* A restored project has its files, its host and its rules' webhooks, an    *)
(* import overwrites nothing, a second one adds nothing, a staging directory *)
(* belongs to an import and a bundle with files is sealed                    *)
(* (applyRecoveryBundle, handleExportRecoveryBundle).                        *)
ImportIsWhole ==
    /\ [](part = "bundle" =>
            R!TypeOK /\ R!RowHasFiles /\ R!StagingIsOwned /\ R!FilesAreSealed
            /\ R!ReimportAddsNothing /\ R!RestoredOnItsHost /\ R!RuleFindsItsHook)
    /\ [][R!OverwritesNothing]_rvars

(* A revision in an archive has its zip, a sealed archive is restored whole  *)
(* or not at all, and never over an installation without force               *)
(* (writeArchive, OpenFrom, checkTarget).                                    *)
RestoreIsWhole ==
    /\ [](part = "backup" => I!TypeOK /\ I!RevisionsHaveZips /\ I!SealedIsAllOrNothing)
    /\ [][I!PutsOverNothing]_ivars

(* A template at rest is whole and no project is seeded past the cap         *)
(* (storeUserTemplate, seedProjectFiles).                                    *)
TemplatesAreWhole ==
    part = "templates" => T!TypeOK /\ T!NoHalfTemplates /\ T!SeededWithinCap

(* A built file has every service under a key of its own, its aliases        *)
(* resolve, and instances of one block have volumes of their own             *)
(* (resolveSeedFiles, AssembleCompose).                                      *)
BuiltFileIsSound ==
    part = "builder" =>
        B!TypeOK /\ B!AliasesResolve /\ B!NoServiceDropped /\ B!ClustersKeepTheirData

(* Comments of the code that TLC refutes (see the README).                   *)
NoOrphanMappings == part = "domains" => D!NoOrphanMappings
ExportIsImportable == part = "bundle" => R!ExportIsImportable
OnlyForgedBundlesStop == part = "bundle" => R!OnlyForgedBundlesStop
WholeOrNothing == part = "bundle" => R!WholeOrNothing
NamesStayUnique == part = "bundle" => R!NamesStayUnique
NoOrphans == part = "bundle" => R!NoOrphans
ArchiveIsConsistent == part = "backup" => I!ArchiveIsConsistent
ReplacedWholesale == part = "backup" => I!ReplacedWholesale
FolderIsItsProjects == part = "backup" => I!FolderIsItsProjects
SnapshotIsLiteral == part = "templates" => T!SnapshotIsLiteral
SeededFromWhole == part = "templates" => T!SeededFromWhole
TemplateWithinCap == part = "templates" => T!TemplateWithinCap
DeletedLeavesNothing == part = "templates" => T!DeletedLeavesNothing
NoSharedVolumes == part = "builder" => B!NoSharedVolumes
NoEmptyVariable == part = "builder" => B!NoEmptyVariable
=============================================================================
