-------------------------- MODULE DatabaseBackups --------------------------
(***************************************************************************)
(* One GeassDatabase, the server that is made for it and the archives its  *)
(* backups go to (internal/controller/geassdatabase_controller.go,         *)
(* geassdatabase_backup.go, geassdatabase_dumpbackup.go), with the janitor *)
(* of the archives (geassbackuparchive_controller.go).  An archive is a    *)
(* record of the cluster and a folder of a bucket, both named by a number. *)
(* Continuous is Postgres, whose server is told where to write its log;    *)
(* Snapshot is MySQL and SQLite, whose nightly Job is.                     *)
(***************************************************************************)
EXTENDS Naturals, FiniteSets

CONSTANTS
    BackupKinds,   \* the kinds of backups there are: a subset of {"Continuous", "Snapshot"}
    MaxArchives,   \* archives the database has had
    MaxEdits,      \* changes of mind
    BackupHappens

(* stale: a pass reads the archives as they were before a write of its     *)
(* own; hurried: the database is moved before its status says where it     *)
(* was, or deleted before the move is done; neglected: a server goes on    *)
(* writing to a retired archive for as long as that is kept; ignored: an   *)
(* error of deleteTargetResources, which the caller passes over;           *)
(* interrupted: a pass stops between removing the server and retiring its  *)
(* archive, and the next one is asked for something else.                  *)
BackupIncidents == {"stale", "hurried", "neglected", "ignored", "interrupted"}

ASSUME BackupsAssumption ==
    /\ BackupKinds \subseteq {"Continuous", "Snapshot"} /\ MaxArchives \in Nat /\ MaxEdits \in Nat
    /\ BackupHappens \subseteq BackupIncidents

Namespace == 1 .. 2
Archive == 1 .. MaxArchives
Server == 0 .. MaxEdits + 1
NoServer == [id |-> 0, dest |-> 0, ready |-> FALSE]
NoPlan == [wanted |-> FALSE, archive |-> 0]
FirstSpec == [ns |-> 1, backups |-> TRUE, deployed |-> TRUE, deleted |-> FALSE]

VARIABLES
    backupKind,   \* databaseBackupKind
    spec,         \* what is asked for: ns, backups, deployed, deleted
    dbThere,     \* the GeassDatabase is there
    targetNS,     \* status.targetNamespace, 0 for none
    servers,      \* the server of each namespace, the archive it writes to
    made,         \* servers made so far
    edits,        \* changes of mind so far
    archives,     \* the records: none, live, retired, due
    archiveCache, \* the records as the operator's cache has them
    folder,       \* the servers whose data is in a folder
    final,        \* the last backup: none, running, overdue, completed, failed
    dbPass,       \* where a pass is
    asked,        \* spec as the pass read it
    backupPlan          \* planBackups: wanted, archive (0: as it is)

dbPassVars == <<dbPass, asked, backupPlan>>
backupVars == <<backupKind, spec, dbThere, targetNS, servers, made, edits, archives, archiveCache, folder, final, dbPassVars>>

BackupsInit ==
    /\ backupKind \in BackupKinds /\ spec = FirstSpec
    /\ dbThere = TRUE /\ targetNS = 0 /\ servers = [n \in Namespace |-> NoServer] /\ made = 0 /\ edits = 0
    /\ archives = [a \in Archive |-> "none"] /\ archiveCache = archives /\ folder = [a \in Archive |-> {}] /\ final = "none"
    /\ dbPass = "idle" /\ asked = spec /\ backupPlan = NoPlan

-----------------------------------------------------------------------------
(* What goes on around the operator.                                       *)

Known(n) == (dbPass # "idle" => asked.ns = n) /\ \A m \in Namespace : servers[m].id # 0 => m = n

(* The server is gone and its archive is not retired yet.                  *)
Dangling == \E a \in Archive : archives[a] = "live" /\ \E id \in folder[a] : \A n \in Namespace : servers[n].id # id

Edits ==
    /\ dbThere /\ ~spec.deleted /\ edits < MaxEdits /\ edits' = edits + 1 /\ (Dangling => "interrupted" \in BackupHappens)
    /\ \/ spec' = [spec EXCEPT !.backups = ~@]
       \/ spec' = [spec EXCEPT !.deployed = ~@]
       \/ ((dbPass = "idle" /\ Known(targetNS)) \/ "hurried" \in BackupHappens) /\ spec' = [spec EXCEPT !.ns = 3 - @]
       \/ (Known(spec.ns) \/ "hurried" \in BackupHappens) /\ spec' = [spec EXCEPT !.deleted = TRUE]
    /\ UNCHANGED <<backupKind, dbThere, targetNS, servers, made, archives, archiveCache, folder, final, dbPassVars>>

(* A server starts; one that is told where writes its backups there.       *)
ServerRuns(n) ==
    /\ servers[n].id # 0
    /\ \/ ~servers[n].ready /\ servers' = [servers EXCEPT ![n].ready = TRUE] /\ UNCHANGED folder
       \/ /\ servers[n].dest # 0 /\ servers[n].id \notin folder[servers[n].dest]
          /\ folder' = [folder EXCEPT ![servers[n].dest] = @ \cup {servers[n].id}] /\ UNCHANGED servers
    /\ UNCHANGED <<backupKind, edits, spec, dbThere, targetNS, made, archives, archiveCache, final, dbPassVars>>

(* The last backup may end, or never: FinalBackupWait runs out.            *)
FinalBackupEnds ==
    /\ final \in {"running", "overdue"} /\ final' \in {"completed", "failed"}
    /\ UNCHANGED <<backupKind, edits, spec, dbThere, targetNS, servers, made, archives, archiveCache, folder, dbPassVars>>

FinalBackupOverdue ==
    /\ final = "running" /\ final' = "overdue"
    /\ UNCHANGED <<backupKind, edits, spec, dbThere, targetNS, servers, made, archives, archiveCache, folder, dbPassVars>>

ArchiveCacheCatchesUp ==
    /\ archiveCache # archives /\ archiveCache' = archives
    /\ UNCHANGED <<backupKind, edits, spec, dbThere, targetNS, servers, made, archives, folder, final, dbPassVars>>

(* DeletedBackupRetention is over.                                         *)
ArchiveDue(a) ==
    /\ archives[a] = "retired" /\ archives' = [archives EXCEPT ![a] = "due"]
    /\ (\E n \in Namespace : servers[n].dest = a) => "neglected" \in BackupHappens
    /\ UNCHANGED <<backupKind, edits, spec, dbThere, targetNS, servers, made, archiveCache, folder, final, dbPassVars>>

-----------------------------------------------------------------------------
(* The janitor: the data first, then the record.                           *)

(* An archive that was left live by a database that is gone.               *)
RetireOrphan(a) ==
    /\ archives[a] = "live" /\ ~dbThere /\ archives' = [archives EXCEPT ![a] = "retired"]
    /\ UNCHANGED <<backupKind, edits, spec, dbThere, targetNS, servers, made, archiveCache, folder, final, dbPassVars>>

(* Every archive here was made by this database; a record of backups that  *)
(* were only found goes without its data.                                  *)
purge(a) ==
    /\ archives[a] = "due"
    /\ IF folder[a] # {} THEN folder' = [folder EXCEPT ![a] = {}] /\ UNCHANGED archives
       ELSE archives' = [archives EXCEPT ![a] = "none"] /\ UNCHANGED folder
    /\ UNCHANGED <<backupKind, edits, spec, dbThere, targetNS, servers, made, archiveCache, final, dbPassVars>>

-----------------------------------------------------------------------------
(* The archives, as a pass sees and changes them.                          *)

ReadsArchives == archiveCache # archives => "stale" \in BackupHappens
liveArchives == {a \in Archive : archiveCache[a] = "live"}

(* A copy that is not the latest any more is refused.                      *)
retireLiveArchive ==
    /\ ReadsArchives /\ \A a \in liveArchives : archives[a] = "live"
    /\ archives' = [a \in Archive |-> IF a \in liveArchives THEN "retired" ELSE archives[a]]

(* The first name nobody has; one that is taken after all is an error,     *)
(* which the pass goes on from without a plan.                             *)
freeArchiveName(a) == archiveCache[a] = "none" /\ \A b \in 1 .. a - 1 : archiveCache[b] # "none"

ensureBackupArchive ==
    IF liveArchives # {} THEN UNCHANGED archives /\ \E a \in liveArchives : backupPlan' = [wanted |-> TRUE, archive |-> a]
    ELSE \E a \in Archive :
           /\ freeArchiveName(a)
           /\ IF archives[a] = "none" THEN archives' = [archives EXCEPT ![a] = "live"] /\ backupPlan' = [wanted |-> TRUE, archive |-> a]
              ELSE UNCHANGED archives /\ backupPlan' = [wanted |-> TRUE, archive |-> 0]

(* The storage is not there, or does not answer.                           *)
NoStorage ==
    /\ UNCHANGED archives
    /\ backupPlan' = [wanted |-> TRUE, archive |-> IF liveArchives = {} THEN 0 ELSE CHOOSE a \in liveArchives : TRUE]

-----------------------------------------------------------------------------
(* A pass of Reconcile.                                                    *)

around == <<backupKind, edits, spec, archiveCache, folder>>
Goes(step) == dbPass' = step /\ UNCHANGED <<asked, backupPlan>>
PassOver == dbPass' = "idle" /\ asked' = FirstSpec /\ backupPlan' = NoPlan

PassStarts ==
    /\ dbPass = "idle" /\ dbThere /\ asked' = spec /\ dbPass' = (IF spec.deleted THEN "final" ELSE "moved")
    /\ UNCHANGED <<around, dbThere, targetNS, servers, made, archives, final, backupPlan>>

deleteTargetResources(n) ==
    \E stays \in IF "ignored" \in BackupHappens THEN BOOLEAN ELSE {FALSE} :
        servers' = [servers EXCEPT ![n] = IF stays THEN @ ELSE NoServer]

(* The database has another namespace than it had: the server there goes,  *)
(* and its archive is retired.                                             *)

(* A mutant: a database that moves goes on in its old folder.              *)
KeepsArchive ==
    /\ \/ dbPass = "moved" /\ Goes("deployed") /\ UNCHANGED archives
          /\ IF targetNS \in {0, asked.ns} THEN UNCHANGED servers ELSE deleteTargetResources(targetNS)
       \/ dbPass = "retire" /\ Goes("deployed") /\ UNCHANGED <<servers, archives>>
    /\ UNCHANGED <<around, dbThere, targetNS, made, final>>

Moved ==
    /\ \/ /\ dbPass = "moved" /\ UNCHANGED archives
          /\ IF targetNS \in {0, asked.ns} THEN Goes("deployed") /\ UNCHANGED servers
             ELSE Goes("retire") /\ deleteTargetResources(targetNS)
       \/ dbPass = "retire" /\ retireLiveArchive /\ Goes("deployed") /\ UNCHANGED servers
    /\ UNCHANGED <<around, dbThere, targetNS, made, final>>

AwaitingDeploy ==
    /\ ~asked.deployed
    /\ \/ dbPass = "deployed" /\ deleteTargetResources(asked.ns) /\ Goes("awaiting") /\ UNCHANGED archives
       \/ dbPass = "awaiting" /\ retireLiveArchive /\ PassOver /\ UNCHANGED servers
    /\ UNCHANGED <<around, dbThere, targetNS, made, final>>

planBackups ==
    /\ dbPass = "deployed" /\ asked.deployed /\ dbPass' = "server" /\ UNCHANGED asked /\ ReadsArchives
    /\ IF asked.backups THEN ensureBackupArchive \/ NoStorage ELSE UNCHANGED archives /\ backupPlan' = NoPlan
    /\ UNCHANGED <<around, dbThere, targetNS, servers, made, final>>

(* What the server, or the nightly Job, is told: a plan that could not be  *)
(* made leaves it as it is.                                                *)
Dest(s) == IF backupPlan.wanted /\ backupPlan.archive = 0 THEN s.dest ELSE backupPlan.archive

reconcileServer ==
    /\ dbPass = "server" /\ Goes("backups")
    /\ LET old == servers[asked.ns]
           new == IF old.id = 0 THEN [NoServer EXCEPT !.id = made + 1] ELSE old
       IN  /\ made' = IF old.id = 0 THEN made + 1 ELSE made
           /\ servers' = [servers EXCEPT ![asked.ns] = IF backupKind = "Continuous" THEN [new EXCEPT !.dest = Dest(new)] ELSE new]
    /\ UNCHANGED <<around, dbThere, targetNS, archives, final>>

(* A server that does not run yet is looked at again later.                *)
reconcileBackupLifecycle ==
    /\ dbPass = "backups"
    /\ LET s == servers[asked.ns] IN
         IF ~s.ready THEN PassOver /\ UNCHANGED <<servers, archives>>
         ELSE /\ Goes(IF backupPlan.wanted THEN "ready" ELSE "wind")
              /\ servers' = [servers EXCEPT ![asked.ns].dest = IF s.id = 0 THEN @ ELSE Dest(s)] /\ UNCHANGED archives
    /\ UNCHANGED <<around, dbThere, targetNS, made, final>>

windDownBackups ==
    /\ dbPass = "wind" /\ retireLiveArchive /\ Goes("ready")
    /\ UNCHANGED <<around, dbThere, targetNS, servers, made, final>>

setReady ==
    /\ dbPass = "ready" /\ PassOver /\ targetNS' = asked.ns
    /\ UNCHANGED <<around, dbThere, servers, made, archives, final>>

(* A mutant: a last backup is waited for until it ends.                    *)
FinalBackupDone == liveArchives = {} \/ ~servers[asked.ns].ready \/ final \in {"completed", "failed"}

(* Deleting: the last backup is waited for, but not for ever.              *)
FinalBackupOver == liveArchives = {} \/ ~servers[asked.ns].ready \/ final \in {"overdue", "completed", "failed"}

(* One that cannot be asked for is done without.                           *)
finalizeBackups ==
    /\ dbPass = "final" /\ ReadsArchives
    /\ IF FinalBackupOver THEN Goes("last") /\ UNCHANGED final
       ELSE \/ final = "none" /\ final' = "running" /\ PassOver
            \/ final = "none" /\ Goes("last") /\ UNCHANGED final
            \/ final # "none" /\ PassOver /\ UNCHANGED final
    /\ UNCHANGED <<around, dbThere, targetNS, servers, made, archives>>

Deletes ==
    /\ \/ dbPass = "last" /\ retireLiveArchive /\ Goes("delete") /\ UNCHANGED <<servers, dbThere, final>>
       \/ /\ dbPass = "delete" /\ UNCHANGED archives /\ deleteTargetResources(asked.ns)
          /\ PassOver /\ dbThere' = FALSE /\ final' = "none"
    /\ UNCHANGED <<around, targetNS, made>>

DatabasePassFails ==
    /\ dbPass # "idle" /\ PassOver /\ (Dangling /\ spec # asked => "interrupted" \in BackupHappens)
    /\ UNCHANGED <<around, dbThere, targetNS, servers, made, archives, final>>

DatabasePass ==
    \/ PassStarts \/ Moved \/ AwaitingDeploy \/ planBackups \/ reconcileServer \/ reconcileBackupLifecycle \/ windDownBackups
    \/ setReady \/ finalizeBackups \/ Deletes

BackupsNext ==
    \/ Edits \/ (\E n \in Namespace : ServerRuns(n)) \/ FinalBackupEnds \/ FinalBackupOverdue \/ ArchiveCacheCatchesUp
    \/ (\E a \in Archive : ArchiveDue(a) \/ RetireOrphan(a) \/ purge(a)) \/ DatabasePass \/ DatabasePassFails

BackupsSpec == BackupsInit /\ [][BackupsNext]_backupVars

(* Passes go on, time does, the cache catches up and the janitor looks at  *)
(* what is left; failures of the operator end.  A last backup need not.    *)
BackupsFair ==
    /\ WF_backupVars(DatabasePass) /\ WF_backupVars(FinalBackupOverdue) /\ WF_backupVars(ArchiveCacheCatchesUp)
    /\ \A a \in Archive : WF_backupVars(RetireOrphan(a))
    /\ <>[][DatabasePassFails => DatabasePass]_backupVars

-----------------------------------------------------------------------------
(* At most one archive collects.                                           *)
BackupsTypeOK ==
    /\ backupKind \in BackupKinds /\ spec \in [ns : Namespace, backups : BOOLEAN, deployed : BOOLEAN, deleted : BOOLEAN]
    /\ dbThere \in BOOLEAN /\ targetNS \in 0 .. 2 /\ made \in Server /\ final \in {"none", "running", "overdue", "completed", "failed"}
    /\ servers \in [Namespace -> [id : Server, dest : 0 .. MaxArchives, ready : BOOLEAN]]
    /\ archives \in [Archive -> {"none", "live", "retired", "due"}] /\ archiveCache \in [Archive -> {"none", "live", "retired", "due"}]
    /\ folder \in [Archive -> SUBSET Server] /\ Cardinality({a \in Archive : archives[a] = "live"}) <= 1

(* "The old cluster is gone, so its backup folder must not be reused by    *)
(* the new one" (Reconcile): whatever a database is moved, taken down,     *)
(* deployed and its backups switched, no folder ever holds the data of two *)
(* servers, when none of the first three and the last of BackupIncidents   *)
(* happens: each of them breaks it.                                        *)
FolderOfOne == \A a \in Archive : Cardinality(folder[a]) <= 1

(* "A name that is free is also an empty folder, because an archive is     *)
(* deleted only after its data is" (ensureBackupArchive).                  *)
NameFreeIsEmpty == \A a \in Archive : archives[a] = "none" => folder[a] = {}

(* Backup folders (ensureBackupArchive, retireArchive, purge): each is one *)
(* server's, and a name is free only when its folder is empty.             *)
BackupsSafe == BackupsTypeOK /\ FolderOfOne /\ NameFreeIsEmpty

(* "It never holds up deletion for long: the wait is bounded and every     *)
(* failure ends in the archive being retired" (finalizeBackups): a         *)
(* database that is deleted goes, with its server and with no archive left *)
(* that nothing would ever remove, whether its last backup ends or not.    *)
DeletedGoes ==
    BackupsFair => spec.deleted ~> (~dbThere /\ (\A n \in Namespace : servers[n].id = 0) /\ \A a \in Archive : archives[a] # "live")
=============================================================================
