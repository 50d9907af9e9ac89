------------------------------- MODULE Backup -------------------------------
(***************************************************************************)
(* Snapshots of the database and their restoration                         *)
(* (internal/system/backup), over crashes and restarts of the server.      *)
(*                                                                         *)
(* New runs in goroutines of their own.  Restore names a snapshot and ends *)
(* the process, whose Shutdown then runs RestoreFile, statement by         *)
(* statement, while a New may still run; the command restore does the same *)
(* when the server is down.  All of them use one temporary directory.      *)
(*                                                                         *)
(* Data is a version, 0 in a database the migrations made; a schema may    *)
(* also be Absent, Empty, or Bare: its tables without rows.  A dump of     *)
(* anything but one schema with data is Torn, and pg_restore refuses it.   *)
(* New passes over the errors of DROP SCHEMA and of the archive and        *)
(* announces the snapshot all the same.                                    *)
(* The extension timescaledb, uploads of snapshots and the files' content  *)
(* are left out.  RollbackChanges is, too: it renames public_old to        *)
(* public, which fails whenever there is a public, as there is while the   *)
(* server runs.  Written bounds the versions.                              *)
(***************************************************************************)
EXTENDS Naturals

CONSTANTS
    Backups,    \* goroutines that run New
    Names,      \* names of snapshots
    Written,
    Absent, Empty, Bare, Torn

Kinds == {Absent, Empty, Bare, Torn}

ASSUME BackupAssumption ==
    /\ Written \in Nat
    /\ Kinds \cap Nat = {} /\ Absent \notin Names
    /\ Absent # Empty /\ Absent # Bare /\ Absent # Torn
    /\ Empty # Bare /\ Empty # Torn /\ Bare # Torn

Dumps == Nat \cup {Absent, Torn}
Archives == [files : BOOLEAN, data : Dumps, scheme : {Absent, Bare, Torn}]

ASSUME ArchiveAssumption == Absent \notin Archives

VARIABLES
    public, publicOld,  \* the schemas
    written,        \* the last version written
    server,         \* "up", "stopping" or "down"
    inProcess,
    at,             \* goroutine -> next step of New
    target,         \* goroutine -> the snapshot it writes
    tmp,            \* the temporary directory's files, or Absent
    storage,        \* data/file_storage is there
    snapshot,       \* name -> the files in the archive, Torn, or Absent
    restoreImage,
    restore,        \* next step of RestoreFile
    kept,           \* history: what public held when a restore began and
                    \*   nobody has been asked to drop since, or Absent
    want,           \* history: the data the restore under way is to bring
    alone,          \* history: goroutines nothing disturbed since they began,
                    \*   and that passed over no error
    whole           \* history: names announced by those, with the storage there

schemas == <<public, publicOld, written>>
newVars == <<inProcess, at, target>>
disk == <<tmp, storage, snapshot>>
restoreVars == <<restoreImage, restore>>
ghosts == <<kept, want, alone, whole>>
backupVars == <<schemas, server, newVars, disk, restoreVars, ghosts>>

Files(storage_, data, scheme) == [files |-> storage_, data |-> data, scheme |-> scheme]
NoFiles == Files(FALSE, Absent, Absent)

Idle == [b \in Backups |-> "idle"]
Running(b) == at[b] # "idle"

BackupInit ==
    /\ public = 0 /\ publicOld = Absent /\ written = 0
    /\ server = "up"
    /\ inProcess = FALSE
    /\ at = Idle
    /\ target = [b \in Backups |-> Absent]
    /\ tmp = Absent
    /\ storage \in BOOLEAN
    /\ snapshot = [n \in Names |-> Absent]
    /\ restoreImage = Absent
    /\ restore = "none"
    /\ kept = Absent
    /\ want = Absent
    /\ alone = {}
    /\ whole = {}

-----------------------------------------------------------------------------
(* The rest of the server.                                                  *)

\* Any change of the database.
Write ==
    /\ server = "up"
    /\ written < Written
    /\ written' = written + 1
    /\ public' = written + 1
    /\ kept' = IF kept = public THEN Absent ELSE kept
    /\ UNCHANGED <<publicOld, server, newVars, disk, restoreVars, want, alone, whole>>

\* The first image makes data/file_storage.
Upload ==
    /\ server = "up"
    /\ storage' = TRUE
    /\ UNCHANGED <<schemas, server, newVars, tmp, snapshot, restoreVars, ghosts>>

\* The goroutines and the restore's place die with the process.
Exit ==
    /\ server' = "down"
    /\ inProcess' = FALSE
    /\ at' = Idle
    /\ target' = [b \in Backups |-> Absent]
    /\ alone' = {}
    /\ restoreImage' = Absent
    /\ restore' = "none"
    /\ UNCHANGED <<kept, whole>>

Crash ==
    /\ server # "down" \/ restore # "none"
    /\ Exit
    /\ want' = Absent
    /\ UNCHANGED <<schemas, disk>>

\* A start migrates, which an empty schema and one with its data allow.
Boot ==
    /\ server = "down" /\ restore = "none"
    /\ public \in Nat \cup {Empty}
    /\ public' = IF public = Empty THEN 0 ELSE public
    /\ server' = "up"
    /\ want' = Absent
    /\ UNCHANGED <<publicOld, written, newVars, disk, restoreVars, kept, alone, whole>>

\* SIGTERM, without a restore.
Terminate ==
    /\ server = "up"
    /\ server' = "stopping"
    /\ UNCHANGED <<schemas, newVars, disk, restoreVars, ghosts>>

-----------------------------------------------------------------------------
(* New.                                                                     *)

Move(b, place) == at' = [at EXCEPT ![b] = place]

\* A restore under way no longer brings what it unzipped if the directory
\* changes.
Touched == want' = IF restore = "none" THEN want ELSE Absent

\* Two that pass the check at once run together, and so do those that begin
\* when the first of them has reset inProcess.
Raced(b) == \E c \in Backups \ {b} : at[c] = "store" \/ (Running(c) /\ ~inProcess)

Begin(b) ==
    /\ server # "down" /\ restore = "none"
    /\ at[b] = "idle"
    /\ Move(b, "store")
    /\ alone' = IF Raced(b) THEN {} ELSE alone \cup {b}
    /\ UNCHANGED <<schemas, server, inProcess, target, disk, restoreVars, kept, want, whole>>

\* Mutant of Check: inProcess is not looked at.
CheckNothing(b) == Begin(b)

\* On the scheduler's command, or on a request; Shutdown unsubscribes first.
Check(b) == ~inProcess /\ Begin(b)

Mark(b) ==
    /\ at[b] = "store"
    /\ inProcess' = TRUE
    /\ Move(b, "drop")
    /\ UNCHANGED <<schemas, server, target, disk, restoreVars, ghosts>>

Dropped == kept' = IF kept = publicOld /\ kept # public THEN Absent ELSE kept

\* The schema is dropped and the directory made.
Drop(b) ==
    /\ at[b] = "drop"
    /\ publicOld' = Absent
    /\ Dropped
    /\ tmp' = IF tmp = Absent THEN NoFiles ELSE tmp
    /\ Move(b, "data")
    /\ UNCHANGED <<public, written, server, inProcess, target, storage, snapshot, restoreVars, want, alone, whole>>

\* The error of DROP SCHEMA is not looked at: the dump finds both schemas.
DropFails(b) ==
    /\ at[b] = "drop"
    /\ tmp' = IF tmp = Absent THEN NoFiles ELSE tmp
    /\ Move(b, "data")
    /\ alone' = alone \ {b}
    /\ UNCHANGED <<schemas, server, inProcess, target, storage, snapshot, restoreVars, kept, want, whole>>

DumpData(b) ==
    /\ at[b] = "data" /\ tmp # Absent
    /\ tmp' = [tmp EXCEPT !.data = IF public \in Nat /\ publicOld = Absent THEN public ELSE Torn]
    /\ Move(b, "scheme")
    /\ Touched
    /\ UNCHANGED <<schemas, server, inProcess, target, storage, snapshot, restoreVars, kept, alone, whole>>

DumpScheme(b) ==
    /\ at[b] = "scheme" /\ tmp # Absent
    /\ tmp' = [tmp EXCEPT !.scheme = IF public \in Nat \cup {Bare} /\ publicOld = Absent THEN Bare ELSE Torn]
    /\ Move(b, "zip")
    /\ Touched
    /\ UNCHANGED <<schemas, server, inProcess, target, storage, snapshot, restoreVars, kept, alone, whole>>

\* The archive is created under a name of its own, the time.
Create(b, n) ==
    /\ at[b] = "zip"
    /\ snapshot[n] = Absent
    /\ \A c \in Backups : target[c] # n
    /\ snapshot' = [snapshot EXCEPT ![n] = Torn]
    /\ target' = [target EXCEPT ![b] = n]
    /\ Move(b, "fill")
    /\ UNCHANGED <<schemas, server, inProcess, tmp, storage, restoreVars, ghosts>>

\* Zipit: file_storage, data.sql, scheme.sql; the first that is missing ends
\* it, without an error.
Archive ==
    IF ~storage THEN NoFiles
    ELSE IF tmp = Absent \/ tmp.data = Absent THEN Files(TRUE, Absent, Absent)
    ELSE Files(TRUE, tmp.data, tmp.scheme)

Zip(b) ==
    /\ at[b] = "fill"
    /\ snapshot' = [snapshot EXCEPT ![target[b]] = IF @ = Absent THEN Absent ELSE Archive]
    /\ whole' = IF storage /\ b \in alone /\ snapshot[target[b]] # Absent
                THEN whole \cup {target[b]} ELSE whole
    /\ Move(b, "clean")
    /\ UNCHANGED <<schemas, server, inProcess, target, tmp, storage, restoreVars, kept, want, alone>>

\* The walk of a source ends at its first error and the next source follows;
\* the errors of closing the archive are not looked at either.  An entry may
\* be whole, cut short or missing, and the archive may be unreadable.
Short(entry) == IF entry = Absent THEN {Absent} ELSE {entry, Torn, Absent}

SpoilTo(n, files, data, scheme) ==
    \E archive \in {Torn, Files(files, data, scheme)} :
        snapshot' = [snapshot EXCEPT ![n] = IF @ = Absent THEN Absent ELSE archive]

ZipFails(b) ==
    /\ at[b] = "fill"
    /\ \E files \in {FALSE, Archive.files}, data \in Short(Archive.data),
          scheme \in Short(Archive.scheme) : SpoilTo(target[b], files, data, scheme)
    /\ alone' = alone \ {b}
    /\ Move(b, "clean")
    /\ UNCHANGED <<schemas, server, inProcess, target, tmp, storage, restoreVars, kept, want, whole>>

End(b) ==
    /\ inProcess' = FALSE
    /\ Move(b, "idle")
    /\ target' = [target EXCEPT ![b] = Absent]
    /\ alone' = alone \ {b}

\* The directory is removed and the snapshot announced.
Clean(b) ==
    /\ at[b] = "clean"
    /\ tmp' = Absent
    /\ Touched
    /\ End(b)
    /\ UNCHANGED <<schemas, server, storage, snapshot, restoreVars, kept, whole>>

\* The database or the disk fails; what was written stays.
Fail(b) ==
    /\ at[b] \in {"drop", "data", "scheme", "zip"}
    /\ End(b)
    /\ UNCHANGED <<schemas, server, disk, restoreVars, kept, want, whole>>

New(b) ==
    \/ Check(b) \/ Mark(b) \/ Drop(b) \/ DropFails(b) \/ DumpData(b) \/ DumpScheme(b)
    \/ \E n \in Names : Create(b, n)
    \/ Zip(b) \/ ZipFails(b) \/ Clean(b) \/ Fail(b)

-----------------------------------------------------------------------------
(* The other operations on snapshots.                                       *)

DeleteSnapshot(n) ==
    /\ server = "up"
    /\ snapshot[n] # Absent
    /\ snapshot' = [snapshot EXCEPT ![n] = Absent]
    /\ whole' = whole \ {n}
    /\ UNCHANGED <<schemas, server, newVars, tmp, storage, restoreVars, kept, want, alone>>

\* RestoreFromChunks, in a goroutine of an upload, removes the directory.
JoinChunks ==
    /\ server # "down"
    /\ tmp' = Absent
    /\ Touched
    /\ alone' = {}
    /\ UNCHANGED <<schemas, server, newVars, storage, snapshot, restoreVars, kept, whole>>

ApplyChanges ==
    /\ server = "up"
    /\ publicOld' = Absent
    /\ Dropped
    /\ UNCHANGED <<public, written, server, newVars, disk, restoreVars, want, alone, whole>>

-----------------------------------------------------------------------------
(* Restore and RestoreFile.                                                 *)

\* The last of two requests counts.
Restore(n) ==
    /\ server \in {"up", "stopping"} /\ restore = "none"
    /\ server' = "stopping"
    /\ restoreImage' = n
    /\ UNCHANGED <<schemas, newVars, disk, restore, ghosts>>

\* The command, when no server runs.
RestoreCommand(n) ==
    /\ server = "down" /\ restore = "none"
    /\ restoreImage' = n
    /\ restore' = "find"
    /\ UNCHANGED <<schemas, server, newVars, disk, ghosts>>

StopServer ==
    /\ server = "stopping" /\ restore = "none"
    /\ IF restoreImage = Absent
       THEN Exit /\ UNCHANGED want
       ELSE /\ restore' = "find"
            /\ UNCHANGED <<server, newVars, restoreImage, ghosts>>
    /\ UNCHANGED <<schemas, disk>>

\* A statement fails, or what it needs is not there: RestoreFile returns.
GiveUp ==
    /\ restore \notin {"none", "done"}
    /\ Exit
    /\ want' = Absent
    /\ UNCHANGED <<schemas, disk>>

Then(place) == restore' = place /\ UNCHANGED <<server, newVars, restoreImage>>

\* The archive's files are written over those in the directory.
Unzip ==
    /\ restore = "find"
    /\ restoreImage # Absent
    /\ snapshot[restoreImage] \notin {Absent, Torn}
    /\ LET zip == snapshot[restoreImage]
           dir == IF tmp = Absent THEN NoFiles ELSE tmp
       IN
           /\ tmp' = Files(zip.files \/ dir.files,
                           IF zip.data = Absent THEN dir.data ELSE zip.data,
                           IF zip.scheme = Absent THEN dir.scheme ELSE zip.scheme)
           /\ want' = IF zip.data \in Nat /\ zip.scheme = Bare THEN zip.data ELSE Absent
    /\ alone' = {}
    /\ kept' = IF public \in Nat THEN public ELSE Absent
    /\ Then("create")
    /\ UNCHANGED <<schemas, storage, snapshot, whole>>

Statement(place, next) ==
    /\ restore = place
    /\ Then(next)
    /\ UNCHANGED <<written, disk, want, alone, whole>>

CreateSchema ==
    /\ Statement("create", "drop")
    /\ public' = IF public = Absent THEN Empty ELSE public
    /\ UNCHANGED <<publicOld, kept>>

DropSchema ==
    /\ Statement("drop", "rename")
    /\ publicOld' = Absent
    /\ UNCHANGED <<public, kept>>

\* Mutant of Rename: the schema is dropped.
RenameNothing ==
    /\ Statement("rename", "recreate")
    /\ public' = Absent
    /\ UNCHANGED <<publicOld, kept>>

Rename ==
    /\ Statement("rename", "recreate")
    /\ publicOld = Absent
    /\ publicOld' = public
    /\ public' = Absent
    /\ UNCHANGED kept

RecreateSchema ==
    /\ Statement("recreate", "scheme")
    /\ public' = Empty
    /\ UNCHANGED <<publicOld, kept>>

RestoreScheme ==
    /\ Statement("scheme", "data")
    /\ tmp # Absent /\ tmp.scheme = Bare
    /\ public' = Bare
    /\ UNCHANGED <<publicOld, kept>>

\* Mutant of RestoreData: what pg_restore returns is not looked at.
RestoreDataOrNot ==
    /\ Statement("data", "files")
    /\ \/ public' = public
       \/ tmp # Absent /\ tmp.data \in Nat /\ public' = tmp.data
    /\ UNCHANGED <<publicOld, kept>>

RestoreData ==
    /\ Statement("data", "files")
    /\ tmp # Absent /\ tmp.data \in Nat
    /\ public' = tmp.data
    /\ UNCHANGED <<publicOld, kept>>

\* data/file_storage is removed, then copied.
RemoveFiles ==
    /\ restore = "files"
    /\ Then("copy")
    /\ storage' = FALSE
    /\ UNCHANGED <<schemas, tmp, snapshot, ghosts>>

CopyFiles ==
    /\ restore = "copy"
    /\ tmp # Absent /\ tmp.files
    /\ Then("done")
    /\ storage' = TRUE
    /\ tmp' = Absent
    /\ UNCHANGED <<schemas, snapshot, ghosts>>

Restored ==
    /\ restore = "done"
    /\ Exit
    /\ UNCHANGED <<schemas, disk, want>>

RestoreFile ==
    \/ Unzip \/ CreateSchema \/ DropSchema \/ Rename \/ RecreateSchema
    \/ RestoreScheme \/ RestoreData \/ RemoveFiles \/ CopyFiles \/ Restored
    \/ GiveUp

-----------------------------------------------------------------------------
BackupNext ==
    \/ Write \/ Upload \/ Crash \/ Boot \/ Terminate \/ StopServer
    \/ JoinChunks \/ ApplyChanges
    \/ \E b \in Backups : New(b)
    \/ \E n \in Names : DeleteSnapshot(n) \/ Restore(n) \/ RestoreCommand(n)
    \/ RestoreFile

BackupSpec == BackupInit /\ [][BackupNext]_backupVars

-----------------------------------------------------------------------------
BackupTypeOK ==
    /\ public \in Nat \cup {Absent, Empty, Bare}
    /\ publicOld \in Nat \cup {Absent, Empty, Bare}
    /\ written \in Nat
    /\ server \in {"up", "stopping", "down"}
    /\ inProcess \in BOOLEAN
    /\ at \in [Backups -> {"idle", "store", "drop", "data", "scheme", "zip", "fill", "clean"}]
    /\ target \in [Backups -> Names \cup {Absent}]
    /\ tmp \in Archives \cup {Absent}
    /\ storage \in BOOLEAN
    /\ snapshot \in [Names -> Archives \cup {Absent, Torn}]
    /\ restoreImage \in Names \cup {Absent}
    /\ restore \in {"none", "find", "create", "drop", "rename", "recreate", "scheme", "data",
                    "files", "copy", "done"}
    /\ kept \in Nat \cup {Absent}
    /\ want \in Nat \cup {Absent}
    /\ alone \subseteq Backups
    /\ whole \subseteq Names

\* Whatever statement of a restore fails and wherever the process dies, the
\* data there was when the restore began is in public or in public_old, until
\* it is written over, or a backup, ApplyChanges or the next restore drops
\* public_old.
DataKept == kept # Absent => kept \in {public, publicOld}

\* A restore that ends without an error brought the data of the snapshot it
\* was asked for, if the snapshot has some and no backup used the temporary
\* directory meanwhile.
RestoresSnapshot == restore = "done" /\ want # Absent => public = want

\* A snapshot that was announced has the data and the scheme, if there was a
\* file storage, no other backup had passed the check of inProcess at the
\* same time, neither chunks of an upload nor a restore came in between, and
\* none of the errors New passes over (of DROP SCHEMA, of the walks and the
\* close of the archive) occurred.
SnapshotWhole ==
    \A n \in whole : /\ snapshot[n] \in Archives
                     /\ snapshot[n].data \in Nat /\ snapshot[n].scheme = Bare

\* "Snapshot %s successfully created" (backup.go:151): no snapshot lacks the
\* data that is announced by a New which was alone and met no error.
Announced(b) == at[b] = "clean"
AnnouncedHasData ==
    \A b \in alone : Announced(b) /\ snapshot[target[b]] # Absent => snapshot[target[b]].data # Absent
=============================================================================
