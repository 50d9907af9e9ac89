---------------------------- MODULE BackupProofs ----------------------------
(***************************************************************************)
(* For any number of goroutines, snapshots and versions: no crash and no   *)
(* failure of a statement loses the data a restore began with (DataKept,   *)
(* which needs to know which schema a restore has left public in, at each  *)
(* of its steps, and that nothing but the restore changes public           *)
(* meanwhile); a restore that ends well has brought the snapshot it was    *)
(* asked for (from Unzip on, the temp directory, then public, hold it,     *)
(* unless a backup used the directory meanwhile); and a snapshot that was  *)
(* announced is whole if its backup was alone (one that runs alone finds   *)
(* in the temp directory what it dumped itself).                           *)
(***************************************************************************)
EXTENDS Backup, TLAPS

Contents == Nat \cup {Absent, Empty, Bare}
Before == {"create", "drop"}

SchemasOK ==
    /\ public \in Contents
    /\ publicOld \in Contents
    /\ written \in Nat
    /\ kept \in Nat \cup {Absent}

PlaceOK ==
    /\ server = "up" => restore = "none"
    /\ restore \in Before => kept \in {Absent, public}
    /\ restore = "rename" => kept \in {Absent, public}
    /\ restore = "recreate" => public = Absent
    /\ restore = "scheme" => public = Empty
    /\ restore = "data" => public = Bare

Keeps == SchemasOK /\ PlaceOK /\ DataKept

\* The first state is one of them.
LEMMA InitKeeps == BackupInit => Keeps
  BY BackupAssumption DEF BackupInit, Keeps, SchemasOK, PlaceOK, DataKept, Contents, Before, Kinds

\* What changes neither the schemas nor the place of the restore keeps it.
LEMMA Unrelated ==
    ASSUME Keeps, UNCHANGED <<schemas, restore, kept>>, server' = "up" => server = "up"
    PROVE  Keeps'
  BY DEF Keeps, SchemasOK, PlaceOK, DataKept, Before, schemas

\* The end of the process keeps it, wherever the restore is.
LEMMA ExitKeeps ==
    ASSUME Keeps, Exit, UNCHANGED schemas
    PROVE  Keeps'
  BY DEF Keeps, SchemasOK, PlaceOK, DataKept, Before, Exit, schemas

\* So does a drop of public_old that anyone else asks for.
LEMMA DropKeeps ==
    ASSUME Keeps, Dropped, publicOld' = Absent, UNCHANGED <<public, written, restore, server>>
    PROVE  Keeps'
  BY DEF Keeps, SchemasOK, PlaceOK, DataKept, Before, Dropped, Contents

\* A step of New.
LEMMA NewKeeps ==
    ASSUME Keeps, NEW b \in Backups, New(b)
    PROVE  Keeps'
<1>1. CASE Drop(b)
  BY <1>1, DropKeeps DEF Drop, restoreVars
<1>2. CASE ~Drop(b)
  <2>1. UNCHANGED <<schemas, restore, kept, server>>
    BY <1>2 DEF New, Check, Begin, Mark, DropFails, DumpData, DumpScheme, Create, Zip, ZipFails,
                Clean, Fail, schemas, restoreVars, ghosts
  <2>. QED BY <2>1, Unrelated
<1>. QED BY <1>1, <1>2

\* The statements of RestoreFile.
LEMMA RestoreFileKeeps ==
    ASSUME Keeps, RestoreFile
    PROVE  Keeps'
<1>. USE BackupAssumption DEF Keeps, SchemasOK, PlaceOK, DataKept, Contents, Before, Kinds,
                             Then, Statement
<1>1. CASE Unzip
  BY <1>1 DEF Unzip, schemas
<1>2. CASE CreateSchema
  BY <1>2 DEF CreateSchema
<1>3. CASE DropSchema
  BY <1>3 DEF DropSchema
<1>4. CASE Rename
  BY <1>4 DEF Rename
<1>5. CASE RecreateSchema
  BY <1>5 DEF RecreateSchema
<1>6. CASE RestoreScheme
  BY <1>6 DEF RestoreScheme
<1>7. CASE RestoreData
  BY <1>7 DEF RestoreData
<1>8. CASE RemoveFiles \/ CopyFiles
  BY <1>8 DEF RemoveFiles, CopyFiles, schemas, ghosts
<1>9. CASE Restored \/ GiveUp
  BY <1>9, ExitKeeps DEF Restored, GiveUp, schemas
<1>. QED
  BY <1>1, <1>2, <1>3, <1>4, <1>5, <1>6, <1>7, <1>8, <1>9 DEF RestoreFile

\* Every step.
LEMMA NextKeeps == Keeps /\ [BackupNext]_backupVars => Keeps'
<1>. SUFFICES ASSUME Keeps, [BackupNext]_backupVars PROVE Keeps'
  OBVIOUS
<1>1. CASE Write
  BY <1>1, BackupAssumption DEF Write, Keeps, SchemasOK, PlaceOK, DataKept, Contents, Before,
     restoreVars
<1>2. CASE Upload
  BY <1>2, Unrelated DEF Upload, schemas, restoreVars, ghosts
<1>3. CASE Crash
  BY <1>3, ExitKeeps DEF Crash, schemas
<1>4. CASE Boot
  BY <1>4, BackupAssumption DEF Boot, Keeps, SchemasOK, PlaceOK, DataKept, Contents, Before,
     restoreVars, Kinds
<1>5. CASE Terminate
  BY <1>5, Unrelated DEF Terminate, schemas, restoreVars, ghosts
<1>6. CASE StopServer
  <2>1. CASE restoreImage = Absent
    BY <1>6, <2>1, ExitKeeps DEF StopServer, schemas
  <2>2. CASE restoreImage # Absent
    BY <1>6, <2>2 DEF StopServer, schemas, ghosts, Keeps, SchemasOK, PlaceOK, DataKept, Before
  <2>. QED BY <2>1, <2>2
<1>7. CASE JoinChunks
  BY <1>7, Unrelated DEF JoinChunks, schemas, restoreVars
<1>8. CASE ApplyChanges
  BY <1>8, DropKeeps DEF ApplyChanges, restoreVars
<1>9. ASSUME NEW b \in Backups, New(b) PROVE Keeps'
  BY <1>9, NewKeeps
<1>10. ASSUME NEW n \in Names, DeleteSnapshot(n) \/ Restore(n) \/ RestoreCommand(n) PROVE Keeps'
  <2>1. CASE DeleteSnapshot(n)
    BY <2>1, Unrelated DEF DeleteSnapshot, schemas, restoreVars
  <2>2. CASE Restore(n)
    BY <2>2, Unrelated DEF Restore, schemas, ghosts
  <2>3. CASE RestoreCommand(n)
    BY <2>3 DEF RestoreCommand, schemas, ghosts, Keeps, SchemasOK, PlaceOK, DataKept, Before
  <2>. QED BY <1>10, <2>1, <2>2, <2>3
<1>11. CASE RestoreFile
  BY <1>11, RestoreFileKeeps
<1>12. CASE UNCHANGED backupVars
  BY <1>12, Unrelated DEF backupVars, schemas, restoreVars, ghosts
<1>. QED
  BY <1>1, <1>2, <1>3, <1>4, <1>5, <1>6, <1>7, <1>8, <1>9, <1>10, <1>11, <1>12 DEF BackupNext

\* The data a restore began with survives every failure and crash of it.
THEOREM RestoreKeepsData == BackupSpec => []DataKept
<1>1. Keeps => DataKept
  BY DEF Keeps
<1>. QED
  BY InitKeeps, NextKeeps, <1>1, PTL DEF BackupSpec

-----------------------------------------------------------------------------
\* What is typed: an archive that is being written has a name.
TypeInv == BackupTypeOK /\ \A b \in Backups : at[b] = "fill" => target[b] \in Names

\* A set of files is one an archive may hold.
LEMMA FilesType ==
    ASSUME NEW f \in BOOLEAN, NEW d \in Dumps, NEW s \in {Absent, Bare, Torn}
    PROVE  Files(f, d, s) \in Archives
  BY DEF Files, Archives

\* So is what an archive holds that met errors.
LEMMA SpoiledType ==
    ASSUME TypeInv, NEW b \in Backups, ZipFails(b)
    PROVE  snapshot' \in [Names -> Archives \cup {Absent, Torn}]
<1>1. Archive \in Archives
  BY FilesType DEF Archive, NoFiles, Archives, Dumps, TypeInv, BackupTypeOK
<1>2. PICK files \in {FALSE, Archive.files}, data \in Short(Archive.data),
           scheme \in Short(Archive.scheme) : SpoilTo(target[b], files, data, scheme)
  BY DEF ZipFails
<1>3. files \in BOOLEAN /\ data \in Dumps /\ scheme \in {Absent, Bare, Torn}
  BY <1>1 DEF Short, Archives, Dumps
<1>4. Files(files, data, scheme) \in Archives
  BY <1>3, FilesType
<1>5. PICK archive \in {Torn, Files(files, data, scheme)} :
            snapshot' = [snapshot EXCEPT ![target[b]] = IF @ = Absent THEN Absent ELSE archive]
  BY <1>2 DEF SpoilTo
<1>6. archive \in Archives \cup {Absent, Torn}
  BY <1>4, <1>5
<1>7. snapshot \in [Names -> Archives \cup {Absent, Torn}]
  BY DEF TypeInv, BackupTypeOK
<1>. QED BY <1>5, <1>6, <1>7

\* What the end of New changes keeps its types.
LEMMA EndTypes ==
    ASSUME TypeInv, NEW b \in Backups, End(b)
    PROVE  /\ at' \in [Backups -> {"idle", "store", "drop", "data", "scheme", "zip", "fill", "clean"}]
           /\ target' \in [Backups -> Names \cup {Absent}]
           /\ \A c \in Backups : at'[c] = "fill" => target'[c] \in Names
           /\ inProcess' \in BOOLEAN /\ alone' \subseteq Backups
<1>1. at' \in [Backups -> {"idle", "store", "drop", "data", "scheme", "zip", "fill", "clean"}]
  BY DEF End, Move, TypeInv, BackupTypeOK
<1>2. target' \in [Backups -> Names \cup {Absent}]
  BY DEF End, TypeInv, BackupTypeOK
<1>3. \A c \in Backups : at'[c] = "fill" => target'[c] \in Names
  BY DEF End, Move, TypeInv, BackupTypeOK
<1>. QED
  BY <1>1, <1>2, <1>3 DEF End, TypeInv, BackupTypeOK

\* A step of New keeps the types.
LEMMA NewTypes ==
    ASSUME TypeInv, NEW b \in Backups, New(b)
    PROVE  TypeInv'
<1>. USE DEF TypeInv, BackupTypeOK, Move, schemas, restoreVars, disk, ghosts
<1>1. CASE Check(b)
  BY <1>1 DEF Check, Begin
<1>2. CASE Mark(b)
  BY <1>2 DEF Mark
<1>3. CASE Drop(b)
  <2>1. NoFiles \in Archives
    BY FilesType DEF NoFiles, Dumps
  <2>. QED BY <1>3, <2>1 DEF Drop, Dropped
<1>4. CASE DumpData(b)
  BY <1>4 DEF DumpData, Touched, Archives, Dumps
<1>5. CASE DumpScheme(b)
  BY <1>5 DEF DumpScheme, Touched, Archives, Dumps
<1>6. CASE \E n \in Names : Create(b, n)
  BY <1>6 DEF Create
<1>7. CASE Zip(b)
  <2>1. Archive \in Archives
    BY FilesType DEF Archive, NoFiles, Archives, Dumps
  <2>. QED BY <1>7, <2>1 DEF Zip
<1>10. CASE DropFails(b)
  <2>1. NoFiles \in Archives
    BY FilesType DEF NoFiles, Dumps
  <2>. QED BY <1>10, <2>1 DEF DropFails
<1>11. CASE ZipFails(b)
  <2>3. snapshot' \in [Names -> Archives \cup {Absent, Torn}]
    BY <1>11, SpoiledType
  <2>4. at' = [at EXCEPT ![b] = "clean"] /\ alone' \subseteq alone
    BY <1>11 DEF ZipFails
  <2>5. UNCHANGED <<schemas, server, inProcess, target, tmp, storage, restoreVars, kept, want, whole>>
    BY <1>11 DEF ZipFails
  <2>. QED BY <2>3, <2>4, <2>5
<1>8. CASE Clean(b)
  <2>1. tmp' = Absent /\ want' \in {want, Absent}
    BY <1>8 DEF Clean, Touched
  <2>2. UNCHANGED <<schemas, server, storage, snapshot, restoreVars, kept, whole>>
    BY <1>8 DEF Clean
  <2>. QED BY <1>8, <2>1, <2>2, EndTypes DEF Clean
<1>9. CASE Fail(b)
  <2>1. UNCHANGED <<schemas, server, disk, restoreVars, kept, want, whole>>
    BY <1>9 DEF Fail
  <2>. QED BY <1>9, <2>1, EndTypes DEF Fail
<1>. QED
  BY <1>1, <1>2, <1>3, <1>4, <1>5, <1>6, <1>7, <1>8, <1>9, <1>10, <1>11 DEF New

\* So does the end of the process.
LEMMA ExitTypes ==
    ASSUME TypeInv, Exit, UNCHANGED <<schemas, disk>>, want' \in {want, Absent}
    PROVE  TypeInv'
  BY DEF TypeInv, BackupTypeOK, Exit, Idle, schemas, disk

\* What the archive puts into the directory is a set of files, too.
LEMMA UnzipType ==
    ASSUME TypeInv, Unzip
    PROVE  tmp' \in Archives
<1>. DEFINE zip == snapshot[restoreImage]
            dir == IF tmp = Absent THEN NoFiles ELSE tmp
<1>1. zip \in Archives
  BY DEF Unzip, TypeInv, BackupTypeOK
<1>2. dir \in Archives
  BY FilesType DEF NoFiles, Dumps, TypeInv, BackupTypeOK
<1>3. /\ zip.files \/ dir.files \in BOOLEAN
      /\ (IF zip.data = Absent THEN dir.data ELSE zip.data) \in Dumps
      /\ (IF zip.scheme = Absent THEN dir.scheme ELSE zip.scheme) \in {Absent, Bare, Torn}
  BY <1>1, <1>2 DEF Archives
<1>. QED BY <1>3, FilesType DEF Unzip

\* And so does a statement of RestoreFile.
LEMMA RestoreFileTypes ==
    ASSUME TypeInv, RestoreFile
    PROVE  TypeInv'
<1>. USE DEF TypeInv, BackupTypeOK, Then, newVars, schemas, disk, ghosts
<1>1. CASE Unzip
  <2>1. tmp' \in Archives
    BY <1>1, UnzipType
  <2>2. want' \in Nat \cup {Absent}
    BY <1>1 DEF Unzip
  <2>. QED BY <1>1, <2>1, <2>2 DEF Unzip
<1>2. CASE CreateSchema \/ DropSchema \/ Rename \/ RecreateSchema \/ RestoreScheme \/ RestoreData
  BY <1>2 DEF CreateSchema, DropSchema, Rename, RecreateSchema, RestoreScheme, RestoreData,
              Statement
<1>3. CASE RemoveFiles \/ CopyFiles
  BY <1>3 DEF RemoveFiles, CopyFiles
<1>4. CASE Restored \/ GiveUp
  BY <1>4, ExitTypes DEF Restored, GiveUp
<1>. QED
  BY <1>1, <1>2, <1>3, <1>4 DEF RestoreFile

\* Every step keeps the types.
LEMMA NextTypes == TypeInv /\ [BackupNext]_backupVars => TypeInv'
<1>. SUFFICES ASSUME TypeInv, [BackupNext]_backupVars PROVE TypeInv'
  OBVIOUS
<1>1. CASE \E b \in Backups : New(b)
  BY <1>1, NewTypes
<1>2. CASE RestoreFile
  BY <1>2, RestoreFileTypes
<1>3. CASE Crash
  BY <1>3, ExitTypes DEF Crash
<1>4. CASE StopServer
  <2>1. CASE restoreImage = Absent
    BY <1>4, <2>1, ExitTypes DEF StopServer
  <2>2. CASE restoreImage # Absent
    BY <1>4, <2>2 DEF StopServer, TypeInv, BackupTypeOK, newVars, schemas, disk, ghosts
  <2>. QED BY <2>1, <2>2
<1>5. CASE Write \/ Upload \/ Boot \/ Terminate \/ JoinChunks \/ ApplyChanges
  <2>. USE DEF TypeInv, BackupTypeOK, newVars, schemas, disk, ghosts, restoreVars
  <2>1. CASE Write \/ Boot
    BY <2>1 DEF Write, Boot
  <2>2. CASE Upload \/ Terminate
    BY <2>2 DEF Upload, Terminate
  <2>3. CASE JoinChunks \/ ApplyChanges
    BY <2>3 DEF JoinChunks, ApplyChanges, Dropped, Touched
  <2>. QED BY <1>5, <2>1, <2>2, <2>3
<1>7. ASSUME NEW n \in Names, DeleteSnapshot(n) \/ Restore(n) \/ RestoreCommand(n)
      PROVE  TypeInv'
  BY <1>7 DEF DeleteSnapshot, Restore, RestoreCommand, TypeInv, BackupTypeOK, newVars, schemas,
     disk, ghosts, restoreVars
<1>6. CASE UNCHANGED backupVars
  BY <1>6 DEF backupVars, TypeInv, BackupTypeOK, newVars, schemas, disk, ghosts, restoreVars
<1>. QED
  BY <1>1, <1>2, <1>3, <1>4, <1>5, <1>6, <1>7 DEF BackupNext

\* The first state is typed.
LEMMA InitTypes == BackupInit => TypeInv
<1>. SUFFICES ASSUME BackupInit PROVE TypeInv
  OBVIOUS
<1>1. /\ at \in [Backups -> {"idle", "store", "drop", "data", "scheme", "zip", "fill", "clean"}]
      /\ \A b \in Backups : at[b] # "fill"
  BY DEF BackupInit, Idle
<1>2. /\ target \in [Backups -> Names \cup {Absent}]
      /\ snapshot \in [Names -> Archives \cup {Absent, Torn}]
  BY DEF BackupInit
<1>. QED BY <1>1, <1>2 DEF BackupInit, TypeInv, BackupTypeOK

\* Every variable keeps its type.
THEOREM BackupTypeCorrect == BackupSpec => []BackupTypeOK
<1>1. TypeInv => BackupTypeOK
  BY DEF TypeInv
<1>. QED
  BY <1>1, InitTypes, NextTypes, PTL DEF BackupSpec

-----------------------------------------------------------------------------
(* What a restore brings.  Until its last pg_restore, the directory holds   *)
(* the data and the scheme it is to bring; from then on the schema does.    *)

Unpacked == {"create", "drop", "rename", "recreate", "scheme", "data"}
Brought == {"files", "copy", "done"}

Brings ==
    /\ restore \in Unpacked /\ want # Absent => tmp # Absent /\ tmp.data = want
    /\ restore \in Brought /\ want # Absent => public = want

BringInv == Keeps /\ TypeInv /\ Brings

\* What changes neither the place of the restore, nor the directory unless it
\* gives up what the restore is to bring, nor the schema brings the same.
LEMMA SameBrings ==
    ASSUME BringInv, UNCHANGED <<public, restore>>, want' \in {want, Absent},
           restore = "none" \/ UNCHANGED tmp \/ want' = Absent \/ (tmp = Absent /\ restore # "none")
    PROVE  Brings'
  BY DEF BringInv, Brings, Unpacked, Brought

\* A step of New: only its first one leaves the restore what it is to bring.
LEMMA NewBrings ==
    ASSUME BringInv, NEW b \in Backups, New(b)
    PROVE  Brings'
<1>1. UNCHANGED <<public, restore>>
  BY DEF New, Check, Begin, Mark, Drop, DropFails, DumpData, DumpScheme, Create, Zip, ZipFails, Clean, Fail,
         schemas, restoreVars, ghosts
<1>2. want' \in {want, Absent}
  BY DEF New, Check, Begin, Mark, Drop, DropFails, DumpData, DumpScheme, Create, Zip, ZipFails, Clean, Fail, Touched,
         ghosts
<1>3. restore = "none" \/ UNCHANGED tmp \/ want' = Absent \/ (tmp = Absent /\ restore # "none")
  BY DEF New, Check, Begin, Mark, Drop, DropFails, DumpData, DumpScheme, Create, Zip, ZipFails, Clean, Fail, Touched,
         disk
<1>. QED BY <1>1, <1>2, <1>3, SameBrings

\* A statement of RestoreFile.
LEMMA RestoreFileBrings ==
    ASSUME BringInv, RestoreFile
    PROVE  Brings'
<1>. USE BackupAssumption DEF BringInv, Brings, Unpacked, Brought, Then, Kinds
<1>1. CASE Unzip
  <2>1. restore' = "create"
    BY <1>1 DEF Unzip
  <2>2. tmp' \in Archives
    BY <1>1, UnzipType
  <2>3. want' # Absent => tmp'.data = want'
    BY <1>1 DEF Unzip, Files
  <2>. QED BY <2>1, <2>2, <2>3, ArchiveAssumption
<1>2. CASE CreateSchema \/ DropSchema \/ Rename \/ RecreateSchema \/ RestoreScheme
  BY <1>2 DEF CreateSchema, DropSchema, Rename, RecreateSchema, RestoreScheme, Statement, disk
<1>3. CASE RestoreData
  BY <1>3 DEF RestoreData, Statement
<1>4. CASE RemoveFiles \/ CopyFiles
  BY <1>4 DEF RemoveFiles, CopyFiles, schemas, ghosts
<1>5. CASE Restored \/ GiveUp
  BY <1>5 DEF Restored, GiveUp, Exit
<1>. QED
  BY <1>1, <1>2, <1>3, <1>4, <1>5 DEF RestoreFile

\* Every step.
LEMMA NextBrings == BringInv /\ [BackupNext]_backupVars => BringInv'
<1>. SUFFICES ASSUME BringInv, [BackupNext]_backupVars PROVE Brings'
  BY NextKeeps, NextTypes DEF BringInv
<1>1. CASE \E b \in Backups : New(b)
  BY <1>1, NewBrings
<1>2. CASE RestoreFile
  BY <1>2, RestoreFileBrings
<1>3. CASE Write \/ Boot \/ JoinChunks
  BY <1>3 DEF Write, Boot, JoinChunks, Touched, schemas, BringInv, Keeps, PlaceOK, Brings, Unpacked, Brought, restoreVars
<1>4. CASE Crash
  BY <1>4 DEF Crash, Exit, Brings, Unpacked, Brought
<1>5. CASE StopServer
  BY <1>5 DEF StopServer, Exit, Brings, Unpacked, Brought
<1>6. CASE Upload \/ Terminate \/ ApplyChanges
  BY <1>6, SameBrings DEF Upload, Terminate, ApplyChanges, schemas, restoreVars, disk, ghosts
<1>7. ASSUME NEW n \in Names, DeleteSnapshot(n) \/ Restore(n) \/ RestoreCommand(n)
      PROVE  Brings'
  BY <1>7 DEF DeleteSnapshot, Restore, RestoreCommand, Brings, Unpacked, Brought, BringInv, disk,
     schemas, ghosts, restoreVars
<1>8. CASE UNCHANGED backupVars
  BY <1>8, SameBrings DEF backupVars, schemas, restoreVars, disk, ghosts
<1>. QED
  BY <1>1, <1>2, <1>3, <1>4, <1>5, <1>6, <1>7, <1>8 DEF BackupNext

\* A restore that ends without an error brought the data of its snapshot.
THEOREM RestoreBringsSnapshot == BackupSpec => []RestoresSnapshot
<1>1. BackupInit => TypeInv
  BY InitTypes
<1>2. BackupInit => BringInv
  BY <1>1, InitKeeps DEF BringInv, Brings, Unpacked, Brought, BackupInit
<1>3. BringInv => RestoresSnapshot
  BY DEF BringInv, Brings, Brought, RestoresSnapshot
<1>. QED
  BY <1>2, <1>3, NextBrings, PTL DEF BackupSpec

-----------------------------------------------------------------------------
(* What a snapshot holds.  A goroutine nothing disturbed is the only one    *)
(* that runs, and no restore has come further than to wait for it: what it  *)
(* dumped is in the directory when it archives it, under a name that no one *)
(* else writes to.                                                          *)

Undisturbed(b) ==
    /\ at[b] # "idle"
    /\ \A c \in Backups \ {b} : at[c] = "idle"
    /\ at[b] \in {"data", "scheme", "zip", "fill"} => tmp # Absent /\ publicOld = Absent
    /\ at[b] \in {"scheme", "zip", "fill"} => tmp.data \in Nat
    /\ at[b] \in {"zip", "fill"} => tmp.scheme = Bare

AloneOK ==
    /\ alone # {} => server # "down" /\ restore \in {"none", "find"}
    /\ server # "down" /\ restore \in {"none", "find"} => public \in Nat
    /\ \A b \in alone : Undisturbed(b)

NamesOK ==
    /\ \A b, c \in Backups : b # c /\ target[b] = target[c] => target[b] = Absent
    /\ \A b \in Backups : at[b] = "fill" => target[b] \notin whole

WholeInv == TypeInv /\ AloneOK /\ NamesOK /\ SnapshotWhole

\* Nothing that New reads or writes changes.
LEMMA SameWhole ==
    ASSUME WholeInv, UNCHANGED <<public, publicOld, server, newVars, tmp, snapshot, restore, alone, whole>>
    PROVE  AloneOK' /\ NamesOK' /\ SnapshotWhole'
  BY DEF WholeInv, AloneOK, Undisturbed, NamesOK, SnapshotWhole, newVars

\* The archives that were announced stay what they are.
LEMMA ArchivesStay ==
    ASSUME WholeInv, UNCHANGED <<snapshot, whole>>
    PROVE  SnapshotWhole'
  BY DEF WholeInv, SnapshotWhole

\* The end of the process leaves no goroutine.
LEMMA ExitWhole ==
    ASSUME WholeInv, Exit, UNCHANGED snapshot
    PROVE  AloneOK' /\ NamesOK' /\ SnapshotWhole'
  BY ArchivesStay DEF AloneOK, NamesOK, Exit, Idle

\* A goroutine that begins is alone only if no other runs.
LEMMA CheckWhole ==
    ASSUME WholeInv, NEW b \in Backups, Check(b)
    PROVE  AloneOK' /\ NamesOK' /\ SnapshotWhole'
<1>. USE DEF WholeInv, TypeInv, BackupTypeOK, Check, Begin, Move, schemas, disk, restoreVars
<1>1. SnapshotWhole'
  BY ArchivesStay
<1>2. NamesOK'
  BY DEF NamesOK
<1>3. at'[b] = "store" /\ \A c \in Backups \ {b} : at'[c] = at[c]
  OBVIOUS
<1>4. ASSUME NEW c \in alone' PROVE Undisturbed(c)'
  <2>1. ~Raced(b)
    BY <1>4
  <2>2. \A d \in Backups \ {b} : at[d] = "idle"
    BY <2>1 DEF Raced, Running
  <2>3. c = b
    BY <1>4, <2>1, <2>2 DEF AloneOK, Undisturbed
  <2>. QED BY <1>3, <2>2, <2>3 DEF Undisturbed
<1>. QED BY <1>1, <1>2, <1>4 DEF AloneOK

\* A goroutine that ends takes nobody else along.
LEMMA EndWhole ==
    ASSUME WholeInv, NEW b \in Backups, at[b] # "idle", End(b),
           UNCHANGED <<public, publicOld, server, snapshot, restore, whole>>
    PROVE  AloneOK' /\ NamesOK' /\ SnapshotWhole'
<1>. USE DEF WholeInv, TypeInv, BackupTypeOK, End, Move
<1>1. \A c \in Backups : target'[c] \in {target[c], Absent} /\ (c # b => at'[c] = at[c])
  OBVIOUS
<1>2. NamesOK'
  BY <1>1 DEF NamesOK
<1>3. alone' = {}
  <2>1. \A c \in alone : c = b
    BY DEF AloneOK, Undisturbed
  <2>. QED BY <2>1
<1>. QED BY <1>2, <1>3, ArchivesStay DEF AloneOK

\* A goroutine that is alone and takes a step is the only one that is.
LEMMA OneAlone ==
    ASSUME WholeInv, NEW b \in Backups, at[b] # "idle"
    PROVE  \A c \in alone : c = b
  BY DEF WholeInv, AloneOK, Undisturbed

\* The steps of New that lead to the archive.
LEMMA DumpWhole ==
    ASSUME WholeInv, NEW b \in Backups, Mark(b) \/ Drop(b) \/ DumpData(b) \/ DumpScheme(b)
    PROVE  AloneOK' /\ NamesOK' /\ SnapshotWhole'
<1>. USE DEF WholeInv, TypeInv, BackupTypeOK, Move, schemas, disk, restoreVars, ghosts
<1>1. SnapshotWhole'
  BY ArchivesStay DEF Mark, Drop, DumpData, DumpScheme
<1>2. NamesOK'
  BY DEF NamesOK, Mark, Drop, DumpData, DumpScheme
<1>3. /\ UNCHANGED <<public, server, restore, alone>>
      /\ at[b] # "idle" /\ at'[b] # "idle" /\ \A c \in Backups \ {b} : at'[c] = at[c]
  BY DEF Mark, Drop, DumpData, DumpScheme
<1>4. ASSUME b \in alone PROVE Undisturbed(b)'
  <2>1. Undisturbed(b) /\ public \in Nat
    BY <1>4 DEF AloneOK
  <2>2. CASE Mark(b)
    BY <1>3, <2>1, <2>2 DEF Mark, Undisturbed
  <2>3. CASE Drop(b)
    <3>1. tmp' \in Archives
      BY <2>3, FilesType DEF Drop, NoFiles, Dumps
    <3>. QED BY <1>3, <2>1, <2>3, <3>1, ArchiveAssumption DEF Drop, Undisturbed
  <2>4. CASE DumpData(b)
    <3>1. tmp \in Archives /\ publicOld = Absent
      BY <2>1, <2>4 DEF DumpData, Undisturbed
    <3>2. tmp' = [tmp EXCEPT !.data = public]
      BY <2>1, <2>4, <3>1 DEF DumpData
    <3>3. tmp' \in Archives /\ tmp'.data = public
      BY <2>1, <3>1, <3>2 DEF Archives, Dumps
    <3>. QED BY <1>3, <2>1, <2>4, <3>1, <3>3, ArchiveAssumption DEF DumpData, Undisturbed
  <2>5. CASE DumpScheme(b)
    <3>1. tmp \in Archives /\ publicOld = Absent
      BY <2>1, <2>5 DEF DumpScheme, Undisturbed
    <3>2. tmp' = [tmp EXCEPT !.scheme = Bare]
      BY <2>1, <2>5, <3>1 DEF DumpScheme
    <3>3. tmp' \in Archives /\ tmp'.data = tmp.data /\ tmp'.scheme = Bare
      BY <3>1, <3>2 DEF Archives
    <3>. QED BY <1>3, <2>1, <2>5, <3>1, <3>3, ArchiveAssumption DEF DumpScheme, Undisturbed
  <2>. QED BY <2>2, <2>3, <2>4, <2>5
<1>5. \A c \in alone : c = b
  BY <1>3, OneAlone
<1>. QED BY <1>1, <1>2, <1>3, <1>4, <1>5 DEF AloneOK

\* The archive's name is new, so no announced one is written over.
LEMMA CreateWhole ==
    ASSUME WholeInv, NEW b \in Backups, NEW n \in Names, Create(b, n)
    PROVE  AloneOK' /\ NamesOK' /\ SnapshotWhole'
<1>. USE DEF WholeInv, TypeInv, BackupTypeOK, Create, Move, schemas, disk, restoreVars, ghosts
<1>1. n \notin whole
  BY ArchiveAssumption DEF SnapshotWhole
<1>2. SnapshotWhole'
  BY <1>1 DEF SnapshotWhole
<1>3. NamesOK'
  BY <1>1 DEF NamesOK
<1>4. AloneOK'
  BY OneAlone DEF AloneOK, Undisturbed
<1>. QED BY <1>2, <1>3, <1>4

\* What a goroutine archives that is alone has the data and the scheme.
LEMMA ZipWhole ==
    ASSUME WholeInv, NEW b \in Backups, Zip(b)
    PROVE  AloneOK' /\ NamesOK' /\ SnapshotWhole'
<1>. USE DEF WholeInv, TypeInv, BackupTypeOK, Zip, Move, schemas, restoreVars
<1>1. target[b] \in Names /\ target[b] \notin whole
  BY DEF NamesOK
<1>2. Archive \in Archives
  BY FilesType DEF Archive, NoFiles, Archives, Dumps
<1>3. storage /\ b \in alone => Archive.data \in Nat /\ Archive.scheme = Bare
  <2>. SUFFICES ASSUME storage, b \in alone PROVE Archive.data \in Nat /\ Archive.scheme = Bare
    OBVIOUS
  <2>1. tmp # Absent /\ tmp.data \in Nat /\ tmp.scheme = Bare
    BY DEF AloneOK, Undisturbed
  <2>2. Archive = Files(TRUE, tmp.data, tmp.scheme)
    BY <2>1, BackupAssumption DEF Archive, Kinds
  <2>. QED BY <2>1, <2>2 DEF Files
<1>4. SnapshotWhole'
  BY <1>1, <1>2, <1>3 DEF SnapshotWhole
<1>5. NamesOK'
  BY <1>1, BackupAssumption DEF NamesOK
<1>6. AloneOK'
  BY OneAlone DEF AloneOK, Undisturbed
<1>. QED BY <1>4, <1>5, <1>6

\* A goroutine to which one of the errors happens that New passes over is no
\* longer among those a snapshot is promised of.
LEMMA ErrorWhole ==
    ASSUME WholeInv, NEW b \in Backups, DropFails(b) \/ ZipFails(b)
    PROVE  AloneOK' /\ NamesOK' /\ SnapshotWhole'
<1>. USE DEF WholeInv, TypeInv, BackupTypeOK, DropFails, ZipFails, Move, schemas, restoreVars
<1>1. at[b] # "idle" /\ alone' = alone \ {b} /\ whole' = whole /\ target' = target
  OBVIOUS
<1>2. AloneOK'
  <2>1. alone' = {}
    BY <1>1, OneAlone
  <2>2. UNCHANGED <<public, server, restore>>
    OBVIOUS
  <2>. QED BY <2>1, <2>2 DEF AloneOK
<1>3. NamesOK'
  <2>1. \A c \in Backups : at'[c] = "fill" => at[c] = "fill"
    OBVIOUS
  <2>. QED BY <1>1, <2>1 DEF NamesOK
<1>4. SnapshotWhole'
  <2>1. CASE DropFails(b)
    BY <2>1, ArchivesStay
  <2>2. CASE ZipFails(b)
    <3>1. target[b] \in Names /\ target[b] \notin whole
      BY <2>2 DEF NamesOK
    <3>2. \A n \in whole : snapshot'[n] = snapshot[n]
      BY <2>2, <3>1 DEF SpoilTo
    <3>. QED BY <2>2, <3>2 DEF SnapshotWhole
  <2>. QED BY <2>1, <2>2
<1>. QED BY <1>2, <1>3, <1>4

\* A step of New.
LEMMA NewWhole ==
    ASSUME WholeInv, NEW b \in Backups, New(b)
    PROVE  AloneOK' /\ NamesOK' /\ SnapshotWhole'
<1>1. CASE Clean(b)
  BY <1>1, EndWhole DEF Clean, schemas, restoreVars
<1>2. CASE Fail(b)
  BY <1>2, EndWhole DEF Fail, schemas, restoreVars, disk
<1>. QED
  BY <1>1, <1>2, CheckWhole, DumpWhole, CreateWhole, ZipWhole, ErrorWhole DEF New

\* Every step: those of a restore find no goroutine alone any more.
LEMMA NextWhole == WholeInv /\ [BackupNext]_backupVars => WholeInv'
<1>. SUFFICES ASSUME WholeInv, [BackupNext]_backupVars PROVE AloneOK' /\ NamesOK' /\ SnapshotWhole'
  BY NextTypes DEF WholeInv
<1>1. CASE \E b \in Backups : New(b)
  BY <1>1, NewWhole
<1>2. CASE RestoreFile
  <2>. USE DEF newVars, schemas, disk, ghosts, Then
  <2>1. CASE Unzip
    BY <2>1, ArchivesStay DEF Unzip, WholeInv, AloneOK, NamesOK
  <2>2. CASE CreateSchema \/ DropSchema \/ Rename \/ RecreateSchema \/ RestoreScheme \/ RestoreData
    <3>1. /\ UNCHANGED <<newVars, disk, want, alone, whole>>
          /\ restore \notin {"none", "find"} /\ restore' \notin {"none", "find"}
      BY <2>2 DEF CreateSchema, DropSchema, Rename, RecreateSchema, RestoreScheme, RestoreData,
                  Statement
    <3>. QED BY <3>1, ArchivesStay DEF WholeInv, AloneOK, NamesOK
  <2>3. CASE RemoveFiles \/ CopyFiles
    <3>1. /\ UNCHANGED <<newVars, snapshot, alone, whole>>
          /\ restore \notin {"none", "find"} /\ restore' \notin {"none", "find"}
      BY <2>3 DEF RemoveFiles, CopyFiles
    <3>. QED BY <3>1, ArchivesStay DEF WholeInv, AloneOK, NamesOK
  <2>4. CASE Restored \/ GiveUp
    BY <2>4, ExitWhole DEF Restored, GiveUp
  <2>. QED BY <1>2, <2>1, <2>2, <2>3, <2>4 DEF RestoreFile
<1>3. CASE Crash
  BY <1>3, ExitWhole DEF Crash, disk
<1>4. CASE StopServer
  <2>1. CASE restoreImage = Absent
    BY <1>4, <2>1, ExitWhole DEF StopServer, disk
  <2>2. CASE restoreImage # Absent
    BY <1>4, <2>2, ArchivesStay
       DEF StopServer, newVars, schemas, disk, ghosts, WholeInv, AloneOK, Undisturbed, NamesOK
  <2>. QED BY <2>1, <2>2
<1>5. CASE Write \/ Boot
  BY <1>5, ArchivesStay DEF Write, Boot, newVars, disk, restoreVars, WholeInv, TypeInv, BackupTypeOK,
     AloneOK, Undisturbed, NamesOK
<1>6. CASE JoinChunks \/ ApplyChanges
  <2>. USE DEF newVars, schemas, disk, restoreVars, WholeInv, AloneOK, NamesOK
  <2>1. CASE JoinChunks
    BY <2>1, ArchivesStay DEF JoinChunks
  <2>2. CASE ApplyChanges
    BY <2>2, ArchivesStay DEF ApplyChanges, Undisturbed
  <2>. QED BY <1>6, <2>1, <2>2
<1>7. CASE Upload
  BY <1>7, SameWhole DEF Upload, newVars, schemas, restoreVars, ghosts
<1>8. CASE Terminate
  BY <1>8, ArchivesStay
     DEF Terminate, newVars, schemas, disk, restoreVars, ghosts, WholeInv, AloneOK, Undisturbed, NamesOK
<1>9. ASSUME NEW n \in Names, DeleteSnapshot(n) \/ Restore(n) \/ RestoreCommand(n)
      PROVE  AloneOK' /\ NamesOK' /\ SnapshotWhole'
  <2>. USE DEF newVars, schemas, disk, restoreVars, ghosts, WholeInv
  <2>1. CASE DeleteSnapshot(n)
    <3>1. SnapshotWhole'
      BY <2>1 DEF DeleteSnapshot, SnapshotWhole, TypeInv, BackupTypeOK
    <3>2. NamesOK'
      BY <2>1 DEF DeleteSnapshot, NamesOK
    <3>3. AloneOK'
      BY <2>1 DEF DeleteSnapshot, AloneOK, Undisturbed
    <3>. QED BY <3>1, <3>2, <3>3
  <2>2. CASE Restore(n)
    BY <2>2, ArchivesStay DEF Restore, AloneOK, Undisturbed, NamesOK
  <2>3. CASE RestoreCommand(n)
    BY <2>3, ArchivesStay DEF RestoreCommand, AloneOK, NamesOK
  <2>. QED BY <1>9, <2>1, <2>2, <2>3
<1>10. CASE UNCHANGED backupVars
  BY <1>10, SameWhole DEF backupVars, newVars, schemas, restoreVars, disk, ghosts
<1>. QED
  BY <1>1, <1>2, <1>3, <1>4, <1>5, <1>6, <1>7, <1>8, <1>9, <1>10 DEF BackupNext

\* A snapshot that was announced undisturbed, and on whose way no error was
\* passed over, has the data and the scheme.
THEOREM AnnouncedWhole == BackupSpec => []SnapshotWhole
<1>1. BackupInit => WholeInv
  BY InitTypes DEF BackupInit, Idle, WholeInv, AloneOK, NamesOK, SnapshotWhole
<1>2. WholeInv => SnapshotWhole
  BY DEF WholeInv
<1>. QED
  BY <1>1, <1>2, NextWhole, PTL DEF BackupSpec
=============================================================================
