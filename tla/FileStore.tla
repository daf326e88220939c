----------------------------- MODULE FileStore -----------------------------
(***************************************************************************)
(* Uploaded documents live in two stores: rows of attachments and files    *)
(* addressed by their SHA-256 (filestore/cas.go).  Nothing spans both, so  *)
(* they are kept together by hand: an upload removes what it has created   *)
(* when it fails (attachments.go Upload), a deleted row queues its file    *)
(* (migration 0006) and the worker removes a queued file nobody refers to  *)
(* (retention.go).  A command moves old files to the addressed store while *)
(* the server runs (storagemigrate), another copies rows and files one     *)
(* after the other (backup).                                               *)
(*                                                                         *)
(* A content stands for the bytes and for their hash: equal bytes have one *)
(* address, and no file is altered in place.                               *)
(***************************************************************************)
EXTENDS Integers, FiniteSets, Sequences, SequencesExt

CONSTANTS
  Uploads,       \* requests, each runs once with a batch of files
  Uploader,      \* who sends it
  Quota,         \* files one user may keep (sizes are not told apart)
  Contents,
  Infected,      \* what a scanner that answers objects to
  MaxCrashes,    \* bound: crashes of the server or of a command
  Starts         \* bound: what was stored in earlier times, which commands are run and
                 \* what the uploads carry

ASSUME StoreAssumption ==
  /\ Infected \subseteq Contents
  /\ {"old", "plain"} \cap Uploads = {}
  /\ Quota \in Nat /\ MaxCrashes \in Nat
  /\ \A s \in Starts : /\ s.old \subseteq Contents /\ s.plain \subseteq Contents
                       /\ IsFiniteSet(s.old) /\ IsFiniteSet(s.plain)
                       /\ s.run \subseteq {"migrate", "copy"}
                       /\ s.batch \in [Uploads -> Seq(Contents) \ {<<>>}]

VARIABLES
  files,      \* paths that exist
  rows,       \* attachments, as committed
  queue,      \* file_deletion_queue
  upload,     \* the requests under way
  worker,     \* DrainDeletionQueue
  migration,  \* storagemigrate
  backup,     \* backupbundle create
  crashes,
  taken,      \* ghost: paths removed under somebody who held them uncommitted
  strayed     \* ghost: paths left behind by a crash, a lost commit or a migration

vars == <<files, rows, queue, upload, worker, migration, backup, crashes, taken, strayed>>

Blob(c) == <<"zst", c>>
Plain(c) == <<"plain", c>>
Old(c) == <<"old", c>>
Staging(u) == <<"staging", u>>

Path == {"zst", "plain", "old"} \X Contents
AnyPath == Path \cup ({"staging"} \X (Uploads \cup {"migration"}))

Scan == {"clean", "unscanned", "quarantined"}
Owner == (Uploads \X Nat) \cup ({"old", "plain"} \X Contents)

\* id.1 is the request that made the row, or "old"/"plain".
Row == [id : Owner, path : Path, content : Contents, scan : Scan, expired : BOOLEAN]

Staged == [path : Path, shared : BOOLEAN, scan : Scan]

Phase == {"copying", "staged", "renaming", "judging", "judged", "inserting", "cleaning", "over"}
Upload == [at : Phase, batch : Seq(Contents), files : Seq(Staged)]
Arrived(contents) == [at |-> "copying", batch |-> contents, files |-> <<>>]
Done == [at |-> "over", batch |-> <<>>, files |-> <<>>]
Over(u) == [upload EXCEPT ![u] = Done]

NoPath == <<"none">>

\* free is a ghost: no row referred to the path when the worker looked.
Worker == [at : {"idle", "checked", "removed"}, job : Path \cup {NoPath},
           referenced : BOOLEAN, free : BOOLEAN]
Waiting == [at |-> "idle", job |-> NoPath, referenced |-> FALSE, free |-> TRUE]

Migration == [at : {"idle", "looking", "updating", "clearing", "over"}, todo : SUBSET Row,
              id : Owner \cup {NoPath}, from : Path \cup {NoPath}, to : Path \cup {NoPath}]
Backup == [at : {"idle", "counted", "dumped", "copying", "sealed", "failed", "proved", "refused"},
           count : Nat, dump : SUBSET Row, todo : SUBSET AnyPath, copied : SUBSET AnyPath]

-----------------------------------------------------------------------------
\* Who relies on a path without a committed row: an upload that has staged it, the
\* migration that is about to write it into a row.
Relies(u, p) == upload[u].at # "over" /\ \E i \in DOMAIN upload[u].files : upload[u].files[i].path = p
Moves(p) == migration.at = "updating" /\ migration.to = p
HeldBy(us, p) == (\E u \in us : Relies(u, p)) \/ Moves(p)

RowsAt(p) == {r \in rows : r.path = p}

\* Mutant: the file is removed with its first reference.
NeverReferenced(p) == FALSE

\* SELECT EXISTS of the worker and of the migration.
Referenced(p) == RowsAt(p) # {}

\* CreateBlob looks for the compressed blob, then for the plain one.
Existing(c) == IF Blob(c) \in files THEN {Blob(c)} ELSE {Plain(c)} \cap files

Number(u) == Len(upload[u].files) + 1
Current(u) == upload[u].batch[Number(u)]

\* uploaded_by: rows of earlier times belong to nobody here.
RowsOf(user) == {r \in rows : r.id[1] \in Uploads /\ Uploader[r.id[1]] = user}

-----------------------------------------------------------------------------
\* The checks of role, entry, type, number and size have passed.  CreateBlob writes
\* the bytes of the next file to a file of its own in blobs/staging.
Stage(u) ==
  /\ upload[u].at = "copying"
  /\ files' = files \cup {Staging(u)}
  /\ upload' = [upload EXCEPT ![u].at = "staged"]
  /\ UNCHANGED <<rows, queue, worker, migration, backup, crashes, taken, strayed>>

\* Stat: bytes that are there already are used, and marked as not ours.
Stat(u) ==
  /\ upload[u].at = "staged"
  /\ LET found == Existing(Current(u)) IN
     IF found = {} THEN /\ upload' = [upload EXCEPT ![u].at = "renaming"]
                        /\ UNCHANGED files
     ELSE /\ files' = files \ {Staging(u)}
          /\ upload' = [upload EXCEPT ![u].at = "judging", ![u].files = Append(@,
               [path |-> CHOOSE p \in found : TRUE, shared |-> TRUE, scan |-> "unscanned"])]
  /\ UNCHANGED <<rows, queue, worker, migration, backup, crashes, taken, strayed>>

\* Mutant: the row gets the name of the temporary file.
KeepsName(u) ==
  /\ upload[u].at = "renaming"
  /\ files' = (files \ {Staging(u)}) \cup {Blob(Current(u))}
  /\ upload' = [upload EXCEPT ![u].at = "judging", ![u].files = Append(@,
       [path |-> Staging(u), shared |-> FALSE, scan |-> "unscanned"])]
  /\ UNCHANGED <<rows, queue, worker, migration, backup, crashes, taken, strayed>>

\* Rename replaces a blob that has come since Stat; the bytes are the same.
Rename(u) ==
  /\ upload[u].at = "renaming"
  /\ files' = (files \ {Staging(u)}) \cup {Blob(Current(u))}
  /\ upload' = [upload EXCEPT ![u].at = "judging", ![u].files = Append(@,
       [path |-> Blob(Current(u)), shared |-> FALSE, scan |-> "unscanned"])]
  /\ UNCHANGED <<rows, queue, worker, migration, backup, crashes, taken, strayed>>

\* Inspect, a scanner being configured: its verdict on the bytes, or no answer.
Verdicts(u, f) == {"unavailable", IF f.path[2] \in Infected THEN "infected" ELSE "clean"}

\* Validate and Inspect open the file, so it must be there.  ScannerPolicy is
\* "quarantine"; under "reject" a scanner that does not answer is one more
\* reason for Fail.
Judge(u) ==
  /\ upload[u].at = "judging"
  /\ LET f == Last(upload[u].files) IN
     /\ f.path \in files
     /\ \E verdict \in Verdicts(u, f) \ {"infected"} :
          upload' = [upload EXCEPT
            ![u].files[Len(upload[u].files)].scan = IF verdict = "clean" THEN "clean" ELSE "quarantined",
            ![u].at = IF Len(upload[u].files) = Len(upload[u].batch) THEN "judged" ELSE "copying"]
  /\ UNCHANGED <<files, rows, queue, worker, migration, backup, crashes, taken, strayed>>

\* Any error before the commit: a file that cannot be read, a failed write, an
\* infected or unreadable file, a lost role, the quota, a cancelled request.
Fail(u) ==
  /\ upload[u].at \in {"copying", "staged", "renaming", "judging", "judged", "inserting"}
  /\ files' = files \ {Staging(u)}
  /\ upload' = [upload EXCEPT ![u].at = "cleaning"]
  /\ UNCHANGED <<rows, queue, worker, migration, backup, crashes, taken, strayed>>

\* The deferred clean-up removes one after the other the files this upload created.
Clean(u) ==
  /\ upload[u].at = "cleaning"
  /\ LET mine == {i \in DOMAIN upload[u].files : ~upload[u].files[i].shared} IN
     IF mine = {} THEN /\ upload' = Over(u)
                       /\ UNCHANGED <<files, taken>>
     ELSE LET i == CHOOSE j \in mine : \A k \in mine : j <= k
              p == upload[u].files[i].path IN
          /\ files' = files \ {p}
          /\ taken' = IF RowsAt(p) # {} \/ HeldBy(Uploads \ {u}, p) THEN taken \cup {p} ELSE taken
          /\ upload' = [upload EXCEPT ![u].files = RemoveAt(@, i)]
  /\ UNCHANGED <<rows, queue, worker, migration, backup, crashes, strayed>>

\* Mutant: the row of the uploader is not locked.
NobodyLocks(u) == TRUE

\* FOR NO KEY UPDATE of the user row: one inserting upload per user.
UserRowIsFree(u) ==
  \A v \in Uploads \ {u} : upload[v].at = "inserting" => Uploader[v] # Uploader[u]

\* The metadata transaction up to its commit: the quota is read under the lock of
\* the user row and the rows are inserted, still unseen by others.
Insert(u) ==
  /\ upload[u].at = "judged" /\ UserRowIsFree(u)
  /\ Cardinality(RowsOf(Uploader[u])) + Len(upload[u].batch) <= Quota
  /\ upload' = [upload EXCEPT ![u].at = "inserting"]
  /\ UNCHANGED <<files, rows, queue, worker, migration, backup, crashes, taken, strayed>>

NewRows(u) ==
  {[id |-> <<u, i>>, path |-> upload[u].files[i].path, content |-> upload[u].batch[i],
    scan |-> upload[u].files[i].scan, expired |-> FALSE] : i \in DOMAIN upload[u].files}

PathsOf(u) == {upload[u].files[i].path : i \in DOMAIN upload[u].files}

Commit(u) ==
  /\ upload[u].at = "inserting"
  /\ rows' = rows \cup NewRows(u)
  /\ upload' = Over(u)
  /\ UNCHANGED <<files, queue, worker, migration, backup, crashes, taken, strayed>>

\* Commit returns an error and the rows are not there: the files are kept all the same.
LoseCommit(u) ==
  /\ upload[u].at = "inserting" /\ crashes < MaxCrashes
  /\ crashes' = crashes + 1
  /\ upload' = Over(u)
  /\ strayed' = strayed \cup PathsOf(u)
  /\ UNCHANGED <<files, rows, queue, worker, migration, backup, taken>>

-----------------------------------------------------------------------------
\* retention_expires_at passes.
Expire(r) ==
  /\ r \in rows /\ ~r.expired
  /\ rows' = (rows \ {r}) \cup {[r EXCEPT !.expired = TRUE]}
  /\ UNCHANGED <<files, queue, upload, worker, migration, backup, crashes, taken, strayed>>

\* purgeExpiredAttachments and the trigger queue_deleted_attachment.
Purge ==
  LET gone == {r \in rows : r.expired} IN
  /\ gone # {}
  /\ rows' = rows \ gone
  /\ queue' = queue \o SetToSeq({r.path : r \in gone})
  /\ UNCHANGED <<files, upload, worker, migration, backup, crashes, taken, strayed>>

\* DrainDeletionQueue: the oldest job is locked, then the references are looked for.
Take ==
  /\ worker.at = "idle" /\ queue # <<>>
  /\ worker' = [at |-> "checked", job |-> Head(queue),
                referenced |-> Referenced(Head(queue)), free |-> RowsAt(Head(queue)) = {}]
  /\ UNCHANGED <<files, rows, queue, upload, migration, backup, crashes, taken, strayed>>

\* taken: only a row or an upload the worker could not see is an excuse.
RemoveFile ==
  /\ worker.at = "checked" /\ ~worker.referenced
  /\ files' = files \ {worker.job}
  /\ taken' = IF worker.free /\ (HeldBy(Uploads, worker.job) \/ RowsAt(worker.job) # {})
              THEN taken \cup {worker.job} ELSE taken
  /\ worker' = [worker EXCEPT !.at = "removed"]
  /\ UNCHANGED <<rows, queue, upload, migration, backup, crashes, strayed>>

\* The job is deleted and the transaction commits.
Forget ==
  /\ worker.at = "removed" \/ (worker.at = "checked" /\ worker.referenced)
  /\ queue' = Tail(queue)
  /\ worker' = Waiting
  /\ UNCHANGED <<files, rows, upload, migration, backup, crashes, taken, strayed>>

-----------------------------------------------------------------------------
\* storagemigrate Run reads all rows once.
MigrateStart ==
  /\ migration.at = "idle"
  /\ migration' = [migration EXCEPT !.at = "looking", !.todo = {r \in rows : r.path[1] = "old"}]
  /\ UNCHANGED <<files, rows, queue, upload, worker, backup, crashes, taken, strayed>>

\* The old file is opened and its bytes go through CreateBlob (Stat and Rename are
\* one step here: nothing depends on whether the blob is new).  A missing file is
\* counted and left to people.
MigrateCopy ==
  /\ migration.at = "looking"
  /\ \E r \in migration.todo :
       LET found == Existing(r.content)
           to == IF found = {} THEN Blob(r.content) ELSE CHOOSE p \in found : TRUE IN
       IF r.path \in files
       THEN /\ files' = files \cup {to}
            /\ migration' = [at |-> "updating", todo |-> migration.todo \ {r}, id |-> r.id, from |-> r.path, to |-> to]
       ELSE /\ migration' = [migration EXCEPT !.todo = @ \ {r}]
            /\ UNCHANGED files
  /\ UNCHANGED <<rows, queue, upload, worker, backup, crashes, taken, strayed>>

\* UPDATE by id: it says nothing if the row has been purged meanwhile.
MigrateUpdate ==
  LET targets == {r \in rows : r.id = migration.id} IN
  /\ migration.at = "updating"
  /\ rows' = (rows \ targets) \cup {[r EXCEPT !.path = migration.to] : r \in targets}
  /\ strayed' = IF targets = {} THEN strayed \cup {migration.to} ELSE strayed
  /\ migration' = [migration EXCEPT !.at = "clearing"]
  /\ UNCHANGED <<files, queue, upload, worker, backup, crashes, taken>>

\* Nobody can begin to refer to an old path, so the check and the removal are one step.
MigrateClear ==
  /\ migration.at = "clearing"
  /\ files' = IF Referenced(migration.from) THEN files ELSE files \ {migration.from}
  /\ migration' = [migration EXCEPT !.at = "looking", !.id = NoPath, !.from = NoPath, !.to = NoPath]
  /\ UNCHANGED <<rows, queue, upload, worker, backup, crashes, taken, strayed>>

\* The end of the run, an error, or a row whose recorded hash is another one
\* (mismatched: the blob stays).
MigrateStop ==
  /\ migration.at = "looking" /\ migration.todo = {}
  /\ migration' = [migration EXCEPT !.at = "over"]
  /\ UNCHANGED <<files, rows, queue, upload, worker, backup, crashes, taken, strayed>>

-----------------------------------------------------------------------------
\* backupbundle create counts rows, dumps the database in one snapshot, lists the
\* files and copies them one by one.
Count ==
  /\ backup.at = "idle"
  /\ backup' = [backup EXCEPT !.at = "counted", !.count = Cardinality(rows)]
  /\ UNCHANGED <<files, rows, queue, upload, worker, migration, crashes, taken, strayed>>

Dump ==
  /\ backup.at = "counted"
  /\ backup' = [backup EXCEPT !.at = "dumped", !.dump = rows]
  /\ UNCHANGED <<files, rows, queue, upload, worker, migration, crashes, taken, strayed>>

\* Mutant: only compressed blobs are copied.
CompressedFiles == {p \in files : p[1] = "zst"}

\* WalkDir takes every regular file, those in staging too.
Listed == files

List ==
  /\ backup.at = "dumped"
  /\ backup' = [backup EXCEPT !.at = "copying", !.todo = Listed]
  /\ UNCHANGED <<files, rows, queue, upload, worker, migration, crashes, taken, strayed>>

\* The files in the order of their names; one that has gone since it was listed
\* fails the whole copy.
CopyFile ==
  /\ backup.at = "copying"
  /\ backup.todo # {}
  /\ LET p == CHOOSE q \in backup.todo : TRUE IN
       backup' = IF p \in files THEN [backup EXCEPT !.todo = @ \ {p}, !.copied = @ \cup {p}]
                 ELSE [backup EXCEPT !.at = "failed"]
  /\ UNCHANGED <<files, rows, queue, upload, worker, migration, crashes, taken, strayed>>

\* The manifest is written and the partial file gets its name.
Seal ==
  /\ backup.at = "copying" /\ backup.todo = {}
  /\ backup' = [backup EXCEPT !.at = "sealed"]
  /\ UNCHANGED <<files, rows, queue, upload, worker, migration, crashes, taken, strayed>>

\* CompareFacts: the counts of the manifest were taken before the dump was begun.
FactsHold == Cardinality(backup.dump) = backup.count

\* Mutant: the drill does not look at the files.
FactsOnly == FactsHold

\* The facts of the manifest hold in the restored database, and every attachment of
\* it has its file.
DrillPasses ==
  /\ FactsHold
  /\ \A r \in backup.dump : r.path \in backup.copied

Drill ==
  /\ backup.at = "sealed"
  /\ backup' = [backup EXCEPT !.at = IF DrillPasses THEN "proved" ELSE "refused"]
  /\ UNCHANGED <<files, rows, queue, upload, worker, migration, crashes, taken, strayed>>

-----------------------------------------------------------------------------
\* The server dies: requests are gone and clean nothing up, open transactions roll
\* back, a file the worker has removed stays removed.
Crash ==
  /\ crashes < MaxCrashes
  /\ crashes' = crashes + 1
  /\ strayed' = strayed \cup UNION {PathsOf(u) \cup ({Staging(u)} \cap files) : u \in Uploads}
  /\ upload' = [u \in Uploads |-> IF upload[u] = Arrived(upload[u].batch) THEN upload[u] ELSE Done]
  /\ worker' = Waiting
  /\ UNCHANGED <<files, rows, queue, migration, backup, taken>>

\* The migration dies, or a statement of it fails; it may be run again.
MigrationCrash ==
  /\ migration.at \in {"looking", "updating", "clearing"} /\ crashes < MaxCrashes
  /\ crashes' = crashes + 1
  /\ strayed' = strayed \cup ({migration.to, migration.from} \cap Path)
  /\ migration' = [at |-> "idle", todo |-> {}, id |-> NoPath, from |-> NoPath, to |-> NoPath]
  /\ UNCHANGED <<files, rows, queue, upload, worker, backup, taken>>

-----------------------------------------------------------------------------
\* old: attachments made before files were addressed by content; plain: before they
\* were compressed.
Init ==
  /\ \E start \in Starts :
       /\ rows = {[id |-> p, path |-> p, content |-> p[2], scan |-> "unscanned", expired |-> FALSE] :
                    p \in {Old(c) : c \in start.old} \cup {Plain(c) : c \in start.plain}}
       /\ upload = [u \in Uploads |-> Arrived(start.batch[u])]
       /\ migration = [at |-> IF "migrate" \in start.run THEN "idle" ELSE "over", todo |-> {},
                       id |-> NoPath, from |-> NoPath, to |-> NoPath]
       /\ backup = [at |-> IF "copy" \in start.run THEN "idle" ELSE "failed", count |-> 0,
                    dump |-> {}, todo |-> {}, copied |-> {}]
  /\ files = {r.path : r \in rows}
  /\ queue = <<>>
  /\ worker = Waiting
  /\ crashes = 0 /\ taken = {} /\ strayed = {}

Request(u) ==
  \/ Stage(u) \/ Stat(u) \/ Rename(u) \/ Judge(u) \/ Insert(u)
  \/ Commit(u) \/ LoseCommit(u) \/ Fail(u) \/ Clean(u)

Retention == Purge \/ Take \/ RemoveFile \/ Forget
Migrate == MigrateStart \/ MigrateCopy \/ MigrateUpdate \/ MigrateClear \/ MigrateStop \/ MigrationCrash
Copy == Count \/ Dump \/ List \/ CopyFile \/ Seal \/ Drill

Next ==
  \/ \E u \in Uploads : Request(u)
  \/ \E r \in rows : Expire(r)
  \/ Retention \/ Migrate \/ Copy \/ Crash

Spec == Init /\ [][Next]_vars

-----------------------------------------------------------------------------
\* Properties

\* Rows, requests and the commands are well formed.
TypeOK ==
  /\ files \subseteq AnyPath /\ rows \subseteq Row /\ queue \in Seq(Path)
  /\ upload \in [Uploads -> Upload]
  /\ worker \in Worker /\ migration \in Migration /\ backup \in Backup
  /\ crashes \in 0..MaxCrashes /\ taken \subseteq Path /\ strayed \subseteq AnyPath

\* An attachment lacks its bytes only if they were taken in one of two ways the
\* code does not exclude: the upload that had created them failed after another had
\* found them there, or the worker removed a queued file while an upload that had
\* found it there was not yet committed.
LossesHaveACause == \A r \in rows : r.path \in files \/ r.path \in taken

\* What u has created and, if it fails, removes.
Created(u) ==
  {upload[u].files[i].path : i \in {j \in DOMAIN upload[u].files : ~upload[u].files[j].shared}}
    \cup (IF upload[u].at \in {"staged", "renaming"} THEN {Staging(u)} ELSE {})

\* A file nobody will ever remove was left by a crash, by a commit that was lost or
\* by the migration of a row that was purged under it.
LeftoversHaveACause ==
  \A p \in files :
    \/ RowsAt(p) # {} \/ p \in strayed
    \/ \E i \in DOMAIN queue : queue[i] = p
    \/ \E u \in Uploads : p \in Created(u)
    \/ Moves(p)
    \/ migration.at \in {"updating", "clearing"} /\ p = migration.from

\* Rows and files agree but for the races, the crashes and the lost commits named
\* above (attachments.go:97-140, retention.go:78-117).
FilesFollowRows == LossesHaveACause /\ LeftoversHaveACause

\* Whatever the interleaving of a user's uploads, what they leave is within the quota.
QuotaHolds == \A u \in Uploads : Cardinality(RowsOf(Uploader[u])) <= Quota

\* Download refuses quarantined rows only: what the scanner objects to must be in
\* quarantine, also when the bytes were already there under another verdict.
InfectedIsNotServed ==
  \A r \in rows : r.id[1] \in Uploads /\ r.content \in Infected => r.scan = "quarantined"

\* Both hold of what an upload commits, though quota and verdict were found before.
UploadsKeepTheRules == QuotaHolds /\ InfectedIsNotServed

\* Rows are dumped before files are listed: a sealed copy lacks the bytes of a row it
\* contains only if the row has been purged or moved since, or had lost them before.
\* A copy that passes the drill lacks none.
CopiesAreWhole ==
  LET missing == {r \in backup.dump : r.path \notin backup.copied} IN
  /\ backup.at \in {"sealed", "proved", "refused"} =>
       \A r \in missing : r.path \in taken \/ \A s \in rows : s.id # r.id \/ s.path # r.path
  /\ backup.at = "proved" => missing = {}

\* retention.go:90-94: removing any reference but the last must not remove a document
\* whose time has not come (and attachments.go:123-124 of a failed upload).
DocumentsKeepTheirBytes == \A r \in rows : ~r.expired => r.path \in files
=============================================================================
