-------------------------- MODULE FileStore_proofs --------------------------
(***************************************************************************)
(* Proofs about the store of files, for any uploads, contents, quota and   *)
(* number of crashes: rows and files agree but for the causes that the     *)
(* invariants name, uploads keep the quota and the quarantine, and a copy  *)
(* that is sealed lacks only what has been lost or purged.                 *)
(***************************************************************************)
EXTENDS FileStore, FiniteSetTheorems, TLAPS

\* Addressed files have no name of their own: only rows of earlier times have one.
IsOld(p) == p[1] = "old"

\* How far an upload has come with its batch, and what Inspect has said of its files.
UploadFits(x) ==
  /\ x.at \in {"copying", "staged", "renaming"} => Len(x.files) < Len(x.batch)
  /\ x.at = "judging" => Len(x.files) \in 1..Len(x.batch)
  /\ x.at \in {"judged", "inserting"} => Len(x.files) = Len(x.batch)
  /\ x.at = "over" => x.files = <<>>
  /\ \A i \in DOMAIN x.files : ~IsOld(x.files[i].path)
  /\ x.at \notin {"cleaning", "over"} => \A i \in DOMAIN x.files :
       /\ x.files[i].path[2] = x.batch[i]
       /\ x.batch[i] \in Infected =>
            x.files[i].scan = "quarantined" \/ (x.at = "judging" /\ i = Len(x.files))

UploadsFit == \A u \in Uploads : UploadFits(upload[u])

\* A row has an id of its own; an upload is over when its rows are there.
RowsFit ==
  /\ IsFiniteSet(rows)
  /\ \A r, s \in rows : r.id = s.id => r = s
  /\ \A r \in rows : /\ r.id[1] \in Uploads => upload[r.id[1]].at = "over"
                     /\ IsOld(r.path) => r.id[1] = "old"

\* What the migration has read of a row stays so until it writes it.
MigrationFits ==
  /\ \A r \in migration.todo :
       /\ IsOld(r.path) /\ r.id[1] = "old"
       /\ \A s \in rows : s.id = r.id => s.path = r.path
       /\ \A s \in migration.todo : s.id = r.id => s = r
  /\ migration.at \in {"updating", "clearing"} => migration.from \in Path /\ IsOld(migration.from)
  /\ migration.at = "updating" =>
       /\ migration.to \in Path /\ ~IsOld(migration.to)
       /\ migration.id[1] = "old"
       /\ \A r \in migration.todo : r.id # migration.id
       /\ \A s \in rows : s.id = migration.id => s.path = migration.from

\* The job the worker has locked is the oldest; it knows whether anybody refers to it.
WorkerFits ==
  worker.at # "idle" => /\ queue # <<>> /\ worker.job = Head(queue)
                        /\ worker.free = ~worker.referenced

StoreInv == TypeOK /\ UploadsFit /\ RowsFit /\ MigrationFits /\ WorkerFits

-----------------------------------------------------------------------------
(* Sequences *)

LEMMA AppendedTo ==
  ASSUME NEW S, NEW s \in Seq(S), NEW e \in S
  PROVE  /\ Append(s, e) \in Seq(S) /\ Len(Append(s, e)) = Len(s) + 1
         /\ DOMAIN Append(s, e) = 1..(Len(s) + 1)
         /\ Append(s, e)[Len(s) + 1] = e
         /\ \A i \in 1..Len(s) : Append(s, e)[i] = s[i]
OBVIOUS

LEMMA Concatenated ==
  ASSUME NEW S, NEW s \in Seq(S), NEW t \in Seq(S)
  PROVE  /\ s \o t \in Seq(S) /\ Len(s \o t) = Len(s) + Len(t)
         /\ DOMAIN (s \o t) = 1..(Len(s) + Len(t))
         /\ \A i \in 1..Len(s) : (s \o t)[i] = s[i]
         /\ \A i \in 1..Len(t) : (s \o t)[Len(s) + i] = t[i]
<1>1. s \o t \in Seq(S) /\ Len(s \o t) = Len(s) + Len(t)
  OBVIOUS
<1>2. DOMAIN (s \o t) = 1..(Len(s) + Len(t))
  BY <1>1
<1>3. \A i \in 1..Len(s) : (s \o t)[i] = s[i]
  OBVIOUS
<1>4. \A i \in 1..Len(t) : (s \o t)[Len(s) + i] = t[i]
  OBVIOUS
<1> QED BY <1>1, <1>2, <1>3, <1>4

\* RemoveAt leaves the other elements, and nothing else.
LEMMA RemovedFrom ==
  ASSUME NEW S, NEW s \in Seq(S), NEW i \in DOMAIN s
  PROVE  /\ RemoveAt(s, i) \in Seq(S)
         /\ \A j \in DOMAIN RemoveAt(s, i) : \E k \in DOMAIN s : k # i /\ RemoveAt(s, i)[j] = s[k]
         /\ \A k \in DOMAIN s : k # i => \E j \in DOMAIN RemoveAt(s, i) : RemoveAt(s, i)[j] = s[k]
<1>. DEFINE a == SubSeq(s, 1, i - 1)
            b == SubSeq(s, i + 1, Len(s))
            n == Len(s)
<1>1. n \in Nat /\ i \in 1..n /\ DOMAIN s = 1..n
  OBVIOUS
<1>2. a \in Seq(S) /\ Len(a) = i - 1 /\ \A j \in 1..(i - 1) : a[j] = s[j]
  BY <1>1
<1>3. b \in Seq(S) /\ Len(b) = n - i /\ \A j \in 1..(n - i) : b[j] = s[i + j]
  BY <1>1
<1>4. RemoveAt(s, i) = a \o b
  BY DEF RemoveAt
<1>. HIDE DEF a, b, n
<1>5. /\ a \o b \in Seq(S) /\ DOMAIN (a \o b) = 1..(n - 1)
      /\ \A j \in 1..(i - 1) : (a \o b)[j] = a[j]
      /\ \A j \in 1..(n - i) : (a \o b)[i - 1 + j] = b[j]
  <2>1. Len(a) + Len(b) = n - 1 /\ Len(a) = i - 1 /\ Len(b) = n - i
    BY <1>1, <1>2, <1>3
  <2>2. a \in Seq(S) /\ b \in Seq(S)
    BY <1>2, <1>3
  <2>3. /\ a \o b \in Seq(S) /\ DOMAIN (a \o b) = 1..(Len(a) + Len(b))
        /\ \A j \in 1..Len(a) : (a \o b)[j] = a[j]
        /\ \A j \in 1..Len(b) : (a \o b)[Len(a) + j] = b[j]
    BY <2>2, Concatenated
  <2> QED BY <2>1, <2>3
<1>6. ASSUME NEW j \in 1..(n - 1)
      PROVE  \E k \in DOMAIN s : k # i /\ (a \o b)[j] = s[k]
  <2>1. CASE j \in 1..(i - 1)
    <3>1. j \in 1..n /\ j # i
      BY <1>1, <2>1
    <3>2. (a \o b)[j] = s[j]
      BY <1>2, <1>5, <2>1
    <3> QED BY <1>1, <3>1, <3>2
  <2>2. CASE j \notin 1..(i - 1)
    <3>1. j - i + 1 \in 1..(n - i) /\ j + 1 \in 1..n /\ j + 1 # i
      BY <1>1, <2>2
    <3>2. (a \o b)[i - 1 + (j - i + 1)] = b[j - i + 1] /\ b[j - i + 1] = s[i + (j - i + 1)]
      BY <1>3, <1>5, <3>1
    <3>3. i - 1 + (j - i + 1) = j /\ i + (j - i + 1) = j + 1
      BY <1>1
    <3> QED BY <1>1, <3>1, <3>2, <3>3
  <2> QED BY <2>1, <2>2
<1>7. ASSUME NEW k \in 1..n, k # i
      PROVE  \E j \in 1..(n - 1) : (a \o b)[j] = s[k]
  <2>1. CASE k < i
    <3>1. k \in 1..(i - 1) /\ k \in 1..(n - 1)
      BY <1>1, <2>1
    <3> QED BY <1>2, <1>5, <3>1
  <2>2. CASE k > i
    <3>1. k - i \in 1..(n - i) /\ k - 1 \in 1..(n - 1)
      BY <1>1, <2>2
    <3>2. (a \o b)[i - 1 + (k - i)] = b[k - i] /\ b[k - i] = s[i + (k - i)]
      BY <1>3, <1>5, <3>1
    <3>3. i - 1 + (k - i) = k - 1 /\ i + (k - i) = k
      BY <1>1
    <3> QED BY <3>1, <3>2, <3>3
  <2>3. k < i \/ k > i
    BY <1>1, <1>7
  <2> QED BY <2>1, <2>2, <2>3
<1> QED BY <1>1, <1>4, <1>5, <1>6, <1>7

\* SetToSeq has every element of a finite set.
LEMMA ListedSet ==
  ASSUME NEW S, IsFiniteSet(S)
  PROVE  /\ SetToSeq(S) \in Seq(S)
         /\ \A x \in S : \E i \in DOMAIN SetToSeq(S) : SetToSeq(S)[i] = x
<1>. DEFINE n == Cardinality(S)
            f == SetToSeq(S)
<1>1. n \in Nat /\ ExistsBijection(1..n, S)
  BY FS_CardinalityType
<1>2. \E g \in [1..n -> S] : IsInjective(g)
  BY <1>1 DEF ExistsBijection, Bijection, Injection
<1>3. f \in [1..n -> S] /\ IsInjective(f)
  BY <1>2 DEF SetToSeq
<1>4. f \in Injection(1..n, S)
  BY <1>3 DEF Injection
<1>5. IsFiniteSet(1..n) /\ Cardinality(1..n) = n
  BY <1>1, FS_Interval
<1>6. f \in Surjection(1..n, S)
  BY <1>4, <1>5, FS_Injection
<1>7. \A x \in S : \E i \in 1..n : f[i] = x
  BY <1>6 DEF Surjection
<1> QED BY <1>1, <1>3, <1>7

-----------------------------------------------------------------------------
(* What a step of a request does to its record and to the rest. *)

LEMMA TextsDiffer == \A c \in Contents : ~IsOld(Blob(c)) /\ ~IsOld(Plain(c)) /\ IsOld(Old(c))
BY DEF IsOld, Blob, Plain, Old

LEMMA PathsAreTyped ==
  /\ \A c \in Contents : /\ Blob(c) \in Path /\ Plain(c) \in Path /\ Old(c) \in Path
                         /\ Blob(c)[2] = c /\ Plain(c)[2] = c
  /\ Path \subseteq AnyPath
  /\ \A u \in Uploads : Staging(u) \in AnyPath /\ Staging(u) \notin Path
BY DEF Blob, Plain, Old, Staging, Path, AnyPath

\* What CreateBlob finds has the bytes it looks for.
LEMMA ExistingIsTyped ==
  ASSUME NEW c \in Contents, NEW p \in Existing(c)
  PROVE  p \in Path /\ ~IsOld(p) /\ p[2] = c /\ p \in files
<1>1. p = Blob(c) \/ p = Plain(c)
  BY DEF Existing
<1>2. p \in files
  BY DEF Existing
<1> QED BY <1>1, <1>2, TextsDiffer, PathsAreTyped

\* The record of an upload, field by field.
LEMMA UploadFields ==
  ASSUME NEW x \in Upload
  PROVE  /\ x.at \in Phase /\ x.batch \in Seq(Contents) /\ x.files \in Seq(Staged)
         /\ x = [at |-> x.at, batch |-> x.batch, files |-> x.files]
BY DEF Upload

LEMMA RecordsEqual ==
  ASSUME NEW x \in Upload, NEW y \in Upload,
         x.at = y.at, x.batch = y.batch, x.files = y.files
  PROVE  x = y
BY DEF Upload

LEMMA RecordWith ==
  ASSUME NEW x \in Upload, NEW at \in Phase, NEW list \in Seq(Staged)
  PROVE  [x EXCEPT !.at = at, !.files = list] = [at |-> at, batch |-> x.batch, files |-> list]
<1>. DEFINE y == [x EXCEPT !.at = at, !.files = list]
            n == [at |-> at, batch |-> x.batch, files |-> list]
<1>1. y \in Upload /\ n \in Upload
  BY DEF Upload
<1>2. y.at = at /\ y.batch = x.batch /\ y.files = list
  BY DEF Upload
<1>3. n.at = at /\ n.batch = x.batch /\ n.files = list
  OBVIOUS
<1>. HIDE DEF y, n
<1>4. y = n
  BY <1>1, <1>2, <1>3, RecordsEqual
<1> QED BY <1>4 DEF y, n

LEMMA DoneFits == Done \in Upload /\ UploadFits(Done)
<1>1. Done.at = "over" /\ Done.batch = <<>> /\ Done.files = <<>>
  BY DEF Done
<1>2. Done \in Upload
  BY DEF Done, Upload, Phase
<1>3. UploadFits(Done)
  BY <1>1 DEF UploadFits
<1> QED BY <1>2, <1>3

\* A request moves on without a change of its files.
LEMMA MovedOn ==
  ASSUME NEW x \in Upload, NEW at \in Phase, UploadFits(x), at # "over",
         \/ /\ x.at \in {"copying", "staged"}
            /\ at \in {"staged", "renaming"}
         \/ x.at = "judged" /\ at = "inserting"
         \/ at = "cleaning"
  PROVE  LET n == [at |-> at, batch |-> x.batch, files |-> x.files] IN
         n \in Upload /\ UploadFits(n)
<1>. DEFINE n == [at |-> at, batch |-> x.batch, files |-> x.files]
<1>1. n.at = at /\ n.batch = x.batch /\ n.files = x.files
  OBVIOUS
<1>2. n \in Upload
  BY UploadFields DEF Upload
<1>. HIDE DEF n
<1>3. /\ n.at \in {"copying", "staged", "renaming"} => Len(n.files) < Len(n.batch)
      /\ n.at = "judging" => Len(n.files) \in 1..Len(n.batch)
      /\ n.at \in {"judged", "inserting"} => Len(n.files) = Len(n.batch)
      /\ n.at = "over" => n.files = <<>>
  BY <1>1 DEF UploadFits
<1>4. \A i \in DOMAIN n.files : ~IsOld(n.files[i].path)
  BY <1>1 DEF UploadFits
<1>5. ASSUME n.at \notin {"cleaning", "over"}, NEW i \in DOMAIN n.files
      PROVE  /\ n.files[i].path[2] = n.batch[i]
             /\ n.batch[i] \in Infected =>
                  n.files[i].scan = "quarantined" \/ (n.at = "judging" /\ i = Len(n.files))
  BY <1>1, <1>5 DEF UploadFits
<1>6. UploadFits(n)
  BY <1>3, <1>4, <1>5 DEF UploadFits
<1> QED BY <1>2, <1>6 DEF n

\* A file is added, whether found or created.
LEMMA FileAdded ==
  ASSUME NEW x \in Upload, UploadFits(x), x.at \in {"staged", "renaming"},
         NEW p \in Path, NEW shared \in BOOLEAN,
         ~IsOld(p), p[2] = x.batch[Len(x.files) + 1]
  PROVE  LET f == [path |-> p, shared |-> shared, scan |-> "unscanned"]
             n == [at |-> "judging", batch |-> x.batch, files |-> Append(x.files, f)] IN
         n \in Upload /\ UploadFits(n)
<1>. DEFINE f == [path |-> p, shared |-> shared, scan |-> "unscanned"]
            n == [at |-> "judging", batch |-> x.batch, files |-> Append(x.files, f)]
            k == Len(x.files)
<1>1. n.at = "judging" /\ n.batch = x.batch /\ n.files = Append(x.files, f) /\ f.path = p
  OBVIOUS
<1>2. f \in Staged
  BY DEF Staged, Scan
<1>. HIDE DEF f
<1>3. x.files \in Seq(Staged) /\ x.batch \in Seq(Contents)
  BY UploadFields
<1>4. /\ n.files \in Seq(Staged) /\ Len(n.files) = k + 1
      /\ DOMAIN n.files = 1..(k + 1)
      /\ n.files[k + 1] = f
      /\ \A i \in 1..k : n.files[i] = x.files[i]
  BY <1>1, <1>2, <1>3, AppendedTo
<1>5. n \in Upload
  BY <1>1, <1>3, <1>4 DEF Upload, Phase
<1>. HIDE DEF n
<1>6. k \in Nat /\ k < Len(x.batch) /\ Len(x.batch) \in Nat
  BY <1>3 DEF UploadFits
<1>7. Len(n.files) \in 1..Len(n.batch)
  BY <1>1, <1>4, <1>6
<1>8. DOMAIN x.files = 1..k
  BY <1>3
<1>9. ASSUME NEW i \in DOMAIN n.files
      PROVE  /\ ~IsOld(n.files[i].path)
             /\ n.files[i].path[2] = n.batch[i]
             /\ n.batch[i] \in Infected => n.files[i].scan = "quarantined" \/ i = Len(n.files)
  <2>1. CASE i = k + 1
    BY <1>1, <1>4, <2>1
  <2>2. CASE i \in 1..k
    <3>1. /\ ~IsOld(x.files[i].path)
          /\ x.files[i].path[2] = x.batch[i]
          /\ x.batch[i] \in Infected => x.files[i].scan = "quarantined"
      BY <1>8, <2>2 DEF UploadFits
    <3> QED BY <1>1, <1>4, <2>2, <3>1
  <2> QED BY <1>4, <1>6, <2>1, <2>2
<1>10. UploadFits(n)
  BY <1>1, <1>7, <1>9 DEF UploadFits
<1> QED BY <1>5, <1>10 DEF n, f

\* A file is judged; what is infected comes out in quarantine.
LEMMA FileJudged ==
  ASSUME NEW x \in Upload, UploadFits(x), x.at = "judging",
         NEW verdict \in {"unavailable", "clean"},
         verdict = "clean" => x.files[Len(x.files)].path[2] \notin Infected
  PROVE  LET k == Len(x.files)
             n == [at |-> IF k = Len(x.batch) THEN "judged" ELSE "copying", batch |-> x.batch,
                   files |-> [x.files EXCEPT ![k] =
                     [x.files[k] EXCEPT !.scan = IF verdict = "clean" THEN "clean" ELSE "quarantined"]]] IN
         n \in Upload /\ UploadFits(n)
<1>. DEFINE k == Len(x.files)
            s == IF verdict = "clean" THEN "clean" ELSE "quarantined"
            g == [x.files[k] EXCEPT !.scan = s]
            at == IF k = Len(x.batch) THEN "judged" ELSE "copying"
            n == [at |-> at, batch |-> x.batch, files |-> [x.files EXCEPT ![k] = g]]
<1>1. x.files \in Seq(Staged) /\ x.batch \in Seq(Contents)
  BY UploadFields
<1>2. k \in Nat /\ Len(x.batch) \in Nat /\ k \in 1..Len(x.batch) /\ DOMAIN x.files = 1..k
  BY <1>1 DEF UploadFits
<1>3. x.files[k] \in Staged
  BY <1>1, <1>2
<1>4. s \in {"clean", "quarantined"} /\ (s = "clean" => x.files[k].path[2] \notin Infected)
  OBVIOUS
<1>5. g \in Staged /\ g.path = x.files[k].path /\ g.scan = s
  BY <1>3, <1>4 DEF Staged, Scan
<1>6. n.at = at /\ n.batch = x.batch /\ n.files = [x.files EXCEPT ![k] = g]
  OBVIOUS
<1>. HIDE DEF g, s
<1>7. /\ n.files \in Seq(Staged) /\ Len(n.files) = k /\ DOMAIN n.files = 1..k
      /\ n.files[k] = g
      /\ \A i \in 1..k : i # k => n.files[i] = x.files[i]
  BY <1>1, <1>2, <1>5, <1>6
<1>8. at \in {"judged", "copying"}
  OBVIOUS
<1>9. n \in Upload
  BY <1>1, <1>6, <1>7, <1>8 DEF Upload, Phase
<1>10. at = "copying" => Len(n.files) < Len(n.batch)
  BY <1>2, <1>6, <1>7
<1>11. at = "judged" => Len(n.files) = Len(n.batch)
  BY <1>2, <1>6, <1>7
<1>. HIDE DEF at, n
<1>12. ASSUME NEW i \in DOMAIN n.files
       PROVE  /\ ~IsOld(n.files[i].path)
              /\ n.files[i].path[2] = n.batch[i]
              /\ n.batch[i] \in Infected => n.files[i].scan = "quarantined"
  <2>1. /\ ~IsOld(x.files[i].path)
        /\ x.files[i].path[2] = x.batch[i]
        /\ i # k => (x.batch[i] \in Infected => x.files[i].scan = "quarantined")
    BY <1>2, <1>7 DEF UploadFits
  <2>2. CASE i = k
    BY <1>4, <1>5, <1>6, <1>7, <2>1, <2>2
  <2>3. CASE i # k
    BY <1>6, <1>7, <2>1, <2>3
  <2> QED BY <2>2, <2>3
<1>13. UploadFits(n)
  BY <1>6, <1>8, <1>10, <1>11, <1>12 DEF UploadFits
<1> QED BY <1>9, <1>13 DEF n, at, g, s

\* The clean-up has removed one of the files.
LEMMA FileCleaned ==
  ASSUME NEW x \in Upload, UploadFits(x), x.at = "cleaning", NEW i \in DOMAIN x.files
  PROVE  LET n == [at |-> "cleaning", batch |-> x.batch, files |-> RemoveAt(x.files, i)] IN
         n \in Upload /\ UploadFits(n)
<1>. DEFINE n == [at |-> "cleaning", batch |-> x.batch, files |-> RemoveAt(x.files, i)]
<1>1. n.at = "cleaning" /\ n.batch = x.batch /\ n.files = RemoveAt(x.files, i)
  OBVIOUS
<1>2. x.files \in Seq(Staged) /\ x.batch \in Seq(Contents)
  BY UploadFields
<1>3. /\ n.files \in Seq(Staged)
      /\ \A j \in DOMAIN n.files : \E k \in DOMAIN x.files : k # i /\ n.files[j] = x.files[k]
  BY <1>1, <1>2, RemovedFrom
<1>4. n \in Upload
  BY <1>1, <1>2, <1>3 DEF Upload, Phase
<1>. HIDE DEF n
<1>5. \A j \in DOMAIN n.files : ~IsOld(n.files[j].path)
  BY <1>3 DEF UploadFits
<1>6. UploadFits(n)
  BY <1>1, <1>5 DEF UploadFits
<1> QED BY <1>4, <1>6 DEF n

-----------------------------------------------------------------------------
(* What the later proofs need to know of a step of a request. *)

PathsIn(x) == {x.files[i].path : i \in DOMAIN x.files}

\* Created(u) of a record.
CreatedBy(u, x) ==
  {x.files[i].path : i \in {j \in DOMAIN x.files : ~x.files[j].shared}}
    \cup (IF x.at \in {"staged", "renaming"} THEN {Staging(u)} ELSE {})

\* Nobody but u has anything to do with the path.
OnlyOf(u, p) == RowsAt(p) = {} /\ ~HeldBy(Uploads \ {u}, p)

\* The record of u becomes n; what u has created stays accounted for, and a file goes
\* only if u is cleaning up, with a note if anybody else relies on it.
RecordMoves(u, n) ==
  /\ upload' = [upload EXCEPT ![u] = n]
  /\ n \in Upload /\ UploadFits(n)
  /\ upload[u].at # "over"
  /\ upload[u].at = "cleaning" => n.at \in {"cleaning", "over"}
  /\ n.at = "inserting" => Insert(u)

FilesMove(u, n) ==
  /\ files' \subseteq files \cup CreatedBy(u, n)
  /\ CreatedBy(u, upload[u]) \cap files' \subseteq
       CreatedBy(u, n) \cup strayed' \cup {r.path : r \in rows'}
  /\ n.at # "cleaning" => PathsIn(n) \subseteq PathsIn(upload[u]) \cup files'
  /\ \A p \in Path : p \in files /\ p \notin files' =>
       n.at = "cleaning" /\ (p \in taken' \/ OnlyOf(u, p))

RestMoves(u) ==
  /\ UNCHANGED <<queue, worker, migration, backup>>
  /\ strayed \subseteq strayed' /\ strayed' \subseteq AnyPath
  /\ taken \subseteq taken' /\ taken' \subseteq Path
  /\ crashes' \in 0..MaxCrashes
  /\ rows' = rows \/ Commit(u)

RequestMoves(u) == \E n : RecordMoves(u, n) /\ FilesMove(u, n) /\ RestMoves(u)

LEMMA RestUnchanged ==
  ASSUME TypeOK, NEW u \in Uploads,
         UNCHANGED <<rows, queue, worker, migration, backup, crashes, taken, strayed>>
  PROVE  RestMoves(u)
BY DEF TypeOK, RestMoves

LEMMA FieldsOf ==
  ASSUME TypeOK, NEW u \in Uploads
  PROVE  /\ upload[u] \in Upload /\ DOMAIN upload = Uploads
         /\ upload[u].at \in Phase /\ upload[u].files \in Seq(Staged)
         /\ upload[u].batch \in Seq(Contents)
         /\ DOMAIN upload[u].files = 1..Len(upload[u].files)
         /\ PathsIn(upload[u]) \subseteq Path
         /\ CreatedBy(u, upload[u]) \subseteq AnyPath
<1>. DEFINE x == upload[u]
<1>1. x \in Upload /\ DOMAIN upload = Uploads
  BY DEF TypeOK
<1>2. x.at \in Phase /\ x.files \in Seq(Staged) /\ x.batch \in Seq(Contents)
  BY <1>1, UploadFields
<1>. HIDE DEF x
<1>3. \A i \in DOMAIN x.files : x.files[i] \in Staged
  BY <1>2
<1>4. PathsIn(x) \subseteq Path
  BY <1>3 DEF PathsIn, Staged
<1>5. CreatedBy(u, x) \subseteq PathsIn(x) \cup {Staging(u)}
  BY DEF CreatedBy, PathsIn
<1>6. DOMAIN x.files = 1..Len(x.files)
  BY <1>2
<1> QED BY <1>1, <1>2, <1>4, <1>5, <1>6, PathsAreTyped DEF x

LEMMA StageMoves ==
  ASSUME StoreInv, NEW u \in Uploads, Stage(u)
  PROVE  RequestMoves(u)
<1>. DEFINE x == upload[u]
            n == [at |-> "staged", batch |-> x.batch, files |-> x.files]
<1>1. TypeOK /\ UploadFits(x)
  BY DEF StoreInv, UploadsFit
<1>2. x.at = "copying" /\ files' = files \cup {Staging(u)}
      /\ upload' = [upload EXCEPT ![u].at = "staged"]
      /\ UNCHANGED <<rows, queue, worker, migration, backup, crashes, taken, strayed>>
  BY DEF Stage
<1>3. x \in Upload /\ DOMAIN upload = Uploads
  BY <1>1, FieldsOf
<1>4. n \in Upload /\ UploadFits(n)
  BY <1>1, <1>2, <1>3, MovedOn DEF Phase
<1>5. [x EXCEPT !.at = "staged"] = n
  BY <1>3, UploadFields DEF Upload
<1>6. upload' = [upload EXCEPT ![u] = n]
  BY <1>2, <1>5
<1>7. n.at = "staged" /\ n.files = x.files
  OBVIOUS
<1>. HIDE DEF n
<1>8. RecordMoves(u, n)
  BY <1>2, <1>4, <1>6, <1>7 DEF RecordMoves
<1>9. FilesMove(u, n)
  BY <1>2, <1>7 DEF FilesMove, CreatedBy, PathsIn
<1> QED BY <1>1, <1>2, <1>8, <1>9, RestUnchanged DEF RequestMoves

LEMMA StatMoves ==
  ASSUME StoreInv, NEW u \in Uploads, Stat(u)
  PROVE  RequestMoves(u)
<1>. DEFINE x == upload[u]
            found == Existing(Current(u))
<1>1. TypeOK /\ UploadFits(x)
  BY DEF StoreInv, UploadsFit
<1>2. x.at = "staged"
      /\ UNCHANGED <<rows, queue, worker, migration, backup, crashes, taken, strayed>>
  BY DEF Stat
<1>3. /\ x \in Upload /\ DOMAIN upload = Uploads /\ x.files \in Seq(Staged)
      /\ x.batch \in Seq(Contents) /\ PathsIn(x) \subseteq Path
  BY <1>1, FieldsOf
<1>4. CASE found = {}
  <2>. DEFINE n == [at |-> "renaming", batch |-> x.batch, files |-> x.files]
  <2>1. n \in Upload /\ UploadFits(n)
    BY <1>1, <1>2, <1>3, MovedOn DEF Phase
  <2>2. files' = files /\ upload' = [upload EXCEPT ![u].at = "renaming"]
    BY <1>4 DEF Stat
  <2>3. [x EXCEPT !.at = "renaming"] = n
    BY <1>3, UploadFields DEF Upload
  <2>4. upload' = [upload EXCEPT ![u] = n]
    BY <2>2, <2>3
  <2>5. n.at = "renaming" /\ n.files = x.files
    OBVIOUS
  <2>. HIDE DEF n
  <2>6. RecordMoves(u, n)
    BY <1>2, <2>1, <2>4, <2>5 DEF RecordMoves
  <2>7. FilesMove(u, n)
    BY <1>2, <2>2, <2>5 DEF FilesMove, CreatedBy, PathsIn
  <2> QED BY <1>1, <1>2, <2>6, <2>7, RestUnchanged DEF RequestMoves
<1>5. CASE found # {}
  <2>. DEFINE p == CHOOSE q \in found : TRUE
              f == [path |-> p, shared |-> TRUE, scan |-> "unscanned"]
              n == [at |-> "judging", batch |-> x.batch, files |-> Append(x.files, f)]
  <2>1. p \in found
    BY <1>5
  <2>2. files' = files \ {Staging(u)}
        /\ upload' = [upload EXCEPT ![u].at = "judging", ![u].files = Append(@, f)]
    BY <1>5 DEF Stat
  <2>. HIDE DEF p
  <2>3. Len(x.files) + 1 \in DOMAIN x.batch
    BY <1>1, <1>2, <1>3 DEF UploadFits
  <2>4. Current(u) = x.batch[Len(x.files) + 1] /\ Current(u) \in Contents
    BY <1>3, <2>3 DEF Current, Number
  <2>5. p \in Path /\ ~IsOld(p) /\ p[2] = x.batch[Len(x.files) + 1] /\ p \in files
    BY <2>1, <2>4, ExistingIsTyped
  <2>6. n \in Upload /\ UploadFits(n)
    BY <1>1, <1>2, <1>3, <2>5, FileAdded
  <2>7. [x EXCEPT !.at = "judging", !.files = Append(x.files, f)] = n
    <3>1. f \in Staged
      BY <2>5 DEF Staged, Scan
    <3> HIDE DEF f
    <3>2. Append(x.files, f) \in Seq(Staged) /\ "judging" \in Phase
      BY <1>3, <3>1 DEF Phase
    <3> QED BY <1>3, <3>2, RecordWith
  <2>8. upload' = [upload EXCEPT ![u] = n]
    BY <1>3, <2>2, <2>7
  <2>9. n.at = "judging" /\ n.files = Append(x.files, f) /\ f.path = p /\ f.shared = TRUE
    OBVIOUS
  <2>10. f \in Staged
    BY <2>5 DEF Staged, Scan
  <2>. HIDE DEF n, f
  <2>11. RecordMoves(u, n)
    BY <1>2, <2>6, <2>8, <2>9 DEF RecordMoves
  <2>12. \A i \in DOMAIN n.files : n.files[i] = f \/ \E j \in DOMAIN x.files : n.files[i] = x.files[j]
    BY <1>3, <2>9, <2>10, AppendedTo
  <2>13. \A j \in DOMAIN x.files : \E i \in DOMAIN n.files : n.files[i] = x.files[j]
    BY <1>3, <2>9, <2>10, AppendedTo
  <2>14. PathsIn(n) \subseteq PathsIn(x) \cup {p}
    BY <2>9, <2>12 DEF PathsIn
  <2>15. p \in files'
    BY <2>2, <2>5, PathsAreTyped
  <2>16. CreatedBy(u, x) \subseteq CreatedBy(u, n) \cup {Staging(u)}
    BY <2>13 DEF CreatedBy
  <2>17. \A q \in Path : q \in files => q \in files'
    BY <2>2, PathsAreTyped
  <2>18. FilesMove(u, n)
    BY <2>2, <2>14, <2>15, <2>16, <2>17 DEF FilesMove
  <2> QED BY <1>1, <1>2, <2>11, <2>18, RestUnchanged DEF RequestMoves
<1> QED BY <1>4, <1>5

LEMMA RenameMoves ==
  ASSUME StoreInv, NEW u \in Uploads, Rename(u)
  PROVE  RequestMoves(u)
<1>. DEFINE x == upload[u]
            p == Blob(Current(u))
            f == [path |-> p, shared |-> FALSE, scan |-> "unscanned"]
            n == [at |-> "judging", batch |-> x.batch, files |-> Append(x.files, f)]
<1>1. TypeOK /\ UploadFits(x)
  BY DEF StoreInv, UploadsFit
<1>2. /\ x.at = "renaming" /\ files' = (files \ {Staging(u)}) \cup {p}
      /\ upload' = [upload EXCEPT ![u].at = "judging", ![u].files = Append(@, f)]
      /\ UNCHANGED <<rows, queue, worker, migration, backup, crashes, taken, strayed>>
  BY DEF Rename
<1>3. /\ x \in Upload /\ DOMAIN upload = Uploads /\ x.files \in Seq(Staged)
      /\ x.batch \in Seq(Contents)
  BY <1>1, FieldsOf
<1>4. Len(x.files) + 1 \in DOMAIN x.batch
  BY <1>1, <1>2, <1>3 DEF UploadFits
<1>5. Current(u) = x.batch[Len(x.files) + 1] /\ Current(u) \in Contents
  BY <1>3, <1>4 DEF Current, Number
<1>6. p \in Path /\ ~IsOld(p) /\ p[2] = x.batch[Len(x.files) + 1]
  BY <1>5, TextsDiffer, PathsAreTyped
<1>. HIDE DEF p
<1>7. n \in Upload /\ UploadFits(n)
  BY <1>1, <1>2, <1>3, <1>6, FileAdded
<1>8. [x EXCEPT !.at = "judging", !.files = Append(x.files, f)] = n
  <2>1. f \in Staged
    BY <1>6 DEF Staged, Scan
  <2> HIDE DEF f
  <2>2. Append(x.files, f) \in Seq(Staged) /\ "judging" \in Phase
    BY <1>3, <2>1 DEF Phase
  <2> QED BY <1>3, <2>2, RecordWith
<1>9. upload' = [upload EXCEPT ![u] = n]
  BY <1>2, <1>3, <1>8
<1>10. n.at = "judging" /\ n.files = Append(x.files, f) /\ f.path = p /\ f.shared = FALSE
  OBVIOUS
<1>11. f \in Staged
  BY <1>6 DEF Staged, Scan
<1>. HIDE DEF n, f
<1>12. RecordMoves(u, n)
  BY <1>2, <1>7, <1>9, <1>10 DEF RecordMoves
<1>13. \A i \in DOMAIN n.files : n.files[i] = f \/ \E j \in DOMAIN x.files : n.files[i] = x.files[j]
  BY <1>3, <1>10, <1>11, AppendedTo
<1>14. /\ \A j \in DOMAIN x.files : \E i \in DOMAIN n.files : n.files[i] = x.files[j]
       /\ \E i \in DOMAIN n.files : n.files[i] = f
  <2>1. /\ DOMAIN n.files = 1..(Len(x.files) + 1) /\ Len(x.files) \in Nat
        /\ DOMAIN x.files = 1..Len(x.files)
        /\ n.files[Len(x.files) + 1] = f
        /\ \A i \in 1..Len(x.files) : n.files[i] = x.files[i]
    BY <1>3, <1>10, <1>11, AppendedTo
  <2> QED BY <2>1
<1>15. PathsIn(n) \subseteq PathsIn(x) \cup {p}
  BY <1>10, <1>13 DEF PathsIn
<1>16. CreatedBy(u, x) \subseteq CreatedBy(u, n) \cup {Staging(u)}
  BY <1>14 DEF CreatedBy
<1>17. p \in CreatedBy(u, n)
  BY <1>10, <1>14 DEF CreatedBy
<1>18. \A q \in Path : q \in files => q \in files'
  BY <1>2, PathsAreTyped
<1>19. Staging(u) \notin files' /\ p \in files'
  BY <1>2, <1>6, PathsAreTyped
<1>20. FilesMove(u, n)
  BY <1>2, <1>15, <1>16, <1>17, <1>18, <1>19 DEF FilesMove
<1> QED BY <1>1, <1>2, <1>12, <1>20, RestUnchanged DEF RequestMoves

LEMMA JudgeMoves ==
  ASSUME StoreInv, NEW u \in Uploads, Judge(u)
  PROVE  RequestMoves(u)
<1>. DEFINE x == upload[u]
            k == Len(x.files)
<1>1. TypeOK /\ UploadFits(x)
  BY DEF StoreInv, UploadsFit
<1>2. /\ x.at = "judging"
      /\ UNCHANGED <<files, rows, queue, worker, migration, backup, crashes, taken, strayed>>
  BY DEF Judge
<1>3. /\ x \in Upload /\ DOMAIN upload = Uploads /\ x.files \in Seq(Staged)
      /\ x.batch \in Seq(Contents)
  BY <1>1, FieldsOf
<1>4. PICK verdict \in Verdicts(u, x.files[k]) \ {"infected"} :
        upload' = [upload EXCEPT
          ![u].files[k].scan = IF verdict = "clean" THEN "clean" ELSE "quarantined",
          ![u].at = IF k = Len(x.batch) THEN "judged" ELSE "copying"]
  BY DEF Judge, Last
<1>5. /\ verdict \in {"unavailable", "clean"}
      /\ verdict = "clean" => x.files[k].path[2] \notin Infected
  BY DEF Verdicts
<1>. DEFINE s == IF verdict = "clean" THEN "clean" ELSE "quarantined"
            at == IF k = Len(x.batch) THEN "judged" ELSE "copying"
            g == [x.files[k] EXCEPT !.scan = s]
            n == [at |-> at, batch |-> x.batch, files |-> [x.files EXCEPT ![k] = g]]
<1>6. n \in Upload /\ UploadFits(n)
  BY <1>1, <1>2, <1>3, <1>5, FileJudged
<1>7. k \in DOMAIN x.files
  BY <1>1, <1>2, <1>3 DEF UploadFits
<1>8. x.files[k] \in Staged
  BY <1>3, <1>7
<1>9. g.path = x.files[k].path /\ g.shared = x.files[k].shared
  BY <1>8 DEF Staged
<1>10. n.at \in {"judged", "copying"} /\ n.files = [x.files EXCEPT ![k] = g]
  OBVIOUS
<1>11. upload' = [upload EXCEPT ![u].files[k].scan = s, ![u].at = at]
  BY <1>4
<1>12. [x EXCEPT !.files = [x.files EXCEPT ![k] = g], !.at = at] = n
  <2>. DEFINE y == [x EXCEPT !.files = [x.files EXCEPT ![k] = g], !.at = at]
              list == [x.files EXCEPT ![k] = g]
  <2>1. n.at = at /\ n.batch = x.batch /\ n.files = list
    OBVIOUS
  <2>2. n.files \in Seq(Staged) /\ n.at \in Phase
    BY <1>6, UploadFields
  <2>. HIDE DEF n, g, at, k, list
  <2>3. y.at = at /\ y.batch = x.batch /\ y.files = list
    BY <1>3 DEF Upload, list
  <2>4. y \in Upload
    BY <1>3, <2>1, <2>2 DEF Upload, list
  <2>. HIDE DEF y
  <2>5. y = n
    BY <1>6, <2>1, <2>3, <2>4, RecordsEqual
  <2> QED BY <2>5 DEF y, list
<1>13. upload' = [upload EXCEPT ![u] = n]
  <2>. HIDE DEF n, s, at, k
  <2> QED BY <1>3, <1>11, <1>12
<1>. HIDE DEF n, g, s, at
<1>14. RecordMoves(u, n)
  BY <1>2, <1>6, <1>10, <1>13 DEF RecordMoves
<1>15. DOMAIN n.files = DOMAIN x.files
       /\ \A i \in DOMAIN x.files : /\ n.files[i].path = x.files[i].path
                                    /\ n.files[i].shared = x.files[i].shared
  BY <1>7, <1>9, <1>10
<1>16. PathsIn(n) = PathsIn(x)
  BY <1>15 DEF PathsIn
<1>17. CreatedBy(u, n) = CreatedBy(u, x)
  BY <1>2, <1>10, <1>15 DEF CreatedBy
<1>18. FilesMove(u, n)
  BY <1>2, <1>16, <1>17 DEF FilesMove
<1> QED BY <1>1, <1>2, <1>14, <1>18, RestUnchanged DEF RequestMoves

LEMMA FailMoves ==
  ASSUME StoreInv, NEW u \in Uploads, Fail(u)
  PROVE  RequestMoves(u)
<1>. DEFINE x == upload[u]
            n == [at |-> "cleaning", batch |-> x.batch, files |-> x.files]
<1>1. TypeOK /\ UploadFits(x)
  BY DEF StoreInv, UploadsFit
<1>2. /\ x.at \in {"copying", "staged", "renaming", "judging", "judged", "inserting"}
      /\ files' = files \ {Staging(u)}
      /\ upload' = [upload EXCEPT ![u].at = "cleaning"]
      /\ UNCHANGED <<rows, queue, worker, migration, backup, crashes, taken, strayed>>
  BY DEF Fail
<1>3. x \in Upload /\ DOMAIN upload = Uploads
  BY <1>1, FieldsOf
<1>4. n \in Upload /\ UploadFits(n)
  BY <1>1, <1>3, MovedOn DEF Phase
<1>5. [x EXCEPT !.at = "cleaning"] = n
  BY <1>3, UploadFields DEF Upload
<1>6. upload' = [upload EXCEPT ![u] = n]
  BY <1>2, <1>5
<1>7. n.at = "cleaning" /\ n.files = x.files
  OBVIOUS
<1>. HIDE DEF n
<1>8. RecordMoves(u, n)
  BY <1>2, <1>4, <1>6, <1>7 DEF RecordMoves
<1>9. \A q \in Path : q \in files => q \in files'
  BY <1>2, PathsAreTyped
<1>10. CreatedBy(u, x) \subseteq CreatedBy(u, n) \cup {Staging(u)}
  BY <1>7 DEF CreatedBy
<1>11. FilesMove(u, n)
  BY <1>2, <1>7, <1>9, <1>10 DEF FilesMove
<1> QED BY <1>1, <1>2, <1>8, <1>11, RestUnchanged DEF RequestMoves

LEMMA InsertMoves ==
  ASSUME StoreInv, NEW u \in Uploads, Insert(u)
  PROVE  RequestMoves(u)
<1>. DEFINE x == upload[u]
            n == [at |-> "inserting", batch |-> x.batch, files |-> x.files]
<1>1. TypeOK /\ UploadFits(x)
  BY DEF StoreInv, UploadsFit
<1>2. /\ x.at = "judged"
      /\ upload' = [upload EXCEPT ![u].at = "inserting"]
      /\ UNCHANGED <<files, rows, queue, worker, migration, backup, crashes, taken, strayed>>
  BY DEF Insert
<1>3. x \in Upload /\ DOMAIN upload = Uploads
  BY <1>1, FieldsOf
<1>4. n \in Upload /\ UploadFits(n)
  BY <1>1, <1>2, <1>3, MovedOn DEF Phase
<1>5. [x EXCEPT !.at = "inserting"] = n
  BY <1>3, UploadFields DEF Upload
<1>6. upload' = [upload EXCEPT ![u] = n]
  BY <1>2, <1>5
<1>7. n.at = "inserting" /\ n.files = x.files
  OBVIOUS
<1>. HIDE DEF n
<1>8. RecordMoves(u, n)
  BY <1>2, <1>4, <1>6, <1>7 DEF RecordMoves
<1>9. FilesMove(u, n)
  BY <1>2, <1>7 DEF FilesMove, CreatedBy, PathsIn
<1> QED BY <1>1, <1>2, <1>8, <1>9, RestUnchanged DEF RequestMoves

LEMMA DoneIsEmpty ==
  ASSUME NEW u
  PROVE  Done.at = "over" /\ PathsIn(Done) = {} /\ CreatedBy(u, Done) = {}
<1>1. Done.at = "over" /\ Done.files = <<>>
  BY DEF Done
<1>2. DOMAIN Done.files = {}
  BY <1>1
<1> QED BY <1>1, <1>2 DEF PathsIn, CreatedBy

LEMMA OverMoves ==
  ASSUME TypeOK, NEW u \in Uploads, upload' = Over(u), upload[u].at # "over"
  PROVE  RecordMoves(u, Done)
BY DoneFits, DoneIsEmpty DEF RecordMoves, Over

LEMMA CommitMoves ==
  ASSUME StoreInv, NEW u \in Uploads, Commit(u)
  PROVE  RequestMoves(u)
<1>. DEFINE x == upload[u]
<1>1. TypeOK
  BY DEF StoreInv
<1>2. /\ x.at = "inserting" /\ upload' = Over(u) /\ rows' = rows \cup NewRows(u)
      /\ UNCHANGED <<files, queue, worker, migration, backup, crashes, taken, strayed>>
  BY DEF Commit
<1>3. RecordMoves(u, Done)
  BY <1>1, <1>2, OverMoves
<1>4. CreatedBy(u, x) \subseteq PathsIn(x)
  BY <1>2 DEF CreatedBy, PathsIn
<1>5. ASSUME NEW i \in DOMAIN x.files
      PROVE  \E r \in NewRows(u) : r.path = x.files[i].path
  <2>. DEFINE r == [id |-> <<u, i>>, path |-> x.files[i].path, content |-> x.batch[i],
                    scan |-> x.files[i].scan, expired |-> FALSE]
  <2>1. r \in NewRows(u)
    BY DEF NewRows
  <2>2. r.path = x.files[i].path
    OBVIOUS
  <2> QED BY <2>1, <2>2
<1>6. PathsIn(x) \subseteq {r.path : r \in rows'}
  BY <1>2, <1>5 DEF PathsIn
<1>7. FilesMove(u, Done)
  BY <1>2, <1>4, <1>6, DoneIsEmpty DEF FilesMove
<1>8. RestMoves(u)
  BY <1>1, <1>2 DEF RestMoves, TypeOK
<1> QED BY <1>3, <1>7, <1>8 DEF RequestMoves

LEMMA LoseCommitMoves ==
  ASSUME StoreInv, NEW u \in Uploads, LoseCommit(u)
  PROVE  RequestMoves(u)
<1>. DEFINE x == upload[u]
<1>1. TypeOK
  BY DEF StoreInv
<1>2. /\ x.at = "inserting" /\ upload' = Over(u) /\ strayed' = strayed \cup PathsOf(u)
      /\ crashes < MaxCrashes /\ crashes' = crashes + 1
      /\ UNCHANGED <<files, rows, queue, worker, migration, backup, taken>>
  BY DEF LoseCommit
<1>3. RecordMoves(u, Done)
  BY <1>1, <1>2, OverMoves
<1>4. CreatedBy(u, x) \subseteq PathsIn(x) /\ PathsIn(x) = PathsOf(u)
  BY <1>2 DEF CreatedBy, PathsIn, PathsOf
<1>5. FilesMove(u, Done)
  BY <1>2, <1>4, DoneIsEmpty DEF FilesMove
<1>6. crashes' \in 0..MaxCrashes
  BY <1>1, <1>2, StoreAssumption DEF TypeOK
<1>7. PathsIn(x) \subseteq AnyPath
  BY <1>1, FieldsOf, PathsAreTyped
<1>8. RestMoves(u)
  BY <1>1, <1>2, <1>4, <1>6, <1>7 DEF RestMoves, TypeOK
<1> QED BY <1>3, <1>5, <1>8 DEF RequestMoves

\* The clean-up chooses one of its own files.
LEMMA LeastIndex ==
  ASSUME NEW S \in SUBSET Nat, S # {}
  PROVE  (CHOOSE j \in S : \A k \in S : j <= k) \in S
<1>1. PICK x \in S : \A y \in S : ~(<<y, x>> \in OpToRel(<, Nat))
  BY NatLessThanWellFounded, WFMin
<1>2. ASSUME NEW y \in S
      PROVE  x <= y
  <2>1. ~(y < x)
    BY <1>1 DEF OpToRel
  <2> QED BY <2>1
<1>3. \E j \in S : \A k \in S : j <= k
  BY <1>2
<1> QED BY <1>3

LEMMA CleanMoves ==
  ASSUME StoreInv, NEW u \in Uploads, Clean(u)
  PROVE  RequestMoves(u)
<1>. DEFINE x == upload[u]
            mine == {i \in DOMAIN x.files : ~x.files[i].shared}
            i == CHOOSE j \in mine : \A k \in mine : j <= k
            p == x.files[i].path
<1>1. TypeOK /\ UploadFits(x)
  BY DEF StoreInv, UploadsFit
<1>2. /\ x.at = "cleaning"
      /\ UNCHANGED <<rows, queue, worker, migration, backup, crashes, strayed>>
  BY DEF Clean
<1>3. /\ x \in Upload /\ DOMAIN upload = Uploads /\ x.files \in Seq(Staged)
      /\ x.batch \in Seq(Contents) /\ PathsIn(x) \subseteq Path
      /\ DOMAIN x.files = 1..Len(x.files)
  BY <1>1, FieldsOf
<1>4. CASE mine = {}
  <2>1. upload' = Over(u) /\ UNCHANGED <<files, taken>>
    BY <1>4 DEF Clean
  <2>2. RecordMoves(u, Done)
    BY <1>1, <1>2, <2>1, OverMoves
  <2>3. CreatedBy(u, x) = {}
    BY <1>2, <1>4 DEF CreatedBy
  <2>4. FilesMove(u, Done)
    BY <2>1, <2>3, DoneIsEmpty DEF FilesMove
  <2> QED BY <1>1, <1>2, <2>1, <2>2, <2>4, RestUnchanged DEF RequestMoves
<1>5. CASE mine # {}
  <2>1. /\ files' = files \ {p}
        /\ taken' = IF RowsAt(p) # {} \/ HeldBy(Uploads \ {u}, p) THEN taken \cup {p} ELSE taken
        /\ upload' = [upload EXCEPT ![u].files = RemoveAt(x.files, i)]
    BY <1>5 DEF Clean
  <2>2. i \in mine
    <3>1. mine \in SUBSET Nat
      BY <1>3
    <3>. HIDE DEF mine
    <3> QED BY <1>5, <3>1, LeastIndex
  <2>. HIDE DEF i
  <2>3. p \in Path
    BY <1>3, <2>2 DEF PathsIn
  <2>. DEFINE n == [at |-> "cleaning", batch |-> x.batch, files |-> RemoveAt(x.files, i)]
  <2>4. n \in Upload /\ UploadFits(n)
    BY <1>1, <1>2, <1>3, <2>2, FileCleaned
  <2>5. [x EXCEPT !.files = RemoveAt(x.files, i)] = n
    <3>. DEFINE list == RemoveAt(x.files, i)
    <3>1. x = [at |-> "cleaning", batch |-> x.batch, files |-> x.files]
      BY <1>2, <1>3, UploadFields
    <3>. HIDE DEF list
    <3>2. [x EXCEPT !.files = list] = [at |-> "cleaning", batch |-> x.batch, files |-> list]
      BY <1>2, <1>3 DEF Upload
    <3> QED BY <3>2 DEF list
  <2>6. upload' = [upload EXCEPT ![u] = n]
    BY <2>1, <2>5
  <2>7. n.at = "cleaning" /\ n.files = RemoveAt(x.files, i)
    OBVIOUS
  <2>. HIDE DEF n
  <2>8. RecordMoves(u, n)
    BY <1>2, <2>4, <2>6, <2>7 DEF RecordMoves
  <2>9. \A k \in DOMAIN x.files : k # i => \E j \in DOMAIN n.files : n.files[j] = x.files[k]
    BY <1>3, <2>2, <2>7, RemovedFrom
  <2>10. CreatedBy(u, x) \subseteq CreatedBy(u, n) \cup {p}
    BY <1>2, <2>9 DEF CreatedBy
  <2>11. taken \subseteq taken' /\ taken' \subseteq Path
    BY <1>1, <2>1, <2>3 DEF TypeOK
  <2>12. p \in taken' \/ OnlyOf(u, p)
    BY <2>1 DEF OnlyOf
  <2>13. FilesMove(u, n)
    BY <2>1, <2>7, <2>10, <2>12 DEF FilesMove
  <2>14. RestMoves(u)
    BY <1>1, <1>2, <2>11 DEF RestMoves, TypeOK
  <2> QED BY <2>8, <2>13, <2>14 DEF RequestMoves
<1> QED BY <1>4, <1>5

LEMMA EveryRequestMoves ==
  ASSUME StoreInv, NEW u \in Uploads, Request(u)
  PROVE  RequestMoves(u)
BY StageMoves, StatMoves, RenameMoves, JudgeMoves, InsertMoves, CommitMoves, LoseCommitMoves,
   FailMoves, CleanMoves DEF Request

-----------------------------------------------------------------------------
(* Types, and what rows, requests and the commands know of each other. *)

LEMMA RecordIsTyped ==
  ASSUME NEW u \in Uploads, NEW x \in Upload
  PROVE  PathsIn(x) \subseteq Path /\ CreatedBy(u, x) \subseteq AnyPath
<1>1. x.files \in Seq(Staged)
  BY UploadFields
<1>2. \A i \in DOMAIN x.files : x.files[i] \in Staged
  BY <1>1
<1>3. PathsIn(x) \subseteq Path
  BY <1>2 DEF PathsIn, Staged
<1>4. CreatedBy(u, x) \subseteq PathsIn(x) \cup {Staging(u)}
  BY DEF CreatedBy, PathsIn
<1> QED BY <1>3, <1>4, PathsAreTyped

\* The rows an upload commits are its own, one for each file of its batch.
LEMMA NewRowsFit ==
  ASSUME StoreInv, NEW u \in Uploads, upload[u].at = "inserting"
  PROVE  /\ NewRows(u) \subseteq Row
         /\ \A r \in NewRows(u) :
              /\ r.id[1] = u /\ ~IsOld(r.path) /\ r.path \in PathsIn(upload[u])
              /\ r.content \in Infected => r.scan = "quarantined"
         /\ \A r, s \in NewRows(u) : r.id = s.id => r = s
         /\ IsFiniteSet(NewRows(u)) /\ Cardinality(NewRows(u)) <= Len(upload[u].batch)
<1>. DEFINE x == upload[u]
            row(i) == [id |-> <<u, i>>, path |-> x.files[i].path, content |-> x.batch[i],
                       scan |-> x.files[i].scan, expired |-> FALSE]
<1>1. /\ x.files \in Seq(Staged) /\ x.batch \in Seq(Contents)
      /\ DOMAIN x.files = 1..Len(x.files) /\ UploadFits(x)
  BY FieldsOf DEF StoreInv, UploadsFit
<1>2. Len(x.files) = Len(x.batch) /\ Len(x.batch) \in Nat
  BY <1>1 DEF UploadFits
<1>3. NewRows(u) = {row(i) : i \in DOMAIN x.files}
  BY DEF NewRows
<1>4. ASSUME NEW i \in DOMAIN x.files
      PROVE  /\ row(i) \in Row
             /\ row(i).id = <<u, i>> /\ row(i).id[1] = u /\ ~IsOld(row(i).path)
             /\ row(i).path \in PathsIn(x)
             /\ row(i).content \in Infected => row(i).scan = "quarantined"
  <2>1. x.files[i] \in Staged /\ x.batch[i] \in Contents /\ i \in Nat
    BY <1>1, <1>2
  <2>2. x.files[i].path \in Path /\ x.files[i].scan \in Scan
    BY <2>1 DEF Staged
  <2>3. <<u, i>> \in Owner
    BY <2>1 DEF Owner
  <2>4. row(i) \in Row
    BY <2>1, <2>2, <2>3 DEF Row
  <2>5. /\ ~IsOld(x.files[i].path)
        /\ x.batch[i] \in Infected => x.files[i].scan = "quarantined"
    BY <1>1 DEF UploadFits
  <2> QED BY <2>4, <2>5 DEF PathsIn
<1>5. \A i, j \in DOMAIN x.files : row(i).id = row(j).id => i = j
  OBVIOUS
<1>6. IsFiniteSet(NewRows(u)) /\ Cardinality(NewRows(u)) <= Len(x.batch)
  <2>. DEFINE D == 1..Len(x.files)
              f == [i \in D |-> row(i)]
  <2>1. NewRows(u) = {row(i) : i \in D}
    BY <1>1, <1>3
  <2>2. f \in Surjection(D, NewRows(u))
    <3>. HIDE DEF row, D
    <3>1. f \in [D -> NewRows(u)]
      BY <2>1
    <3>2. \A t \in NewRows(u) : \E i \in D : f[i] = t
      BY <2>1
    <3> QED BY <3>1, <3>2 DEF Surjection
  <2>3. IsFiniteSet(D) /\ Cardinality(D) = Len(x.files)
    <3>. DEFINE k == Len(x.files)
    <3>1. k \in Nat
      BY <1>2
    <3>. HIDE DEF k
    <3>2. IsFiniteSet(1..k) /\ Cardinality(1..k) = k
      BY <3>1, FS_Interval
    <3> QED BY <3>2 DEF k
  <2>. HIDE DEF f, D
  <2>4. IsFiniteSet(NewRows(u)) /\ Cardinality(NewRows(u)) <= Cardinality(D)
    BY <2>2, <2>3, FS_Surjection
  <2> QED BY <1>2, <2>3, <2>4
<1>. HIDE DEF row
<1>7. /\ NewRows(u) \subseteq Row
      /\ \A r \in NewRows(u) :
              /\ r.id[1] = u /\ ~IsOld(r.path) /\ r.path \in PathsIn(upload[u])
              /\ r.content \in Infected => r.scan = "quarantined"
  BY <1>3, <1>4
<1>8. \A r, s \in NewRows(u) : r.id = s.id => r = s
  BY <1>3, <1>5
<1> QED BY <1>6, <1>7, <1>8

LEMMA RequestKeepsStore ==
  ASSUME StoreInv, NEW u \in Uploads, Request(u)
  PROVE  StoreInv'
<1>1. PICK n : RecordMoves(u, n) /\ FilesMove(u, n) /\ RestMoves(u)
  BY EveryRequestMoves DEF RequestMoves
<1>2. TypeOK /\ UploadsFit /\ RowsFit /\ MigrationFits /\ WorkerFits
  BY DEF StoreInv
<1>3. /\ upload' = [upload EXCEPT ![u] = n] /\ n \in Upload /\ UploadFits(n)
      /\ upload \in [Uploads -> Upload] /\ upload[u].at # "over"
  BY <1>1, <1>2 DEF RecordMoves, TypeOK
<1>4. upload' \in [Uploads -> Upload] /\ upload'[u] = n
      /\ \A v \in Uploads : v # u => upload'[v] = upload[v]
  BY <1>3
<1>5. UploadsFit'
  BY <1>2, <1>3, <1>4 DEF UploadsFit
<1>6. UNCHANGED <<queue, worker, migration, backup>>
  BY <1>1 DEF RestMoves
<1>7. files' \subseteq AnyPath
  BY <1>1, <1>2, <1>3, RecordIsTyped DEF FilesMove, TypeOK
<1>8. \A r \in rows : r.id[1] # u
  BY <1>2, <1>3 DEF RowsFit
<1>9. CASE rows' = rows
  <2>1. TypeOK'
    BY <1>1, <1>2, <1>4, <1>6, <1>7, <1>9 DEF TypeOK, RestMoves
  <2>2. RowsFit'
    BY <1>2, <1>4, <1>8, <1>9 DEF RowsFit
  <2>3. MigrationFits' /\ WorkerFits'
    BY <1>2, <1>6, <1>9 DEF MigrationFits, WorkerFits
  <2> QED BY <1>5, <2>1, <2>2, <2>3 DEF StoreInv
<1>10. CASE Commit(u)
  <2>1. upload[u].at = "inserting" /\ rows' = rows \cup NewRows(u) /\ upload' = Over(u)
    BY <1>10 DEF Commit
  <2>2. /\ NewRows(u) \subseteq Row
        /\ \A r \in NewRows(u) : r.id[1] = u /\ ~IsOld(r.path)
        /\ \A r, s \in NewRows(u) : r.id = s.id => r = s
        /\ IsFiniteSet(NewRows(u))
    BY <2>1, NewRowsFit
  <2>3. TypeOK'
    BY <1>1, <1>2, <1>4, <1>6, <1>7, <2>1, <2>2 DEF TypeOK, RestMoves
  <2>4. upload'[u].at = "over"
    BY <1>3, <2>1, DoneIsEmpty DEF Over
  <2>5. IsFiniteSet(rows')
    BY <1>2, <2>1, <2>2, FS_Union DEF RowsFit
  <2>6. \A r, s \in rows' : r.id = s.id => r = s
    BY <1>2, <1>8, <2>1, <2>2 DEF RowsFit
  <2>7. \A r \in rows' : /\ r.id[1] \in Uploads => upload'[r.id[1]].at = "over"
                         /\ IsOld(r.path) => r.id[1] = "old"
    BY <1>2, <1>4, <1>8, <2>1, <2>2, <2>4 DEF RowsFit
  <2>8. RowsFit'
    BY <2>5, <2>6, <2>7 DEF RowsFit
  <2>9. u # "old"
    BY StoreAssumption
  <2>10. \A r \in rows' : r \in rows \/ r.id[1] # "old"
    BY <2>1, <2>2, <2>9
  <2>11. MigrationFits'
    <3>1. \A r \in migration.todo : \A s \in rows' : s.id = r.id => s.path = r.path
      BY <1>2, <2>10 DEF MigrationFits
    <3>2. migration.at = "updating" => \A s \in rows' : s.id = migration.id => s.path = migration.from
      BY <1>2, <2>10 DEF MigrationFits
    <3> QED BY <1>2, <1>6, <3>1, <3>2 DEF MigrationFits
  <2>12. WorkerFits'
    BY <1>2, <1>6 DEF WorkerFits
  <2> QED BY <1>5, <2>3, <2>8, <2>11, <2>12 DEF StoreInv
<1>11. rows' = rows \/ Commit(u)
  BY <1>1 DEF RestMoves
<1> QED BY <1>9, <1>10, <1>11

\* Rows of the same ids and paths, perhaps fewer.
LEMMA FewerRows ==
  ASSUME RowsFit, MigrationFits, UNCHANGED <<upload, migration>>, IsFiniteSet(rows'),
         \A s \in rows' : \E r \in rows : s.id = r.id /\ s.path = r.path,
         \A s, t \in rows' : s.id = t.id => s = t
  PROVE  RowsFit' /\ MigrationFits'
<1>1. RowsFit'
  BY DEF RowsFit
<1>2. MigrationFits'
  <2>1. \A r \in migration.todo : \A s \in rows' : s.id = r.id => s.path = r.path
    BY DEF MigrationFits
  <2>2. migration.at = "updating" => \A s \in rows' : s.id = migration.id => s.path = migration.from
    BY DEF MigrationFits
  <2> QED BY <2>1, <2>2 DEF MigrationFits
<1> QED BY <1>1, <1>2

LEMMA ExpiredRow ==
  ASSUME NEW r \in Row
  PROVE  LET e == [r EXCEPT !.expired = TRUE] IN
         /\ e \in Row /\ e.id = r.id /\ e.path = r.path /\ e.content = r.content
         /\ e.scan = r.scan
BY DEF Row

LEMMA ExpireKeepsStore ==
  ASSUME StoreInv, NEW r \in rows, Expire(r)
  PROVE  StoreInv'
<1>. DEFINE e == [r EXCEPT !.expired = TRUE]
<1>1. TypeOK /\ UploadsFit /\ RowsFit /\ MigrationFits /\ WorkerFits
  BY DEF StoreInv
<1>2. /\ rows' = (rows \ {r}) \cup {e}
      /\ UNCHANGED <<files, queue, upload, worker, migration, backup, crashes, taken, strayed>>
  BY DEF Expire
<1>3. r \in Row
  BY <1>1 DEF TypeOK
<1>4. e \in Row /\ e.id = r.id /\ e.path = r.path
  BY <1>3, ExpiredRow
<1>. HIDE DEF e
<1>5. TypeOK'
  BY <1>1, <1>2, <1>4 DEF TypeOK
<1>6. IsFiniteSet(rows')
  BY <1>1, <1>2, FS_RemoveElement, FS_AddElement DEF RowsFit
<1>7. \A s \in rows' : \E q \in rows : s.id = q.id /\ s.path = q.path
  BY <1>2, <1>4
<1>8. \A s, t \in rows' : s.id = t.id => s = t
  BY <1>1, <1>2, <1>4 DEF RowsFit
<1>9. RowsFit' /\ MigrationFits'
  BY <1>1, <1>2, <1>6, <1>7, <1>8, FewerRows
<1>10. UploadsFit' /\ WorkerFits'
  BY <1>1, <1>2 DEF UploadsFit, WorkerFits
<1> QED BY <1>5, <1>9, <1>10 DEF StoreInv

LEMMA ExpiredPaths ==
  ASSUME TypeOK, RowsFit
  PROVE  LET gone == {r \in rows : r.expired}
             paths == {r.path : r \in gone} IN
         /\ paths \subseteq Path /\ IsFiniteSet(paths)
         /\ SetToSeq(paths) \in Seq(Path)
         /\ \A p \in paths : \E i \in DOMAIN SetToSeq(paths) : SetToSeq(paths)[i] = p
<1>. DEFINE gone == {r \in rows : r.expired}
            paths == {r.path : r \in gone}
            f == [r \in gone |-> r.path]
<1>1. IsFiniteSet(gone)
  BY FS_Subset DEF RowsFit
<1>2. paths \subseteq Path
  BY DEF TypeOK, Row
<1>3. f \in Surjection(gone, paths)
  BY DEF Surjection
<1>. HIDE DEF f
<1>4. IsFiniteSet(paths)
  BY <1>1, <1>3, FS_Surjection
<1>. HIDE DEF paths
<1>5. /\ SetToSeq(paths) \in Seq(paths)
      /\ \A p \in paths : \E i \in DOMAIN SetToSeq(paths) : SetToSeq(paths)[i] = p
  BY <1>4, ListedSet
<1>6. SetToSeq(paths) \in Seq(Path)
  BY <1>2, <1>5
<1> QED BY <1>2, <1>4, <1>5, <1>6 DEF paths

\* What is queued behind keeps the head of the queue.
LEMMA QueuedBehind ==
  ASSUME NEW S, NEW s \in Seq(S), NEW t \in Seq(S), s # <<>>
  PROVE  s \o t # <<>> /\ Head(s \o t) = Head(s)
<1>1. Len(s) \in Nat \ {0} /\ Len(t) \in Nat
  OBVIOUS
<1>2. s \o t \in Seq(S) /\ Len(s \o t) = Len(s) + Len(t) /\ (s \o t)[1] = s[1]
  BY <1>1, Concatenated
<1> QED BY <1>1, <1>2

LEMMA PurgeKeepsStore ==
  ASSUME StoreInv, Purge
  PROVE  StoreInv'
<1>. DEFINE gone == {r \in rows : r.expired}
            paths == {r.path : r \in gone}
<1>1. TypeOK /\ UploadsFit /\ RowsFit /\ MigrationFits /\ WorkerFits
  BY DEF StoreInv
<1>2. /\ rows' = rows \ gone /\ queue' = queue \o SetToSeq(paths)
      /\ UNCHANGED <<files, upload, worker, migration, backup, crashes, taken, strayed>>
  BY DEF Purge
<1>3. SetToSeq(paths) \in Seq(Path)
  BY <1>1, ExpiredPaths
<1>4. IsFiniteSet(rows')
  BY <1>1, <1>2, FS_Subset DEF RowsFit
<1>. HIDE DEF paths
<1>5. queue \in Seq(Path)
  BY <1>1 DEF TypeOK
<1>6. queue' \in Seq(Path)
  BY <1>2, <1>3, <1>5
<1>7. TypeOK'
  BY <1>1, <1>2, <1>6 DEF TypeOK
<1>8. RowsFit' /\ MigrationFits'
  <2>1. /\ \A s \in rows' : \E q \in rows : s.id = q.id /\ s.path = q.path
        /\ \A s, t \in rows' : s.id = t.id => s = t
    BY <1>1, <1>2 DEF RowsFit
  <2> QED BY <1>1, <1>2, <1>4, <2>1, FewerRows
<1>9. queue # <<>> => queue' # <<>> /\ Head(queue') = Head(queue)
  BY <1>2, <1>3, <1>5, QueuedBehind
<1>10. WorkerFits'
  BY <1>1, <1>2, <1>9 DEF WorkerFits
<1>11. UploadsFit'
  BY <1>1, <1>2 DEF UploadsFit
<1> QED BY <1>7, <1>8, <1>10, <1>11 DEF StoreInv

\* Steps that leave rows, requests and the migration alone.
LEMMA OthersUnchanged ==
  ASSUME StoreInv, UNCHANGED <<rows, upload, migration>>
  PROVE  UploadsFit' /\ RowsFit' /\ MigrationFits'
BY DEF StoreInv, UploadsFit, RowsFit, MigrationFits

LEMMA TakeKeepsStore ==
  ASSUME StoreInv, Take
  PROVE  StoreInv'
<1>1. TypeOK
  BY DEF StoreInv
<1>2. /\ queue # <<>>
      /\ worker' = [at |-> "checked", job |-> Head(queue),
                    referenced |-> Referenced(Head(queue)), free |-> RowsAt(Head(queue)) = {}]
      /\ UNCHANGED <<files, rows, queue, upload, migration, backup, crashes, taken, strayed>>
  BY DEF Take
<1>3. Head(queue) \in Path
  BY <1>1, <1>2 DEF TypeOK
<1>4. /\ worker'.at = "checked" /\ worker'.job = Head(queue)
      /\ worker'.free = (RowsAt(Head(queue)) = {})
      /\ worker'.referenced = (RowsAt(Head(queue)) # {})
  BY <1>2 DEF Referenced
<1>5. worker' \in Worker
  <2>1. Referenced(Head(queue)) \in BOOLEAN /\ (RowsAt(Head(queue)) = {}) \in BOOLEAN
    BY DEF Referenced
  <2>. HIDE DEF Referenced, RowsAt
  <2> QED BY <1>2, <1>3, <2>1 DEF Worker
<1>6. TypeOK'
  BY <1>1, <1>2, <1>5 DEF TypeOK
<1>7. WorkerFits'
  BY <1>2, <1>4 DEF WorkerFits
<1> QED BY <1>2, <1>6, <1>7, OthersUnchanged DEF StoreInv

LEMMA RemoveFileKeepsStore ==
  ASSUME StoreInv, RemoveFile
  PROVE  StoreInv'
<1>1. TypeOK /\ WorkerFits
  BY DEF StoreInv
<1>2. /\ worker.at = "checked"
      /\ files' \subseteq files /\ taken' \subseteq taken \cup {worker.job}
      /\ worker' = [worker EXCEPT !.at = "removed"]
      /\ UNCHANGED <<rows, queue, upload, migration, backup, crashes, strayed>>
  BY DEF RemoveFile
<1>3. /\ worker' \in Worker /\ worker'.job = worker.job
      /\ worker'.free = worker.free /\ worker'.referenced = worker.referenced
  BY <1>1, <1>2 DEF TypeOK, Worker
<1>4. worker.job \in Path
  <2>1. queue # <<>> /\ worker.job = Head(queue) /\ queue \in Seq(Path)
    BY <1>1, <1>2 DEF WorkerFits, TypeOK
  <2> QED BY <2>1
<1>5. TypeOK'
  BY <1>1, <1>2, <1>3, <1>4 DEF TypeOK
<1>6. WorkerFits'
  BY <1>1, <1>2, <1>3 DEF WorkerFits
<1> QED BY <1>2, <1>5, <1>6, OthersUnchanged DEF StoreInv

LEMMA ForgetKeepsStore ==
  ASSUME StoreInv, Forget
  PROVE  StoreInv'
<1>1. TypeOK /\ WorkerFits
  BY DEF StoreInv
<1>2. /\ worker.at # "idle" /\ queue' = Tail(queue) /\ worker' = Waiting
      /\ UNCHANGED <<files, rows, upload, migration, backup, crashes, taken, strayed>>
  BY DEF Forget
<1>3. queue' \in Seq(Path)
  BY <1>1, <1>2 DEF TypeOK, WorkerFits
<1>4. worker' \in Worker /\ worker'.at = "idle"
  BY <1>2 DEF Waiting, Worker
<1>5. TypeOK'
  BY <1>1, <1>2, <1>3, <1>4 DEF TypeOK
<1>6. WorkerFits'
  BY <1>4 DEF WorkerFits
<1> QED BY <1>2, <1>5, <1>6, OthersUnchanged DEF StoreInv

\* Steps of the migration that leave the rows alone.
LEMMA MigrationMoves ==
  ASSUME StoreInv, UNCHANGED <<rows, queue, upload, worker, backup, taken>>,
         files' \subseteq AnyPath, strayed' \subseteq AnyPath, crashes' \in 0..MaxCrashes,
         migration' \in Migration, MigrationFits'
  PROVE  StoreInv'
<1>1. TypeOK'
  BY DEF StoreInv, TypeOK
<1>2. UploadsFit' /\ RowsFit' /\ WorkerFits'
  BY DEF StoreInv, UploadsFit, RowsFit, WorkerFits
<1> QED BY <1>1, <1>2 DEF StoreInv

LEMMA MigrationFields ==
  ASSUME TypeOK
  PROVE  /\ migration \in Migration /\ migration.todo \subseteq Row
         /\ migration.id \in Owner \cup {NoPath}
         /\ migration.from \in Path \cup {NoPath} /\ migration.to \in Path \cup {NoPath}
BY DEF TypeOK, Migration

LEMMA MigrateStartKeepsStore ==
  ASSUME StoreInv, MigrateStart
  PROVE  StoreInv'
<1>1. TypeOK /\ RowsFit
  BY DEF StoreInv
<1>2. /\ migration.at = "idle"
      /\ migration' = [migration EXCEPT !.at = "looking", !.todo = {r \in rows : r.path[1] = "old"}]
      /\ UNCHANGED <<files, rows, queue, upload, worker, backup, crashes, taken, strayed>>
  BY DEF MigrateStart
<1>3. {r \in rows : r.path[1] = "old"} \in SUBSET Row
  BY <1>1 DEF TypeOK
<1>4. /\ migration' \in Migration /\ migration'.at = "looking"
      /\ migration'.todo = {r \in rows : r.path[1] = "old"}
  <2>. DEFINE todo == {r \in rows : r.path[1] = "old"}
  <2>1. todo \in SUBSET Row
    BY <1>3
  <2>2. migration' = [migration EXCEPT !.at = "looking", !.todo = todo]
    BY <1>2
  <2>. HIDE DEF todo
  <2>3. migration' \in Migration /\ migration'.at = "looking" /\ migration'.todo = todo
    BY <1>1, <2>1, <2>2 DEF TypeOK, Migration
  <2> QED BY <2>3 DEF todo
<1>5. MigrationFits'
  <2>1. \A r \in migration'.todo : r \in rows /\ IsOld(r.path)
    BY <1>4 DEF IsOld
  <2>2. \A r \in migration'.todo : /\ r.id[1] = "old"
                                   /\ \A s \in rows : s.id = r.id => s = r
    BY <1>1, <2>1 DEF RowsFit
  <2> QED BY <1>2, <1>4, <2>1, <2>2 DEF MigrationFits
<1>6. files' \subseteq AnyPath /\ strayed' \subseteq AnyPath /\ crashes' \in 0..MaxCrashes
  BY <1>1, <1>2 DEF TypeOK
<1> QED BY <1>2, <1>4, <1>5, <1>6, MigrationMoves

\* Where the migration has brought the bytes of a row.
LEMMA MigratedTo ==
  ASSUME TypeOK, NEW r \in Row
  PROVE  LET found == Existing(r.content)
             to == IF found = {} THEN Blob(r.content) ELSE CHOOSE p \in found : TRUE IN
         to \in Path /\ ~IsOld(to)
<1>. DEFINE found == Existing(r.content)
            p == CHOOSE q \in found : TRUE
<1>1. r.content \in Contents
  BY DEF Row
<1>2. CASE found = {}
  BY <1>1, <1>2, TextsDiffer, PathsAreTyped
<1>3. CASE found # {}
  <2>1. p \in found
    BY <1>3
  <2>. HIDE DEF p
  <2>2. p \in Path /\ ~IsOld(p)
    BY <1>1, <2>1, ExistingIsTyped
  <2> QED BY <1>3, <2>2 DEF p
<1> QED BY <1>2, <1>3

LEMMA MigrateCopyKeepsStore ==
  ASSUME StoreInv, MigrateCopy
  PROVE  StoreInv'
<1>1. TypeOK /\ MigrationFits
  BY DEF StoreInv
<1>2. /\ migration.at = "looking"
      /\ UNCHANGED <<rows, queue, upload, worker, backup, crashes, taken, strayed>>
  BY DEF MigrateCopy
<1>. DEFINE to(r) == LET found == Existing(r.content) IN
                     IF found = {} THEN Blob(r.content) ELSE CHOOSE p \in found : TRUE
<1>3. PICK r \in migration.todo :
         IF r.path \in files
         THEN /\ files' = files \cup {to(r)}
              /\ migration' = [at |-> "updating", todo |-> migration.todo \ {r}, id |-> r.id,
                               from |-> r.path, to |-> to(r)]
         ELSE /\ migration' = [migration EXCEPT !.todo = @ \ {r}]
              /\ UNCHANGED files
  BY DEF MigrateCopy
<1>4. migration.todo \subseteq Row /\ migration \in Migration /\ r \in Row
  BY <1>1, MigrationFields
<1>5. to(r) \in Path /\ ~IsOld(to(r))
  BY <1>1, <1>4, MigratedTo
<1>. HIDE DEF to
<1>6. /\ IsOld(r.path) /\ r.id[1] = "old"
      /\ \A s \in rows : s.id = r.id => s.path = r.path
      /\ \A q \in migration.todo : q.id = r.id => q = r
  BY <1>1 DEF MigrationFits
<1>7. r.path \in Path /\ r.id \in Owner
  BY <1>4 DEF Row
<1>8. migration.todo \ {r} \in SUBSET Row
  BY <1>4
<1>9. strayed' \subseteq AnyPath /\ crashes' \in 0..MaxCrashes
  BY <1>1, <1>2 DEF TypeOK
<1>10. CASE r.path \in files
  <2>1. /\ files' = files \cup {to(r)}
        /\ migration' = [at |-> "updating", todo |-> migration.todo \ {r}, id |-> r.id,
                         from |-> r.path, to |-> to(r)]
    BY <1>3, <1>10
  <2>2. /\ migration'.at = "updating" /\ migration'.todo = migration.todo \ {r}
        /\ migration'.id = r.id /\ migration'.from = r.path /\ migration'.to = to(r)
    BY <2>1
  <2>3. migration' \in Migration
    BY <1>5, <1>7, <1>8, <2>1 DEF Migration
  <2>4. files' \subseteq AnyPath
    BY <1>1, <1>5, <2>1, PathsAreTyped DEF TypeOK
  <2>5. MigrationFits'
    <3>1. \A q \in migration'.todo :
             /\ IsOld(q.path) /\ q.id[1] = "old" /\ q.id # r.id
             /\ \A s \in rows : s.id = q.id => s.path = q.path
             /\ \A s \in migration'.todo : s.id = q.id => s = q
      BY <1>1, <1>6, <2>2 DEF MigrationFits
    <3> QED BY <1>2, <1>5, <1>6, <1>7, <2>2, <3>1 DEF MigrationFits
  <2> QED BY <1>2, <1>9, <2>3, <2>4, <2>5, MigrationMoves
<1>11. CASE r.path \notin files
  <2>1. files' = files /\ migration' = [migration EXCEPT !.todo = migration.todo \ {r}]
    BY <1>3, <1>11
  <2>2. /\ migration' \in Migration /\ migration'.at = "looking"
        /\ migration'.todo = migration.todo \ {r}
    BY <1>2, <1>4, <1>8, <2>1 DEF Migration
  <2>3. MigrationFits'
    BY <1>1, <1>2, <2>2 DEF MigrationFits
  <2>4. files' \subseteq AnyPath
    BY <1>1, <2>1 DEF TypeOK
  <2> QED BY <1>2, <1>9, <2>2, <2>3, <2>4, MigrationMoves
<1> QED BY <1>10, <1>11

\* The statement of the migration finds one row or none.
LEMMA MigratedRows ==
  ASSUME StoreInv, MigrateUpdate
  PROVE  \/ rows' = rows /\ \A s \in rows : s.id # migration.id
         \/ \E r \in rows : /\ r.id = migration.id /\ r.path = migration.from
                            /\ rows' = (rows \ {r}) \cup {[r EXCEPT !.path = migration.to]}
<1>. DEFINE targets == {r \in rows : r.id = migration.id}
            moved == {[r EXCEPT !.path = migration.to] : r \in targets}
<1>1. migration.at = "updating" /\ rows' = (rows \ targets) \cup moved
  BY DEF MigrateUpdate
<1>2. CASE targets = {}
  BY <1>1, <1>2
<1>3. CASE targets # {}
  <2>1. PICK r \in rows : r.id = migration.id
    BY <1>3
  <2>2. r.path = migration.from
    BY <1>1, <2>1 DEF StoreInv, MigrationFits
  <2>3. targets = {r}
    BY <2>1 DEF StoreInv, RowsFit
  <2>4. moved = {[r EXCEPT !.path = migration.to]}
    BY <2>3
  <2> QED BY <1>1, <2>1, <2>2, <2>3, <2>4
<1> QED BY <1>2, <1>3

LEMMA MovedRow ==
  ASSUME NEW r \in Row, NEW p \in Path
  PROVE  LET e == [r EXCEPT !.path = p] IN
         /\ e \in Row /\ e.id = r.id /\ e.path = p /\ e.content = r.content
         /\ e.scan = r.scan /\ e.expired = r.expired
BY DEF Row

LEMMA MigrateUpdateKeepsStore ==
  ASSUME StoreInv, MigrateUpdate
  PROVE  StoreInv'
<1>1. TypeOK /\ UploadsFit /\ RowsFit /\ MigrationFits /\ WorkerFits
  BY DEF StoreInv
<1>2. /\ migration.at = "updating" /\ migration' = [migration EXCEPT !.at = "clearing"]
      /\ strayed' \subseteq strayed \cup {migration.to}
      /\ UNCHANGED <<files, queue, upload, worker, backup, crashes, taken>>
  BY DEF MigrateUpdate
<1>3. /\ migration.from \in Path /\ IsOld(migration.from)
      /\ migration.to \in Path /\ ~IsOld(migration.to)
      /\ \A r \in migration.todo : r.id # migration.id
  BY <1>1, <1>2 DEF MigrationFits
<1>4. /\ migration' \in Migration /\ migration'.at = "clearing"
      /\ migration'.todo = migration.todo /\ migration'.from = migration.from
  BY <1>1, <1>2 DEF TypeOK, Migration
<1>5. strayed' \subseteq AnyPath
  BY <1>1, <1>2, <1>3, PathsAreTyped DEF TypeOK
<1>6. UploadsFit' /\ WorkerFits'
  BY <1>1, <1>2 DEF UploadsFit, WorkerFits
<1>7. CASE rows' = rows
  <2>1. TypeOK'
    BY <1>1, <1>2, <1>4, <1>5, <1>7 DEF TypeOK
  <2>2. RowsFit' /\ MigrationFits'
    BY <1>1, <1>2, <1>3, <1>4, <1>7 DEF RowsFit, MigrationFits
  <2> QED BY <1>6, <2>1, <2>2 DEF StoreInv
<1>8. CASE \E r \in rows : /\ r.id = migration.id
                           /\ rows' = (rows \ {r}) \cup {[r EXCEPT !.path = migration.to]}
  <2>1. PICK r \in rows : /\ r.id = migration.id
                          /\ rows' = (rows \ {r}) \cup {[r EXCEPT !.path = migration.to]}
    BY <1>8
  <2>. DEFINE e == [r EXCEPT !.path = migration.to]
  <2>2. r \in Row
    BY <1>1 DEF TypeOK
  <2>3. e \in Row /\ e.id = r.id /\ e.path = migration.to
    BY <1>3, <2>2, MovedRow
  <2>4. rows' = (rows \ {r}) \cup {e}
    BY <2>1
  <2>. HIDE DEF e
  <2>5. TypeOK'
    BY <1>1, <1>2, <1>4, <1>5, <2>3, <2>4 DEF TypeOK
  <2>6. IsFiniteSet(rows')
    BY <1>1, <2>4, FS_RemoveElement, FS_AddElement DEF RowsFit
  <2>7. \A s, t \in rows' : s.id = t.id => s = t
    BY <1>1, <2>3, <2>4 DEF RowsFit
  <2>8. \A s \in rows' : /\ s.id[1] \in Uploads => upload'[s.id[1]].at = "over"
                         /\ IsOld(s.path) => s.id[1] = "old"
    BY <1>1, <1>2, <1>3, <2>3, <2>4 DEF RowsFit
  <2>9. RowsFit'
    BY <2>6, <2>7, <2>8 DEF RowsFit
  <2>10. \A q \in migration.todo : \A s \in rows' : s.id = q.id => s.path = q.path
    BY <1>1, <1>3, <2>1, <2>3, <2>4 DEF MigrationFits
  <2>11. MigrationFits'
    BY <1>1, <1>3, <1>4, <2>10 DEF MigrationFits
  <2> QED BY <1>6, <2>5, <2>9, <2>11 DEF StoreInv
<1> QED BY <1>7, <1>8, MigratedRows

LEMMA MigrateClearKeepsStore ==
  ASSUME StoreInv, MigrateClear
  PROVE  StoreInv'
<1>1. TypeOK /\ MigrationFits
  BY DEF StoreInv
<1>2. /\ files' \subseteq files
      /\ migration' = [migration EXCEPT !.at = "looking", !.id = NoPath, !.from = NoPath, !.to = NoPath]
      /\ UNCHANGED <<rows, queue, upload, worker, backup, crashes, taken, strayed>>
  BY DEF MigrateClear
<1>3. /\ migration' \in Migration /\ migration'.at = "looking"
      /\ migration'.todo = migration.todo
  BY <1>1, <1>2 DEF TypeOK, Migration
<1>4. MigrationFits'
  BY <1>1, <1>2, <1>3 DEF MigrationFits
<1>5. files' \subseteq AnyPath /\ strayed' \subseteq AnyPath /\ crashes' \in 0..MaxCrashes
  BY <1>1, <1>2 DEF TypeOK
<1> QED BY <1>2, <1>3, <1>4, <1>5, MigrationMoves

LEMMA MigrateStopKeepsStore ==
  ASSUME StoreInv, MigrateStop
  PROVE  StoreInv'
<1>1. TypeOK /\ MigrationFits
  BY DEF StoreInv
<1>2. /\ migration' = [migration EXCEPT !.at = "over"]
      /\ UNCHANGED <<files, rows, queue, upload, worker, backup, crashes, taken, strayed>>
  BY DEF MigrateStop
<1>3. /\ migration' \in Migration /\ migration'.at = "over"
      /\ migration'.todo = migration.todo
  BY <1>1, <1>2 DEF TypeOK, Migration
<1>4. MigrationFits'
  BY <1>1, <1>2, <1>3 DEF MigrationFits
<1>5. files' \subseteq AnyPath /\ strayed' \subseteq AnyPath /\ crashes' \in 0..MaxCrashes
  BY <1>1, <1>2 DEF TypeOK
<1> QED BY <1>2, <1>3, <1>4, <1>5, MigrationMoves

LEMMA MigrationCrashKeepsStore ==
  ASSUME StoreInv, MigrationCrash
  PROVE  StoreInv'
<1>1. TypeOK
  BY DEF StoreInv
<1>2. /\ crashes < MaxCrashes /\ crashes' = crashes + 1
      /\ strayed' = strayed \cup ({migration.to, migration.from} \cap Path)
      /\ migration' = [at |-> "idle", todo |-> {}, id |-> NoPath, from |-> NoPath, to |-> NoPath]
      /\ UNCHANGED <<files, rows, queue, upload, worker, backup, taken>>
  BY DEF MigrationCrash
<1>3. migration' \in Migration /\ migration'.at = "idle" /\ migration'.todo = {}
  BY <1>2 DEF Migration
<1>4. MigrationFits'
  BY <1>3 DEF MigrationFits
<1>5. files' \subseteq AnyPath /\ strayed' \subseteq AnyPath
  BY <1>1, <1>2, PathsAreTyped DEF TypeOK
<1>6. crashes' \in 0..MaxCrashes
  BY <1>1, <1>2, StoreAssumption DEF TypeOK
<1> QED BY <1>2, <1>3, <1>4, <1>5, <1>6, MigrationMoves

LEMMA MigrateKeepsStore ==
  ASSUME StoreInv, Migrate
  PROVE  StoreInv'
BY MigrateStartKeepsStore, MigrateCopyKeepsStore, MigrateUpdateKeepsStore,
   MigrateClearKeepsStore, MigrateStopKeepsStore, MigrationCrashKeepsStore DEF Migrate

\* The copy touches nothing but what it keeps of itself.
LEMMA CopyMoves ==
  ASSUME StoreInv, Copy
  PROVE  /\ backup' \in Backup
         /\ UNCHANGED <<files, rows, queue, upload, worker, migration, crashes, taken, strayed>>
<1>1. backup \in Backup /\ rows \in SUBSET Row /\ files \in SUBSET AnyPath /\ IsFiniteSet(rows)
  BY DEF StoreInv, TypeOK, RowsFit
<1>2. Cardinality(rows) \in Nat
  BY <1>1, FS_CardinalityType
<1>3. CASE Count
  BY <1>1, <1>2, <1>3 DEF Count, Backup
<1>4. CASE Dump
  BY <1>1, <1>4 DEF Dump, Backup
<1>5. CASE List
  BY <1>1, <1>5 DEF List, Listed, Backup
<1>6. CASE CopyFile
  <2>. DEFINE p == CHOOSE q \in backup.todo : TRUE
  <2>1. /\ backup.todo # {}
        /\ backup' = IF p \in files THEN [backup EXCEPT !.todo = backup.todo \ {p}, !.copied = backup.copied \cup {p}]
                     ELSE [backup EXCEPT !.at = "failed"]
        /\ UNCHANGED <<files, rows, queue, upload, worker, migration, crashes, taken, strayed>>
    BY <1>6 DEF CopyFile
  <2>2. p \in backup.todo
    BY <2>1
  <2>. HIDE DEF p
  <2>3. backup.todo \ {p} \in SUBSET AnyPath /\ backup.copied \cup {p} \in SUBSET AnyPath
    BY <1>1, <2>2 DEF Backup
  <2> QED BY <1>1, <2>1, <2>3 DEF Backup
<1>7. CASE Seal
  BY <1>1, <1>7 DEF Seal, Backup
<1>8. CASE Drill
  <2>1. PICK at \in {"proved", "refused"} : backup' = [backup EXCEPT !.at = at]
    BY <1>8 DEF Drill
  <2> QED BY <1>1, <1>8, <2>1 DEF Drill, Backup
<1> QED BY <1>3, <1>4, <1>5, <1>6, <1>7, <1>8 DEF Copy

LEMMA CopyKeepsStore ==
  ASSUME StoreInv, Copy
  PROVE  StoreInv'
<1>1. TypeOK /\ WorkerFits
  BY DEF StoreInv
<1>2. TypeOK' /\ WorkerFits'
  BY <1>1, CopyMoves DEF TypeOK, WorkerFits
<1> QED BY <1>2, CopyMoves, OthersUnchanged DEF StoreInv

\* What a crash of the server leaves of the requests.
LEMMA CrashMoves ==
  ASSUME StoreInv, Crash
  PROVE  /\ \A u \in Uploads : upload'[u] = Done \/ (upload'[u] = upload[u] /\ upload[u].at = "copying"
                                                     /\ upload[u].files = <<>>)
         /\ upload' \in [Uploads -> Upload]
         /\ strayed' = strayed \cup UNION {PathsOf(u) \cup ({Staging(u)} \cap files) : u \in Uploads}
         /\ strayed' \subseteq AnyPath
         /\ crashes' \in 0..MaxCrashes /\ worker' = Waiting
         /\ UNCHANGED <<files, rows, queue, migration, backup, taken>>
<1>1. TypeOK
  BY DEF StoreInv
<1>2. /\ crashes < MaxCrashes /\ crashes' = crashes + 1
      /\ strayed' = strayed \cup UNION {PathsOf(u) \cup ({Staging(u)} \cap files) : u \in Uploads}
      /\ upload' = [u \in Uploads |-> IF upload[u] = Arrived(upload[u].batch) THEN upload[u] ELSE Done]
      /\ worker' = Waiting
      /\ UNCHANGED <<files, rows, queue, migration, backup, taken>>
  BY DEF Crash
<1>3. \A u \in Uploads : upload'[u] = Done
         \/ (upload'[u] = upload[u] /\ upload[u] = Arrived(upload[u].batch))
  BY <1>2
<1>4. \A u \in Uploads : upload[u] = Arrived(upload[u].batch)
         => upload[u].at = "copying" /\ upload[u].files = <<>>
  BY DEF Arrived
<1>5. upload' \in [Uploads -> Upload]
  BY <1>1, <1>2, DoneFits DEF TypeOK
<1>6. \A u \in Uploads : PathsOf(u) \subseteq AnyPath
  BY <1>1, FieldsOf, PathsAreTyped DEF PathsOf, PathsIn
<1>7. strayed' \subseteq AnyPath
  BY <1>1, <1>2, <1>6 DEF TypeOK
<1>8. crashes' \in 0..MaxCrashes
  BY <1>1, <1>2, StoreAssumption DEF TypeOK
<1> QED BY <1>2, <1>3, <1>4, <1>5, <1>7, <1>8

LEMMA CrashKeepsStore ==
  ASSUME StoreInv, Crash
  PROVE  StoreInv'
<1>1. TypeOK /\ UploadsFit /\ RowsFit /\ MigrationFits
  BY DEF StoreInv
<1>2. worker' \in Worker /\ worker'.at = "idle"
  <2>1. worker' = Waiting
    BY CrashMoves
  <2> QED BY <2>1 DEF Waiting, Worker
<1>3. TypeOK'
  BY <1>1, <1>2, CrashMoves DEF TypeOK
<1>4. UploadsFit'
  BY <1>1, CrashMoves, DoneFits DEF UploadsFit
<1>5. \A u \in Uploads : upload[u].at = "over" => upload'[u].at = "over"
  BY CrashMoves, DoneIsEmpty
<1>6. RowsFit'
  BY <1>1, <1>5, CrashMoves DEF RowsFit
<1>7. MigrationFits'
  BY <1>1, CrashMoves DEF MigrationFits
<1>8. WorkerFits'
  BY <1>2 DEF WorkerFits
<1> QED BY <1>3, <1>4, <1>6, <1>7, <1>8 DEF StoreInv

\* The rows of earlier times.
LEMMA StoreInit ==
  ASSUME Init
  PROVE  StoreInv
<1>1. PICK start \in Starts :
       /\ rows = {[id |-> p, path |-> p, content |-> p[2], scan |-> "unscanned", expired |-> FALSE] :
                    p \in {Old(c) : c \in start.old} \cup {Plain(c) : c \in start.plain}}
       /\ upload = [u \in Uploads |-> Arrived(start.batch[u])]
       /\ migration = [at |-> IF "migrate" \in start.run THEN "idle" ELSE "over", todo |-> {},
                       id |-> NoPath, from |-> NoPath, to |-> NoPath]
       /\ backup = [at |-> IF "copy" \in start.run THEN "idle" ELSE "failed", count |-> 0,
                    dump |-> {}, todo |-> {}, copied |-> {}]
  BY DEF Init
<1>2. /\ files = {r.path : r \in rows} /\ queue = <<>> /\ worker = Waiting
      /\ crashes = 0 /\ taken = {} /\ strayed = {}
  BY DEF Init
<1>3. /\ start.old \subseteq Contents /\ start.plain \subseteq Contents
      /\ IsFiniteSet(start.old) /\ IsFiniteSet(start.plain)
      /\ start.batch \in [Uploads -> Seq(Contents) \ {<<>>}]
      /\ MaxCrashes \in Nat /\ {"old", "plain"} \cap Uploads = {}
  BY StoreAssumption
<1>. DEFINE olds == {Old(c) : c \in start.old}
            plains == {Plain(c) : c \in start.plain}
            paths == olds \cup plains
            row(p) == [id |-> p, path |-> p, content |-> p[2], scan |-> "unscanned", expired |-> FALSE]
<1>4. IsFiniteSet(paths)
  <2>. DEFINE f == [c \in start.old |-> Old(c)]
              g == [c \in start.plain |-> Plain(c)]
  <2>1. f \in Surjection(start.old, olds) /\ g \in Surjection(start.plain, plains)
    BY DEF Surjection
  <2>. HIDE DEF f, g, olds, plains
  <2>2. IsFiniteSet(olds) /\ IsFiniteSet(plains)
    BY <1>3, <2>1, FS_Surjection
  <2> QED BY <2>2, FS_Union
<1>5. \A p \in paths : p \in Path /\ p[2] \in Contents /\ p \in Owner /\ p[1] \in {"old", "plain"}
                       /\ (IsOld(p) => p[1] = "old")
  BY <1>3 DEF Old, Plain, Path, Owner, IsOld
<1>6. rows = {row(p) : p \in paths}
  BY <1>1
<1>7. IsFiniteSet(rows)
  <2>. DEFINE f == [p \in paths |-> row(p)]
  <2>. HIDE DEF row, paths
  <2>1. f \in Surjection(paths, rows)
    BY <1>6 DEF Surjection
  <2>. HIDE DEF f
  <2> QED BY <1>4, <2>1, FS_Surjection
<1>. HIDE DEF paths
<1>8. \A r \in rows : /\ r \in Row /\ r.id = r.path /\ r.id \in paths
                      /\ r = row(r.id)
  <2>1. ASSUME NEW p \in paths
        PROVE  row(p) \in Row /\ row(p).id = p /\ row(p).path = p
    BY <1>5 DEF Row, Scan
  <2>. HIDE DEF row
  <2> QED BY <1>6, <2>1
<1>9. RowsFit
  BY <1>3, <1>5, <1>7, <1>8 DEF RowsFit
<1>10. \A u \in Uploads : Arrived(start.batch[u]) \in Upload /\ UploadFits(Arrived(start.batch[u]))
  <2>. SUFFICES ASSUME NEW u \in Uploads
                PROVE  Arrived(start.batch[u]) \in Upload /\ UploadFits(Arrived(start.batch[u]))
    OBVIOUS
  <2>. DEFINE b == start.batch[u]
              x == Arrived(b)
  <2>1. b \in Seq(Contents) /\ b # <<>>
    BY <1>3
  <2>2. x.at = "copying" /\ x.batch = b /\ x.files = <<>>
    BY DEF Arrived
  <2>3. x \in Upload
    BY <2>1 DEF Arrived, Upload, Phase
  <2>. HIDE DEF x, b
  <2>4. Len(x.files) < Len(x.batch) /\ DOMAIN x.files = {}
    BY <2>1, <2>2
  <2>5. UploadFits(x)
    BY <2>2, <2>4 DEF UploadFits
  <2> QED BY <2>3, <2>5 DEF x, b
<1>11. UploadsFit /\ upload \in [Uploads -> Upload]
  BY <1>1, <1>10 DEF UploadsFit
<1>12. migration \in Migration /\ migration.at \in {"idle", "over"} /\ migration.todo = {}
  BY <1>1 DEF Migration
<1>13. MigrationFits
  BY <1>12 DEF MigrationFits
<1>14. WorkerFits /\ worker \in Worker
  BY <1>2 DEF WorkerFits, Waiting, Worker
<1>15. backup \in Backup
  BY <1>1 DEF Backup
<1>16. files \subseteq AnyPath
  BY <1>2, <1>5, <1>8, PathsAreTyped
<1>17. TypeOK
  BY <1>2, <1>3, <1>8, <1>11, <1>12, <1>14, <1>15, <1>16 DEF TypeOK
<1> QED BY <1>9, <1>11, <1>13, <1>14, <1>17 DEF StoreInv

LEMMA StoreStep ==
  ASSUME StoreInv, [Next]_vars
  PROVE  StoreInv'
<1>1. CASE \E u \in Uploads : Request(u)
  BY <1>1, RequestKeepsStore
<1>2. CASE \E r \in rows : Expire(r)
  BY <1>2, ExpireKeepsStore
<1>3. CASE Retention
  BY <1>3, PurgeKeepsStore, TakeKeepsStore, RemoveFileKeepsStore, ForgetKeepsStore DEF Retention
<1>4. CASE Migrate
  BY <1>4, MigrateKeepsStore
<1>5. CASE Copy
  BY <1>5, CopyKeepsStore
<1>6. CASE Crash
  BY <1>6, CrashKeepsStore
<1>7. CASE UNCHANGED vars
  BY <1>7 DEF vars, StoreInv, TypeOK, UploadsFit, RowsFit, MigrationFits, WorkerFits
<1> QED BY <1>1, <1>2, <1>3, <1>4, <1>5, <1>6, <1>7 DEF Next

\* Whatever is uploaded, purged, migrated or copied at the same time, and wherever a
\* crash comes, the rows, requests, jobs and commands are well formed: a batch never
\* has more files than it was sent with, and a row has an id of its own
\* (attachments.go, retention.go, storagemigrate, backup).
THEOREM StoreTyped == Spec => []TypeOK
<1>1. Init => StoreInv
  BY StoreInit
<1>2. StoreInv /\ [Next]_vars => StoreInv'
  BY StoreStep
<1>3. StoreInv => TypeOK
  BY DEF StoreInv
<1> QED BY <1>1, <1>2, <1>3, PTL DEF Spec

-----------------------------------------------------------------------------
(* The rules of uploads: the quota and the quarantine. *)

\* The quota that an upload has seen is still free, and nobody else of its user inserts.
InsertingFits ==
  \A u \in Uploads : upload[u].at = "inserting" =>
    /\ Cardinality(RowsOf(Uploader[u])) + Len(upload[u].batch) <= Quota
    /\ \A v \in Uploads : v # u /\ upload[v].at = "inserting" => Uploader[v] # Uploader[u]

RulesInv == InsertingFits /\ UploadsKeepTheRules

LEMMA RowsOfAreFew ==
  ASSUME StoreInv, NEW user
  PROVE  IsFiniteSet(RowsOf(user)) /\ Cardinality(RowsOf(user)) \in Nat
<1>1. IsFiniteSet(RowsOf(user))
  BY FS_Subset DEF StoreInv, RowsFit, RowsOf
<1> QED BY <1>1, FS_CardinalityType

\* Nobody has more rows than before, and nobody has begun to insert.
LEMMA NoMoreRows ==
  ASSUME StoreInv, StoreInv', RulesInv,
         \A user : Cardinality(RowsOf(user)') <= Cardinality(RowsOf(user)),
         \A u \in Uploads : upload'[u].at = "inserting" => upload'[u] = upload[u]
  PROVE  InsertingFits' /\ QuotaHolds'
<1>1. Quota \in Nat
  BY StoreAssumption
<1>2. \A u \in Uploads : /\ Cardinality(RowsOf(Uploader[u])) \in Nat
                         /\ Cardinality(RowsOf(Uploader[u])') \in Nat
                         /\ upload[u].batch \in Seq(Contents)
  <2>1. \A user : Cardinality(RowsOf(user)) \in Nat
    BY RowsOfAreFew
  <2>2. \A user : Cardinality(RowsOf(user)') \in Nat
    <3>1. IsFiniteSet(rows')
      BY DEF StoreInv, RowsFit
    <3>2. \A user : RowsOf(user)' \subseteq rows'
      BY DEF RowsOf
    <3> QED BY <3>1, <3>2, FS_Subset, FS_CardinalityType
  <2> QED BY <2>1, <2>2, FieldsOf DEF StoreInv
<1>3. QuotaHolds'
  <2>1. \A u \in Uploads : Cardinality(RowsOf(Uploader[u])') <= Quota
    <3>. SUFFICES ASSUME NEW u \in Uploads
                  PROVE  Cardinality(RowsOf(Uploader[u])') <= Quota
      OBVIOUS
    <3>1. Cardinality(RowsOf(Uploader[u])) <= Quota
      BY DEF RulesInv, UploadsKeepTheRules, QuotaHolds
    <3>2. Cardinality(RowsOf(Uploader[u])') <= Cardinality(RowsOf(Uploader[u]))
      OBVIOUS
    <3> QED BY <1>1, <1>2, <3>1, <3>2
  <2> QED BY <2>1 DEF QuotaHolds
<1>4. InsertingFits'
  <2>. SUFFICES ASSUME NEW u \in Uploads, upload'[u].at = "inserting"
                PROVE  /\ Cardinality(RowsOf(Uploader[u])') + Len(upload'[u].batch) <= Quota
                       /\ \A v \in Uploads : v # u /\ upload'[v].at = "inserting" => Uploader[v] # Uploader[u]
    BY DEF InsertingFits
  <2>1. upload'[u] = upload[u] /\ upload[u].at = "inserting"
    OBVIOUS
  <2>2. Cardinality(RowsOf(Uploader[u])) + Len(upload[u].batch) <= Quota
    BY <2>1 DEF RulesInv, InsertingFits
  <2>3. Cardinality(RowsOf(Uploader[u])') <= Cardinality(RowsOf(Uploader[u]))
    OBVIOUS
  <2>4. Len(upload[u].batch) \in Nat
    BY <1>2
  <2>5. Cardinality(RowsOf(Uploader[u])') + Len(upload[u].batch) <= Quota
    BY <1>1, <1>2, <2>2, <2>3, <2>4
  <2>6. \A v \in Uploads : v # u /\ upload'[v].at = "inserting" => Uploader[v] # Uploader[u]
    BY <2>1 DEF RulesInv, InsertingFits
  <2> QED BY <2>1, <2>5, <2>6
<1> QED BY <1>3, <1>4

\* One row is replaced by another of its user.
LEMMA SwappedRow ==
  ASSUME StoreInv, NEW r \in rows, NEW e, e.id = r.id, rows' = (rows \ {r}) \cup {e}, NEW user
  PROVE  Cardinality(RowsOf(user)') <= Cardinality(RowsOf(user))
<1>. DEFINE S == RowsOf(user)
            T == {q \in rows' : q.id[1] \in Uploads /\ Uploader[q.id[1]] = user}
<1>1. RowsOf(user)' = T
  BY DEF RowsOf
<1>2. IsFiniteSet(S) /\ Cardinality(S) \in Nat
  BY RowsOfAreFew
<1>3. ASSUME r \in S
      PROVE  Cardinality(T) <= Cardinality(S)
  <2>1. T \subseteq (S \ {r}) \cup {e}
    BY DEF RowsOf
  <2>. HIDE DEF S, T
  <2>2. IsFiniteSet(S \ {r}) /\ Cardinality(S \ {r}) = Cardinality(S) - 1
    BY <1>2, <1>3, FS_RemoveElement
  <2>. DEFINE R == S \ {r}
  <2>. HIDE DEF R
  <2>3. IsFiniteSet(R \cup {e}) /\ Cardinality(R \cup {e}) <= Cardinality(R) + 1
    <3>1. IsFiniteSet(R) /\ Cardinality(R) \in Nat
      BY <2>2, FS_CardinalityType DEF R
    <3> QED BY <3>1, FS_AddElement
  <2>4. IsFiniteSet(T) /\ Cardinality(T) <= Cardinality(R \cup {e})
    BY <2>1, <2>3, FS_Subset DEF R
  <2>5. Cardinality(R) = Cardinality(S) - 1
    BY <2>2 DEF R
  <2>6. Cardinality(T) \in Nat /\ Cardinality(R \cup {e}) \in Nat
    BY <2>3, <2>4, FS_CardinalityType
  <2> QED BY <1>2, <2>3, <2>4, <2>5, <2>6
<1>4. ASSUME r \notin S
      PROVE  Cardinality(T) <= Cardinality(S)
  <2>1. T = S
    BY <1>4 DEF RowsOf
  <2>. HIDE DEF S, T
  <2> QED BY <1>2, <2>1
<1>5. Cardinality(T) <= Cardinality(S)
  BY <1>3, <1>4
<1> QED BY <1>1, <1>5

LEMMA RequestKeepsRules ==
  ASSUME StoreInv, StoreInv', RulesInv, NEW u \in Uploads, Request(u)
  PROVE  RulesInv'
<1>1. PICK n : RecordMoves(u, n) /\ FilesMove(u, n) /\ RestMoves(u)
  BY EveryRequestMoves DEF RequestMoves
<1>2. TypeOK /\ InsertingFits /\ QuotaHolds /\ InfectedIsNotServed
  BY DEF StoreInv, RulesInv, UploadsKeepTheRules
<1>3. /\ upload' = [upload EXCEPT ![u] = n] /\ upload \in [Uploads -> Upload]
      /\ n.at = "inserting" => Insert(u)
  BY <1>1, <1>2 DEF RecordMoves, TypeOK
<1>4. upload'[u] = n /\ \A v \in Uploads : v # u => upload'[v] = upload[v]
  BY <1>3
<1>5. CASE rows' = rows /\ n.at # "inserting"
  <2>1. \A user : Cardinality(RowsOf(user)') <= Cardinality(RowsOf(user))
    <3>1. \A user : RowsOf(user)' = RowsOf(user) /\ Cardinality(RowsOf(user)) \in Nat
      BY <1>5, RowsOfAreFew DEF RowsOf
    <3> QED BY <3>1
  <2>2. \A v \in Uploads : upload'[v].at = "inserting" => upload'[v] = upload[v]
    BY <1>4, <1>5
  <2>3. InfectedIsNotServed'
    BY <1>2, <1>5 DEF InfectedIsNotServed
  <2> QED BY <2>1, <2>2, <2>3, NoMoreRows DEF RulesInv, UploadsKeepTheRules
<1>6. CASE n.at = "inserting"
  <2>1. /\ upload[u].at = "judged" /\ UserRowIsFree(u) /\ rows' = rows
        /\ Cardinality(RowsOf(Uploader[u])) + Len(upload[u].batch) <= Quota
        /\ upload' = [upload EXCEPT ![u].at = "inserting"]
    BY <1>3, <1>6 DEF Insert
  <2>2. upload'[u].batch = upload[u].batch
    BY <1>3, <2>1 DEF Upload
  <2>3. \A user : RowsOf(user)' = RowsOf(user)
    BY <2>1 DEF RowsOf
  <2>4. \A v \in Uploads : v # u /\ upload'[v].at = "inserting" =>
           upload'[v] = upload[v] /\ Uploader[v] # Uploader[u]
    BY <1>4, <2>1 DEF UserRowIsFree
  <2>5. InsertingFits'
    <3>1. ASSUME NEW v \in Uploads, upload'[v].at = "inserting"
          PROVE  /\ Cardinality(RowsOf(Uploader[v])') + Len(upload'[v].batch) <= Quota
                 /\ \A w \in Uploads : w # v /\ upload'[w].at = "inserting" => Uploader[w] # Uploader[v]
      <4>1. CASE v = u
        BY <2>1, <2>2, <2>3, <2>4, <4>1
      <4>2. CASE v # u
        <5>1. /\ upload'[v] = upload[v] /\ upload[v].at = "inserting"
              /\ Uploader[v] # Uploader[u]
          BY <2>4, <3>1, <4>2
        <5>2. Cardinality(RowsOf(Uploader[v])) + Len(upload[v].batch) <= Quota
          BY <1>2, <5>1 DEF InsertingFits
        <5>3. \A w \in Uploads : w # v /\ upload'[w].at = "inserting" => Uploader[w] # Uploader[v]
          BY <1>2, <2>4, <5>1 DEF InsertingFits
        <5> QED BY <2>3, <5>1, <5>2, <5>3
      <4> QED BY <4>1, <4>2
    <3> QED BY <3>1 DEF InsertingFits
  <2>6. QuotaHolds'
    BY <1>2, <2>3 DEF QuotaHolds
  <2>7. InfectedIsNotServed'
    BY <1>2, <2>1 DEF InfectedIsNotServed
  <2> QED BY <2>5, <2>6, <2>7 DEF RulesInv, UploadsKeepTheRules
<1>7. CASE Commit(u)
  <2>1. upload[u].at = "inserting" /\ rows' = rows \cup NewRows(u) /\ upload' = Over(u)
    BY <1>7 DEF Commit
  <2>2. upload'[u].at # "inserting"
    BY <1>3, <2>1, DoneIsEmpty DEF Over
  <2>3. /\ \A r \in NewRows(u) : /\ r.id[1] = u
                                 /\ r.content \in Infected => r.scan = "quarantined"
        /\ IsFiniteSet(NewRows(u)) /\ Cardinality(NewRows(u)) <= Len(upload[u].batch)
    BY <2>1, NewRowsFit
  <2>4. InfectedIsNotServed'
    BY <1>2, <2>1, <2>3 DEF InfectedIsNotServed
  <2>5. ASSUME NEW v \in Uploads, Uploader[v] # Uploader[u]
        PROVE  RowsOf(Uploader[v])' = RowsOf(Uploader[v])
    BY <2>1, <2>3, <2>5 DEF RowsOf
  <2>6. Cardinality(RowsOf(Uploader[u])') <= Quota
    <3>. DEFINE S == RowsOf(Uploader[u])
                N == NewRows(u)
    <3>1. RowsOf(Uploader[u])' = S \cup N
      BY <2>1, <2>3 DEF RowsOf
    <3>2. IsFiniteSet(S) /\ Cardinality(S) \in Nat
      BY RowsOfAreFew
    <3>3. Cardinality(S) + Len(upload[u].batch) <= Quota
      BY <1>2, <2>1 DEF InsertingFits
    <3>4. Len(upload[u].batch) \in Nat /\ Quota \in Nat
      BY <1>2, FieldsOf, StoreAssumption
    <3>. DEFINE k == Len(upload[u].batch)
    <3>5. IsFiniteSet(N) /\ Cardinality(N) <= k
      BY <2>3
    <3>. HIDE DEF S, N, k
    <3>6. /\ IsFiniteSet(S \cup N)
          /\ Cardinality(S \cup N) = Cardinality(S) + Cardinality(N) - Cardinality(S \cap N)
      BY <3>2, <3>5, FS_Union
    <3>7. IsFiniteSet(S \cap N)
      BY <3>5, FS_Subset
    <3>8. Cardinality(S \cap N) \in Nat /\ Cardinality(N) \in Nat
      BY <3>5, <3>7, FS_CardinalityType
    <3>9. Cardinality(S) + k <= Quota /\ k \in Nat /\ Quota \in Nat
      BY <3>3, <3>4 DEF S, k
    <3>10. Cardinality(S \cup N) <= Quota
      BY <3>2, <3>5, <3>6, <3>8, <3>9
    <3> QED BY <3>1, <3>10
  <2>7. QuotaHolds'
    <3>1. ASSUME NEW v \in Uploads
          PROVE  Cardinality(RowsOf(Uploader[v])') <= Quota
      <4>1. CASE Uploader[v] = Uploader[u]
        BY <2>6, <4>1
      <4>2. CASE Uploader[v] # Uploader[u]
        BY <1>2, <2>5, <4>2 DEF QuotaHolds
      <4> QED BY <4>1, <4>2
    <3> QED BY <3>1 DEF QuotaHolds
  <2>8. InsertingFits'
    <3>1. ASSUME NEW v \in Uploads, upload'[v].at = "inserting"
          PROVE  /\ Cardinality(RowsOf(Uploader[v])') + Len(upload'[v].batch) <= Quota
                 /\ \A w \in Uploads : w # v /\ upload'[w].at = "inserting" => Uploader[w] # Uploader[v]
      <4>1. v # u /\ upload'[v] = upload[v] /\ upload[v].at = "inserting"
        BY <1>4, <2>2, <3>1
      <4>2. /\ Uploader[v] # Uploader[u]
            /\ Cardinality(RowsOf(Uploader[v])) + Len(upload[v].batch) <= Quota
        BY <1>2, <2>1, <4>1 DEF InsertingFits
      <4>3. RowsOf(Uploader[v])' = RowsOf(Uploader[v])
        BY <2>5, <4>2
      <4>4. \A w \in Uploads : w # v /\ upload'[w].at = "inserting" => Uploader[w] # Uploader[v]
        BY <1>2, <1>4, <2>2, <4>1 DEF InsertingFits
      <4> QED BY <4>1, <4>2, <4>3, <4>4
    <3> QED BY <3>1 DEF InsertingFits
  <2> QED BY <2>4, <2>7, <2>8 DEF RulesInv, UploadsKeepTheRules
<1>8. rows' = rows \/ Commit(u)
  BY <1>1 DEF RestMoves
<1> QED BY <1>5, <1>6, <1>7, <1>8

\* One row is replaced by one with the same id, content and verdict.
LEMMA SwapKeepsRules ==
  ASSUME StoreInv, StoreInv', RulesInv, UNCHANGED upload,
         NEW r \in rows, NEW e, e.id = r.id, e.content = r.content, e.scan = r.scan,
         rows' = (rows \ {r}) \cup {e}
  PROVE  RulesInv'
<1>1. \A user : Cardinality(RowsOf(user)') <= Cardinality(RowsOf(user))
  BY SwappedRow
<1>2. InfectedIsNotServed'
  BY DEF RulesInv, UploadsKeepTheRules, InfectedIsNotServed
<1> QED BY <1>1, <1>2, NoMoreRows DEF RulesInv, UploadsKeepTheRules

\* Rows only go, and nobody begins to insert.
LEMMA FewerKeepRules ==
  ASSUME StoreInv, StoreInv', RulesInv, rows' \subseteq rows,
         \A u \in Uploads : upload'[u].at = "inserting" => upload'[u] = upload[u]
  PROVE  RulesInv'
<1>1. \A user : Cardinality(RowsOf(user)') <= Cardinality(RowsOf(user))
  <2>1. \A user : RowsOf(user)' \subseteq RowsOf(user) /\ IsFiniteSet(RowsOf(user))
    BY RowsOfAreFew DEF RowsOf
  <2> QED BY <2>1, FS_Subset
<1>2. InfectedIsNotServed'
  BY DEF RulesInv, UploadsKeepTheRules, InfectedIsNotServed
<1> QED BY <1>1, <1>2, NoMoreRows DEF RulesInv, UploadsKeepTheRules

LEMMA RulesStep ==
  ASSUME StoreInv, RulesInv, [Next]_vars
  PROVE  RulesInv'
<1>1. StoreInv'
  BY StoreStep
<1>2. rows \subseteq Row /\ TypeOK
  BY DEF StoreInv, TypeOK
<1>3. CASE \E u \in Uploads : Request(u)
  BY <1>1, <1>3, RequestKeepsRules
<1>4. CASE \E r \in rows : Expire(r)
  <2>1. PICK r \in rows : rows' = (rows \ {r}) \cup {[r EXCEPT !.expired = TRUE]} /\ UNCHANGED upload
    BY <1>4 DEF Expire
  <2>. DEFINE e == [r EXCEPT !.expired = TRUE]
  <2>2. e.id = r.id /\ e.content = r.content /\ e.scan = r.scan
    BY <1>2, ExpiredRow
  <2>3. rows' = (rows \ {r}) \cup {e}
    BY <2>1
  <2>. HIDE DEF e
  <2> QED BY <1>1, <2>1, <2>2, <2>3, SwapKeepsRules
<1>5. CASE MigrateUpdate
  <2>1. UNCHANGED upload
    BY <1>5 DEF MigrateUpdate
  <2>2. CASE rows' = rows
    BY <1>1, <2>1, <2>2, FewerKeepRules
  <2>3. CASE \E r \in rows : rows' = (rows \ {r}) \cup {[r EXCEPT !.path = migration.to]}
    <3>1. PICK r \in rows : rows' = (rows \ {r}) \cup {[r EXCEPT !.path = migration.to]}
      BY <2>3
    <3>2. migration.to \in Path
      BY <1>5 DEF MigrateUpdate, StoreInv, MigrationFits
    <3>. DEFINE e == [r EXCEPT !.path = migration.to]
    <3>3. e.id = r.id /\ e.content = r.content /\ e.scan = r.scan
      BY <1>2, <3>2, MovedRow
    <3>4. rows' = (rows \ {r}) \cup {e}
      BY <3>1
    <3>. HIDE DEF e
    <3> QED BY <1>1, <2>1, <3>3, <3>4, SwapKeepsRules
  <2> QED BY <1>5, <2>2, <2>3, MigratedRows
<1>6. CASE Retention \/ (Migrate /\ ~MigrateUpdate) \/ Copy \/ UNCHANGED vars
  <2>1. rows' \subseteq rows /\ upload' = upload
    BY <1>6 DEF Retention, Purge, Take, RemoveFile, Forget, Migrate, MigrateStart, MigrateCopy,
                MigrateClear, MigrateStop, MigrationCrash, Copy, Count, Dump, List, CopyFile, Seal,
                Drill, vars
  <2> QED BY <1>1, <2>1, FewerKeepRules
<1>7. CASE Crash
  <2>1. rows' = rows /\ \A u \in Uploads : upload'[u].at = "inserting" => upload'[u] = upload[u]
    BY <1>7, CrashMoves, DoneIsEmpty
  <2> QED BY <1>1, <2>1, FewerKeepRules
<1> QED BY <1>3, <1>4, <1>5, <1>6, <1>7 DEF Next

LEMMA RulesInit ==
  ASSUME Init
  PROVE  RulesInv
<1>1. StoreInv
  BY StoreInit
<1>2. PICK start \in Starts :
       /\ rows = {[id |-> p, path |-> p, content |-> p[2], scan |-> "unscanned", expired |-> FALSE] :
                    p \in {Old(c) : c \in start.old} \cup {Plain(c) : c \in start.plain}}
       /\ upload = [u \in Uploads |-> Arrived(start.batch[u])]
  BY DEF Init
<1>3. \A r \in rows : r.id[1] \notin Uploads
  BY <1>2, StoreAssumption DEF Old, Plain
<1>4. \A user : RowsOf(user) = {}
  BY <1>3 DEF RowsOf
<1>5. QuotaHolds
  <2>1. Cardinality({}) = 0 /\ 0 <= Quota
    BY FS_EmptySet, StoreAssumption
  <2> QED BY <1>4, <2>1 DEF QuotaHolds
<1>6. InsertingFits /\ InfectedIsNotServed
  BY <1>2, <1>3 DEF InsertingFits, InfectedIsNotServed, Arrived
<1> QED BY <1>5, <1>6 DEF RulesInv, UploadsKeepTheRules

\* However the uploads of a user are interleaved, with each other, with purges, the
\* migration and crashes: their rows stay within the quota that was read before, and
\* what the scanner objects to is in quarantine, also when its bytes were there already
\* (attachments.go Upload: the lock of the user row, ScannerPolicy).
THEOREM UploadRulesHold == Spec => []UploadsKeepTheRules
<1>1. Init => StoreInv /\ RulesInv
  BY StoreInit, RulesInit
<1>2. StoreInv /\ RulesInv /\ [Next]_vars => StoreInv' /\ RulesInv'
  BY StoreStep, RulesStep
<1>3. RulesInv => UploadsKeepTheRules
  BY DEF RulesInv
<1> QED BY <1>1, <1>2, <1>3, PTL DEF Spec

-----------------------------------------------------------------------------
(* Rows have their files, unless these were taken from under them. *)

Kept == files \cup taken

\* Who relies on a path finds the file, or it has been noted that it was taken.
HeldIsKept ==
  /\ \A r \in rows : r.path \in Kept
  /\ \A u \in Uploads : upload[u].at # "cleaning" => PathsIn(upload[u]) \subseteq Kept
  /\ migration.at = "updating" => migration.to \in Kept

\* A path that somebody relies on, and who is not u.
LEMMA OnlyOfNobody ==
  ASSUME StoreInv, NEW u \in Uploads, NEW p, OnlyOf(u, p)
  PROVE  /\ \A r \in rows : r.path # p
         /\ \A v \in Uploads : v # u => p \notin PathsIn(upload[v])
         /\ migration.at = "updating" => migration.to # p
<1>1. \A v \in Uploads : upload[v].at = "over" => PathsIn(upload[v]) = {}
  <2>1. \A v \in Uploads : upload[v].at = "over" => upload[v].files = <<>>
    BY DEF StoreInv, UploadsFit, UploadFits
  <2>2. DOMAIN <<>> = {}
    OBVIOUS
  <2> QED BY <2>1, <2>2 DEF PathsIn
<1>2. \A v \in Uploads \ {u} : ~Relies(v, p)
  BY DEF OnlyOf, HeldBy
<1>3. \A v \in Uploads : v # u => p \notin PathsIn(upload[v])
  BY <1>1, <1>2 DEF Relies, PathsIn
<1>4. \A r \in rows : r.path # p
  BY DEF OnlyOf, RowsAt
<1>5. migration.at = "updating" => migration.to # p
  BY DEF OnlyOf, HeldBy, Moves
<1> QED BY <1>3, <1>4, <1>5

LEMMA RequestKeepsHeld ==
  ASSUME StoreInv, HeldIsKept, NEW u \in Uploads, Request(u)
  PROVE  HeldIsKept'
<1>1. PICK n : RecordMoves(u, n) /\ FilesMove(u, n) /\ RestMoves(u)
  BY EveryRequestMoves DEF RequestMoves
<1>2. /\ upload' = [upload EXCEPT ![u] = n] /\ upload \in [Uploads -> Upload]
      /\ n \in Upload /\ UploadFits(n)
      /\ upload[u].at = "cleaning" => n.at \in {"cleaning", "over"}
  BY <1>1 DEF RecordMoves, StoreInv, TypeOK
<1>3. upload'[u] = n /\ \A v \in Uploads : v # u => upload'[v] = upload[v]
  BY <1>2
<1>4. taken \subseteq taken' /\ migration' = migration /\ (rows' = rows \/ Commit(u))
  BY <1>1 DEF RestMoves
<1>5. \A p \in Path : p \in Kept => p \in Kept' \/ (OnlyOf(u, p) /\ n.at = "cleaning")
  BY <1>1, <1>4 DEF Kept, FilesMove
<1>6. rows \subseteq Row
  BY DEF StoreInv, TypeOK
<1>7. \A r \in rows : r.path \in Kept'
  <2>1. \A r \in rows : r.path \in Path /\ ~OnlyOf(u, r.path)
    BY <1>6, OnlyOfNobody DEF Row
  <2> QED BY <1>5, <2>1 DEF HeldIsKept
<1>8. \A r \in rows' : r.path \in Kept'
  <2>1. CASE rows' = rows
    BY <1>7, <2>1
  <2>2. CASE Commit(u)
    <3>1. /\ upload[u].at = "inserting" /\ rows' = rows \cup NewRows(u)
          /\ files' = files /\ taken' = taken
      BY <2>2 DEF Commit
    <3>2. \A r \in NewRows(u) : r.path \in PathsIn(upload[u])
      BY <3>1, NewRowsFit
    <3>3. PathsIn(upload[u]) \subseteq Kept
      BY <3>1 DEF HeldIsKept
    <3> QED BY <1>7, <3>1, <3>2, <3>3 DEF Kept
  <2> QED BY <1>4, <2>1, <2>2
<1>9. ASSUME NEW v \in Uploads, upload'[v].at # "cleaning"
      PROVE  PathsIn(upload'[v]) \subseteq Kept'
  <2>1. CASE v # u
    <3>1. upload'[v] = upload[v] /\ PathsIn(upload[v]) \subseteq Kept
      BY <1>3, <1>9, <2>1 DEF HeldIsKept
    <3>2. PathsIn(upload[v]) \subseteq Path
      BY FieldsOf DEF StoreInv
    <3>3. \A p \in PathsIn(upload[v]) : ~OnlyOf(u, p)
      BY <2>1, OnlyOfNobody
    <3> QED BY <1>5, <3>1, <3>2, <3>3
  <2>2. CASE v = u
    <3>1. n.at # "cleaning"
      BY <1>3, <1>9, <2>2
    <3>2. PathsIn(n) \subseteq PathsIn(upload[u]) \cup files'
      BY <1>1, <3>1 DEF FilesMove
    <3>3. CASE upload[u].at = "cleaning"
      <4>1. n.at = "over"
        BY <1>2, <3>1, <3>3
      <4>2. n.files = <<>> /\ DOMAIN <<>> = {}
        BY <1>2, <4>1 DEF UploadFits
      <4>3. PathsIn(n) = {}
        BY <4>2 DEF PathsIn
      <4> QED BY <1>3, <2>2, <4>3
    <3>4. CASE upload[u].at # "cleaning"
      <4>1. PathsIn(upload[u]) \subseteq Kept /\ PathsIn(upload[u]) \subseteq Path
        BY <3>4, FieldsOf DEF HeldIsKept, StoreInv
      <4>2. PathsIn(upload[u]) \subseteq Kept'
        BY <1>5, <3>1, <4>1
      <4> QED BY <1>3, <2>2, <3>2, <4>2 DEF Kept
    <3> QED BY <3>3, <3>4
  <2> QED BY <2>1, <2>2
<1>10. migration'.at = "updating" => migration'.to \in Kept'
  <2>1. SUFFICES ASSUME migration.at = "updating"
                 PROVE  migration.to \in Kept'
    BY <1>4
  <2>2. migration.to \in Path /\ migration.to \in Kept
    BY <2>1 DEF HeldIsKept, StoreInv, MigrationFits
  <2>3. ~OnlyOf(u, migration.to)
    BY <2>1, OnlyOfNobody
  <2> QED BY <1>5, <2>2, <2>3
<1> QED BY <1>8, <1>9, <1>10 DEF HeldIsKept

\* The worker removes only what nobody relies on, as far as it can see.
LEMMA RemoveFileKeepsHeld ==
  ASSUME StoreInv, HeldIsKept, RemoveFile
  PROVE  HeldIsKept'
<1>. DEFINE p == worker.job
<1>1. /\ worker.at = "checked" /\ ~worker.referenced /\ files' = files \ {p}
      /\ taken' = IF worker.free /\ (HeldBy(Uploads, p) \/ RowsAt(p) # {})
                  THEN taken \cup {p} ELSE taken
      /\ UNCHANGED <<rows, upload, migration>>
  BY DEF RemoveFile
<1>2. worker.free
  BY <1>1 DEF StoreInv, WorkerFits
<1>. HIDE DEF p
<1>3. Kept \subseteq Kept' \cup {p} /\ (p \notin Kept' => RowsAt(p) = {} /\ ~HeldBy(Uploads, p))
  BY <1>1, <1>2 DEF Kept
<1>4. \A r \in rows : r.path \in Kept'
  BY <1>3 DEF HeldIsKept, RowsAt
<1>5. \A u \in Uploads : upload[u].at = "over" => PathsIn(upload[u]) = {}
  <2>1. \A u \in Uploads : upload[u].at = "over" => upload[u].files = <<>>
    BY DEF StoreInv, UploadsFit, UploadFits
  <2>2. DOMAIN <<>> = {}
    OBVIOUS
  <2> QED BY <2>1, <2>2 DEF PathsIn
<1>6. \A u \in Uploads : upload[u].at # "cleaning" => PathsIn(upload[u]) \subseteq Kept'
  <2>. SUFFICES ASSUME NEW u \in Uploads, upload[u].at # "cleaning", NEW q \in PathsIn(upload[u])
                PROVE  q \in Kept'
    OBVIOUS
  <2>1. q \in Kept /\ Relies(u, q)
    BY <1>5 DEF HeldIsKept, Relies, PathsIn
  <2> QED BY <1>3, <2>1 DEF HeldBy
<1>7. migration.at = "updating" => migration.to \in Kept'
  BY <1>3 DEF HeldIsKept, HeldBy, Moves
<1> QED BY <1>1, <1>4, <1>6, <1>7 DEF HeldIsKept

LEMMA MigrateUpdateKeepsHeld ==
  ASSUME StoreInv, HeldIsKept, MigrateUpdate
  PROVE  HeldIsKept'
<1>1. /\ migration.at = "updating" /\ migration' = [migration EXCEPT !.at = "clearing"]
      /\ UNCHANGED <<files, upload, taken>>
  BY DEF MigrateUpdate
<1>2. migration'.at = "clearing"
  BY <1>1 DEF StoreInv, TypeOK, Migration
<1>3. migration.to \in Path /\ migration.to \in Kept
  BY <1>1 DEF HeldIsKept, StoreInv, MigrationFits
<1>4. \A r \in rows : r \in Row /\ r.path \in Kept
  BY DEF HeldIsKept, StoreInv, TypeOK
<1>5. \A s \in rows' : s.path \in Kept
  <2>1. CASE rows' = rows
    BY <1>4, <2>1
  <2>2. CASE \E r \in rows : rows' = (rows \ {r}) \cup {[r EXCEPT !.path = migration.to]}
    <3>1. PICK r \in rows : rows' = (rows \ {r}) \cup {[r EXCEPT !.path = migration.to]}
      BY <2>2
    <3>2. [r EXCEPT !.path = migration.to].path = migration.to
      BY <1>3, <1>4, MovedRow
    <3> QED BY <1>3, <1>4, <3>1, <3>2
  <2> QED BY <2>1, <2>2, MigratedRows
<1> QED BY <1>1, <1>2, <1>5 DEF HeldIsKept, Kept

LEMMA MigrateCopyKeepsHeld ==
  ASSUME StoreInv, HeldIsKept, MigrateCopy
  PROVE  HeldIsKept'
<1>1. migration.at = "looking" /\ UNCHANGED <<rows, upload, taken>>
  BY DEF MigrateCopy
<1>2. files \subseteq files' /\ (migration'.at = "updating" => migration'.to \in files')
  <2>. DEFINE to(r) == LET found == Existing(r.content) IN
                     IF found = {} THEN Blob(r.content) ELSE CHOOSE p \in found : TRUE
  <2>1. PICK r \in migration.todo :
         IF r.path \in files
         THEN /\ files' = files \cup {to(r)}
              /\ migration' = [at |-> "updating", todo |-> migration.todo \ {r}, id |-> r.id,
                               from |-> r.path, to |-> to(r)]
         ELSE /\ migration' = [migration EXCEPT !.todo = @ \ {r}]
              /\ UNCHANGED files
    BY DEF MigrateCopy
  <2>. HIDE DEF to
  <2>2. CASE r.path \in files
    <3>1. files' = files \cup {to(r)} /\ migration'.to = to(r)
      BY <2>1, <2>2
    <3> QED BY <3>1
  <2>3. CASE r.path \notin files
    <3>1. files' = files /\ migration' = [migration EXCEPT !.todo = migration.todo \ {r}]
      BY <2>1, <2>3
    <3>2. migration'.at = "looking"
      BY <1>1, <3>1 DEF StoreInv, TypeOK, Migration
    <3> QED BY <3>1, <3>2
  <2> QED BY <2>2, <2>3
<1> QED BY <1>1, <1>2 DEF HeldIsKept, Kept

LEMMA MigrateClearKeepsHeld ==
  ASSUME StoreInv, HeldIsKept, MigrateClear
  PROVE  HeldIsKept'
<1>. DEFINE p == migration.from
<1>1. /\ migration.at = "clearing"
      /\ files' = IF Referenced(p) THEN files ELSE files \ {p}
      /\ migration' = [migration EXCEPT !.at = "looking", !.id = NoPath, !.from = NoPath, !.to = NoPath]
      /\ UNCHANGED <<rows, upload, taken>>
  BY DEF MigrateClear
<1>2. migration'.at = "looking"
  BY <1>1 DEF StoreInv, TypeOK, Migration
<1>3. IsOld(p)
  BY <1>1 DEF StoreInv, MigrationFits
<1>. HIDE DEF p
<1>4. Kept \subseteq Kept' \cup {p} /\ (p \notin Kept' => RowsAt(p) = {} \/ p \notin Kept)
  BY <1>1 DEF Kept, Referenced
<1>5. \A r \in rows : r.path \in Kept'
  BY <1>4 DEF HeldIsKept, RowsAt
<1>6. \A u \in Uploads : p \notin PathsIn(upload[u])
  BY <1>3 DEF StoreInv, UploadsFit, UploadFits, PathsIn
<1> QED BY <1>1, <1>2, <1>4, <1>5, <1>6 DEF HeldIsKept

LEMMA MigrationGoesTo ==
  ASSUME StoreInv
  PROVE  /\ MigrateStart => migration.at = "idle" /\ migration'.at = "looking"
         /\ MigrateStop => migration.at = "looking" /\ migration'.at = "over"
         /\ MigrationCrash => migration'.at = "idle"
<1>1. migration \in Migration
  BY DEF StoreInv, TypeOK
<1>2. ASSUME MigrateStart
      PROVE  migration.at = "idle" /\ migration'.at = "looking"
  <2>. DEFINE todo == {r \in rows : r.path[1] = "old"}
  <2>1. migration.at = "idle" /\ migration' = [migration EXCEPT !.at = "looking", !.todo = todo]
    BY <1>2 DEF MigrateStart
  <2>. HIDE DEF todo
  <2> QED BY <1>1, <2>1 DEF Migration
<1>3. MigrateStop => migration.at = "looking" /\ migration'.at = "over"
  BY <1>1 DEF MigrateStop, Migration
<1>4. MigrationCrash => migration'.at = "idle"
  BY DEF MigrationCrash
<1> QED BY <1>2, <1>3, <1>4

LEMMA HeldStep ==
  ASSUME StoreInv, HeldIsKept, [Next]_vars
  PROVE  HeldIsKept'
<1>1. CASE \E u \in Uploads : Request(u)
  BY <1>1, RequestKeepsHeld
<1>2. CASE \E r \in rows : Expire(r)
  <2>1. PICK r \in rows : /\ rows' = (rows \ {r}) \cup {[r EXCEPT !.expired = TRUE]}
                          /\ UNCHANGED <<files, upload, migration, taken>>
    BY <1>2 DEF Expire
  <2>2. r \in Row
    BY DEF StoreInv, TypeOK
  <2>3. [r EXCEPT !.expired = TRUE].path = r.path
    BY <2>2, ExpiredRow
  <2> QED BY <2>1, <2>3 DEF HeldIsKept, Kept
<1>3. CASE Purge \/ Take \/ Forget \/ Copy \/ UNCHANGED vars
  <2>1. rows' \subseteq rows /\ UNCHANGED <<files, upload, migration, taken>>
    BY <1>3 DEF Purge, Take, Forget, Copy, Count, Dump, List, CopyFile, Seal, Drill, vars
  <2> QED BY <2>1 DEF HeldIsKept, Kept
<1>4. CASE RemoveFile
  BY <1>4, RemoveFileKeepsHeld
<1>5. CASE MigrateStart \/ MigrateStop \/ MigrationCrash
  <2>1. UNCHANGED <<rows, files, upload, taken>>
    BY <1>5 DEF MigrateStart, MigrateStop, MigrationCrash
  <2>2. migration'.at # "updating"
    BY <1>5, MigrationGoesTo
  <2> QED BY <2>1, <2>2 DEF HeldIsKept, Kept
<1>6. CASE MigrateCopy \/ MigrateUpdate \/ MigrateClear
  BY <1>6, MigrateCopyKeepsHeld, MigrateUpdateKeepsHeld, MigrateClearKeepsHeld
<1>7. CASE Crash
  <2>1. \A u \in Uploads : PathsIn(upload'[u]) = {} \/ upload'[u] = upload[u]
    BY <1>7, CrashMoves, DoneIsEmpty
  <2>2. UNCHANGED <<rows, files, migration, taken>>
    BY <1>7, CrashMoves
  <2> QED BY <2>1, <2>2 DEF HeldIsKept, Kept
<1> QED BY <1>1, <1>2, <1>3, <1>4, <1>5, <1>6, <1>7 DEF Next, Retention, Migrate

LEMMA HeldInit ==
  ASSUME Init
  PROVE  HeldIsKept
<1>1. \A r \in rows : r.path \in files
  BY DEF Init
<1>2. migration.at # "updating"
  BY DEF Init
<1>3. \A u \in Uploads : upload[u].files = <<>> /\ DOMAIN <<>> = {}
  BY DEF Init, Arrived
<1> QED BY <1>1, <1>2, <1>3 DEF HeldIsKept, Kept, PathsIn

-----------------------------------------------------------------------------
(* Files that nobody will remove have a cause. *)

\* Why a file that is not queued may be there.
Caused(p) ==
  \/ RowsAt(p) # {} \/ p \in strayed
  \/ \E u \in Uploads : p \in Created(u)
  \/ Moves(p)
  \/ migration.at \in {"updating", "clearing"} /\ p = migration.from

Queued(p) == \E i \in DOMAIN queue : queue[i] = p

\* The job that will be forgotten is not needed any more for its file.
JobFits ==
  worker.at = "removed" \/ (worker.at = "checked" /\ worker.referenced) =>
    (worker.job \in files =>
       Caused(worker.job) \/ \E i \in DOMAIN queue : i # 1 /\ queue[i] = worker.job)

LeftInv == JobFits /\ \A p \in files : Caused(p) \/ Queued(p)

LEMMA LeftInvIsEnough == LeftInv => LeftoversHaveACause
BY DEF LeftInv, LeftoversHaveACause, Caused, Queued

LEMMA CreatedIs == \A u : Created(u) = CreatedBy(u, upload[u])
BY DEF Created, CreatedBy

\* The queue and the worker stay; what was caused still is, and new files are.
LEMMA CausesStay ==
  ASSUME LeftInv, UNCHANGED queue, UNCHANGED worker \/ worker' = Waiting,
         \A p \in files' : p \notin files \/ Caused(p) => Caused(p)'
  PROVE  LeftInv'
<1>1. \A p \in files' : Caused(p)' \/ Queued(p)'
  BY DEF LeftInv, Queued
<1>2. JobFits'
  <2>1. CASE UNCHANGED worker
    BY <2>1 DEF LeftInv, JobFits
  <2>2. CASE worker' = Waiting
    <3>1. worker'.at = "idle"
      BY <2>2 DEF Waiting
    <3> QED BY <3>1 DEF JobFits
  <2> QED BY <2>1, <2>2
<1> QED BY <1>1, <1>2 DEF LeftInv

LEMMA RequestKeepsLeft ==
  ASSUME StoreInv, LeftInv, NEW u \in Uploads, Request(u)
  PROVE  LeftInv'
<1>1. PICK n : RecordMoves(u, n) /\ FilesMove(u, n) /\ RestMoves(u)
  BY EveryRequestMoves DEF RequestMoves
<1>2. /\ upload'[u] = n /\ \A v \in Uploads : v # u => upload'[v] = upload[v]
  BY <1>1 DEF RecordMoves, StoreInv, TypeOK
<1>3. strayed \subseteq strayed' /\ UNCHANGED <<queue, worker, migration>>
  BY <1>1 DEF RestMoves
<1>4. rows \subseteq rows'
  BY <1>1 DEF RestMoves, Commit
<1>5. Created(u)' = CreatedBy(u, n) /\ \A v \in Uploads : v # u => Created(v)' = Created(v)
  BY <1>2 DEF Created, CreatedBy
<1>6. ASSUME NEW p \in files', p \notin files \/ Caused(p)
      PROVE  Caused(p)'
  <2>1. CASE p \notin files
    BY <1>1, <1>5, <2>1 DEF FilesMove, Caused
  <2>2. CASE RowsAt(p) # {}
    BY <1>4, <2>2 DEF RowsAt, Caused
  <2>3. CASE p \in strayed
    BY <1>3, <2>3 DEF Caused
  <2>4. CASE p \in Created(u)
    <3>1. p \in CreatedBy(u, n) \cup strayed' \cup {r.path : r \in rows'}
      BY <1>1, <2>4, CreatedIs DEF FilesMove
    <3> QED BY <1>5, <3>1 DEF Caused, RowsAt
  <2>5. CASE \E v \in Uploads : v # u /\ p \in Created(v)
    BY <1>5, <2>5 DEF Caused
  <2>6. CASE Moves(p) \/ (migration.at \in {"updating", "clearing"} /\ p = migration.from)
    BY <1>3, <2>6 DEF Moves, Caused
  <2> QED BY <1>6, <2>1, <2>2, <2>3, <2>4, <2>5, <2>6 DEF Caused
<1> QED BY <1>3, <1>6, CausesStay

LEMMA ExpireKeepsLeft ==
  ASSUME StoreInv, LeftInv, NEW r \in rows, Expire(r)
  PROVE  LeftInv'
<1>1. /\ rows' = (rows \ {r}) \cup {[r EXCEPT !.expired = TRUE]}
      /\ UNCHANGED <<files, queue, upload, worker, migration, strayed>>
  BY DEF Expire
<1>2. r \in Row
  BY DEF StoreInv, TypeOK
<1>3. [r EXCEPT !.expired = TRUE].path = r.path
  BY <1>2, ExpiredRow
<1>4. \A p : RowsAt(p) # {} => RowsAt(p)' # {}
  BY <1>1, <1>3 DEF RowsAt
<1>5. \A p : Caused(p) => Caused(p)'
  BY <1>1, <1>4 DEF Caused, Created, Moves
<1> QED BY <1>1, <1>5, CausesStay

LEMMA PurgeKeepsLeft ==
  ASSUME StoreInv, LeftInv, Purge
  PROVE  LeftInv'
<1>. DEFINE gone == {r \in rows : r.expired}
            paths == {r.path : r \in gone}
            more == SetToSeq(paths)
            n == Len(queue)
<1>1. /\ rows' = rows \ gone /\ queue' = queue \o more
      /\ UNCHANGED <<files, upload, worker, migration, strayed>>
  BY DEF Purge
<1>2. more \in Seq(Path) /\ \A p \in paths : \E i \in DOMAIN more : more[i] = p
  BY ExpiredPaths DEF StoreInv
<1>3. queue \in Seq(Path) /\ n \in Nat
  BY DEF StoreInv, TypeOK
<1>4. \A p : Caused(p) => Caused(p)' \/ p \in paths
  <2>1. \A p : RowsAt(p) # {} => RowsAt(p)' # {} \/ p \in paths
    BY <1>1 DEF RowsAt
  <2>. HIDE DEF paths
  <2> QED BY <1>1, <2>1 DEF Caused, Created, Moves
<1>. HIDE DEF paths, more
<1>5. /\ DOMAIN queue = 1..n /\ DOMAIN queue' = 1..(n + Len(more)) /\ Len(more) \in Nat
      /\ \A i \in 1..n : queue'[i] = queue[i]
      /\ \A i \in 1..Len(more) : queue'[n + i] = more[i]
      /\ DOMAIN more = 1..Len(more)
  BY <1>1, <1>2, <1>3, Concatenated
<1>6. \A i \in DOMAIN queue : i \in DOMAIN queue' /\ queue'[i] = queue[i]
  BY <1>3, <1>5
<1>7. ASSUME NEW p \in paths
      PROVE  \E i \in DOMAIN queue' : i > n /\ queue'[i] = p
  <2>1. PICK i \in 1..Len(more) : more[i] = p
    BY <1>2, <1>5
  <2>2. n + i \in 1..(n + Len(more)) /\ n + i > n
    BY <1>3, <1>5, <2>1
  <2>3. queue'[n + i] = p
    BY <1>5, <2>1
  <2> QED BY <1>5, <2>2, <2>3
<1>8. \A p \in files' : Caused(p)' \/ Queued(p)'
  BY <1>1, <1>4, <1>6, <1>7 DEF LeftInv, Queued
<1>9. JobFits'
  <2>1. SUFFICES ASSUME worker.at = "removed" \/ (worker.at = "checked" /\ worker.referenced),
                        worker.job \in files
                 PROVE  Caused(worker.job)' \/ \E i \in DOMAIN queue' : i # 1 /\ queue'[i] = worker.job
    <3>1. UNCHANGED worker /\ UNCHANGED files
      BY <1>1
    <3> QED BY <3>1 DEF JobFits
  <2>2. CASE Caused(worker.job)
    <3>1. CASE Caused(worker.job)'
      BY <3>1
    <3>2. CASE worker.job \in paths
      <4>1. queue # <<>>
        BY <2>1 DEF StoreInv, WorkerFits
      <4>2. n >= 1
        BY <1>3, <4>1
      <4>3. PICK i \in DOMAIN queue' : i > n /\ queue'[i] = worker.job
        BY <1>7, <3>2
      <4>4. i # 1
        BY <1>3, <1>5, <4>2, <4>3
      <4> QED BY <4>3, <4>4
    <3>3. Caused(worker.job)' \/ worker.job \in paths
      <4>1. \A q : q = worker.job => Caused(q)' \/ q \in paths
        BY <1>4, <2>2
      <4>2. PICK q : q = worker.job
        OBVIOUS
      <4>3. worker' = worker
        BY <1>1
      <4> QED BY <4>1, <4>2, <4>3
    <3> QED BY <3>1, <3>2, <3>3
  <2>3. CASE \E i \in DOMAIN queue : i # 1 /\ queue[i] = worker.job
    BY <1>6, <2>3
  <2> QED BY <2>1, <2>2, <2>3 DEF LeftInv, JobFits
<1> QED BY <1>8, <1>9 DEF LeftInv

LEMMA WorkerKeepsLeft ==
  ASSUME StoreInv, LeftInv, Take \/ RemoveFile \/ Forget
  PROVE  LeftInv'
<1>1. UNCHANGED <<rows, upload, migration, strayed>>
  BY DEF Take, RemoveFile, Forget
<1>2. \A p : Caused(p)' <=> Caused(p)
  BY <1>1 DEF Caused, RowsAt, Created, Moves
<1>3. CASE Take
  <2>1. /\ files' = files /\ queue' = queue
        /\ worker' = [at |-> "checked", job |-> Head(queue),
                      referenced |-> Referenced(Head(queue)), free |-> RowsAt(Head(queue)) = {}]
    BY <1>3 DEF Take
  <2>2. PICK h : h = Head(queue)
    OBVIOUS
  <2>3. worker'.at = "checked" /\ worker'.job = h /\ worker'.referenced = Referenced(h)
    BY <2>1, <2>2
  <2>4. Referenced(h) => Caused(h)'
    BY <1>2 DEF Referenced, Caused
  <2>5. JobFits'
    <3>1. worker'.referenced => \A q : q = worker'.job => Caused(q)'
      BY <2>3, <2>4
    <3> QED BY <2>3, <3>1 DEF JobFits
  <2> QED BY <1>2, <2>1, <2>5 DEF LeftInv, Queued
<1>4. CASE RemoveFile
  <2>1. /\ files' = files \ {worker.job} /\ queue' = queue
        /\ worker' = [worker EXCEPT !.at = "removed"]
    BY <1>4 DEF RemoveFile
  <2>2. worker'.job = worker.job
    BY <2>1 DEF StoreInv, TypeOK, Worker
  <2>3. JobFits'
    BY <2>1, <2>2 DEF JobFits
  <2> QED BY <1>2, <2>1, <2>3 DEF LeftInv, Queued
<1>5. CASE Forget
  <2>1. /\ worker.at = "removed" \/ (worker.at = "checked" /\ worker.referenced)
        /\ files' = files /\ queue' = Tail(queue) /\ worker' = Waiting
    BY <1>5 DEF Forget
  <2>2. queue \in Seq(Path) /\ queue # <<>> /\ worker.job = Head(queue)
    BY <2>1 DEF StoreInv, TypeOK, WorkerFits
  <2>3. worker.job = queue[1]
    BY <2>2
  <2>4. ASSUME NEW i \in DOMAIN queue, i # 1
        PROVE  i - 1 \in DOMAIN queue' /\ queue'[i - 1] = queue[i]
    BY <2>1, <2>2, <2>4
  <2>5. ASSUME NEW p \in files
        PROVE  Caused(p) \/ Queued(p)'
    <3>1. CASE \E i \in DOMAIN queue : i # 1 /\ queue[i] = p
      BY <2>4, <3>1 DEF Queued
    <3>2. CASE p = worker.job
      BY <2>1, <3>1, <3>2 DEF LeftInv, JobFits
    <3> QED BY <2>3, <3>1, <3>2 DEF LeftInv, Queued
  <2>6. worker'.at = "idle"
    BY <2>1 DEF Waiting
  <2>7. JobFits'
    BY <2>6 DEF JobFits
  <2> QED BY <1>2, <2>1, <2>5, <2>7 DEF LeftInv
<1> QED BY <1>3, <1>4, <1>5

LEMMA MigrateKeepsLeft ==
  ASSUME StoreInv, LeftInv, Migrate
  PROVE  LeftInv'
<1>1. UNCHANGED <<queue, upload, worker>>
  BY DEF Migrate, MigrateStart, MigrateCopy, MigrateUpdate, MigrateClear, MigrateStop, MigrationCrash
<1>2. \A u : Created(u)' = Created(u)
  BY <1>1 DEF Created
<1>3. migration \in Migration
  BY DEF StoreInv, TypeOK
<1>4. CASE MigrateStart \/ MigrateStop
  <2>1. UNCHANGED <<files, rows, strayed>>
    BY <1>4 DEF MigrateStart, MigrateStop
  <2>2. migration.at \in {"idle", "looking"}
    BY <1>4, MigrationGoesTo
  <2>3. \A p : Caused(p) => Caused(p)'
    BY <1>2, <2>1, <2>2 DEF Caused, RowsAt, Moves
  <2> QED BY <1>1, <2>1, <2>3, CausesStay
<1>5. CASE MigrateCopy
  <2>1. migration.at = "looking" /\ UNCHANGED <<rows, strayed>>
    BY <1>5 DEF MigrateCopy
  <2>2. \A p \in files' : p \in files \/ (migration'.at = "updating" /\ migration'.to = p)
    <3>. DEFINE to(r) == LET found == Existing(r.content) IN
                     IF found = {} THEN Blob(r.content) ELSE CHOOSE p \in found : TRUE
    <3>1. PICK r \in migration.todo :
         IF r.path \in files
         THEN /\ files' = files \cup {to(r)}
              /\ migration' = [at |-> "updating", todo |-> migration.todo \ {r}, id |-> r.id,
                               from |-> r.path, to |-> to(r)]
         ELSE /\ migration' = [migration EXCEPT !.todo = @ \ {r}]
              /\ UNCHANGED files
      BY <1>5 DEF MigrateCopy
    <3>. HIDE DEF to
    <3> QED BY <3>1
  <2>3. \A p \in files' : p \notin files \/ Caused(p) => Caused(p)'
    BY <1>2, <2>1, <2>2 DEF Caused, RowsAt, Moves
  <2> QED BY <1>1, <2>3, CausesStay
<1>6. CASE MigrateUpdate
  <2>1. /\ migration.at = "updating" /\ migration' = [migration EXCEPT !.at = "clearing"]
        /\ strayed' = IF {r \in rows : r.id = migration.id} = {} THEN strayed \cup {migration.to} ELSE strayed
        /\ UNCHANGED files
    BY <1>6 DEF MigrateUpdate
  <2>2. migration'.at = "clearing" /\ migration'.from = migration.from
    BY <1>3, <2>1 DEF Migration
  <2>3. strayed \subseteq strayed'
    BY <2>1
  <2>4. CASE rows' = rows /\ \A s \in rows : s.id # migration.id
    <3>1. migration.to \in strayed'
      BY <2>1, <2>4
    <3>2. \A p : Caused(p) => Caused(p)'
      BY <1>2, <2>1, <2>2, <2>3, <2>4, <3>1 DEF Caused, RowsAt, Moves
    <3> QED BY <1>1, <2>1, <3>2, CausesStay
  <2>5. CASE \E r \in rows : /\ r.id = migration.id /\ r.path = migration.from
                             /\ rows' = (rows \ {r}) \cup {[r EXCEPT !.path = migration.to]}
    <3>1. PICK r \in rows : /\ r.path = migration.from
                            /\ rows' = (rows \ {r}) \cup {[r EXCEPT !.path = migration.to]}
      BY <2>5
    <3>2. r \in Row /\ migration.to \in Path
      BY <2>1 DEF StoreInv, TypeOK, MigrationFits
    <3>3. [r EXCEPT !.path = migration.to].path = migration.to
      BY <3>2, MovedRow
    <3>4. \E s \in rows' : s.path = migration.to
      BY <3>1, <3>3
    <3>5. \A p : RowsAt(p) # {} => RowsAt(p)' # {} \/ p = migration.from
      BY <3>1 DEF RowsAt
    <3>6. \A p : Moves(p) => RowsAt(p)' # {}
      BY <3>4 DEF RowsAt, Moves
    <3>7. \A p : Caused(p) => Caused(p)'
      BY <1>2, <2>1, <2>2, <2>3, <3>5, <3>6 DEF Caused
    <3> QED BY <1>1, <2>1, <3>7, CausesStay
  <2> QED BY <1>6, <2>4, <2>5, MigratedRows
<1>7. CASE MigrateClear
  <2>1. /\ migration.at = "clearing"
        /\ files' = IF Referenced(migration.from) THEN files ELSE files \ {migration.from}
        /\ UNCHANGED <<rows, strayed>>
    BY <1>7 DEF MigrateClear
  <2>2. \A p \in files' : p \in files /\ (p = migration.from => RowsAt(p) # {})
    BY <2>1 DEF Referenced
  <2>3. \A p \in files' : Caused(p) => Caused(p)'
    BY <1>2, <2>1, <2>2 DEF Caused, RowsAt, Moves
  <2> QED BY <1>1, <2>2, <2>3, CausesStay
<1>8. CASE MigrationCrash
  <2>1. /\ strayed' = strayed \cup ({migration.to, migration.from} \cap Path)
        /\ UNCHANGED <<files, rows>>
    BY <1>8 DEF MigrationCrash
  <2>2. /\ migration.at = "updating" => migration.to \in strayed'
        /\ migration.at \in {"updating", "clearing"} => migration.from \in strayed'
    BY <2>1 DEF StoreInv, MigrationFits
  <2>3. \A p : Caused(p) => Caused(p)'
    BY <1>2, <2>1, <2>2 DEF Caused, RowsAt, Moves
  <2> QED BY <1>1, <2>1, <2>3, CausesStay
<1> QED BY <1>4, <1>5, <1>6, <1>7, <1>8 DEF Migrate

LEMMA LeftStep ==
  ASSUME StoreInv, LeftInv, [Next]_vars
  PROVE  LeftInv'
<1>1. CASE \E u \in Uploads : Request(u)
  BY <1>1, RequestKeepsLeft
<1>2. CASE \E r \in rows : Expire(r)
  BY <1>2, ExpireKeepsLeft
<1>3. CASE Retention
  BY <1>3, PurgeKeepsLeft, WorkerKeepsLeft DEF Retention
<1>4. CASE Migrate
  BY <1>4, MigrateKeepsLeft
<1>5. CASE Copy \/ UNCHANGED vars
  <2>1. UNCHANGED <<files, rows, queue, upload, worker, migration, strayed>>
    BY <1>5, CopyMoves DEF vars
  <2>2. \A p : Caused(p) => Caused(p)'
    BY <2>1 DEF Caused, RowsAt, Created, Moves
  <2> QED BY <2>1, <2>2, CausesStay
<1>6. CASE Crash
  <2>1. /\ UNCHANGED <<files, rows, queue, migration>> /\ worker' = Waiting
        /\ strayed' = strayed \cup UNION {PathsOf(u) \cup ({Staging(u)} \cap files) : u \in Uploads}
    BY <1>6, CrashMoves
  <2>2. \A u \in Uploads : Created(u) \subseteq PathsOf(u) \cup {Staging(u)}
    BY DEF Created, PathsOf
  <2>3. \A p \in files : \A u \in Uploads : p \in Created(u) => p \in strayed'
    BY <2>1, <2>2
  <2>4. \A p \in files : Caused(p) => Caused(p)'
    BY <2>1, <2>3 DEF Caused, RowsAt, Moves
  <2> QED BY <2>1, <2>4, CausesStay
<1> QED BY <1>1, <1>2, <1>3, <1>4, <1>5, <1>6 DEF Next

LEMMA LeftInit ==
  ASSUME Init
  PROVE  LeftInv
<1>1. files = {r.path : r \in rows} /\ worker.at = "idle"
  BY DEF Init, Waiting
<1>2. \A p \in files : Caused(p)
  BY <1>1 DEF Caused, RowsAt
<1>3. JobFits
  BY <1>1 DEF JobFits
<1> QED BY <1>2, <1>3 DEF LeftInv

\* For any number of uploads, contents and crashes, and any interleaving of uploads,
\* purges, the worker and the migration: an attachment lacks its bytes only if they were
\* taken under one who held them, and a file that nobody will remove was left by a
\* crash, a lost commit or the migration of a purged row (attachments.go Upload,
\* retention.go DrainDeletionQueue, storagemigrate).
THEOREM FilesFollow == Spec => []FilesFollowRows
<1>1. Init => StoreInv /\ HeldIsKept /\ LeftInv
  BY StoreInit, HeldInit, LeftInit
<1>2. StoreInv /\ HeldIsKept /\ LeftInv /\ [Next]_vars => StoreInv' /\ HeldIsKept' /\ LeftInv'
  BY StoreStep, HeldStep, LeftStep
<1>3. HeldIsKept /\ LeftInv => FilesFollowRows
  BY LeftInvIsEnough DEF HeldIsKept, Kept, FilesFollowRows, LossesHaveACause
<1> QED BY <1>1, <1>2, <1>3, PTL DEF Spec

-----------------------------------------------------------------------------
(* What a copy of the running system lacks. *)

StillThere(r) == \E s \in rows : s.id = r.id /\ s.path = r.path

\* A dumped row that has been moved is moved for good.
DumpFits ==
  \A r \in backup.dump :
    /\ r.id[1] \in Uploads => upload[r.id[1]].at = "over"
    /\ \A s \in rows : s.id = r.id /\ s.path # r.path => IsOld(r.path) /\ ~IsOld(s.path)

\* As long as a row stays, its file is still to be copied, or is copied, or was taken.
CopyFits ==
  /\ backup.at \in {"copying", "sealed", "proved", "refused"} =>
       \A r \in backup.dump : StillThere(r) => r.path \in backup.todo \cup backup.copied \cup taken
  /\ backup.at \in {"sealed", "proved", "refused"} => backup.todo = {}
  /\ backup.at = "proved" => \A r \in backup.dump : r.path \in backup.copied

CopyInv == DumpFits /\ CopyFits

LEMMA CopyInvIsEnough == CopyInv => CopiesAreWhole
<1>. SUFFICES ASSUME CopyInv PROVE CopiesAreWhole
  OBVIOUS
<1>. DEFINE missing == {r \in backup.dump : r.path \notin backup.copied}
<1>1. ASSUME backup.at \in {"sealed", "proved", "refused"}, NEW r \in missing
      PROVE  r.path \in taken \/ \A s \in rows : s.id # r.id \/ s.path # r.path
  <2>1. StillThere(r) => r.path \in taken
    BY <1>1 DEF CopyInv, CopyFits
  <2> QED BY <2>1 DEF StillThere
<1>2. backup.at = "proved" => missing = {}
  BY DEF CopyInv, CopyFits
<1> QED BY <1>1, <1>2 DEF CopiesAreWhole

\* What the copy relies on: no row it has dumped comes back, nothing taken is untaken.
LEMMA NothingReturns ==
  ASSUME CopyInv, UNCHANGED backup, taken \subseteq taken',
         \A u \in Uploads : upload[u].at = "over" => upload'[u].at = "over",
         \A r \in backup.dump : \A s \in rows' : s.id = r.id =>
            /\ s.path = r.path => StillThere(r)
            /\ s.path # r.path => IsOld(r.path) /\ ~IsOld(s.path)
  PROVE  CopyInv'
<1>1. DumpFits'
  BY DEF CopyInv, DumpFits
<1>2. \A r \in backup.dump : StillThere(r)' => StillThere(r)
  <2>. SUFFICES ASSUME NEW r \in backup.dump, NEW s \in rows', s.id = r.id, s.path = r.path
                PROVE  StillThere(r)
    BY DEF StillThere
  <2> QED OBVIOUS
<1>3. CopyFits'
  BY <1>2 DEF CopyInv, CopyFits
<1> QED BY <1>1, <1>3 DEF CopyInv

\* Rows keep their ids and paths.
LEMMA RowsStay ==
  ASSUME CopyInv, UNCHANGED backup, taken \subseteq taken',
         \A u \in Uploads : upload[u].at = "over" => upload'[u].at = "over",
         \A s \in rows' : \E q \in rows : s.id = q.id /\ s.path = q.path
  PROVE  CopyInv'
<1>1. ASSUME NEW r \in backup.dump, NEW s \in rows', s.id = r.id
      PROVE  /\ s.path = r.path => StillThere(r)
             /\ s.path # r.path => IsOld(r.path) /\ ~IsOld(s.path)
  <2>1. PICK q \in rows : s.id = q.id /\ s.path = q.path
    OBVIOUS
  <2> QED BY <1>1, <2>1 DEF CopyInv, DumpFits, StillThere
<1> QED BY <1>1, NothingReturns

LEMMA RequestKeepsCopy ==
  ASSUME StoreInv, CopyInv, NEW u \in Uploads, Request(u)
  PROVE  CopyInv'
<1>1. PICK n : RecordMoves(u, n) /\ FilesMove(u, n) /\ RestMoves(u)
  BY EveryRequestMoves DEF RequestMoves
<1>2. /\ upload' = [upload EXCEPT ![u] = n] /\ upload \in [Uploads -> Upload]
      /\ upload[u].at # "over"
  BY <1>1 DEF RecordMoves, StoreInv, TypeOK
<1>3. \A v \in Uploads : upload[v].at = "over" => upload'[v].at = "over"
  BY <1>2
<1>4. UNCHANGED backup /\ taken \subseteq taken' /\ (rows' = rows \/ Commit(u))
  BY <1>1 DEF RestMoves
<1>5. \A s \in rows' : s \in rows \/ s.id[1] = u
  <2>1. CASE rows' = rows
    BY <2>1
  <2>2. CASE Commit(u)
    <3>1. upload[u].at = "inserting" /\ rows' = rows \cup NewRows(u)
      BY <2>2 DEF Commit
    <3> QED BY <3>1, NewRowsFit
  <2> QED BY <1>4, <2>1, <2>2
<1>6. \A r \in backup.dump : r.id[1] # u
  BY <1>2 DEF CopyInv, DumpFits
<1>7. ASSUME NEW r \in backup.dump, NEW s \in rows', s.id = r.id
      PROVE  /\ s.path = r.path => StillThere(r)
             /\ s.path # r.path => IsOld(r.path) /\ ~IsOld(s.path)
  <2>1. s \in rows
    BY <1>5, <1>6, <1>7
  <2> QED BY <1>7, <2>1 DEF CopyInv, DumpFits, StillThere
<1> QED BY <1>3, <1>4, <1>7, NothingReturns

LEMMA MigrateUpdateKeepsCopy ==
  ASSUME StoreInv, CopyInv, MigrateUpdate
  PROVE  CopyInv'
<1>1. migration.at = "updating" /\ UNCHANGED <<backup, taken, upload>>
  BY DEF MigrateUpdate
<1>2. /\ IsOld(migration.from) /\ ~IsOld(migration.to) /\ migration.to \in Path
  BY <1>1 DEF StoreInv, MigrationFits
<1>3. CASE rows' = rows
  BY <1>1, <1>3, RowsStay
<1>4. CASE \E r \in rows : /\ r.id = migration.id /\ r.path = migration.from
                           /\ rows' = (rows \ {r}) \cup {[r EXCEPT !.path = migration.to]}
  <2>1. PICK q \in rows : /\ q.path = migration.from
                          /\ rows' = (rows \ {q}) \cup {[q EXCEPT !.path = migration.to]}
    BY <1>4
  <2>. DEFINE e == [q EXCEPT !.path = migration.to]
  <2>2. q \in Row
    BY DEF StoreInv, TypeOK
  <2>3. e.id = q.id /\ e.path = migration.to
    BY <1>2, <2>2, MovedRow
  <2>4. rows' = (rows \ {q}) \cup {e}
    BY <2>1
  <2>. HIDE DEF e
  <2>5. ASSUME NEW r \in backup.dump, NEW s \in rows', s.id = r.id
        PROVE  /\ s.path = r.path => StillThere(r)
               /\ s.path # r.path => IsOld(r.path) /\ ~IsOld(s.path)
    <3>1. CASE s \in rows
      BY <2>5, <3>1 DEF CopyInv, DumpFits, StillThere
    <3>2. CASE s = e
      <4>1. q.id = r.id /\ s.path = migration.to
        BY <2>3, <2>5, <3>2
      <4>2. IsOld(r.path)
        <5>1. CASE q.path = r.path
          BY <1>2, <2>1, <5>1
        <5>2. CASE q.path # r.path
          BY <4>1, <5>2 DEF CopyInv, DumpFits
        <5> QED BY <5>1, <5>2
      <4>3. s.path # r.path /\ ~IsOld(s.path)
        BY <1>2, <4>1, <4>2
      <4> QED BY <4>2, <4>3
    <3> QED BY <2>4, <3>1, <3>2
  <2> QED BY <1>1, <2>5, NothingReturns
<1> QED BY <1>3, <1>4, MigratedRows

LEMMA CopyKeepsCopy ==
  ASSUME StoreInv, HeldIsKept, CopyInv, Copy
  PROVE  CopyInv'
<1>1. backup \in Backup /\ RowsFit
  BY DEF StoreInv, TypeOK
<1>2. UNCHANGED <<files, rows, upload, taken>>
  BY CopyMoves
<1>3. ASSUME backup'.dump = backup.dump
      PROVE  DumpFits' /\ \A r \in backup.dump : StillThere(r)' <=> StillThere(r)
  BY <1>2, <1>3 DEF CopyInv, DumpFits, StillThere
<1>4. CASE Count
  <2>1. backup'.at = "counted" /\ backup'.dump = backup.dump
    <3>1. backup' = [backup EXCEPT !.at = "counted", !.count = Cardinality(rows)]
      BY <1>4 DEF Count
    <3> QED BY <1>1, <3>1 DEF Backup
  <2> QED BY <1>3, <2>1 DEF CopyInv, CopyFits
<1>5. CASE Dump
  <2>1. backup'.at = "dumped" /\ backup'.dump = rows
    BY <1>1, <1>5 DEF Dump, Backup
  <2>2. DumpFits'
    BY <1>1, <1>2, <2>1 DEF DumpFits, RowsFit
  <2> QED BY <2>1, <2>2 DEF CopyInv, CopyFits
<1>6. CASE List
  <2>1. backup'.at = "copying" /\ backup'.dump = backup.dump /\ backup'.todo = files
    BY <1>1, <1>6 DEF List, Listed, Backup
  <2>2. \A r \in backup.dump : StillThere(r) => r.path \in files \cup taken
    BY DEF HeldIsKept, Kept, StillThere
  <2> QED BY <1>2, <1>3, <2>1, <2>2 DEF CopyInv, CopyFits
<1>7. CASE CopyFile
  <2>. DEFINE p == CHOOSE q \in backup.todo : TRUE
  <2>1. /\ backup.at = "copying"
        /\ backup' = IF p \in files THEN [backup EXCEPT !.todo = backup.todo \ {p}, !.copied = backup.copied \cup {p}]
                     ELSE [backup EXCEPT !.at = "failed"]
    BY <1>7 DEF CopyFile
  <2>. HIDE DEF p
  <2>2. CASE p \in files
    <3>1. /\ backup'.at = "copying" /\ backup'.dump = backup.dump
          /\ backup'.todo = backup.todo \ {p} /\ backup'.copied = backup.copied \cup {p}
      BY <1>1, <2>1, <2>2 DEF Backup
    <3>2. backup'.todo \cup backup'.copied \cup taken' = backup.todo \cup backup.copied \cup {p} \cup taken
      BY <1>2, <3>1
    <3>3. \A r \in backup.dump : StillThere(r) => r.path \in backup.todo \cup backup.copied \cup taken
      BY <2>1 DEF CopyInv, CopyFits
    <3> QED BY <1>3, <3>1, <3>2, <3>3 DEF CopyInv, CopyFits
  <2>3. CASE p \notin files
    <3>1. backup'.at = "failed" /\ backup'.dump = backup.dump
      BY <1>1, <2>1, <2>3 DEF Backup
    <3> QED BY <1>3, <3>1 DEF CopyInv, CopyFits
  <2> QED BY <2>2, <2>3
<1>8. CASE Seal
  <2>1. /\ backup.at = "copying" /\ backup.todo = {} /\ backup'.at = "sealed"
        /\ backup'.dump = backup.dump /\ backup'.todo = backup.todo /\ backup'.copied = backup.copied
    BY <1>1, <1>8 DEF Seal, Backup
  <2> QED BY <1>2, <1>3, <2>1 DEF CopyInv, CopyFits
<1>9. CASE Drill
  <2>1. PICK at \in {"proved", "refused"} :
          /\ backup' = [backup EXCEPT !.at = at]
          /\ at = "proved" => DrillPasses
    BY <1>9 DEF Drill
  <2>2. /\ backup'.at = at /\ backup'.dump = backup.dump
        /\ backup'.todo = backup.todo /\ backup'.copied = backup.copied
    BY <1>1, <2>1 DEF Backup
  <2>3. backup.at = "sealed"
    BY <1>9 DEF Drill
  <2>4. backup'.at = "proved" => \A r \in backup.dump : r.path \in backup.copied
    BY <2>1, <2>2 DEF DrillPasses
  <2> QED BY <1>2, <1>3, <2>2, <2>3, <2>4 DEF CopyInv, CopyFits
<1> QED BY <1>4, <1>5, <1>6, <1>7, <1>8, <1>9 DEF Copy

LEMMA CopyStep ==
  ASSUME StoreInv, HeldIsKept, CopyInv, [Next]_vars
  PROVE  CopyInv'
<1>1. CASE \E u \in Uploads : Request(u)
  BY <1>1, RequestKeepsCopy
<1>2. CASE \E r \in rows : Expire(r)
  <2>1. PICK r \in rows : /\ rows' = (rows \ {r}) \cup {[r EXCEPT !.expired = TRUE]}
                          /\ UNCHANGED <<upload, backup, taken>>
    BY <1>2 DEF Expire
  <2>2. r \in Row
    BY DEF StoreInv, TypeOK
  <2>3. [r EXCEPT !.expired = TRUE].id = r.id /\ [r EXCEPT !.expired = TRUE].path = r.path
    BY <2>2, ExpiredRow
  <2>4. \A s \in rows' : \E q \in rows : s.id = q.id /\ s.path = q.path
    BY <2>1, <2>3
  <2> QED BY <2>1, <2>4, RowsStay
<1>3. CASE Retention \/ (Migrate /\ ~MigrateUpdate) \/ UNCHANGED vars
  <2>1. /\ rows' \subseteq rows /\ UNCHANGED <<upload, backup>> /\ taken \subseteq taken'
    BY <1>3 DEF Retention, Purge, Take, RemoveFile, Forget, Migrate, MigrateStart, MigrateCopy,
                MigrateClear, MigrateStop, MigrationCrash, vars
  <2> QED BY <2>1, RowsStay
<1>4. CASE MigrateUpdate
  BY <1>4, MigrateUpdateKeepsCopy
<1>5. CASE Copy
  BY <1>5, CopyKeepsCopy
<1>6. CASE Crash
  <2>1. \A u \in Uploads : upload[u].at = "over" => upload'[u].at = "over"
    BY <1>6, CrashMoves, DoneIsEmpty
  <2>2. UNCHANGED <<rows, backup, taken>>
    BY <1>6, CrashMoves
  <2> QED BY <2>1, <2>2, RowsStay
<1> QED BY <1>1, <1>2, <1>3, <1>4, <1>5, <1>6 DEF Next

LEMMA CopyInit ==
  ASSUME Init
  PROVE  CopyInv
<1>1. backup.dump = {} /\ backup.at \in {"idle", "failed"}
  BY DEF Init
<1> QED BY <1>1 DEF CopyInv, DumpFits, CopyFits

\* Whatever is uploaded, purged, migrated or removed while a copy is made: a sealed copy
\* lacks the bytes of a row it contains only if the row was purged or moved meanwhile, or
\* had its bytes taken; a copy that passes the drill lacks none (backup/bundle.go,
\* backup/drill.go).
THEOREM CopiesWhole == Spec => []CopiesAreWhole
<1>1. Init => StoreInv /\ HeldIsKept /\ CopyInv
  BY StoreInit, HeldInit, CopyInit
<1>2. StoreInv /\ HeldIsKept /\ CopyInv /\ [Next]_vars => StoreInv' /\ HeldIsKept' /\ CopyInv'
  BY StoreStep, HeldStep, CopyStep
<1>3. CopyInv => CopiesAreWhole
  BY CopyInvIsEnough
<1> QED BY <1>1, <1>2, <1>3, PTL DEF Spec
=============================================================================
