---------------------------- MODULE StorageProofs ----------------------------
(***************************************************************************)
(* What the bucket of Storage promises about its data, and the index about *)
(* what it charges for it, for any number of users, files, accessors and   *)
(* hashes.                                                                 *)
(*                                                                         *)
(* FilesSound adds to BlobsMatchFiles that a file is known by its id:      *)
(* otherwise removing an accessor could make two files one, while the      *)
(* reference count of their data stays two.                                *)
(*                                                                         *)
(* ChargesRight adds to BytesUsedExact that the index has the true size of *)
(* all the data of a user that is charged right: otherwise what it gives   *)
(* back when a file goes would be another number.  IndexSound adds that    *)
(* each file the index refers to has an owner it knows or has removed:     *)
(* otherwise a new user could have files it is not charged for.  A batch   *)
(* is taken in by a function defined from its previous value, which has to *)
(* be shown to exist (RecursionExists).                                    *)
(*                                                                         *)
(* AgreeInv says when QuietCopiesAgree has nothing on its way yet what     *)
(* will come of it: it takes the batch of a call that is asked, what is to *)
(* be retried and the queue as one sequence (Way), and balances the files  *)
(* the bucket has with those the index knows, will be told of, and is told *)
(* are gone (Accounts).                                                    *)
(***************************************************************************)
EXTENDS Storage, WellFoundedInduction, FiniteSetTheorems, FunctionTheorems, SequenceTheorems,
        TLAPS

Fields == {"users", "files", "pending", "sync", "reference_counts", "blobs"}
Files == [id : Nat, owner : Users, hash : Hashes, accessors : SUBSET Accessors,
          size : Nat]
WithHash(files, h) == {f \in files : f.hash = h}

\* A bucket counts the references to its data, and knows its files by their ids.
CountsSound(files, counts, blobs) ==
    /\ IsFiniteSet(files) /\ DOMAIN counts = Hashes
    /\ \A h \in Hashes : /\ counts[h] = Cardinality(WithHash(files, h))
                         /\ h \in blobs <=> counts[h] > 0
KnownById(files) == files \subseteq Files /\ \A f, g \in files : f.id = g.id => f = g
FilesSound(b) ==
    /\ DOMAIN b = Fields
    /\ CountsSound(b.files, b.reference_counts, b.blobs)
    /\ KnownById(b.files \cup b.pending) /\ b.files \cap b.pending = {}
BucketInv ==
    /\ FilesSound(bucket) /\ file_count \in Nat
    /\ \A f \in bucket.files \cup bucket.pending : f.id <= file_count

-----------------------------------------------------------------------------
(* Lemmas about what is done to a bucket *)

\* c is b, but perhaps for its users and what it tells the index.
SameFiles(b, c) ==
    /\ DOMAIN c = DOMAIN b /\ c.files = b.files /\ c.pending = b.pending
    /\ c.reference_counts = b.reference_counts /\ c.blobs = b.blobs

LEMMA SameIsSound ==
    ASSUME NEW b, NEW c, FilesSound(b), SameFiles(b, c)
    PROVE  FilesSound(c)
BY DEF FilesSound, SameFiles

LEMMA TellsIs ==
    ASSUME NEW b, DOMAIN b = Fields, NEW events
    PROVE  SameFiles(b, Tells(b, events))
BY DEF Tells, SameFiles, Fields

LEMMA WithStatusIs ==
    ASSUME NEW b, DOMAIN b = Fields, NEW file, NEW status
    PROVE  SameFiles(b, WithStatus(b, file, status))
BY DEF WithStatus, SameFiles, Fields

LEMMA SameIsSame ==
    ASSUME NEW b, NEW c, NEW d, SameFiles(b, c), SameFiles(c, d)
    PROVE  SameFiles(b, d)
BY DEF SameFiles

\* A file that is not known yet may be inserted.
LEMMA InsertedIs ==
    ASSUME NEW b, FilesSound(b), NEW file \in Files, file.id \notin IdsOf(b.files \cup b.pending)
    PROVE  /\ FilesSound(Inserted(b, file))
           /\ Inserted(b, file).files = b.files \cup {file}
           /\ Inserted(b, file).pending = b.pending
<1> DEFINE c == Inserted(b, file)
           counts == b.reference_counts
<1>1. /\ DOMAIN b = Fields /\ IsFiniteSet(b.files) /\ DOMAIN counts = Hashes
      /\ \A h \in Hashes : /\ counts[h] = Cardinality(WithHash(b.files, h))
                           /\ h \in b.blobs <=> counts[h] > 0
      /\ KnownById(b.files \cup b.pending) /\ b.files \cap b.pending = {}
      /\ file \notin b.files \cup b.pending /\ file.hash \in Hashes
  BY DEF FilesSound, CountsSound, IdsOf, Files
<1>2. /\ DOMAIN c = Fields /\ c.files = b.files \cup {file} /\ c.pending = b.pending
      /\ c.reference_counts = [counts EXCEPT ![file.hash] = @ + 1]
      /\ c.blobs = b.blobs \cup {file.hash}
  BY <1>1 DEF Inserted, Fields
<1> HIDE DEF c
<1>3. IsFiniteSet(c.files)
  BY <1>1, <1>2, FS_AddElement
<1>4. \A h \in Hashes : IsFiniteSet(WithHash(b.files, h)) /\ Cardinality(WithHash(b.files, h)) \in Nat
  BY <1>1, FS_Subset, FS_CardinalityType DEF WithHash
<1>5. ASSUME NEW h \in Hashes
      PROVE  /\ c.reference_counts[h] = Cardinality(WithHash(c.files, h))
             /\ h \in c.blobs <=> c.reference_counts[h] > 0
  <2>1. CASE h = file.hash
    <3>1. WithHash(c.files, h) = WithHash(b.files, h) \cup {file} /\ file \notin WithHash(b.files, h)
      BY <1>1, <1>2, <2>1 DEF WithHash
    <3>2. Cardinality(WithHash(c.files, h)) = Cardinality(WithHash(b.files, h)) + 1
      BY <1>4, <3>1, FS_AddElement
    <3>3. c.reference_counts[h] = counts[h] + 1 /\ h \in c.blobs
      BY <1>1, <1>2, <2>1
    <3> QED BY <1>1, <1>4, <3>2, <3>3
  <2>2. CASE h # file.hash
    <3>1. WithHash(c.files, h) = WithHash(b.files, h)
      BY <1>2, <2>2 DEF WithHash
    <3> QED BY <1>1, <1>2, <2>2, <3>1
  <2> QED BY <2>1, <2>2
<1>6. KnownById(c.files \cup c.pending) /\ c.files \cap c.pending = {}
  BY <1>1, <1>2 DEF KnownById, IdsOf
<1>7. DOMAIN c.reference_counts = Hashes
  BY <1>1, <1>2
<1>8. FilesSound(c)
  BY <1>2, <1>3, <1>5, <1>6, <1>7 DEF FilesSound, CountsSound
<1> QED BY <1>2, <1>8 DEF c

\* Files that are there may be dropped, together.
LEMMA DroppedIs ==
    ASSUME NEW b, FilesSound(b), NEW files, files \subseteq b.files
    PROVE  /\ FilesSound(Dropped(b, files))
           /\ Dropped(b, files).files = b.files \ files
           /\ Dropped(b, files).pending = b.pending
<1> DEFINE c == Dropped(b, files)
           left == ReferencesLeft(b, files)
           counts == b.reference_counts
<1>1. /\ DOMAIN b = Fields /\ IsFiniteSet(b.files)
      /\ \A h \in Hashes : /\ counts[h] = Cardinality(WithHash(b.files, h))
                           /\ h \in b.blobs <=> counts[h] > 0
      /\ KnownById(b.files \cup b.pending) /\ b.files \cap b.pending = {}
  BY DEF FilesSound, CountsSound
<1>2. /\ DOMAIN c = Fields /\ c.files = b.files \ files /\ c.pending = b.pending
      /\ c.reference_counts = left
      /\ c.blobs = b.blobs \ {h \in {f.hash : f \in files} : left[h] <= 0}
  BY <1>1 DEF Dropped, Fields
<1> HIDE DEF c
<1>3. IsFiniteSet(c.files)
  <2>1. c.files \in SUBSET b.files
    BY <1>2
  <2> QED BY <1>1, <2>1, FS_Subset
<1>4. DOMAIN left = Hashes
      /\ \A h \in Hashes : left[h] = counts[h] - Cardinality(WithHash(files, h))
  BY DEF ReferencesLeft, WithHash
<1> HIDE DEF left
<1>5. ASSUME NEW h \in Hashes
      PROVE  /\ c.reference_counts[h] = Cardinality(WithHash(c.files, h))
             /\ h \in c.blobs <=> c.reference_counts[h] > 0
  <2> DEFINE all == WithHash(b.files, h)
             dropped == WithHash(files, h)
  <2>1. WithHash(c.files, h) = all \ dropped /\ dropped = all \cap dropped
    BY <1>2 DEF WithHash
  <2>2. IsFiniteSet(all) /\ IsFiniteSet(dropped)
    BY <1>1, FS_Subset DEF WithHash
  <2>3. Cardinality(all) \in Nat /\ Cardinality(dropped) \in Nat
        /\ Cardinality(all \ dropped) \in Nat
        /\ Cardinality(all \ dropped) = Cardinality(all) - Cardinality(dropped)
    <3> HIDE DEF all, dropped
    <3>1. /\ IsFiniteSet(all \ dropped)
          /\ Cardinality(all \ dropped) = Cardinality(all) - Cardinality(all \cap dropped)
      BY <2>2, FS_Difference
    <3> QED BY <2>1, <2>2, <3>1, FS_CardinalityType
  <2>4. left[h] = Cardinality(all \ dropped) /\ left[h] \in Nat /\ counts[h] \in Nat
        /\ left[h] = counts[h] - Cardinality(dropped)
    BY <1>1, <1>4, <2>3
  <2>5. h \in {f.hash : f \in files} <=> dropped # {}
    BY DEF WithHash
  <2>6. dropped = {} => Cardinality(dropped) = 0
    BY FS_EmptySet
  <2> HIDE DEF all, dropped
  <2>7. h \in c.blobs <=> left[h] > 0
    <3>1. CASE left[h] > 0
      <4>1. counts[h] > 0 /\ ~(left[h] <= 0)
        BY <2>3, <2>4, <3>1
      <4> QED BY <1>1, <1>2, <3>1, <4>1
    <3>2. CASE ~(left[h] > 0)
      <4>1. left[h] <= 0
        BY <2>4, <3>2
      <4>2. CASE dropped = {}
        <5>1. ~(counts[h] > 0)
          BY <2>4, <2>6, <3>2, <4>2
        <5> QED BY <1>1, <1>2, <3>2, <5>1
      <4>3. CASE dropped # {}
        BY <1>2, <2>5, <3>2, <4>1, <4>3
      <4> QED BY <4>2, <4>3
    <3> QED BY <3>1, <3>2
  <2> QED BY <1>2, <2>1, <2>4, <2>7
<1>6. KnownById(c.files \cup c.pending) /\ c.files \cap c.pending = {}
  BY <1>1, <1>2 DEF KnownById
<1>7. FilesSound(c)
  BY <1>2, <1>3, <1>4, <1>5, <1>6 DEF FilesSound, CountsSound
<1> QED BY <1>2, <1>7 DEF c

\* The list of pending files may become shorter.
LEMMA LessPendingIsSound ==
    ASSUME NEW b, FilesSound(b), NEW c, DOMAIN c = Fields, c.files = b.files,
           c.reference_counts = b.reference_counts, c.blobs = b.blobs,
           c.pending \subseteq b.pending
    PROVE  FilesSound(c)
BY DEF FilesSound, KnownById

\* Accessors may be taken from the files.
LEMMA StrippedIs ==
    ASSUME NEW b, FilesSound(b), NEW gone, NEW c, DOMAIN c = Fields,
           c.files = {[f EXCEPT !.accessors = @ \ gone] : f \in b.files},
           c.pending = b.pending, c.reference_counts = b.reference_counts, c.blobs = b.blobs
    PROVE  FilesSound(c)
<1> DEFINE stripped(f) == [f EXCEPT !.accessors = @ \ gone]
<1>1. /\ IsFiniteSet(b.files) /\ DOMAIN b.reference_counts = Hashes
      /\ \A h \in Hashes : /\ b.reference_counts[h] = Cardinality(WithHash(b.files, h))
                           /\ h \in b.blobs <=> b.reference_counts[h] > 0
      /\ b.files \cup b.pending \subseteq Files /\ b.files \cap b.pending = {}
      /\ \A f, g \in b.files \cup b.pending : f.id = g.id => f = g
  BY DEF FilesSound, CountsSound, KnownById
<1>2. ASSUME NEW f \in Files
      PROVE  stripped(f) \in Files /\ stripped(f).id = f.id /\ stripped(f).hash = f.hash
  <2>1. PICK left \in SUBSET Accessors : left = f.accessors \ gone
    BY DEF Files
  <2>2. stripped(f) = [f EXCEPT !.accessors = left]
    BY <2>1
  <2> HIDE DEF stripped
  <2> QED BY <2>2 DEF Files
<1>3. c.files = {stripped(f) : f \in b.files}
  OBVIOUS
<1> HIDE DEF stripped
<1>4. ASSUME NEW S \in SUBSET b.files
      PROVE  /\ IsFiniteSet({stripped(f) : f \in S})
             /\ Cardinality({stripped(f) : f \in S}) = Cardinality(S)
  <2> DEFINE T == {stripped(f) : f \in S}
             F == [f \in S |-> stripped(f)]
  <2>1. F \in Bijection(S, T)
    <3>1. F \in [S -> T] /\ \A t \in T : \E s \in S : F[s] = t
      OBVIOUS
    <3>2. ASSUME NEW x \in S, NEW y \in S, F[x] = F[y] PROVE x = y
      <4>1. stripped(x) = stripped(y)
        BY <3>2
      <4> QED BY <1>1, <1>2, <4>1
    <3> HIDE DEF F, T
    <3> QED BY <3>1, <3>2 DEF Bijection, Injection, Surjection, IsInjective
  <2>2. IsFiniteSet(S)
    BY <1>1, FS_Subset
  <2>3. ExistsBijection(S, T)
    BY <2>1 DEF ExistsBijection
  <2> HIDE DEF T
  <2>4. IsFiniteSet(T) /\ Cardinality(T) = Cardinality(S)
    BY <2>2, <2>3, FS_Bijection
  <2> QED BY <2>4 DEF T
<1>5. \A h \in Hashes : WithHash(c.files, h) = {stripped(f) : f \in WithHash(b.files, h)}
  BY <1>1, <1>2, <1>3 DEF WithHash
<1>6. \A h \in Hashes : Cardinality(WithHash(c.files, h)) = Cardinality(WithHash(b.files, h))
  <2>1. \A h \in Hashes : WithHash(b.files, h) \in SUBSET b.files
    BY DEF WithHash
  <2> QED BY <1>4, <1>5, <2>1
<1>7. IsFiniteSet(c.files)
  BY <1>3, <1>4
<1>8. KnownById(c.files \cup c.pending)
  <2>1. \A f \in c.files : \E g \in b.files : f \in Files /\ f.id = g.id /\ f = stripped(g)
    BY <1>1, <1>2, <1>3
  <2> QED BY <1>1, <2>1 DEF KnownById
<1>9. c.files \cap c.pending = {}
  <2>1. \A f \in c.files : \E g \in b.files : f.id = g.id
    BY <1>1, <1>2, <1>3
  <2>2. ASSUME NEW f \in c.files \cap c.pending PROVE FALSE
    <3>1. PICK g \in b.files : f.id = g.id
      BY <2>1
    <3>2. f \in b.pending /\ f = g
      BY <1>1, <3>1
    <3> QED BY <1>1, <3>2
  <2> QED BY <2>2
<1> QED BY <1>1, <1>6, <1>7, <1>8, <1>9 DEF FilesSound, CountsSound
\* What the index has refused is dropped, or is no longer pending.
LEMMA RefusedIs ==
    ASSUME NEW b, FilesSound(b), NEW ids
    PROVE  /\ FilesSound(Refused(b, ids))
           /\ Refused(b, ids).files \subseteq b.files
           /\ Refused(b, ids).pending \subseteq b.pending
<1> DEFINE files == {f \in b.files \cup b.pending : f.id \in ids /\ f.owner \in DOMAIN b.users}
           uploading == {f \in files : IsUploading(b, f)}
           rejected(u) == [id \in IdsOf({f \in files : f.owner = u}) |-> "Rejected"]
           marked == [b EXCEPT !.users = [u \in DOMAIN @ |-> rejected(u) @@ @[u]],
                               !.pending = @ \ uploading]
           refused == b.files \cap (files \ uploading)
<1>1. Refused(b, ids) = Dropped(marked, refused)
  BY DEF Refused
<1> HIDE DEF uploading, rejected, refused
<1>2. /\ DOMAIN marked = Fields /\ marked.files = b.files
      /\ marked.reference_counts = b.reference_counts /\ marked.blobs = b.blobs
      /\ marked.pending = b.pending \ uploading
  BY DEF FilesSound, Fields
<1>3. refused \subseteq b.files
  BY DEF refused
<1> HIDE DEF marked, files
<1>4. FilesSound(marked)
  BY <1>2, LessPendingIsSound
<1>5. /\ FilesSound(Dropped(marked, refused))
      /\ Dropped(marked, refused).files = marked.files \ refused
      /\ Dropped(marked, refused).pending = marked.pending
  BY <1>2, <1>3, <1>4, DroppedIs
<1> QED BY <1>1, <1>2, <1>5

-----------------------------------------------------------------------------
(* The steps *)

\* The bucket is sound, and no file has an id beyond n.
BucketSound(b, n) ==
    FilesSound(b) /\ \A f \in b.files \cup b.pending : f.id <= n

LEMMA SameBucketIsSound ==
    ASSUME NEW b, NEW c, NEW n, BucketSound(b, n), SameFiles(b, c)
    PROVE  BucketSound(c, n)
BY SameIsSound DEF BucketSound, SameFiles

LEMMA NewFileIs ==
    ASSUME BucketInv, NEW file \in Files, file.id = file_count + 1, NEW b, SameFiles(bucket, b)
    PROVE  /\ BucketSound(Inserted(b, file), file_count + 1)
           /\ BucketSound([b EXCEPT !.pending = @ \cup {file}], file_count + 1)
<1> DEFINE c == [b EXCEPT !.pending = @ \cup {file}]
<1>1. /\ FilesSound(b) /\ b.files = bucket.files /\ b.pending = bucket.pending
      /\ DOMAIN b = Fields
  BY SameIsSound DEF BucketInv, SameFiles, FilesSound
<1>2. \A f \in b.files \cup b.pending : f.id \in Nat /\ f.id <= file_count /\ f \in Files
  BY <1>1 DEF BucketInv, FilesSound, KnownById, Files
<1>3. file_count \in Nat
  BY DEF BucketInv
<1>4. \A f \in b.files \cup b.pending : f.id # file.id /\ f.id <= file_count + 1
  BY <1>2, <1>3
<1>5. file.id \notin IdsOf(b.files \cup b.pending) /\ file.id <= file_count + 1
  BY <1>3, <1>4 DEF IdsOf
<1>6. BucketSound(Inserted(b, file), file_count + 1)
  BY <1>1, <1>4, <1>5, InsertedIs DEF BucketSound
<1>7. /\ DOMAIN c = Fields /\ c.files = b.files /\ c.pending = b.pending \cup {file}
      /\ c.reference_counts = b.reference_counts /\ c.blobs = b.blobs
  BY <1>1 DEF Fields
<1> HIDE DEF c
<1>8. FilesSound(c)
  BY <1>1, <1>2, <1>4, <1>7 DEF FilesSound, KnownById
<1>9. BucketSound(c, file_count + 1)
  BY <1>4, <1>5, <1>7, <1>8 DEF BucketSound
<1> QED BY <1>6, <1>9 DEF c

LEMMA UploadStartsKeeps ==
    ASSUME BucketInv, NEW u \in Users, NEW h \in Hashes, NEW accessors \in SUBSET Accessors,
           NEW size \in Sizes, NEW chunks, UploadStarts(u, h, accessors, size, chunks)
    PROVE  BucketInv'
<1> DEFINE file == File(file_count + 1, u, h, accessors, size)
           events == <<FileAdded(file.id, h, u, file.id, size)>>
           b == Tells(bucket, events)
           c == IF chunks = 1 THEN WithStatus(Inserted(b, file), file, "Complete")
                ELSE [WithStatus(b, file, "Uploading") EXCEPT !.pending = @ \cup {file}]
<1>1. bucket' = c /\ file_count' = file_count + 1 /\ file_count \in Nat /\ DOMAIN bucket = Fields
  BY DEF UploadStarts, NewFile, BucketInv, FilesSound
<1>2. file \in Files /\ file.id = file_count + 1
  BY <1>1, ConstantsAssumption DEF File, Files
<1> HIDE DEF file, events
<1>3. SameFiles(bucket, b)
  BY <1>1, TellsIs
<1> HIDE DEF b
<1>4. DOMAIN b = Fields
  BY <1>1, <1>3 DEF SameFiles
<1>5. CASE chunks = 1
  <2>1. BucketSound(Inserted(b, file), file_count + 1)
    BY <1>2, <1>3, NewFileIs
  <2>2. SameFiles(Inserted(b, file), WithStatus(Inserted(b, file), file, "Complete"))
    BY <2>1, WithStatusIs DEF BucketSound, FilesSound
  <2>3. BucketSound(c, file_count + 1)
    BY <1>5, <2>1, <2>2, SameBucketIsSound
  <2> HIDE DEF c
  <2> QED BY <1>1, <2>3 DEF BucketInv, BucketSound
<1>6. CASE chunks # 1
  <2> DEFINE d == WithStatus(b, file, "Uploading")
  <2>1. SameFiles(b, d)
    BY <1>4, WithStatusIs
  <2> HIDE DEF d
  <2>2. SameFiles(bucket, d)
    BY <1>3, <2>1, SameIsSame
  <2>3. BucketSound([d EXCEPT !.pending = @ \cup {file}], file_count + 1)
    BY <1>2, <2>2, NewFileIs
  <2>4. BucketSound(c, file_count + 1)
    BY <1>6, <2>3 DEF d
  <2> HIDE DEF c
  <2> QED BY <1>1, <2>4 DEF BucketInv, BucketSound
<1> QED BY <1>5, <1>6

LEMMA ForwardKeeps ==
    ASSUME BucketInv, NEW u \in Users, NEW accessors \in SUBSET Accessors,
           NEW f \in bucket.files, Forward(u, f, accessors)
    PROVE  BucketInv'
<1> DEFINE copy == File(file_count + 1, u, f.hash, accessors, Size[f.hash])
           events == <<FileAdded(copy.id, f.hash, f.owner, f.id, Size[f.hash])>>
           d == WithStatus(Inserted(bucket, copy), copy, "Complete")
           c == Tells(d, events)
<1>1. bucket' = c /\ file_count' = file_count + 1 /\ file_count \in Nat /\ DOMAIN bucket = Fields
      /\ f \in Files
  BY DEF Forward, NewFile, BucketInv, FilesSound, KnownById
<1>2. copy \in Files /\ copy.id = file_count + 1
  BY <1>1, ConstantsAssumption DEF File, Files
<1> HIDE DEF copy, events
<1>3. BucketSound(Inserted(bucket, copy), file_count + 1)
  BY <1>2, NewFileIs DEF SameFiles
<1>4. SameFiles(Inserted(bucket, copy), d)
  BY <1>3, WithStatusIs DEF BucketSound, FilesSound
<1> HIDE DEF d
<1>5. BucketSound(d, file_count + 1)
  BY <1>3, <1>4, SameBucketIsSound
<1>6. SameFiles(d, c)
  BY <1>5, TellsIs DEF BucketSound, FilesSound
<1>7. BucketSound(c, file_count + 1)
  BY <1>5, <1>6, SameBucketIsSound
<1> HIDE DEF c
<1> QED BY <1>1, <1>7 DEF BucketInv, BucketSound

LEMMA UploadEndsKeeps ==
    ASSUME BucketInv, NEW f \in bucket.pending, UploadEnds(f)
    PROVE  BucketInv'
<1> DEFINE b == NotPending(bucket, f)
<1>1. /\ FilesSound(bucket) /\ BucketSound(bucket, file_count) /\ file_count \in Nat
      /\ file_count' = file_count /\ f \in Files
  BY DEF BucketInv, BucketSound, UploadEnds, bounds, FilesSound, KnownById
<1>2. /\ DOMAIN b = Fields /\ b.files = bucket.files /\ b.pending = bucket.pending \ {f}
      /\ b.reference_counts = bucket.reference_counts /\ b.blobs = bucket.blobs
  BY <1>1 DEF NotPending, FilesSound, Fields
<1> HIDE DEF b
<1>3. FilesSound(b) /\ BucketSound(b, file_count)
  BY <1>1, <1>2, LessPendingIsSound DEF BucketSound
<1>4. f.id \notin IdsOf(b.files \cup b.pending)
  BY <1>1, <1>2 DEF FilesSound, KnownById, IdsOf
<1>5. CASE UploadCompletes(f)
  <2> DEFINE c == Inserted(b, f)
  <2>1. bucket' = WithStatus(c, f, "Complete")
    BY <1>5 DEF UploadCompletes, b
  <2>2. /\ FilesSound(c) /\ c.files = b.files \cup {f} /\ c.pending = b.pending
    BY <1>1, <1>3, <1>4, InsertedIs
  <2> HIDE DEF c
  <2>3. BucketSound(c, file_count)
    BY <1>1, <1>2, <2>2 DEF BucketSound
  <2>4. SameFiles(c, WithStatus(c, f, "Complete"))
    BY <2>2, WithStatusIs DEF FilesSound
  <2>5. BucketSound(bucket', file_count)
    BY <2>1, <2>3, <2>4, SameBucketIsSound
  <2> QED BY <1>1, <2>5 DEF BucketInv, BucketSound
<1>6. CASE UploadMismatches(f) \/ UploadExpires(f)
  <2> DEFINE c == WithStatus(b, f, "Rejected")
  <2>1. SameFiles(b, c)
    BY <1>2, WithStatusIs
  <2>2. \/ bucket' = c
        \/ bucket' = Tells(c, <<FileRemoved(f)>>)
    BY <1>6 DEF UploadMismatches, UploadExpires, b
  <2> HIDE DEF c
  <2>3. BucketSound(c, file_count) /\ DOMAIN c = Fields
    BY <1>2, <1>3, <2>1, SameBucketIsSound DEF SameFiles
  <2>4. SameFiles(c, Tells(c, <<FileRemoved(f)>>))
    BY <2>3, TellsIs
  <2>5. BucketSound(Tells(c, <<FileRemoved(f)>>), file_count)
    BY <2>3, <2>4, SameBucketIsSound
  <2>6. BucketSound(bucket', file_count)
    BY <2>2, <2>3, <2>5
  <2> QED BY <1>1, <2>6 DEF BucketInv, BucketSound
<1> QED BY <1>5, <1>6 DEF UploadEnds

LEMMA FileGoesKeeps ==
    ASSUME BucketInv, NEW f \in bucket.files, FileGoes(f)
    PROVE  BucketInv'
<1> DEFINE c == Dropped(bucket, {f})
           events == <<FileRemoved(f)>>
<1>1. bucket' = Tells(c, events) /\ file_count' = file_count
  BY DEF FileGoes, bounds
<1>2. FilesSound(c) /\ c.files = bucket.files \ {f} /\ c.pending = bucket.pending
  BY DroppedIs DEF BucketInv
<1> HIDE DEF c, events
<1>3. BucketSound(c, file_count) /\ DOMAIN c = Fields
  BY <1>2 DEF BucketSound, BucketInv, FilesSound
<1>4. SameFiles(c, Tells(c, events))
  BY <1>3, TellsIs
<1>5. BucketSound(bucket', file_count)
  BY <1>1, <1>3, <1>4, SameBucketIsSound
<1> QED BY <1>1, <1>5 DEF BucketInv, BucketSound

LEMMA BucketHandlesKeeps ==
    ASSUME BucketInv, BucketHandles
    PROVE  BucketInv'
<1> DEFINE batch == to_bucket.batch
           b == WithUsers(bucket, batch)
           files == {f \in b.files : Goes(b, f, batch)}
           c == Dropped(b, files)
           d == WithoutUsers(c, batch)
<1>1. PICK told \in SUBSET files : bucket' = Tells(d, FilesRemoved(files \ told))
  BY DEF BucketHandles
<1>2. file_count' = file_count /\ BucketSound(bucket, file_count) /\ DOMAIN bucket = Fields
  BY DEF BucketHandles, bounds, BucketInv, BucketSound, FilesSound
<1> HIDE DEF batch
<1>3. SameFiles(bucket, b)
  BY <1>2 DEF WithUsers, SameFiles, Fields
<1>4. files \subseteq b.files
  OBVIOUS
<1> HIDE DEF b, files
<1>5. BucketSound(b, file_count)
  BY <1>2, <1>3, SameBucketIsSound
<1>6. /\ FilesSound(c) /\ c.files = b.files \ files /\ c.pending = b.pending
  BY <1>4, <1>5, DroppedIs DEF BucketSound
<1> HIDE DEF c
<1>7. BucketSound(c, file_count) /\ DOMAIN c = Fields
  BY <1>5, <1>6 DEF BucketSound, FilesSound
<1> DEFINE gone == UsersOf(batch, "AccessorRemoved")
<1>8. /\ DOMAIN d = Fields /\ d.pending = c.pending
      /\ d.files = {[f EXCEPT !.accessors = @ \ gone] : f \in c.files}
      /\ d.reference_counts = c.reference_counts /\ d.blobs = c.blobs
  BY <1>7 DEF WithoutUsers, Fields
<1> HIDE DEF d, gone
<1>9. FilesSound(d)
  BY <1>6, <1>8, StrippedIs
<1>10. \A f \in d.files \cup d.pending : f.id <= file_count
  <2>1. \A f \in c.files : f \in Files /\ f.id <= file_count
    BY <1>6, <1>7 DEF BucketSound, FilesSound, KnownById
  <2>2. \A f \in Files : [f EXCEPT !.accessors = @ \ gone].id = f.id
    BY DEF Files
  <2> QED BY <1>7, <1>8, <2>1, <2>2 DEF BucketSound
<1>11. BucketSound(d, file_count)
  BY <1>9, <1>10 DEF BucketSound
<1>12. SameFiles(d, Tells(d, FilesRemoved(files \ told)))
  BY <1>8, TellsIs
<1>13. BucketSound(bucket', file_count)
  BY <1>1, <1>11, <1>12, SameBucketIsSound
<1> QED BY <1>2, <1>13 DEF BucketInv, BucketSound

LEMMA NextKeepsBucket ==
    ASSUME BucketInv, [Next]_vars
    PROVE  BucketInv'
<1>1. ASSUME UNCHANGED <<bucket, file_count>>
      PROVE  BucketInv'
  BY <1>1 DEF BucketInv
<1>2. CASE UNCHANGED vars
  BY <1>1, <1>2 DEF vars
<1>3. CASE AtBucket
  BY <1>3, UploadStartsKeeps, ForwardKeeps, UploadEndsKeeps, FileGoesKeeps DEF AtBucket
<1>4. CASE AtIndex
  BY <1>1, <1>4 DEF AtIndex, AddUser, RemoveUser, RemoveAccessor, ChangesUsers
<1>5. ASSUME NEW sync, bucket' = [bucket EXCEPT !.sync = sync], file_count' = file_count
      PROVE  BucketInv'
  <2>1. SameFiles(bucket, bucket')
    BY <1>5 DEF SameFiles, BucketInv, FilesSound, Fields
  <2>2. BucketSound(bucket', file_count)
    BY <2>1, SameBucketIsSound DEF BucketInv, BucketSound
  <2> QED BY <1>5, <2>2 DEF BucketInv, BucketSound
<1>6. CASE BucketSyncs
  BY <1>5, <1>6 DEF BucketSyncs, bounds
<1>7. CASE CallToIndexRejected
  BY <1>5, <1>7 DEF CallToIndexRejected
<1>8. CASE BucketHears
  <2> DEFINE c == Refused(bucket, to_index.answer)
  <2>1. bucket' = [c EXCEPT !.sync = Completed(@)] /\ file_count' = file_count
    BY <1>8 DEF BucketHears, bounds
  <2>2. FilesSound(c) /\ c.files \subseteq bucket.files /\ c.pending \subseteq bucket.pending
    BY RefusedIs DEF BucketInv
  <2> HIDE DEF c
  <2>3. BucketSound(c, file_count)
    BY <2>2 DEF BucketSound, BucketInv
  <2>4. SameFiles(c, bucket')
    BY <2>1, <2>2 DEF SameFiles, FilesSound, Fields
  <2>5. BucketSound(bucket', file_count)
    BY <2>3, <2>4, SameBucketIsSound
  <2> QED BY <2>1, <2>5 DEF BucketInv, BucketSound
<1>9. CASE IndexHandles \/ IndexSyncs \/ CallToBucketRejected \/ IndexHears
  BY <1>1, <1>9 DEF IndexHandles, IndexSyncs, CallToBucketRejected, IndexHears, bounds
<1> QED
  BY <1>2, <1>3, <1>4, <1>6, <1>7, <1>8, <1>9, BucketHandlesKeeps DEF Next, Syncs

LEMMA InitBucket == Init => BucketInv
<1> SUFFICES ASSUME Init PROVE BucketInv
  OBVIOUS
<1>1. /\ DOMAIN bucket = Fields /\ bucket.files = {} /\ bucket.pending = {}
      /\ bucket.reference_counts = [h \in Hashes |-> 0] /\ bucket.blobs = {}
      /\ file_count = 0
  BY DEF Init, Fields
<1>2. IsFiniteSet({}) /\ Cardinality({}) = 0 /\ \A h : WithHash({}, h) = {}
  BY FS_EmptySet DEF WithHash
<1>3. CountsSound({}, [h \in Hashes |-> 0], {})
  BY <1>2 DEF CountsSound
<1> QED BY <1>1, <1>3 DEF BucketInv, FilesSound, KnownById

\* The bucket keeps data exactly as long as a file refers to it.
THEOREM DataIsKeptForFiles == Spec => []BlobsMatchFiles
<1>1. Init => BucketInv
  BY InitBucket
<1>2. BucketInv /\ [Next]_vars => BucketInv'
  BY NextKeepsBucket
<1>3. BucketInv => BlobsMatchFiles
  BY DEF BucketInv, FilesSound, CountsSound, KnownById, WithHash, BlobsMatchFiles, IdsOf
<1> QED BY <1>1, <1>2, <1>3, PTL DEF Spec

-----------------------------------------------------------------------------
(* The queues *)

\* Only files with known data are said to be added.
GoodEvents(E) ==
    \A e \in E : e.kind = "FileAdded" => e.hash \in Hashes /\ e.size \in Nat
GoodBatch(batch) == \E E : GoodEvents(E) /\ batch \in Seq(E)
IsRecord(r, fields) == DOMAIN r = fields /\ r = [x \in fields |-> r[x]]
GoodSync(sync) ==
    /\ IsRecord(sync, {"queue", "in_progress", "args_to_retry"})
    /\ GoodBatch(sync.queue) /\ GoodBatch(sync.args_to_retry)

LEMMA EnqueuedIsGood ==
    ASSUME NEW sync, GoodSync(sync), NEW events, GoodBatch(events)
    PROVE  GoodSync(Enqueued(sync, events))
<1> DEFINE s == Enqueued(sync, events)
<1>1. PICK D : GoodEvents(D) /\ sync.queue \in Seq(D)
  BY DEF GoodSync, GoodBatch
<1>2. PICK E : GoodEvents(E) /\ events \in Seq(E)
  BY DEF GoodBatch
<1>3. sync.queue \in Seq(D \cup E) /\ events \in Seq(D \cup E)
  BY <1>1, <1>2, SeqMonotonic
<1>4. sync.queue \o events \in Seq(D \cup E)
  BY <1>3, ConcatProperties
<1>5. GoodEvents(D \cup E)
  BY <1>1, <1>2 DEF GoodEvents
<1>6. GoodBatch(sync.queue \o events)
  BY <1>4, <1>5 DEF GoodBatch
<1>7. /\ IsRecord(s, DOMAIN sync) /\ s.queue = sync.queue \o events
      /\ s.args_to_retry = sync.args_to_retry
  BY DEF Enqueued, GoodSync, IsRecord
<1> QED BY <1>6, <1>7 DEF GoodSync, IsRecord

LEMMA EmptyIsGood == GoodBatch(<<>>)
<1>1. GoodEvents({}) /\ <<>> \in Seq({})
  BY EmptySeq DEF GoodEvents
<1> QED BY <1>1 DEF GoodBatch

LEMMA OneIsGood ==
    ASSUME NEW e, e.kind = "FileAdded" => e.hash \in Hashes /\ e.size \in Nat
    PROVE  GoodBatch(<<e>>)
<1>1. GoodEvents({e}) /\ <<e>> \in Seq({e})
  BY DEF GoodEvents
<1> QED BY <1>1 DEF GoodBatch

\* A batch is no longer than the queue.
LEMMA SmallerIs ==
    ASSUME NEW n \in Nat
    PROVE  Min({MaxBatch, n}) \in 0 .. n
<1>1. MaxBatch \in Nat
  BY ConstantsAssumption
<1>2. CASE MaxBatch <= n
  <2>1. Min({MaxBatch, n}) = MaxBatch
    BY <1>1, <1>2 DEF Min
  <2> QED BY <1>1, <1>2, <2>1
<1>3. CASE n < MaxBatch
  <2>1. Min({MaxBatch, n}) = n
    BY <1>1, <1>3 DEF Min
  <2> QED BY <2>1
<1> QED BY <1>1, <1>2, <1>3

\* What is sent, and what remains.
LEMMA StartedIsGood ==
    ASSUME NEW sync, GoodSync(sync)
    PROVE  GoodBatch(NextBatch(sync)) /\ GoodSync(Started(sync))
<1> DEFINE s == Started(sync)
           batch == NextBatch(sync)
<1>1. CASE sync.args_to_retry # <<>>
  <2>1. batch = sync.args_to_retry
    BY <1>1 DEF NextBatch
  <2>2. /\ IsRecord(s, DOMAIN sync) /\ s.queue = sync.queue /\ s.args_to_retry = <<>>
    BY <1>1 DEF Started, GoodSync, IsRecord
  <2> QED BY <2>1, <2>2, EmptyIsGood DEF GoodSync, IsRecord
<1>2. CASE sync.args_to_retry = <<>>
  <2>1. PICK E : GoodEvents(E) /\ sync.queue \in Seq(E)
    BY DEF GoodSync, GoodBatch
  <2> DEFINE q == sync.queue
             n == Len(q)
             m == Min({MaxBatch, n})
  <2>2. n \in Nat /\ \A k \in 1 .. n : q[k] \in E
    BY <2>1, ElementOfSeq, LenProperties
  <2>3. m \in 0 .. n
    BY <2>2, SmallerIs
  <2>4. batch = SubSeq(q, 1, m)
    BY <1>2 DEF NextBatch
  <2> HIDE DEF m
  <2>5. batch \in Seq(E) /\ Len(batch) = m
    <3>1. \A k \in 1 .. m : q[k] \in E
      BY <2>2, <2>3
    <3>2. SubSeq(q, 1, m) \in Seq(E) /\ Len(SubSeq(q, 1, m)) = IF 1 <= m THEN m - 1 + 1 ELSE 0
      BY <2>3, <3>1, SubSeqProperties
    <3> QED BY <2>3, <2>4, <3>2
  <2>6. /\ IsRecord(s, DOMAIN sync) /\ s.queue = SubSeq(q, m + 1, n)
        /\ s.args_to_retry = sync.args_to_retry
    BY <1>2, <2>5 DEF Started, GoodSync, IsRecord
  <2>7. SubSeq(q, m + 1, n) \in Seq(E)
    <3>1. \A k \in m + 1 .. n : q[k] \in E
      BY <2>2, <2>3
    <3> QED BY <2>2, <2>3, <3>1, SubSeqProperties
  <2> QED BY <2>1, <2>5, <2>6, <2>7 DEF GoodSync, GoodBatch, IsRecord
<1> QED BY <1>1, <1>2

LEMMA CompletedIsGood ==
    ASSUME NEW sync, GoodSync(sync)
    PROVE  GoodSync(Completed(sync))
BY DEF GoodSync, IsRecord, Completed

LEMMA FailedIsGood ==
    ASSUME NEW sync, GoodSync(sync), NEW batch, GoodBatch(batch)
    PROVE  GoodSync(Failed(sync, batch))
BY DEF GoodSync, IsRecord, Failed

\* What the index asks the bucket to remove, and what the bucket has removed.
LEMMA ToRemoveIsGood ==
    ASSUME NEW sizes, NEW references, IsFiniteSet(references), NEW exceeded_by
    PROVE  GoodBatch(ToRemove(sizes, references, exceeded_by))
<1> DEFINE oldest == Oldest(sizes, references, exceeded_by)
           sorted == SetToSortSeq(oldest, Older)
           n == Cardinality(oldest)
           E == {FileToRemove(sorted[k].file) : k \in 1 .. n}
<1>1. ToRemove(sizes, references, exceeded_by) = [k \in 1 .. n |-> FileToRemove(sorted[k].file)]
  BY Zenon DEF ToRemove
<1>2. n \in Nat
  <2>1. oldest \subseteq references
    BY Zenon DEF Oldest
  <2> HIDE DEF oldest
  <2> QED BY <2>1, FS_Subset, FS_CardinalityType
<1> HIDE DEF sorted, n
<1>3. GoodEvents(E)
  BY DEF GoodEvents, FileToRemove
<1>4. [k \in 1 .. n |-> FileToRemove(sorted[k].file)] \in Seq(E)
  BY <1>2
<1> QED BY <1>1, <1>3, <1>4 DEF GoodBatch

\* There is a sequence of the elements of a finite set.
LEMMA SetToSeqIs ==
    ASSUME NEW S, IsFiniteSet(S)
    PROVE  /\ Cardinality(S) \in Nat /\ SetToSeq(S) \in [1 .. Cardinality(S) -> S]
           /\ \A x \in S : \E k \in 1 .. Cardinality(S) : SetToSeq(S)[k] = x
<1> DEFINE n == Cardinality(S)
           s == SetToSeq(S)
<1>1. n \in Nat /\ IsFiniteSet(1 .. n) /\ Cardinality(1 .. n) = n
  <2>1. n \in Nat
    BY FS_CardinalityType
  <2> HIDE DEF n
  <2>2. 1 \in Int /\ n \in Int
    BY <2>1
  <2>3. IsFiniteSet(1 .. n) /\ Cardinality(1 .. n) = IF 1 > n THEN 0 ELSE n-1+1
    BY <2>2, FS_Interval, Zenon
  <2> QED BY <2>1, <2>3
<1>2. PICK f \in [1 .. n -> S] : IsInjective(f)
  <2>1. ExistsBijection(1 .. n, S)
    BY FS_CardinalityType
  <2>2. PICK f \in Bijection(1 .. n, S) : TRUE
    BY <2>1 DEF ExistsBijection
  <2> HIDE DEF n
  <2> QED BY <2>2 DEF Bijection, Injection, Surjection
<1>3. s \in [1 .. n -> S] /\ IsInjective(s)
  BY <1>2 DEF SetToSeq
<1> HIDE DEF s
<1>4. s \in Injection(1 .. n, S)
  <2> HIDE DEF n
  <2> QED BY <1>3 DEF Injection
<1>5. s \in Surjection(1 .. n, S)
  <2> DEFINE D == 1 .. n
  <2>1. IsFiniteSet(D) /\ Cardinality(D) = Cardinality(S) /\ s \in Injection(D, S)
    BY <1>1, <1>4
  <2> HIDE DEF D, n
  <2>2. s \in Surjection(D, S)
    BY <2>1, FS_Injection
  <2> QED BY <2>2 DEF D
<1> QED BY <1>1, <1>3, <1>5 DEF Surjection, s

\* The events say which files have been removed, each once.
LEMMA FilesRemovedAre ==
    ASSUME NEW files, IsFiniteSet(files)
    PROVE  /\ FilesRemoved(files) \in Seq({FileRemoved(f) : f \in files})
           /\ KnownById(files) => ToSet(FilesRemoved(files)) = {FileRemoved(f) : f \in files}
<1> DEFINE S == IdsOf(files)
           ids == SetToSeq(S)
           n == Cardinality(S)
           that(k) == CHOOSE f \in files : f.id = ids[k]
           E == {FileRemoved(f) : f \in files}
<1>1. IsFiniteSet(S)
  <2> DEFINE g == [f \in files |-> f.id]
  <2>1. g \in Surjection(files, S)
    BY DEF Surjection, IdsOf
  <2> HIDE DEF g, S
  <2> QED BY <2>1, FS_Surjection
<1> HIDE DEF S
<1>2. /\ n \in Nat /\ ids \in [1 .. n -> S]
      /\ \A x \in S : \E k \in 1 .. n : ids[k] = x
  BY <1>1, SetToSeqIs
<1>3. FilesRemoved(files) = [k \in DOMAIN ids |-> FileRemoved(that(k))]
  BY Zenon DEF FilesRemoved, S
<1> HIDE DEF ids, n
<1>4. FilesRemoved(files) = [k \in 1 .. n |-> FileRemoved(that(k))]
  BY <1>2, <1>3
<1>5. \A k \in 1 .. n : that(k) \in files /\ that(k).id = ids[k]
  <2> SUFFICES ASSUME NEW k \in 1 .. n PROVE that(k) \in files /\ that(k).id = ids[k]
    OBVIOUS
  <2>1. \E f \in files : f.id = ids[k]
    BY <1>2 DEF S, IdsOf
  <2> QED BY <2>1
<1> HIDE DEF that
<1>6. FilesRemoved(files) \in Seq(E)
  BY <1>2, <1>4, <1>5
<1>7. ASSUME KnownById(files), NEW f \in files
      PROVE  FileRemoved(f) \in ToSet(FilesRemoved(files))
  <2>1. PICK k \in 1 .. n : ids[k] = f.id
    BY <1>2 DEF S, IdsOf
  <2>2. that(k) = f
    BY <1>5, <1>7, <2>1 DEF KnownById
  <2> QED BY <1>4, <2>2 DEF ToSet
<1>8. \A e \in ToSet(FilesRemoved(files)) : e \in E
  BY <1>4, <1>5 DEF ToSet
<1> QED BY <1>6, <1>7, <1>8

LEMMA FilesRemovedIsGood ==
    ASSUME NEW files, IsFiniteSet(files)
    PROVE  GoodBatch(FilesRemoved(files))
<1> DEFINE E == {FileRemoved(f) : f \in files}
<1>1. GoodEvents(E)
  BY DEF GoodEvents, FileRemoved
<1>2. FilesRemoved(files) \in Seq(E)
  BY FilesRemovedAre
<1> QED BY <1>1, <1>2 DEF GoodBatch

\* What a batch holds, as a set of its own.
LEMMA BatchIs ==
    ASSUME NEW batch, GoodBatch(batch)
    PROVE  /\ Len(batch) \in Nat
           /\ batch \in Seq({batch[m] : m \in Nat})
           /\ \A k \in 1 .. Len(batch) :
                 batch[k].kind = "FileAdded" => batch[k].hash \in Hashes /\ batch[k].size \in Nat
<1>1. PICK E : GoodEvents(E) /\ batch \in Seq(E)
  BY DEF GoodBatch
<1>2. /\ Len(batch) \in Nat /\ batch = [k \in 1 .. Len(batch) |-> batch[k]]
      /\ \A k \in 1 .. Len(batch) : batch[k] \in E
  BY <1>1
<1>3. [k \in 1 .. Len(batch) |-> batch[k]] \in Seq({batch[m] : m \in Nat})
  BY <1>2
<1> QED BY <1>1, <1>2, <1>3 DEF GoodEvents

-----------------------------------------------------------------------------
(* Recursion over the numbers up to n, as in DirectChatProofs *)

\* Induction, for a set of numbers.
LEMMA Induction ==
    ASSUME NEW n \in Nat, NEW S, 0 \in S, \A k \in 0 .. n - 1 : k \in S => k + 1 \in S
    PROVE  0 .. n \subseteq S
<1> DEFINE R == {ss \in Nat \X Nat : ss[1] < ss[2]}
           T == (0 .. n) \ S
<1> SUFFICES ASSUME T # {} PROVE FALSE
  OBVIOUS
<1>1. R = OpToRel(<, Nat)
  BY Zenon DEF OpToRel
<1>2. IsWellFoundedOn(R, Nat)
  BY <1>1, NatLessThanWellFounded
<1>3. PICK m \in T : \A k \in T : ~(<<k, m>> \in R)
  <2>1. T \subseteq Nat
    OBVIOUS
  <2> HIDE DEF R, T
  <2> QED BY <1>2, <2>1, WFMin
<1>4. m # 0 /\ m - 1 \in 0 .. n - 1
  BY <1>3
<1>5. m - 1 \in S
  <2>1. <<m - 1, m>> \in Nat \X Nat /\ m - 1 < m
    BY <1>4
  <2> QED BY <1>3, <1>4, <2>1
<1> QED BY <1>3, <1>4, <1>5

\* A function that is defined from the previous value is there.
Follows(f, n, base, step) ==
    f[0] = base /\ \A k \in 1 .. n : f[k] = step[<<f[k - 1], k>>]
LEMMA RecursionExists ==
    ASSUME NEW n \in Nat, NEW S, NEW base \in S, NEW step \in [S \X (1 .. n) -> S]
    PROVE  \E f \in [0 .. n -> S] : Follows(f, n, base, step)
<1> DEFINE Upto(k, f) == f[0] = base /\ \A i \in 1 .. k : f[i] = step[<<f[i - 1], i>>]
           D == {k \in 0 .. n : \E f \in [0 .. k -> S] : Upto(k, f)}
<1>1. 0 \in D
  <2> DEFINE f == [i \in 0 .. 0 |-> base]
  <2>1. f \in [0 .. 0 -> S] /\ Upto(0, f)
    OBVIOUS
  <2> HIDE DEF f, Upto
  <2> QED BY <2>1
<1>2. ASSUME NEW k \in 0 .. n - 1, k \in D PROVE k + 1 \in D
  <2>1. PICK f \in [0 .. k -> S] : Upto(k, f)
    BY <1>2
  <2> DEFINE g == [i \in 0 .. k + 1 |-> IF i = k + 1 THEN step[<<f[k], k + 1>>] ELSE f[i]]
  <2>2. f[k] \in S /\ k + 1 \in 1 .. n /\ step[<<f[k], k + 1>>] \in S
    OBVIOUS
  <2>3. g \in [0 .. k + 1 -> S]
    BY <2>2
  <2>4. g[0] = base
    BY <2>1
  <2>5. ASSUME NEW i \in 1 .. k + 1 PROVE g[i] = step[<<g[i - 1], i>>]
    <3>1. CASE i = k + 1
      <4>1. i - 1 = k /\ k \in 0 .. k + 1 /\ k # k + 1 /\ i \in 0 .. k + 1
        BY <3>1
      <4>2. g[i] = step[<<f[k], k + 1>>] /\ g[i - 1] = f[k]
        BY <3>1, <4>1
      <4> QED BY <3>1, <4>1, <4>2
    <3>2. CASE i # k + 1
      <4>1. i \in 1 .. k /\ i - 1 \in 0 .. k /\ g[i] = f[i] /\ g[i - 1] = f[i - 1]
        BY <3>2
      <4> QED BY <2>1, <4>1
    <3> QED BY <3>1, <3>2
  <2>6. Upto(k + 1, g)
    BY <2>4, <2>5
  <2> HIDE DEF Upto, g
  <2> QED BY <2>3, <2>6
<1>3. n \in D
  <2> HIDE DEF D
  <2> QED BY <1>1, <1>2, Induction
<1> QED BY <1>3 DEF Follows

-----------------------------------------------------------------------------
(* What data costs *)

Cells(s, h) == {h} \X (1 .. s[h])

LEMMA CellsAre ==
    ASSUME NEW s \in [Hashes -> Nat], NEW h \in Hashes
    PROVE  IsFiniteSet(Cells(s, h)) /\ Cardinality(Cells(s, h)) = s[h] /\ s[h] \in Nat
<1>1. s[h] \in Nat
  OBVIOUS
<1>2. IsFiniteSet({h}) /\ Cardinality({h}) = 1
  BY FS_Singleton
<1>3. IsFiniteSet(1 .. s[h]) /\ Cardinality(1 .. s[h]) = s[h]
  <2>1. PICK n \in Nat : n = s[h]
    BY <1>1
  <2>2. 1 \in Int /\ n \in Int
    BY <2>1
  <2>3. IsFiniteSet(1 .. n) /\ Cardinality(1 .. n) = IF 1 > n THEN 0 ELSE n-1+1
    BY <2>2, FS_Interval, Zenon
  <2>4. Cardinality(1 .. n) = n
    BY <2>1, <2>3
  <2> QED BY <2>1, <2>3, <2>4
<1>4. IsFiniteSet(Cells(s, h)) /\ Cardinality(Cells(s, h)) = 1 * Cardinality(1 .. s[h])
  <2> DEFINE A == {h}
             B == 1 .. s[h]
  <2>1. Cells(s, h) = A \X B /\ IsFiniteSet(A) /\ IsFiniteSet(B) /\ Cardinality(A) = 1
    BY <1>2, <1>3, Zenon DEF Cells
  <2> HIDE DEF A, B
  <2>2. IsFiniteSet(A \X B) /\ Cardinality(A \X B) = Cardinality(A) * Cardinality(B)
    BY <2>1, FS_Product, Zenon
  <2>3. IsFiniteSet(Cells(s, h)) /\ Cardinality(Cells(s, h)) = 1 * Cardinality(B)
    BY <2>1, <2>2, Zenon
  <2> QED BY <2>3 DEF B
<1> QED BY <1>1, <1>3, <1>4

LEMMA SumIs ==
    ASSUME NEW s \in [Hashes -> Nat], NEW hashes, IsFiniteSet(hashes), hashes \subseteq Hashes
    PROVE  /\ IsFiniteSet(UNION {Cells(s, h) : h \in hashes})
           /\ SumOfSizes(s, hashes) = Cardinality(UNION {Cells(s, h) : h \in hashes})
           /\ SumOfSizes(s, hashes) \in Nat
<1> DEFINE parts == {Cells(s, h) : h \in hashes}
<1>1. IsFiniteSet(parts)
  <2> DEFINE g == [h \in hashes |-> Cells(s, h)]
  <2>1. g \in Surjection(hashes, parts)
    BY DEF Surjection
  <2> HIDE DEF g, parts
  <2> QED BY <2>1, FS_Surjection
<1>2. \A p \in parts : IsFiniteSet(p)
  BY CellsAre
<1>3. SumOfSizes(s, hashes) = Cardinality(UNION parts)
  BY DEF SumOfSizes, Cells
<1> HIDE DEF parts
<1>4. IsFiniteSet(UNION parts)
  BY <1>1, <1>2, FS_UNION
<1>5. Cardinality(UNION parts) \in Nat
  BY <1>4, FS_CardinalityType
<1> QED BY <1>3, <1>4, <1>5 DEF parts

LEMMA SumOfBoth ==
    ASSUME NEW s \in [Hashes -> Nat], NEW A, IsFiniteSet(A), A \subseteq Hashes,
           NEW B, IsFiniteSet(B), B \subseteq Hashes, A \cap B = {}
    PROVE  SumOfSizes(s, A \cup B) = SumOfSizes(s, A) + SumOfSizes(s, B)
<1> DEFINE cells(X) == UNION {Cells(s, h) : h \in X}
<1>1. cells(A \cup B) = cells(A) \cup cells(B)
  OBVIOUS
<1>2. cells(A) \cap cells(B) = {}
  BY DEF Cells
<1>3. IsFiniteSet(A \cup B)
  BY FS_Union
<1>4. /\ IsFiniteSet(cells(A)) /\ SumOfSizes(s, A) = Cardinality(cells(A)) /\ SumOfSizes(s, A) \in Nat
      /\ IsFiniteSet(cells(B)) /\ SumOfSizes(s, B) = Cardinality(cells(B)) /\ SumOfSizes(s, B) \in Nat
      /\ SumOfSizes(s, A \cup B) = Cardinality(cells(A \cup B))
  BY <1>3, SumIs
<1> HIDE DEF cells
<1>5. Cardinality(cells(A) \cup cells(B)) = Cardinality(cells(A)) + Cardinality(cells(B)) - Cardinality({})
  BY <1>2, <1>4, FS_Union
<1>6. SumOfSizes(s, A \cup B) = SumOfSizes(s, A) + SumOfSizes(s, B) - Cardinality({})
  BY <1>1, <1>4, <1>5
<1>7. Cardinality({}) = 0
  BY FS_EmptySet
<1> QED BY <1>4, <1>6, <1>7

LEMMA SumOfOne ==
    ASSUME NEW s \in [Hashes -> Nat], NEW h \in Hashes
    PROVE  SumOfSizes(s, {h}) = s[h]
<1>1. UNION {Cells(s, k) : k \in {h}} = Cells(s, h)
  OBVIOUS
<1>2. SumOfSizes(s, {h}) = Cardinality(UNION {Cells(s, k) : k \in {h}})
  BY SumIs, FS_Singleton
<1> QED BY <1>1, <1>2, CellsAre

LEMMA SumOfNone ==
    ASSUME NEW s \in [Hashes -> Nat]
    PROVE  SumOfSizes(s, {}) = 0
<1>1. UNION {Cells(s, h) : h \in {}} = {}
  OBVIOUS
<1> QED BY <1>1, SumIs, FS_EmptySet

\* The sum depends on the sizes of the data only.
LEMMA SumOfSame ==
    ASSUME NEW s, NEW t, NEW hashes, \A h \in hashes : s[h] = t[h]
    PROVE  SumOfSizes(s, hashes) = SumOfSizes(t, hashes)
<1>1. {{h} \X (1 .. s[h]) : h \in hashes} = {{h} \X (1 .. t[h]) : h \in hashes}
  OBVIOUS
<1> QED BY <1>1 DEF SumOfSizes

LEMMA AtLeastZero ==
    ASSUME NEW n \in Nat
    PROVE  Max({0, n}) = n
BY DEF Max

LEMMA NotBelowZero ==
    ASSUME NEW n \in Int
    PROVE  Max({0, n}) \in Nat
<1>1. CASE n \in Nat
  BY <1>1, AtLeastZero
<1>2. CASE n \notin Nat
  BY <1>2 DEF Max
<1> QED BY <1>1, <1>2

-----------------------------------------------------------------------------
(* The index *)

IndexFields == {"users", "references", "sizes", "sync"}
IndexSound(i, gone) ==
    /\ IsRecord(i, IndexFields)
    /\ GoodSync(i.sync)
    /\ i.users \in [DOMAIN i.users -> Nat] /\ i.sizes \in [Hashes -> Nat]
    /\ IsFiniteSet(i.references)
    /\ \A r \in i.references : r.hash \in Hashes /\ r.owner \in DOMAIN i.users \cup gone

\* Users that are not exempt are charged for their data, once, and for what it is worth;
\* nor will they get back anything else.
ChargesRight(i, exempt) ==
    \A u \in DOMAIN i.users \ exempt :
        /\ i.users[u] = SumOfSizes(Size, BlobsOf(i, u))
        /\ \A h \in BlobsOf(i, u) : i.sizes[h] = Size[h]

LEMMA BlobsAre ==
    ASSUME NEW i, IsFiniteSet(i.references), \A r \in i.references : r.hash \in Hashes, NEW u
    PROVE  IsFiniteSet(BlobsOf(i, u)) /\ BlobsOf(i, u) \subseteq Hashes
<1> DEFINE R == ReferencesOf(i, u)
           g == [r \in R |-> r.hash]
<1>1. IsFiniteSet(R)
  BY FS_Subset DEF ReferencesOf
<1>2. g \in Surjection(R, BlobsOf(i, u))
  BY DEF Surjection, BlobsOf
<1>3. BlobsOf(i, u) \subseteq Hashes
  BY DEF BlobsOf, ReferencesOf
<1> HIDE DEF g, R
<1> QED BY <1>1, <1>2, <1>3, FS_Surjection

\* A file is added.
IsNew(i, e) == e.hash \notin BlobsOf(i, e.owner)
LEMMA FileAddedIs ==
    ASSUME NEW i, NEW gone, IndexSound(i, gone),
           NEW e, e.kind = "FileAdded", e.owner \in DOMAIN i.users,
           e.hash \in Hashes, e.size \in Nat
    PROVE  /\ IsRecord(WithReference(i, e), IndexFields)
           /\ WithReference(i, e).references = i.references \cup {Reference(e)}
           /\ GoodSync(WithReference(i, e).sync)
           /\ WithReference(i, e).users =
                  IF IsNew(i, e) THEN [i.users EXCEPT ![e.owner] = @ + e.size] ELSE i.users
           /\ WithReference(i, e).sizes =
                  IF IsNew(i, e) THEN [i.sizes EXCEPT ![e.hash] = e.size] ELSE i.sizes
<1> DEFINE u == e.owner
           r == Reference(e)
           j == WithReference(i, e)
           c == Charged(i, e)
           more == ToRemove(i.sizes, ReferencesOf(i, u), (i.users[u] + e.size) - ByteLimit)
           d == [i EXCEPT !.users[u] = i.users[u] + e.size, !.sizes[e.hash] = e.size,
                          !.sync = Enqueued(@, more)]
<1>1. /\ DOMAIN i = IndexFields /\ GoodSync(i.sync) /\ IsFiniteSet(i.references)
      /\ i.users \in [DOMAIN i.users -> Nat] /\ i.sizes \in [Hashes -> Nat]
  BY DEF IndexSound, IsRecord
<1>2. GoodSync(Enqueued(i.sync, more))
  <2>1. ReferencesOf(i, u) \subseteq i.references
    BY DEF ReferencesOf
  <2>2. IsFiniteSet(ReferencesOf(i, u))
    BY <1>1, <2>1, FS_Subset
  <2> QED BY <1>1, <2>2, ToRemoveIsGood, EnqueuedIsGood
<1>3. c = IF IsNew(i, e) THEN d ELSE i
  BY DEF Charged, IsNew
<1> HIDE DEF more
<1>4. /\ DOMAIN d = DOMAIN i /\ d.references = i.references /\ GoodSync(d.sync)
      /\ d.users = [i.users EXCEPT ![u] = @ + e.size]
      /\ d.sizes = [i.sizes EXCEPT ![e.hash] = e.size]
  BY <1>1, <1>2 DEF IndexFields
<1> HIDE DEF c, d
<1>5. /\ DOMAIN c = DOMAIN i /\ c.references = i.references /\ GoodSync(c.sync)
      /\ c.users = IF IsNew(i, e) THEN [i.users EXCEPT ![u] = @ + e.size] ELSE i.users
      /\ c.sizes = IF IsNew(i, e) THEN [i.sizes EXCEPT ![e.hash] = e.size] ELSE i.sizes
  BY <1>1, <1>3, <1>4
<1> HIDE DEF r
<1>6. j = [c EXCEPT !.references = @ \cup {r}]
  BY DEF WithReference, c, r
<1> HIDE DEF j
<1>7. /\ IsRecord(j, IndexFields) /\ j.references = i.references \cup {r}
      /\ j.users = c.users /\ j.sizes = c.sizes /\ j.sync = c.sync
  BY <1>1, <1>5, <1>6 DEF IsRecord, IndexFields
<1> QED BY <1>5, <1>7 DEF j, r

LEMMA WithReferenceIsSound ==
    ASSUME NEW i, NEW gone, IndexSound(i, gone),
           NEW e, e.kind = "FileAdded" => e.hash \in Hashes /\ e.size \in Nat
    PROVE  IndexSound(WithReference(i, e), gone)
<1> DEFINE u == e.owner
           j == WithReference(i, e)
<1>1. CASE ~(e.kind = "FileAdded" /\ u \in DOMAIN i.users)
  <2>1. j = i
    BY <1>1 DEF WithReference
  <2> QED BY <2>1
<1>2. CASE e.kind = "FileAdded" /\ u \in DOMAIN i.users
  <2>1. /\ i.users \in [DOMAIN i.users -> Nat] /\ i.sizes \in [Hashes -> Nat]
        /\ e.hash \in Hashes /\ e.size \in Nat
        /\ IsFiniteSet(i.references)
        /\ \A r \in i.references : r.hash \in Hashes /\ r.owner \in DOMAIN i.users \cup gone
    BY <1>2 DEF IndexSound
  <2>2. /\ IsRecord(j, IndexFields) /\ j.references = i.references \cup {Reference(e)}
        /\ GoodSync(j.sync)
        /\ j.users = IF IsNew(i, e) THEN [i.users EXCEPT ![u] = @ + e.size] ELSE i.users
        /\ j.sizes = IF IsNew(i, e) THEN [i.sizes EXCEPT ![e.hash] = e.size] ELSE i.sizes
    BY <1>2, <2>1, FileAddedIs
  <2> HIDE DEF j
  <2>3. j.users \in [DOMAIN i.users -> Nat] /\ j.sizes \in [Hashes -> Nat]
    BY <1>2, <2>1, <2>2
  <2>4. IsFiniteSet(j.references)
    BY <2>1, <2>2, FS_AddElement
  <2>5. \A r \in j.references : r.hash \in Hashes /\ r.owner \in DOMAIN j.users \cup gone
    BY <1>2, <2>1, <2>2, <2>3 DEF Reference
  <2> QED BY <2>2, <2>3, <2>4, <2>5 DEF IndexSound, j
<1> QED BY <1>1, <1>2

\* Those that have the file's data now, and whatever a file with a wrong size is said to
\* be, are exempt.
LEMMA WithReferenceChargesRight ==
    ASSUME NEW i, NEW gone, NEW exempt, IndexSound(i, gone), ChargesRight(i, exempt),
           NEW e, e.kind = "FileAdded" => e.hash \in Hashes /\ e.size \in Nat,
           \A u \in DOMAIN i.users \ exempt :
               e.kind = "FileAdded" /\ e.size # Size[e.hash]
                   => e.hash \notin BlobsOf(WithReference(i, e), u)
    PROVE  ChargesRight(WithReference(i, e), exempt)
<1> DEFINE u == e.owner
           j == WithReference(i, e)
<1>1. CASE ~(e.kind = "FileAdded" /\ u \in DOMAIN i.users)
  <2>1. j = i
    BY <1>1 DEF WithReference
  <2> QED BY <2>1
<1>2. CASE e.kind = "FileAdded" /\ u \in DOMAIN i.users
  <2>1. /\ i.users \in [DOMAIN i.users -> Nat] /\ i.sizes \in [Hashes -> Nat]
        /\ e.hash \in Hashes /\ e.size \in Nat /\ Size \in [Hashes -> Nat]
        /\ \A v : IsFiniteSet(BlobsOf(i, v)) /\ BlobsOf(i, v) \subseteq Hashes
    BY <1>2, BlobsAre, ConstantsAssumption DEF IndexSound
  <2>2. /\ j.references = i.references \cup {Reference(e)}
        /\ j.users = IF IsNew(i, e) THEN [i.users EXCEPT ![u] = @ + e.size] ELSE i.users
        /\ j.sizes = IF IsNew(i, e) THEN [i.sizes EXCEPT ![e.hash] = e.size] ELSE i.sizes
    BY <1>2, <2>1, FileAddedIs
  <2>3. Reference(e).hash = e.hash /\ Reference(e).owner = u
    BY DEF Reference
  <2> HIDE DEF j
  <2>4. \A v : BlobsOf(j, v) = IF v = u THEN BlobsOf(i, v) \cup {e.hash} ELSE BlobsOf(i, v)
    BY <2>2, <2>3 DEF BlobsOf, ReferencesOf
  <2> SUFFICES ASSUME NEW v \in DOMAIN j.users \ exempt
               PROVE  /\ j.users[v] = SumOfSizes(Size, BlobsOf(j, v))
                      /\ \A h \in BlobsOf(j, v) : j.sizes[h] = Size[h]
    BY DEF ChargesRight, j
  <2>5. v \in DOMAIN i.users \ exempt
    BY <2>1, <2>2
  <2>6. /\ i.users[v] = SumOfSizes(Size, BlobsOf(i, v))
        /\ \A h \in BlobsOf(i, v) : i.sizes[h] = Size[h]
    BY <2>5 DEF ChargesRight
  <2>7. e.hash \in BlobsOf(j, v) => e.size = Size[e.hash]
    BY <1>2, <2>5 DEF j
  <2>8. \A h \in BlobsOf(j, v) : j.sizes[h] = Size[h]
    <3> SUFFICES ASSUME NEW h \in BlobsOf(j, v) PROVE j.sizes[h] = Size[h]
      OBVIOUS
    <3>1. CASE h = e.hash
      <4>1. e.size = Size[e.hash] /\ (IsNew(i, e) => j.sizes[e.hash] = e.size)
        BY <2>1, <2>2, <2>7, <3>1
      <4>2. ~IsNew(i, e) => e.hash \in BlobsOf(i, v) \/ v # u
        BY DEF IsNew
      <4>3. CASE e.hash \in BlobsOf(i, v)
        BY <2>2, <2>6, <3>1, <4>1, <4>3
      <4>4. CASE e.hash \notin BlobsOf(i, v)
        <5>1. v = u
          BY <2>4, <3>1, <4>4
        <5> QED BY <3>1, <4>1, <4>2, <4>4, <5>1
      <4> QED BY <4>3, <4>4
    <3>2. CASE h # e.hash
      <4>1. h \in BlobsOf(i, v) /\ h \in Hashes
        BY <2>1, <2>4, <3>2
      <4> QED BY <2>1, <2>2, <2>6, <3>2, <4>1
    <3> QED BY <3>1, <3>2
  <2>9. j.users[v] = SumOfSizes(Size, BlobsOf(j, v))
    <3>1. CASE v # u
      BY <2>1, <2>2, <2>4, <2>5, <2>6, <3>1
    <3>2. CASE v = u /\ ~IsNew(i, e)
      <4>1. BlobsOf(j, v) = BlobsOf(i, v)
        BY <2>4, <3>2 DEF IsNew
      <4> QED BY <2>2, <2>6, <3>2, <4>1
    <3>3. CASE v = u /\ IsNew(i, e)
      <4>1. j.users[v] = i.users[v] + Size[e.hash]
        BY <2>1, <2>2, <2>4, <2>5, <2>7, <3>3
      <4>2. SumOfSizes(Size, BlobsOf(i, v) \cup {e.hash})
                = SumOfSizes(Size, BlobsOf(i, v)) + SumOfSizes(Size, {e.hash})
        <5>1. /\ IsFiniteSet({e.hash}) /\ {e.hash} \subseteq Hashes
              /\ BlobsOf(i, v) \cap {e.hash} = {}
          BY <2>1, <3>3, FS_Singleton DEF IsNew
        <5> QED BY <2>1, <5>1, SumOfBoth
      <4>3. SumOfSizes(Size, {e.hash}) = Size[e.hash]
        BY <2>1, SumOfOne
      <4> QED BY <2>4, <2>6, <3>3, <4>1, <4>2, <4>3
    <3> QED BY <3>1, <3>2, <3>3
  <2> QED BY <2>8, <2>9
<1> QED BY <1>1, <1>2

\* Files are removed.
Released(i, events, u) ==
    SumOfSizes(i.sizes, BlobsOf(i, u) \ BlobsOf(WithoutReferences(i, events), u))
Kept(i, events) == {r \in i.references : \A e \in events : ~Refers(r, e)}
Charges(i, events) == [u \in DOMAIN i.users |-> Max({0, i.users[u] - Released(i, events, u)})]
SizesOf(i, references) ==
    [h \in Hashes |-> IF h \in {r.hash : r \in references} THEN i.sizes[h] ELSE 0]
LEMMA FilesRemovedLeave ==
    ASSUME NEW i, NEW gone, IndexSound(i, gone), NEW events
    PROVE  /\ IsRecord(AllRemoved(i, events), IndexFields)
           /\ AllRemoved(i, events).references = Kept(i, events)
           /\ WithoutReferences(i, events).references = Kept(i, events)
           /\ AllRemoved(i, events).sync = i.sync
           /\ AllRemoved(i, events).users = Charges(i, events)
           /\ AllRemoved(i, events).sizes = SizesOf(i, Kept(i, events))
<1> DEFINE left == WithoutReferences(i, events)
           j == AllRemoved(i, events)
<1>1. DOMAIN i = IndexFields
  BY DEF IndexSound, IsRecord
<1>2. /\ DOMAIN left = DOMAIN i /\ left.users = i.users /\ left.sync = i.sync
      /\ left.sizes = i.sizes
      /\ left.references = Kept(i, events)
  BY <1>1 DEF WithoutReferences, IndexFields, Kept
<1>3. j = [left EXCEPT
              !.users = [u \in DOMAIN @ |-> Max({0, @[u] - Released(i, events, u)})],
              !.sizes = [h \in Hashes |-> IF h \in {r.hash : r \in left.references}
                                          THEN @[h] ELSE 0]]
  BY DEF AllRemoved, Released
<1> HIDE DEF left, j
<1>4. /\ IsRecord(j, IndexFields) /\ j.references = left.references /\ j.sync = left.sync
      /\ j.users = [u \in DOMAIN left.users |-> Max({0, left.users[u] - Released(i, events, u)})]
      /\ j.sizes = [h \in Hashes |-> IF h \in {r.hash : r \in left.references}
                                     THEN left.sizes[h] ELSE 0]
  BY <1>1, <1>2, <1>3 DEF IsRecord, IndexFields
<1>5. j.users = Charges(i, events) /\ j.sizes = SizesOf(i, Kept(i, events))
  BY <1>2, <1>4, Zenon DEF Charges, SizesOf
<1> QED BY <1>2, <1>4, <1>5 DEF left, j

\* The same, spelled out.
LEMMA FilesRemovedCost ==
    ASSUME NEW i, NEW gone, IndexSound(i, gone), NEW events
    PROVE  /\ AllRemoved(i, events).references \subseteq i.references
           /\ DOMAIN AllRemoved(i, events).users = DOMAIN i.users
           /\ \A u \in DOMAIN i.users :
                 AllRemoved(i, events).users[u] = Max({0, i.users[u] - Released(i, events, u)})
           /\ AllRemoved(i, events).sizes \in [Hashes -> Nat]
           /\ \A r \in AllRemoved(i, events).references :
                 AllRemoved(i, events).sizes[r.hash] = i.sizes[r.hash]
<1> DEFINE j == AllRemoved(i, events)
<1>1. /\ j.references = Kept(i, events) /\ j.users = Charges(i, events)
      /\ j.sizes = SizesOf(i, j.references)
  BY FilesRemovedLeave
<1>2. i.sizes \in [Hashes -> Nat] /\ \A r \in i.references : r.hash \in Hashes
  BY DEF IndexSound
<1> HIDE DEF j
<1>3. j.references \subseteq i.references
  BY <1>1 DEF Kept
<1>4. /\ DOMAIN j.users = DOMAIN i.users
      /\ \A u \in DOMAIN i.users : j.users[u] = Max({0, i.users[u] - Released(i, events, u)})
  BY <1>1, Zenon DEF Charges
<1>5. j.sizes \in [Hashes -> Nat]
  BY <1>1, <1>2 DEF SizesOf
<1>6. \A r \in j.references : j.sizes[r.hash] = i.sizes[r.hash]
  BY <1>1, <1>2, <1>3 DEF SizesOf
<1> QED BY <1>3, <1>4, <1>5, <1>6 DEF j

LEMMA ReleasedIs ==
    ASSUME NEW i, NEW gone, IndexSound(i, gone), NEW events, NEW u
    PROVE  /\ Released(i, events, u) \in Nat
           /\ BlobsOf(AllRemoved(i, events), u) \subseteq BlobsOf(i, u)
           /\ SumOfSizes(Size, BlobsOf(AllRemoved(i, events), u)) \in Nat
           /\ (\A h \in BlobsOf(i, u) : i.sizes[h] = Size[h])
                  => SumOfSizes(Size, BlobsOf(i, u)) =
                         SumOfSizes(Size, BlobsOf(AllRemoved(i, events), u))
                             + Released(i, events, u)
<1> DEFINE A == BlobsOf(AllRemoved(i, events), u)
           B == BlobsOf(i, u) \ A
<1>1. /\ IsFiniteSet(BlobsOf(i, u)) /\ BlobsOf(i, u) \subseteq Hashes
      /\ i.sizes \in [Hashes -> Nat] /\ Size \in [Hashes -> Nat]
  BY BlobsAre, ConstantsAssumption DEF IndexSound
<1>2. A \subseteq BlobsOf(i, u) /\ A = BlobsOf(WithoutReferences(i, events), u)
  <2>1. /\ AllRemoved(i, events).references = Kept(i, events)
        /\ WithoutReferences(i, events).references = Kept(i, events)
    BY FilesRemovedLeave
  <2>2. Kept(i, events) \subseteq i.references
    BY DEF Kept
  <2> QED BY <2>1, <2>2 DEF BlobsOf, ReferencesOf
<1>3. Released(i, events, u) = SumOfSizes(i.sizes, B)
  BY <1>2 DEF Released
<1> HIDE DEF A
<1>4. /\ BlobsOf(i, u) = A \cup B /\ A \cap B = {} /\ A \subseteq Hashes /\ B \subseteq Hashes
      /\ IsFiniteSet(A) /\ IsFiniteSet(B)
  BY <1>1, <1>2, FS_Subset
<1> HIDE DEF B
<1>5. /\ SumOfSizes(i.sizes, B) \in Nat /\ SumOfSizes(Size, A) \in Nat
      /\ SumOfSizes(Size, A \cup B) = SumOfSizes(Size, A) + SumOfSizes(Size, B)
  BY <1>1, <1>4, SumIs, SumOfBoth
<1>6. (\A h \in B : i.sizes[h] = Size[h]) => SumOfSizes(i.sizes, B) = SumOfSizes(Size, B)
  BY SumOfSame
<1> QED BY <1>2, <1>3, <1>4, <1>5, <1>6 DEF A

LEMMA AllRemovedIsSound ==
    ASSUME NEW i, NEW gone, IndexSound(i, gone), NEW events
    PROVE  IndexSound(AllRemoved(i, events), gone)
<1> DEFINE j == AllRemoved(i, events)
           given(u) == Released(i, events, u)
<1>1. /\ GoodSync(i.sync) /\ IsFiniteSet(i.references)
      /\ i.users \in [DOMAIN i.users -> Nat] /\ i.sizes \in [Hashes -> Nat]
      /\ \A r \in i.references : r.hash \in Hashes /\ r.owner \in DOMAIN i.users \cup gone
  BY DEF IndexSound
<1>2. IsRecord(j, IndexFields) /\ j.sync = i.sync /\ j.users = Charges(i, events)
  BY FilesRemovedLeave
<1>3. \A u : given(u) \in Nat
  BY ReleasedIs
<1>4. /\ j.references \subseteq i.references /\ DOMAIN j.users = DOMAIN i.users
      /\ \A u \in DOMAIN i.users : j.users[u] = Max({0, i.users[u] - given(u)})
      /\ j.sizes \in [Hashes -> Nat]
  BY FilesRemovedCost
<1> HIDE DEF j, given
<1>5. \A u \in DOMAIN i.users : j.users[u] \in Nat
  <2> TAKE u \in DOMAIN i.users
  <2>1. i.users[u] \in Nat /\ given(u) \in Nat
    BY <1>1, <1>3, Zenon
  <2>2. i.users[u] - given(u) \in Int
    BY <2>1
  <2>3. Max({0, i.users[u] - given(u)}) \in Nat
    BY <2>2, NotBelowZero
  <2> QED BY <1>4, <2>3
<1>6. j.users \in [DOMAIN j.users -> Nat]
  <2>1. j.users = [u \in DOMAIN j.users |-> j.users[u]]
    BY <1>2 DEF Charges
  <2> QED BY <1>4, <1>5, <2>1
<1>7. IsFiniteSet(j.references)
  BY <1>1, <1>4, FS_Subset
<1> QED BY <1>1, <1>2, <1>4, <1>6, <1>7 DEF IndexSound, j

LEMMA AllRemovedChargesRight ==
    ASSUME NEW i, NEW gone, NEW exempt, IndexSound(i, gone), ChargesRight(i, exempt), NEW events
    PROVE  ChargesRight(AllRemoved(i, events), exempt)
<1> DEFINE j == AllRemoved(i, events)
           given(u) == Released(i, events, u)
<1>1. /\ DOMAIN j.users = DOMAIN i.users
      /\ \A v \in DOMAIN i.users : j.users[v] = Max({0, i.users[v] - given(v)})
      /\ \A r \in j.references : j.sizes[r.hash] = i.sizes[r.hash]
  BY FilesRemovedCost
<1> SUFFICES ASSUME NEW u \in DOMAIN j.users \ exempt
             PROVE  /\ j.users[u] = SumOfSizes(Size, BlobsOf(j, u))
                    /\ \A h \in BlobsOf(j, u) : j.sizes[h] = Size[h]
  BY DEF ChargesRight
<1>2. u \in DOMAIN i.users \ exempt
  BY <1>1
<1>3. /\ i.users[u] = SumOfSizes(Size, BlobsOf(i, u))
      /\ \A h \in BlobsOf(i, u) : i.sizes[h] = Size[h]
  BY <1>2 DEF ChargesRight
<1>4. /\ given(u) \in Nat /\ SumOfSizes(Size, BlobsOf(j, u)) \in Nat
      /\ BlobsOf(j, u) \subseteq BlobsOf(i, u) /\ BlobsOf(i, u) \subseteq Hashes
      /\ SumOfSizes(Size, BlobsOf(i, u)) = SumOfSizes(Size, BlobsOf(j, u)) + given(u)
  BY <1>3, ReleasedIs, BlobsAre DEF IndexSound
<1>5. \A h \in BlobsOf(j, u) : j.sizes[h] = i.sizes[h]
  BY <1>1 DEF BlobsOf, ReferencesOf
<1> HIDE DEF j, given
<1>6. i.users[u] - given(u) = SumOfSizes(Size, BlobsOf(j, u))
  BY <1>3, <1>4
<1>7. Max({0, i.users[u] - given(u)}) = SumOfSizes(Size, BlobsOf(j, u))
  BY <1>4, <1>6, AtLeastZero
<1>8. j.users[u] = SumOfSizes(Size, BlobsOf(j, u))
  BY <1>1, <1>2, <1>7
<1>9. \A h \in BlobsOf(j, u) : j.sizes[h] = Size[h]
  BY <1>3, <1>4, <1>5
<1> QED BY <1>8, <1>9

\* The files of a batch are added, one after the other.
LEMMA AllAddedSteps ==
    ASSUME NEW i, NEW gone, IndexSound(i, gone), NEW batch, GoodBatch(batch)
    PROVE  \E h : /\ h[0] = i /\ AllAdded(i, batch) = h[Len(batch)]
                  /\ \A k \in 1 .. Len(batch) : h[k] = WithReference(h[k - 1], batch[k])
                  /\ \A k \in 0 .. Len(batch) : IndexSound(h[k], gone)
<1> DEFINE n == Len(batch)
           R == i.references \cup {Reference(batch[k]) : k \in 1 .. n}
           T == {ToRemove(t, X, b - ByteLimit)[m] :
                    t \in [Hashes -> Nat], X \in SUBSET R, b \in Nat, m \in Nat}
           E == {i.sync.queue[m] : m \in Nat} \cup T
           Queues == [queue : Seq(E), in_progress : {i.sync.in_progress},
                      args_to_retry : {i.sync.args_to_retry}]
           V == [users : [DOMAIN i.users -> Nat], references : SUBSET R,
                 sizes : [Hashes -> Nat], sync : Queues]
           S == {j \in V : IndexSound(j, gone)}
           step == [z \in S \X (1 .. n) |-> WithReference(z[1], batch[z[2]])]
           Next_(g) == [k \in 0 .. n |-> IF k = 0 THEN i ELSE WithReference(g[k - 1], batch[k])]
<1>1. n \in Nat
      /\ \A k \in 1 .. n :
            batch[k].kind = "FileAdded" => batch[k].hash \in Hashes /\ batch[k].size \in Nat
  BY BatchIs
<1>2. i.sync.queue \in Seq(E)
  <2>1. i.sync.queue \in Seq({i.sync.queue[m] : m \in Nat})
    BY BatchIs DEF IndexSound, GoodSync
  <2> HIDE DEF T
  <2> QED BY <2>1, SeqMonotonic
<1>3. i \in S
  <2>1. i.sync \in Queues
    <3> HIDE DEF E
    <3>1. i.sync = [queue |-> i.sync.queue, in_progress |-> i.sync.in_progress,
                    args_to_retry |-> i.sync.args_to_retry]
      BY DEF IndexSound, GoodSync, IsRecord
    <3> QED BY <1>2, <3>1
  <2> HIDE DEF Queues
  <2>2. i.references \in SUBSET R
    OBVIOUS
  <2> HIDE DEF R
  <2>3. /\ i.users \in [DOMAIN i.users -> Nat] /\ i.sizes \in [Hashes -> Nat]
        /\ i = [users |-> i.users, references |-> i.references, sizes |-> i.sizes,
                sync |-> i.sync]
    BY DEF IndexSound, IsRecord, IndexFields
  <2>4. i \in V
    BY <2>1, <2>2, <2>3
  <2> HIDE DEF V
  <2> QED BY <2>4
<1>4. step \in [S \X (1 .. n) -> S]
  <2> SUFFICES ASSUME NEW j \in S, NEW k \in 1 .. n PROVE WithReference(j, batch[k]) \in S
    <3> HIDE DEF S
    <3> QED OBVIOUS
  <2> DEFINE e == batch[k]
             u == e.owner
             w == WithReference(j, e)
  <2>1. j \in V /\ IndexSound(j, gone) /\ IndexSound(w, gone)
    BY <1>1, WithReferenceIsSound
  <2>2. CASE ~(e.kind = "FileAdded" /\ u \in DOMAIN j.users)
    BY <2>2 DEF WithReference
  <2>3. CASE e.kind = "FileAdded" /\ u \in DOMAIN j.users
    <3> DEFINE bytes == j.users[u] + e.size
               more == ToRemove(j.sizes, ReferencesOf(j, u), bytes - ByteLimit)
               c == Charged(j, e)
    <3>1. /\ j.users \in [DOMAIN i.users -> Nat] /\ j.references \in SUBSET R
          /\ j.sync \in Queues /\ DOMAIN j.users = DOMAIN i.users
          /\ j.sizes \in [Hashes -> Nat] /\ DOMAIN j = IndexFields
      <4> HIDE DEF Queues, R
      <4> QED BY <2>1 DEF IndexFields
    <3>2. bytes \in Nat
      BY <1>1, <2>3, <3>1
    <3>3. more \in Seq(E)
      <4> DEFINE X == ReferencesOf(j, u)
      <4>1. X \in SUBSET R /\ X \subseteq j.references
        BY <3>1 DEF ReferencesOf
      <4>2. IsFiniteSet(X)
        BY <2>1, <4>1, FS_Subset DEF IndexSound
      <4>3. GoodBatch(more)
        BY <4>2, ToRemoveIsGood
      <4>4. more \in Seq({more[m] : m \in Nat})
        BY <4>3, BatchIs
      <4>5. {more[m] : m \in Nat} \subseteq E
        <5> HIDE DEF bytes, X, R
        <5>1. more = ToRemove(j.sizes, X, bytes - ByteLimit)
          BY DEF X
        <5> HIDE DEF more
        <5> QED BY <3>1, <3>2, <4>1, <5>1, SMTT(30)
      <4> HIDE DEF E, more
      <4> QED BY <4>4, <4>5, SeqMonotonic
    <3> HIDE DEF more, bytes, E
    <3>4. Enqueued(j.sync, more) \in Queues
      <4>1. j.sync.queue \o more \in Seq(E)
        BY <3>1, <3>3, ConcatProperties
      <4> QED BY <3>1, <4>1 DEF Enqueued
    <3> HIDE DEF Queues
    <3>5. /\ DOMAIN c = DOMAIN j /\ c.references = j.references /\ c.sync \in Queues
          /\ c.users \in [DOMAIN i.users -> Nat] /\ c.sizes \in [Hashes -> Nat]
      <4> DEFINE d == [j EXCEPT !.users[u] = bytes, !.sizes[e.hash] = e.size,
                                !.sync = Enqueued(@, more)]
      <4>1. c = IF e.hash \in BlobsOf(j, u) THEN j ELSE d
        BY Zenon DEF Charged, more, bytes
      <4>2. /\ DOMAIN d = DOMAIN j /\ d.references = j.references /\ d.sync = Enqueued(j.sync, more)
            /\ d.users = [j.users EXCEPT ![u] = bytes]
            /\ d.sizes = [j.sizes EXCEPT ![e.hash] = e.size]
        BY <3>1 DEF IndexFields
      <4>3. d.users \in [DOMAIN i.users -> Nat] /\ d.sizes \in [Hashes -> Nat]
        BY <1>1, <2>3, <3>1, <3>2, <4>2
      <4> HIDE DEF c, d
      <4> QED BY <3>1, <3>4, <4>1, <4>2, <4>3
    <3> HIDE DEF c
    <3>6. w = [c EXCEPT !.references = @ \cup {Reference(e)}]
      BY <2>3 DEF WithReference, c
    <3>7. Reference(e) \in R
      OBVIOUS
    <3> HIDE DEF R, w
    <3>8. /\ DOMAIN w = {"users", "references", "sizes", "sync"} /\ w.references \in SUBSET R
          /\ w.users \in [DOMAIN i.users -> Nat] /\ w.sizes \in [Hashes -> Nat]
          /\ w.sync \in Queues
      BY <3>1, <3>5, <3>6, <3>7 DEF IndexFields
    <3>9. w = [users |-> w.users, references |-> w.references, sizes |-> w.sizes,
               sync |-> w.sync]
      <4>1. w = [x \in DOMAIN w |-> w[x]]
        BY <3>6
      <4> QED BY <3>8, <4>1
    <3>10. w \in V
      BY <3>8, <3>9
    <3> HIDE DEF V
    <3>11. w \in S
      BY <2>1, <3>10
    <3> QED BY <3>11 DEF w
  <2> QED BY <2>2, <2>3
<1> HIDE DEF S
<1>5. PICK f \in [0 .. n -> S] : Follows(f, n, i, step)
  <2> HIDE DEF step, n
  <2> QED BY <1>1, <1>3, <1>4, RecursionExists
<1>6. f = Next_(f)
  <2>1. ASSUME NEW k \in 1 .. n PROVE f[k] = WithReference(f[k - 1], batch[k])
    <3>1. <<f[k - 1], k>> \in S \X (1 .. n)
      BY <1>1
    <3> QED BY <1>5, <3>1 DEF Follows
  <2> HIDE DEF step
  <2> QED BY <1>1, <1>5, <2>1 DEF Follows
<1>7. AllAdded(i, batch) = (CHOOSE g : g = Next_(g))[n]
  BY DEF AllAdded
<1>8. PICK h : h = Next_(h) /\ AllAdded(i, batch) = h[n]
  <2> HIDE DEF Next_
  <2> QED BY <1>6, <1>7
<1>9. h[0] = i /\ \A k \in 1 .. n : h[k] = WithReference(h[k - 1], batch[k])
  <2> HIDE DEF n
  <2> QED BY <1>1, <1>8
<1> DEFINE D == {k \in 0 .. n : h[k] \in S}
<1>10. 0 \in D /\ \A k \in 0 .. n - 1 : k \in D => k + 1 \in D
  <2>1. 0 \in D
    BY <1>1, <1>3, <1>9
  <2>2. ASSUME NEW k \in 0 .. n - 1, k \in D PROVE k + 1 \in D
    <3>1. k + 1 \in 1 .. n /\ (k + 1) - 1 = k /\ k + 1 \in 0 .. n
      BY <1>1
    <3>2. h[k + 1] = WithReference(h[k], batch[k + 1])
      BY <1>9, <3>1
    <3>3. <<h[k], k + 1>> \in S \X (1 .. n)
      BY <2>2, <3>1
    <3>4. step[<<h[k], k + 1>>] = WithReference(h[k], batch[k + 1])
      BY <3>3
    <3>5. step[<<h[k], k + 1>>] \in S
      <4> HIDE DEF step
      <4> QED BY <1>4, <3>3
    <3> QED BY <3>1, <3>2, <3>4, <3>5
  <2> QED BY <2>1, <2>2
<1>11. \A k \in 0 .. n : h[k] \in S
  <2>1. 0 .. n \subseteq D
    <3> HIDE DEF D, n
    <3> QED BY <1>1, <1>10, Induction
  <2> QED BY <2>1
<1>12. \A k \in 0 .. n : IndexSound(h[k], gone)
  BY ONLY <1>11, SMTT(30) DEF S
<1> QED BY <1>8, <1>9, <1>12

LEMMA AllAddedIsSound ==
    ASSUME NEW i, NEW gone, IndexSound(i, gone), NEW batch, GoodBatch(batch)
    PROVE  IndexSound(AllAdded(i, batch), gone)
<1>1. Len(batch) \in Nat
  BY BatchIs
<1>2. Len(batch) \in 0 .. Len(batch)
  BY <1>1
<1> QED BY <1>2, AllAddedSteps

LEMMA AllAddedKeepsUsers ==
    ASSUME NEW i, NEW gone, IndexSound(i, gone), NEW batch, GoodBatch(batch)
    PROVE  DOMAIN AllAdded(i, batch).users = DOMAIN i.users
<1> DEFINE n == Len(batch)
<1>1. /\ n \in Nat
      /\ \A k \in 1 .. n :
            batch[k].kind = "FileAdded" => batch[k].hash \in Hashes /\ batch[k].size \in Nat
  BY BatchIs
<1>2. PICK h : /\ h[0] = i /\ AllAdded(i, batch) = h[n]
               /\ \A k \in 1 .. n : h[k] = WithReference(h[k - 1], batch[k])
               /\ \A k \in 0 .. n : IndexSound(h[k], gone)
  BY AllAddedSteps
<1> HIDE DEF n
<1> DEFINE D == {k \in 0 .. n : DOMAIN h[k].users = DOMAIN i.users}
<1>3. 0 \in D
  BY <1>1, <1>2
<1>4. ASSUME NEW k \in 0 .. n - 1, k \in D PROVE k + 1 \in D
  <2> DEFINE j == h[k]
             e == batch[k + 1]
             w == h[k + 1]
  <2>1. k + 1 \in 1 .. n /\ (k + 1) - 1 = k /\ k \in 0 .. n /\ k + 1 \in 0 .. n
    BY <1>1
  <2>2. /\ w = WithReference(j, e) /\ IndexSound(j, gone) /\ DOMAIN j.users = DOMAIN i.users
        /\ e.kind = "FileAdded" => e.hash \in Hashes /\ e.size \in Nat
    BY <1>1, <1>2, <1>4, <2>1
  <2> HIDE DEF w, j, e
  <2>3. CASE ~(e.kind = "FileAdded" /\ e.owner \in DOMAIN j.users)
    <3>1. w = j
      BY <2>2, <2>3 DEF WithReference
    <3> QED BY <2>1, <2>2, <3>1 DEF w
  <2>4. CASE e.kind = "FileAdded" /\ e.owner \in DOMAIN j.users
    <3>1. w.users = IF IsNew(j, e) THEN [j.users EXCEPT ![e.owner] = @ + e.size] ELSE j.users
      BY <2>2, <2>4, FileAddedIs
    <3> QED BY <2>1, <2>2, <3>1 DEF w
  <2> QED BY <2>3, <2>4
<1>5. n \in D
  <2>1. n \in 0 .. n
    BY <1>1
  <2>2. 0 .. n \subseteq D
    <3> HIDE DEF D
    <3> QED BY <1>1, <1>3, <1>4, Induction
  <2> QED BY <2>1, <2>2
<1> QED BY <1>2, <1>5

\* Whoever is not exempt has none of the data a wrong size is declared for.
LEMMA AllAddedChargesRight ==
    ASSUME NEW i, NEW gone, NEW exempt, IndexSound(i, gone), ChargesRight(i, exempt),
           NEW batch, GoodBatch(batch), DOMAIN i.users \ exempt \subseteq Users,
           Misled(i, batch) \subseteq exempt
    PROVE  ChargesRight(AllAdded(i, batch), exempt)
<1> DEFINE n == Len(batch)
           mine == DOMAIN i.users \ exempt
<1>1. /\ n \in Nat
      /\ \A k \in 1 .. n :
            /\ batch[k] \in ToSet(batch)
            /\ batch[k].kind = "FileAdded" => batch[k].hash \in Hashes /\ batch[k].size \in Nat
  <2>1. n \in Nat /\ DOMAIN batch = 1 .. n
    BY BatchIs DEF GoodBatch
  <2> QED BY <2>1, BatchIs DEF ToSet
<1>2. PICK h : /\ h[0] = i /\ AllAdded(i, batch) = h[n]
               /\ \A k \in 1 .. n : h[k] = WithReference(h[k - 1], batch[k])
               /\ \A k \in 0 .. n : IndexSound(h[k], gone)
  BY AllAddedSteps
<1>3. \A e \in ToSet(batch), u \in mine :
          e.kind = "FileAdded" /\ e.size # Size[e.hash]
              => e.hash \notin BlobsOf(i, u) \cup Gets(batch, u)
  BY DEF Misled, OfKind
<1> HIDE DEF n, mine
<1> DEFINE D == {k \in 0 .. n : /\ ChargesRight(h[k], exempt) /\ DOMAIN h[k].users = DOMAIN i.users
                                /\ \A u \in mine : BlobsOf(h[k], u) \subseteq
                                                      BlobsOf(i, u) \cup Gets(batch, u)}
<1>4. 0 \in D
  BY <1>1, <1>2
<1>5. ASSUME NEW k \in 0 .. n - 1, k \in D PROVE k + 1 \in D
  <2> DEFINE j == h[k]
             e == batch[k + 1]
             w == h[k + 1]
  <2>1. k + 1 \in 1 .. n /\ (k + 1) - 1 = k /\ k \in 0 .. n /\ k + 1 \in 0 .. n
    BY <1>1
  <2>2. /\ w = WithReference(j, e) /\ IndexSound(j, gone) /\ e \in ToSet(batch)
        /\ e.kind = "FileAdded" => e.hash \in Hashes /\ e.size \in Nat
    BY <1>1, <1>2, <2>1
  <2>3. /\ ChargesRight(j, exempt) /\ DOMAIN j.users = DOMAIN i.users
        /\ \A u \in mine : BlobsOf(j, u) \subseteq BlobsOf(i, u) \cup Gets(batch, u)
    BY <1>5
  <2> HIDE DEF D, w, j, e
  <2>4. /\ DOMAIN w.users = DOMAIN i.users
        /\ \A u \in mine : BlobsOf(w, u) \subseteq BlobsOf(i, u) \cup Gets(batch, u)
    <3>1. CASE ~(e.kind = "FileAdded" /\ e.owner \in DOMAIN j.users)
      <4>1. w = j
        BY <2>2, <3>1 DEF WithReference
      <4> QED BY <2>3, <4>1
    <3>2. CASE e.kind = "FileAdded" /\ e.owner \in DOMAIN j.users
      <4>1. /\ w.references = j.references \cup {Reference(e)}
            /\ w.users = IF IsNew(j, e) THEN [j.users EXCEPT ![e.owner] = @ + e.size] ELSE j.users
        BY <2>2, <3>2, FileAddedIs
      <4>2. Reference(e).hash = e.hash /\ Reference(e).owner = e.owner
        BY DEF Reference
      <4>3. \A u : BlobsOf(w, u) \subseteq BlobsOf(j, u) \cup (IF u = e.owner THEN {e.hash} ELSE {})
        BY <4>1, <4>2 DEF BlobsOf, ReferencesOf
      <4>4. e.hash \in Gets(batch, e.owner)
        BY <2>2, <3>2 DEF Gets, OfKind
      <4> QED BY <2>3, <4>1, <4>3, <4>4
    <3> QED BY <3>1, <3>2
  <2>5. \A u \in DOMAIN j.users \ exempt :
            e.kind = "FileAdded" /\ e.size # Size[e.hash] => e.hash \notin BlobsOf(w, u)
    BY <1>3, <2>2, <2>3, <2>4 DEF mine
  <2>6. ChargesRight(w, exempt)
    BY <2>2, <2>3, <2>5, WithReferenceChargesRight
  <2> QED BY <2>1, <2>4, <2>6 DEF D, w
<1>6. n \in D
  <2>1. n \in 0 .. n
    BY <1>1
  <2>2. 0 .. n \subseteq D
    <3> HIDE DEF D
    <3> QED BY <1>1, <1>4, <1>5, Induction
  <2> QED BY <2>1, <2>2
<1> QED BY <1>2, <1>6

-----------------------------------------------------------------------------
(* The steps again *)

\* The index is sound, and whatever is on its way.
BytesInv ==
    /\ BucketInv /\ IndexSound(index, removed) /\ GoodSync(bucket.sync)
    /\ GoodBatch(to_index.batch) /\ "batch" \in DOMAIN to_index
    /\ GoodBatch(to_bucket.batch) /\ "batch" \in DOMAIN to_bucket

\* c has the queue of b.
SameSync(b, c) == c.sync = b.sync /\ "sync" \in DOMAIN c

LEMMA SyncIsKept ==
    ASSUME NEW b, "sync" \in DOMAIN b
    PROVE  /\ \A file, status : SameSync(b, WithStatus(b, file, status))
           /\ \A file : SameSync(b, Inserted(b, file)) /\ SameSync(b, NotPending(b, file))
           /\ \A files : SameSync(b, [b EXCEPT !.pending = files])
           /\ \A files : SameSync(b, Dropped(b, files))
           /\ \A batch : SameSync(b, WithUsers(b, batch)) /\ SameSync(b, WithoutUsers(b, batch))
<1>1. \A file, status : SameSync(b, WithStatus(b, file, status))
  BY DEF SameSync, WithStatus
<1>2. \A file : SameSync(b, Inserted(b, file)) /\ SameSync(b, NotPending(b, file))
  BY DEF SameSync, Inserted, NotPending
<1>3. \A files : SameSync(b, Dropped(b, files))
  BY DEF SameSync, Dropped
<1>4. \A batch : SameSync(b, WithUsers(b, batch)) /\ SameSync(b, WithoutUsers(b, batch))
  BY DEF SameSync, WithUsers, WithoutUsers
<1>5. \A files : SameSync(b, [b EXCEPT !.pending = files])
  BY DEF SameSync
<1> QED BY <1>1, <1>2, <1>3, <1>4, <1>5

LEMMA RefusedKeepsSync ==
    ASSUME NEW b, "sync" \in DOMAIN b, NEW ids
    PROVE  SameSync(b, Refused(b, ids))
<1> DEFINE files == {f \in b.files \cup b.pending : f.id \in ids /\ f.owner \in DOMAIN b.users}
           uploading == {f \in files : IsUploading(b, f)}
           rejected(u) == [id \in IdsOf({f \in files : f.owner = u}) |-> "Rejected"]
           marked == [b EXCEPT !.users = [u \in DOMAIN @ |-> rejected(u) @@ @[u]],
                               !.pending = @ \ uploading]
           refused == b.files \cap (files \ uploading)
<1>1. Refused(b, ids) = Dropped(marked, refused)
  BY DEF Refused
<1> HIDE DEF uploading, rejected, refused
<1>2. SameSync(b, marked)
  BY DEF SameSync
<1> HIDE DEF marked
<1>3. SameSync(marked, Dropped(marked, refused))
  BY <1>2, SyncIsKept DEF SameSync
<1> QED BY <1>1, <1>2, <1>3 DEF SameSync

LEMMA TellsIsGood ==
    ASSUME NEW b, "sync" \in DOMAIN b, GoodSync(b.sync), NEW events, GoodBatch(events)
    PROVE  GoodSync(Tells(b, events).sync)
<1>1. Tells(b, events).sync = Enqueued(b.sync, events)
  BY DEF Tells
<1> QED BY <1>1, EnqueuedIsGood

\* What the bucket says of a file.
LEMMA SaidIsGood ==
    /\ \A file, owner, created : \A h \in Hashes, size \in Nat :
           GoodBatch(<<FileAdded(file, h, owner, created, size)>>)
    /\ \A file : GoodBatch(<<FileRemoved(file)>>)
<1>1. ASSUME NEW file, NEW owner, NEW created, NEW h \in Hashes, NEW size \in Nat
      PROVE  GoodBatch(<<FileAdded(file, h, owner, created, size)>>)
  BY OneIsGood DEF FileAdded
<1>2. ASSUME NEW file
      PROVE  GoodBatch(<<FileRemoved(file)>>)
  BY OneIsGood DEF FileRemoved
<1> QED BY <1>1, <1>2

LEMMA AtBucketIsGood ==
    ASSUME BytesInv, AtBucket
    PROVE  GoodSync(bucket.sync)'
<1>1. /\ "sync" \in DOMAIN bucket /\ GoodSync(bucket.sync)
      /\ \A f \in bucket.files \cup bucket.pending : f \in Files /\ f.hash \in Hashes
  BY DEF BytesInv, BucketInv, FilesSound, KnownById, Fields, Files
<1>2. ASSUME NEW u \in Users, NEW h \in Hashes, NEW accessors \in SUBSET Accessors,
             NEW size \in Sizes, NEW chunks, UploadStarts(u, h, accessors, size, chunks)
      PROVE  GoodSync(bucket'.sync)
  <2> DEFINE file == File(file_count + 1, u, h, accessors, size)
             events == <<FileAdded(file.id, h, u, file.id, size)>>
             b == Tells(bucket, events)
             up == WithStatus(b, file, "Uploading")
  <2>1. bucket' = IF chunks = 1 THEN WithStatus(Inserted(b, file), file, "Complete")
                  ELSE [up EXCEPT !.pending = @ \cup {file}]
    BY <1>2 DEF UploadStarts
  <2>2. GoodSync(b.sync) /\ "sync" \in DOMAIN b
    <3>1. GoodBatch(events)
      BY SaidIsGood, ConstantsAssumption
    <3> HIDE DEF events
    <3>2. "sync" \in DOMAIN b
      BY <1>1 DEF Tells
    <3> QED BY <1>1, <3>1, <3>2, TellsIsGood
  <2> HIDE DEF b, file
  <2>3. SameSync(b, Inserted(b, file)) /\ SameSync(b, up)
    BY <2>2, SyncIsKept
  <2> HIDE DEF up
  <2>4. /\ SameSync(up, [up EXCEPT !.pending = @ \cup {file}])
        /\ SameSync(Inserted(b, file), WithStatus(Inserted(b, file), file, "Complete"))
    BY <2>3, SyncIsKept DEF SameSync
  <2> QED BY <2>1, <2>2, <2>3, <2>4 DEF SameSync
<1>3. ASSUME NEW u \in Users, NEW accessors \in SUBSET Accessors,
             NEW f \in bucket.files, Forward(u, f, accessors)
      PROVE  GoodSync(bucket'.sync)
  <2> DEFINE copy == File(file_count + 1, u, f.hash, accessors, Size[f.hash])
             c == Inserted(bucket, copy)
             d == WithStatus(c, copy, "Complete")
             events == <<FileAdded(copy.id, f.hash, f.owner, f.id, Size[f.hash])>>
  <2>1. bucket' = Tells(d, events)
    BY <1>3 DEF Forward
  <2>2. GoodBatch(events)
    <3>1. f.hash \in Hashes /\ Size[f.hash] \in Nat
      BY <1>1, ConstantsAssumption
    <3> QED BY <3>1, SaidIsGood
  <2> HIDE DEF events, copy
  <2>3. SameSync(bucket, c)
    BY <1>1, SyncIsKept
  <2> HIDE DEF c
  <2>4. SameSync(c, d)
    BY <2>3, SyncIsKept DEF SameSync
  <2> HIDE DEF d
  <2> QED BY <1>1, <2>1, <2>2, <2>3, <2>4, TellsIsGood DEF SameSync
<1>4. ASSUME NEW f \in bucket.pending, UploadEnds(f)
      PROVE  GoodSync(bucket'.sync)
  <2> DEFINE b == NotPending(bucket, f)
             c == Inserted(b, f)
             d == WithStatus(b, f, "Rejected")
  <2>1. \/ bucket' = WithStatus(c, f, "Complete")
        \/ bucket' = d
        \/ bucket' = Tells(d, <<FileRemoved(f)>>)
    BY <1>4 DEF UploadEnds, UploadCompletes, UploadMismatches, UploadExpires
  <2>2. SameSync(bucket, b)
    BY <1>1, SyncIsKept
  <2> HIDE DEF b
  <2>3. SameSync(b, c) /\ SameSync(b, d)
    BY <2>2, SyncIsKept DEF SameSync
  <2> HIDE DEF c, d
  <2>4. SameSync(c, WithStatus(c, f, "Complete"))
    BY <2>3, SyncIsKept DEF SameSync
  <2>5. GoodSync(Tells(d, <<FileRemoved(f)>>).sync)
    BY <1>1, <2>2, <2>3, SaidIsGood, TellsIsGood DEF SameSync
  <2> QED BY <1>1, <2>1, <2>2, <2>3, <2>4, <2>5 DEF SameSync
<1>5. ASSUME NEW f \in bucket.files, FileGoes(f)
      PROVE  GoodSync(bucket'.sync)
  <2> DEFINE b == Dropped(bucket, {f})
  <2>1. bucket' = Tells(b, <<FileRemoved(f)>>)
    BY <1>5 DEF FileGoes
  <2>2. SameSync(bucket, b)
    BY <1>1, SyncIsKept
  <2> HIDE DEF b
  <2> QED BY <1>1, <2>1, <2>2, SaidIsGood, TellsIsGood DEF SameSync
<1> QED BY <1>2, <1>3, <1>4, <1>5 DEF AtBucket

LEMMA BucketHandlesIsGood ==
    ASSUME BytesInv, BucketHandles
    PROVE  GoodSync(bucket.sync)'
<1> DEFINE batch == to_bucket.batch
           b == WithUsers(bucket, batch)
           files == {f \in b.files : Goes(b, f, batch)}
           c == Dropped(b, files)
           d == WithoutUsers(c, batch)
<1>1. PICK told \in SUBSET files : bucket' = Tells(d, FilesRemoved(files \ told))
  BY DEF BucketHandles
<1>2. /\ "sync" \in DOMAIN bucket /\ GoodSync(bucket.sync) /\ IsFiniteSet(bucket.files)
      /\ DOMAIN bucket = Fields
  BY DEF BytesInv, BucketInv, FilesSound, CountsSound, Fields
<1> HIDE DEF batch
<1>3. SameSync(bucket, b) /\ b.files = bucket.files
  <2>1. SameSync(bucket, b)
    BY <1>2, SyncIsKept
  <2>2. b.files = bucket.files
    BY <1>2 DEF WithUsers, Fields
  <2> QED BY <2>1, <2>2
<1>4. GoodBatch(FilesRemoved(files \ told))
  <2>1. files \ told \subseteq bucket.files
    BY <1>3
  <2> HIDE DEF files
  <2>2. IsFiniteSet(files \ told)
    BY <1>2, <2>1, FS_Subset
  <2> QED BY <2>2, FilesRemovedIsGood
<1> HIDE DEF b, files
<1>5. SameSync(b, c)
  BY <1>3, SyncIsKept DEF SameSync
<1> HIDE DEF c
<1>6. SameSync(c, d)
  BY <1>5, SyncIsKept DEF SameSync
<1> HIDE DEF d
<1> QED BY <1>1, <1>2, <1>3, <1>4, <1>5, <1>6, TellsIsGood DEF SameSync

\* The index, but for its queue, is as it was.
LEMMA SameIndexIsSound ==
    ASSUME NEW i, NEW gone, IndexSound(i, gone), NEW sync, GoodSync(sync)
    PROVE  IndexSound([i EXCEPT !.sync = sync], gone)
<1> DEFINE j == [i EXCEPT !.sync = sync]
<1>1. /\ IsRecord(j, IndexFields) /\ j.users = i.users /\ j.sizes = i.sizes
      /\ j.references = i.references /\ j.sync = sync
  BY DEF IndexSound, IsRecord, IndexFields
<1> HIDE DEF j
<1>2. IndexSound(j, gone)
  BY <1>1 DEF IndexSound
<1> QED BY <1>2 DEF j

LEMMA SameCharges ==
    ASSUME NEW i, NEW j, NEW exempt, ChargesRight(i, exempt), j.references = i.references,
           j.users = i.users, j.sizes = i.sizes
    PROVE  ChargesRight(j, exempt)
<1>1. \A u : BlobsOf(j, u) = BlobsOf(i, u)
  BY DEF BlobsOf, ReferencesOf
<1> QED BY <1>1 DEF ChargesRight

\* What a user that comes, one that goes, and an accessor that goes do to the index.
LEMMA AtIndexDoes ==
    ASSUME BytesInv, AtIndex
    PROVE  /\ IsRecord(index', IndexFields) /\ GoodSync(index'.sync)
           /\ index'.references = index.references /\ index'.sizes = index.sizes
           /\ misled' = misled
           /\ \/ \E user \in Users :
                    /\ user \notin DOMAIN index.users /\ removed' = removed
                    /\ index'.users = [u \in DOMAIN index.users \cup {user} |->
                                          IF u = user THEN 0 ELSE index.users[u]]
              \/ \E user \in Users :
                    /\ removed' = removed \cup {user}
                    /\ index'.users = [u \in DOMAIN index.users \ {user} |-> index.users[u]]
              \/ removed' = removed /\ index'.users = index.users
<1>1. IsRecord(index, IndexFields) /\ GoodSync(index.sync)
  BY DEF BytesInv, IndexSound
<1>2. \A kind, user : kind # "FileAdded" => GoodSync(Enqueued(index.sync, <<UserEvent(kind, user)>>))
  <2>1. ASSUME NEW kind, NEW user, kind # "FileAdded"
        PROVE  GoodBatch(<<UserEvent(kind, user)>>)
    BY <2>1, OneIsGood DEF UserEvent
  <2> QED BY <1>1, <2>1, EnqueuedIsGood
<1>3. ASSUME NEW user \in Users, AddUser(user)
      PROVE  /\ IsRecord(index', IndexFields) /\ GoodSync(index'.sync)
             /\ index'.references = index.references /\ index'.sizes = index.sizes
             /\ misled' = misled /\ removed' = removed /\ user \notin DOMAIN index.users
             /\ index'.users = [u \in DOMAIN index.users \cup {user} |->
                                   IF u = user THEN 0 ELSE index.users[u]]
  <2>1. /\ user \notin DOMAIN index.users /\ removed' = removed /\ misled' = misled
        /\ index' = [index EXCEPT
                        !.users = [u \in DOMAIN @ \cup {user} |-> IF u = user THEN 0 ELSE @[u]],
                        !.sync = Enqueued(@, <<UserEvent("UserAdded", user)>>)]
    BY <1>3 DEF AddUser, history
  <2> QED BY <1>1, <1>2, <2>1 DEF IsRecord, IndexFields
<1>4. ASSUME NEW user \in Users, RemoveUser(user)
      PROVE  /\ IsRecord(index', IndexFields) /\ GoodSync(index'.sync)
             /\ index'.references = index.references /\ index'.sizes = index.sizes
             /\ misled' = misled /\ removed' = removed \cup {user}
             /\ index'.users = [u \in DOMAIN index.users \ {user} |-> index.users[u]]
  <2>1. /\ removed' = removed \cup {user} /\ misled' = misled
        /\ index' = [index EXCEPT !.users = [u \in DOMAIN @ \ {user} |-> @[u]],
                                  !.sync = Enqueued(@, <<UserEvent("UserRemoved", user)>>)]
    BY <1>4 DEF RemoveUser
  <2> QED BY <1>1, <1>2, <2>1 DEF IsRecord, IndexFields
<1>5. ASSUME NEW a \in Accessors, RemoveAccessor(a)
      PROVE  /\ IsRecord(index', IndexFields) /\ GoodSync(index'.sync)
             /\ index'.references = index.references /\ index'.sizes = index.sizes
             /\ misled' = misled /\ removed' = removed /\ index'.users = index.users
  <2>1. /\ index' = [index EXCEPT !.sync = Enqueued(@, <<UserEvent("AccessorRemoved", a)>>)]
        /\ removed' = removed /\ misled' = misled
    BY <1>5 DEF RemoveAccessor, history
  <2> QED BY <1>1, <1>2, <2>1 DEF IsRecord, IndexFields
<1>6. CASE \E user \in Users : AddUser(user)
  BY <1>3, <1>6
<1>7. CASE \E user \in Users : RemoveUser(user)
  BY <1>4, <1>7
<1>8. CASE \E a \in Accessors : RemoveAccessor(a)
  BY <1>5, <1>8
<1> QED BY <1>6, <1>7, <1>8 DEF AtIndex

LEMMA AtIndexIsSound ==
    ASSUME BytesInv, AtIndex
    PROVE  IndexSound(index, removed)'
<1> DEFINE i == index'
           gone == removed'
<1>1. /\ index.users \in [DOMAIN index.users -> Nat] /\ index.sizes \in [Hashes -> Nat]
      /\ IsFiniteSet(index.references)
      /\ \A r \in index.references :
            r.hash \in Hashes /\ r.owner \in DOMAIN index.users \cup removed
  BY DEF BytesInv, IndexSound
<1>2. /\ IsRecord(i, IndexFields) /\ GoodSync(i.sync)
      /\ i.references = index.references /\ i.sizes = index.sizes
      /\ \/ \E user \in Users :
               /\ user \notin DOMAIN index.users /\ gone = removed
               /\ i.users = [u \in DOMAIN index.users \cup {user} |->
                                IF u = user THEN 0 ELSE index.users[u]]
         \/ \E user \in Users :
               /\ gone = removed \cup {user}
               /\ i.users = [u \in DOMAIN index.users \ {user} |-> index.users[u]]
         \/ gone = removed /\ i.users = index.users
  BY AtIndexDoes
<1> HIDE DEF i, gone
<1>3. i.users \in [DOMAIN i.users -> Nat]
  <2>1. ASSUME NEW user \in Users,
               i.users = [u \in DOMAIN index.users \cup {user} |->
                             IF u = user THEN 0 ELSE index.users[u]]
        PROVE  i.users \in [DOMAIN i.users -> Nat]
    BY <1>1, <2>1
  <2>2. ASSUME NEW user \in Users,
               i.users = [u \in DOMAIN index.users \ {user} |-> index.users[u]]
        PROVE  i.users \in [DOMAIN i.users -> Nat]
    BY <1>1, <2>2
  <2> QED BY <1>1, <1>2, <2>1, <2>2
<1>4. DOMAIN index.users \cup removed \subseteq DOMAIN i.users \cup gone
  BY <1>2
<1>5. IndexSound(i, gone)
  BY <1>1, <1>2, <1>3, <1>4 DEF IndexSound
<1> QED BY <1>5 DEF i, gone

LEMMA NextKeepsBytes ==
    ASSUME BytesInv, [Next]_vars
    PROVE  BytesInv'
<1>1. BucketInv'
  BY NextKeepsBucket DEF BytesInv
<1>2. /\ IndexSound(index, removed) /\ GoodSync(index.sync) /\ GoodSync(bucket.sync)
      /\ GoodBatch(to_index.batch) /\ "batch" \in DOMAIN to_index
      /\ GoodBatch(to_bucket.batch) /\ "batch" \in DOMAIN to_bucket
      /\ "sync" \in DOMAIN bucket /\ "sync" \in DOMAIN index
  BY DEF BytesInv, IndexSound, IsRecord, IndexFields, BucketInv, FilesSound, Fields
<1> DEFINE Indexed == IndexSound(index', removed')
           Told == GoodSync(bucket'.sync)
           Called(call) == GoodBatch(call.batch) /\ "batch" \in DOMAIN call
<1>3. UNCHANGED <<index, removed>> => Indexed
  BY <1>2
<1>4. UNCHANGED bucket => Told
  BY <1>2
<1>5. /\ UNCHANGED to_index => Called(to_index')
      /\ UNCHANGED to_bucket => Called(to_bucket')
  BY <1>2
<1>6. Called(NoCall)
  BY EmptyIsGood DEF NoCall
<1>7. \A batch : GoodBatch(batch) => Called(Asked(batch))
  BY DEF Asked
<1>8. /\ \A answer : Called(Answered(to_index, answer))
      /\ \A answer : Called(Answered(to_bucket, answer))
  BY <1>2 DEF Answered
<1>9. SUFFICES Indexed /\ Told /\ Called(to_index') /\ Called(to_bucket')
  BY <1>1 DEF BytesInv
<1> HIDE DEF Indexed, Told, Called
<1>10. CASE UNCHANGED vars
  BY <1>3, <1>4, <1>5, <1>10 DEF vars
<1>11. CASE AtBucket
  <2>1. Told
    BY <1>11, AtBucketIsGood DEF Told
  <2>2. UNCHANGED <<index, removed, to_index, to_bucket>>
    <3>1. ASSUME NEW u, NEW h, NEW accessors, NEW size, NEW chunks,
                 UploadStarts(u, h, accessors, size, chunks)
          PROVE  UNCHANGED <<index, removed, to_index, to_bucket>>
      BY <3>1 DEF UploadStarts, history
    <3>2. ASSUME NEW u, NEW f, NEW accessors, Forward(u, f, accessors)
          PROVE  UNCHANGED <<index, removed, to_index, to_bucket>>
      BY <3>2 DEF Forward
    <3>3. ASSUME NEW f, UploadEnds(f) \/ FileGoes(f)
          PROVE  UNCHANGED <<index, removed, to_index, to_bucket>>
      BY <3>3 DEF UploadEnds, FileGoes, history
    <3> QED BY <1>11, <3>1, <3>2, <3>3, Zenon DEF AtBucket
  <2> QED BY <1>3, <1>5, <2>1, <2>2
<1>12. CASE AtIndex
  <2>1. Indexed
    BY <1>12, AtIndexIsSound DEF Indexed
  <2>2. UNCHANGED <<bucket, to_index, to_bucket>>
    BY <1>12 DEF AtIndex, AddUser, RemoveUser, RemoveAccessor, ChangesUsers
  <2> QED BY <1>4, <1>5, <2>1, <2>2
<1>13. CASE BucketSyncs
  <2>1. /\ to_index' = Asked(NextBatch(bucket.sync)) /\ bucket'.sync = Started(bucket.sync)
        /\ UNCHANGED <<index, to_bucket, removed>>
    BY <1>2, <1>13 DEF BucketSyncs, history
  <2> QED BY <1>2, <1>3, <1>5, <1>7, <2>1, StartedIsGood DEF Told
<1>14. CASE IndexHandles
  <2> DEFINE added == AllAdded(index, to_index.batch)
             gone == OfKind(to_index.batch, "FileRemoved")
  <2>1. /\ index' = AllRemoved(added, gone)
        /\ \E answer : to_index' = Answered(to_index, answer)
        /\ UNCHANGED <<bucket, to_bucket, removed>>
    BY <1>14 DEF IndexHandles, history
  <2>2. IndexSound(added, removed)
    BY <1>2, AllAddedIsSound
  <2> HIDE DEF added, gone
  <2>3. IndexSound(index', removed)
    BY <2>1, <2>2, AllRemovedIsSound
  <2> QED BY <1>4, <1>5, <1>8, <2>1, <2>3 DEF Indexed
<1>15. CASE CallToIndexRejected
  <2>1. /\ to_index' = NoCall /\ bucket'.sync = Failed(bucket.sync, to_index.batch)
        /\ UNCHANGED <<index, to_bucket, removed>>
    BY <1>2, <1>15 DEF CallToIndexRejected, history
  <2> QED BY <1>2, <1>3, <1>5, <1>6, <2>1, FailedIsGood DEF Told
<1>16. CASE BucketHears
  <2> DEFINE b == Refused(bucket, to_index.answer)
  <2>1. /\ to_index' = NoCall /\ bucket' = [b EXCEPT !.sync = Completed(@)]
        /\ UNCHANGED <<index, to_bucket, removed>>
    BY <1>16 DEF BucketHears, history
  <2>2. SameSync(bucket, b)
    BY <1>2, RefusedKeepsSync
  <2> HIDE DEF b
  <2>3. bucket'.sync = Completed(bucket.sync)
    BY <2>1, <2>2 DEF SameSync
  <2> QED BY <1>2, <1>3, <1>5, <1>6, <2>1, <2>3, CompletedIsGood DEF Told
<1>17. CASE IndexSyncs
  <2>1. /\ to_bucket' = Asked(NextBatch(index.sync))
        /\ index' = [index EXCEPT !.sync = Started(index.sync)]
        /\ UNCHANGED <<bucket, to_index, removed>>
    BY <1>17 DEF IndexSyncs, history
  <2>2. GoodBatch(NextBatch(index.sync)) /\ IndexSound(index', removed)
    BY <1>2, <2>1, StartedIsGood, SameIndexIsSound
  <2> QED BY <1>4, <1>5, <1>7, <2>1, <2>2 DEF Indexed
<1>18. CASE BucketHandles
  <2>1. Told
    BY <1>18, BucketHandlesIsGood DEF Told
  <2>2. /\ \E answer : to_bucket' = Answered(to_bucket, answer)
        /\ UNCHANGED <<index, to_index, removed>>
    BY <1>18 DEF BucketHandles, history
  <2> QED BY <1>3, <1>5, <1>8, <2>1, <2>2
<1>19. CASE CallToBucketRejected
  <2>1. /\ to_bucket' = NoCall
        /\ index' = [index EXCEPT !.sync = Failed(index.sync, to_bucket.batch)]
        /\ UNCHANGED <<bucket, to_index, removed>>
    BY <1>19 DEF CallToBucketRejected, history
  <2>2. IndexSound(index', removed)
    BY <1>2, <2>1, FailedIsGood, SameIndexIsSound
  <2> QED BY <1>4, <1>5, <1>6, <2>1, <2>2 DEF Indexed
<1>20. CASE IndexHears
  <2> DEFINE i == AllRemoved(index, to_bucket.answer)
  <2>1. /\ to_bucket' = NoCall /\ index' = [i EXCEPT !.sync = Completed(i.sync)]
        /\ UNCHANGED <<bucket, to_index, removed>>
    BY <1>20 DEF IndexHears
  <2>2. IndexSound(i, removed)
    BY <1>2, AllRemovedIsSound
  <2> HIDE DEF i
  <2>3. IndexSound(index', removed)
    BY <2>1, <2>2, CompletedIsGood, SameIndexIsSound, SMTT(30) DEF IndexSound
  <2> QED BY <1>4, <1>5, <1>6, <2>1, <2>3 DEF Indexed
<1> QED BY <1>10, <1>11, <1>12, <1>13, <1>14, <1>15, <1>16, <1>17, <1>18, <1>19, <1>20 DEF Next, Syncs

LEMMA InitBytes == Init => BytesInv
<1> SUFFICES ASSUME Init PROVE BytesInv
  OBVIOUS
<1>1. BucketInv
  BY InitBucket
<1>2. GoodSync(Idle)
  BY EmptyIsGood DEF GoodSync, IsRecord, Idle
<1>3. /\ index = [users |-> <<>>, references |-> {}, sizes |-> [h \in Hashes |-> 0],
                  sync |-> Idle]
      /\ bucket.sync = Idle /\ to_index = NoCall /\ to_bucket = NoCall
  BY DEF Init
<1>4. /\ IsRecord(index, IndexFields) /\ index.references = {} /\ index.sync = Idle
      /\ index.users = <<>> /\ index.sizes = [h \in Hashes |-> 0]
  BY <1>3 DEF IsRecord, IndexFields
<1>5. IndexSound(index, removed)
  <2>1. /\ DOMAIN index.users = {} /\ index.users \in [{} -> Nat]
        /\ index.sizes \in [Hashes -> Nat]
    BY <1>4
  <2> QED BY <1>2, <1>4, <2>1, FS_EmptySet DEF IndexSound
<1>6. GoodBatch(NoCall.batch) /\ "batch" \in DOMAIN NoCall
  BY EmptyIsGood DEF NoCall
<1> QED BY <1>1, <1>2, <1>3, <1>5, <1>6 DEF BytesInv

\* What each user is charged is right, unless it has been removed or misled.
ChargesInv ==
    /\ BytesInv /\ DOMAIN index.users \subseteq Users
    /\ ChargesRight(index, removed \cup misled)

LEMMA AtIndexKeepsCharges ==
    ASSUME ChargesInv, AtIndex
    PROVE  (DOMAIN index.users \subseteq Users /\ ChargesRight(index, removed \cup misled))'
<1> DEFINE i == index'
           exempt == removed' \cup misled'
<1>1. /\ DOMAIN index.users \subseteq Users /\ ChargesRight(index, removed \cup misled)
      /\ \A r \in index.references : r.owner \in DOMAIN index.users \cup removed
  BY DEF ChargesInv, BytesInv, IndexSound
<1>2. /\ i.references = index.references /\ i.sizes = index.sizes
      /\ \/ \E user \in Users :
               /\ user \notin DOMAIN index.users /\ exempt = removed \cup misled
               /\ i.users = [u \in DOMAIN index.users \cup {user} |->
                                IF u = user THEN 0 ELSE index.users[u]]
         \/ \E user \in Users :
               /\ exempt = removed \cup misled \cup {user}
               /\ i.users = [u \in DOMAIN index.users \ {user} |-> index.users[u]]
         \/ exempt = removed \cup misled /\ i.users = index.users
  BY AtIndexDoes, Zenon DEF ChargesInv
<1> HIDE DEF i, exempt
<1>3. \A u : BlobsOf(i, u) = BlobsOf(index, u)
  BY <1>2 DEF BlobsOf, ReferencesOf
<1>4. DOMAIN i.users \subseteq Users
  <2>1. \/ \E user \in Users : DOMAIN i.users = DOMAIN index.users \cup {user}
        \/ \E user \in Users : DOMAIN i.users = DOMAIN index.users \ {user}
        \/ DOMAIN i.users = DOMAIN index.users
    BY <1>2, Zenon
  <2> QED BY <1>1, <2>1
<1>5. SumOfSizes(Size, {}) = 0
  BY SumOfNone, ConstantsAssumption
<1>6. ASSUME NEW u \in DOMAIN i.users \ exempt
      PROVE  /\ i.users[u] = SumOfSizes(Size, BlobsOf(i, u))
             /\ \A h \in BlobsOf(i, u) : i.sizes[h] = Size[h]
  <2>1. u \notin removed \cup misled
    BY <1>2
  <2>2. CASE u \in DOMAIN index.users /\ i.users[u] = index.users[u]
    BY <1>1, <1>2, <1>3, <2>1, <2>2 DEF ChargesRight
  <2>3. CASE u \notin DOMAIN index.users /\ i.users[u] = 0
    <3>1. BlobsOf(i, u) = {}
      BY <1>1, <1>3, <2>1, <2>3 DEF BlobsOf, ReferencesOf
    <3> QED BY <1>5, <2>3, <3>1
  <2> QED BY <1>2, <2>2, <2>3
<1>7. ChargesRight(i, exempt)
  BY <1>6 DEF ChargesRight
<1> QED BY <1>4, <1>7 DEF i, exempt

LEMMA IndexHandlesKeepsCharges ==
    ASSUME ChargesInv, IndexHandles
    PROVE  (DOMAIN index.users \subseteq Users /\ ChargesRight(index, removed \cup misled))'
<1> DEFINE batch == to_index.batch
           added == AllAdded(index, batch)
           gone == OfKind(batch, "FileRemoved")
           exempt == removed \cup (misled \cup Misled(index, batch))
<1>1. /\ index' = AllRemoved(added, gone) /\ removed' = removed
      /\ misled' = misled \cup Misled(index, batch)
  BY DEF IndexHandles
<1>2. /\ DOMAIN index.users \subseteq Users /\ ChargesRight(index, removed \cup misled)
      /\ IndexSound(index, removed) /\ GoodBatch(batch)
  BY DEF ChargesInv, BytesInv
<1>3. ChargesRight(index, exempt)
  BY <1>2 DEF ChargesRight
<1>4. DOMAIN index.users \ exempt \subseteq Users /\ Misled(index, batch) \subseteq exempt
  BY <1>2
<1> HIDE DEF exempt, batch
<1>5. IndexSound(added, removed) /\ ChargesRight(added, exempt)
  BY <1>2, <1>3, <1>4, AllAddedIsSound, AllAddedChargesRight
<1>6. DOMAIN added.users = DOMAIN index.users
  BY <1>2, AllAddedKeepsUsers
<1> HIDE DEF added, gone
<1>7. ChargesRight(AllRemoved(added, gone), exempt)
  BY <1>5, AllRemovedChargesRight
<1>8. DOMAIN AllRemoved(added, gone).users = DOMAIN added.users
  BY <1>5, FilesRemovedCost
<1> QED BY <1>1, <1>2, <1>6, <1>7, <1>8 DEF exempt, batch

LEMMA NextKeepsCharges ==
    ASSUME ChargesInv, [Next]_vars
    PROVE  ChargesInv'
<1> DEFINE Charged_(i, exempt) == DOMAIN i.users \subseteq Users /\ ChargesRight(i, exempt)
<1>1. BytesInv' /\ BytesInv
  BY NextKeepsBytes DEF ChargesInv
<1>2. /\ Charged_(index, removed \cup misled) /\ DOMAIN index = IndexFields
      /\ IndexSound(index, removed)
  BY <1>1 DEF ChargesInv, BytesInv, IndexSound, IsRecord
<1> SUFFICES Charged_(index', removed' \cup misled')
  BY <1>1 DEF ChargesInv
<1>3. ASSUME UNCHANGED <<index, removed, misled>>
      PROVE  Charged_(index', removed' \cup misled')
  BY <1>2, <1>3
<1>4. ASSUME UNCHANGED <<removed, misled>>, NEW i, NEW sync,
             DOMAIN i = IndexFields, Charged_(i, removed \cup misled),
             index' = [i EXCEPT !.sync = sync]
      PROVE  Charged_(index', removed' \cup misled')
  <2>1. index'.users = i.users /\ index'.references = i.references /\ index'.sizes = i.sizes
    BY <1>4 DEF IndexFields
  <2> QED BY <1>4, <2>1, SameCharges
<1> HIDE DEF Charged_
<1>5. CASE AtBucket
  <2>1. ASSUME NEW u, NEW h, NEW accessors, NEW size, NEW chunks,
               UploadStarts(u, h, accessors, size, chunks)
        PROVE  UNCHANGED <<index, removed, misled>>
    BY <2>1 DEF UploadStarts, history
  <2>2. ASSUME NEW u, NEW f, NEW accessors, Forward(u, f, accessors)
        PROVE  UNCHANGED <<index, removed, misled>>
    BY <2>2 DEF Forward
  <2>3. ASSUME NEW f, UploadEnds(f) \/ FileGoes(f)
        PROVE  UNCHANGED <<index, removed, misled>>
    BY <2>3 DEF UploadEnds, FileGoes, history
  <2>4. UNCHANGED <<index, removed, misled>>
    BY <1>5, <2>1, <2>2, <2>3, Zenon DEF AtBucket
  <2> QED BY <1>3, <2>4
<1>6. CASE AtIndex
  BY <1>6, AtIndexKeepsCharges DEF Charged_
<1>7. CASE IndexHandles
  BY <1>7, IndexHandlesKeepsCharges DEF Charged_
<1>8. CASE BucketSyncs \/ CallToIndexRejected \/ BucketHears \/ BucketHandles
  <2>1. UNCHANGED <<index, removed, misled>>
    BY <1>8 DEF BucketSyncs, CallToIndexRejected, BucketHears, BucketHandles, history
  <2> QED BY <1>3, <2>1
<1>9. CASE IndexSyncs \/ CallToBucketRejected
  <2>1. UNCHANGED <<removed, misled>> /\ \E sync : index' = [index EXCEPT !.sync = sync]
    BY <1>9 DEF IndexSyncs, CallToBucketRejected, history
  <2> QED BY <1>2, <1>4, <2>1
<1>10. CASE IndexHears
  <2> DEFINE i == AllRemoved(index, to_bucket.answer)
  <2>1. index' = [i EXCEPT !.sync = Completed(i.sync)] /\ UNCHANGED <<removed, misled>>
    BY <1>10 DEF IndexHears
  <2>2. ChargesRight(i, removed \cup misled)
    BY <1>2, AllRemovedChargesRight DEF Charged_
  <2>3. DOMAIN i = IndexFields /\ DOMAIN i.users = DOMAIN index.users
    BY <1>2, FilesRemovedLeave, FilesRemovedCost DEF IsRecord
  <2>4. Charged_(i, removed \cup misled)
    BY <1>2, <2>2, <2>3 DEF Charged_
  <2> HIDE DEF i
  <2> QED BY <1>4, <2>1, <2>3, <2>4
<1>11. CASE UNCHANGED vars
  BY <1>3, <1>11 DEF vars
<1> QED BY <1>5, <1>6, <1>7, <1>8, <1>9, <1>10, <1>11 DEF Next, Syncs

LEMMA InitCharges == Init => ChargesInv
<1> SUFFICES ASSUME Init PROVE ChargesInv
  OBVIOUS
<1>1. BytesInv
  BY InitBytes
<1>2. index.users = <<>>
  BY DEF Init
<1>3. DOMAIN index.users = {}
  BY <1>2
<1> QED BY <1>1, <1>3 DEF ChargesInv, ChargesRight

\* A user that has never been removed is charged once for all its data and for what it is
\* worth, unless somebody declared a wrong size for data that it had.
THEOREM UsersAreChargedOnce == Spec => []BytesUsedExact
<1>1. Init => ChargesInv
  BY InitCharges
<1>2. ChargesInv /\ [Next]_vars => ChargesInv'
  BY NextKeepsCharges
<1>3. ChargesInv => BytesUsedExact
  BY DEF ChargesInv, ChargesRight, BytesUsedExact
<1> QED BY <1>1, <1>2, <1>3, PTL DEF Spec

-----------------------------------------------------------------------------
(* What the canisters agree about *)

\* P: id and owner of each file the bucket has; K and G: the same and the time of
\* creation of the files the index knows or will know, and of those that it is
\* told are gone; refused: the ids it has refused.
Accounts(P, K, G, refused, out, lost, n) ==
    /\ \A p \in P : p[1] \in 0 .. n
    /\ \A k \in K \cup G : k[1] \in 0 .. n
    /\ \A p \in P, g \in G : p[1] # g[1]
    /\ \A k \in K : k[1] \notin out =>
          k[3] = k[1] /\ \A p \in P : p[1] = k[1] => p[2] = k[2]
    /\ \A p \in P : p[1] \notin out /\ p[2] \notin lost => \E k \in K : k[1] = p[1]
    /\ \A k \in K : k[1] \notin out /\ k[2] \notin lost => k \in G \/ \E p \in P : p[1] = k[1]
    /\ \A id \in refused : /\ id \in 0 .. n
                           /\ id \notin out => \A p \in P : p[1] = id => p[2] \in lost

\* A new file, that the index will know as its owner's, or that is left out.
LEMMA FileComes ==
    ASSUME NEW P, NEW K, NEW G, NEW refused, NEW out, NEW lost, NEW n \in Nat,
           Accounts(P, K, G, refused, out, lost, n),
           NEW owner, NEW other, NEW created, NEW more,
           n + 1 \in more \/ (other = owner /\ created = n + 1)
    PROVE  Accounts(P \cup {<<n + 1, owner>>}, K \cup {<<n + 1, other, created>>}, G, refused,
                    out \cup more, lost, n + 1)
<1> DEFINE m == n + 1
           new == <<m, owner>>
           say == <<m, other, created>>
<1>1. m \in 0 .. m /\ \A x \in 0 .. n : x \in 0 .. m /\ x # m
  OBVIOUS
<1>2. new[1] = m /\ new[2] = owner /\ say[1] = m /\ say[2] = other /\ say[3] = created
  OBVIOUS
<1>3. m \in more \/ (other = owner /\ created = m)
  OBVIOUS
<1> HIDE DEF m, new, say
<1> USE <1>1, <1>2, <1>3
<1> SUFFICES Accounts(P \cup {new}, K \cup {say}, G, refused, out \cup more, lost, m)
  BY DEF m, new, say
<1>4. \A p \in P \cup {new} : p[1] \in 0 .. m
  BY DEF Accounts
<1>5. \A k \in (K \cup {say}) \cup G : k[1] \in 0 .. m
  BY DEF Accounts
<1>6. \A p \in P \cup {new}, g \in G : p[1] # g[1]
  BY DEF Accounts
<1>7. \A k \in K \cup {say} : k[1] \notin out \cup more =>
          k[3] = k[1] /\ \A p \in P \cup {new} : p[1] = k[1] => p[2] = k[2]
  BY DEF Accounts
<1>8. \A p \in P \cup {new} : p[1] \notin out \cup more /\ p[2] \notin lost
          => \E k \in K \cup {say} : k[1] = p[1]
  BY DEF Accounts
<1>9. \A k \in K \cup {say} : k[1] \notin out \cup more /\ k[2] \notin lost
          => k \in G \/ \E p \in P \cup {new} : p[1] = k[1]
  BY DEF Accounts
<1>10. \A id \in refused :
           /\ id \in 0 .. m
           /\ id \notin out \cup more => \A p \in P \cup {new} : p[1] = id => p[2] \in lost
  BY DEF Accounts
<1> QED BY <1>4, <1>5, <1>6, <1>7, <1>8, <1>9, <1>10 DEF Accounts

\* Files go, and the index is told.
Removal(p) == <<p[1], p[2], p[1]>>
LEMMA FilesGo ==
    ASSUME NEW P, NEW K, NEW G, NEW refused, NEW out, NEW lost, NEW n,
           Accounts(P, K, G, refused, out, lost, n),
           \A k \in K : k = <<k[1], k[2], k[3]>>,
           NEW Q \in SUBSET P, \A p, q \in P : p[1] = q[1] => p = q
    PROVE  Accounts(P \ Q, K, G \cup {Removal(q) : q \in Q}, refused, out, lost, n)
<1> DEFINE H == G \cup {Removal(q) : q \in Q}
<1>1. \A q \in Q : Removal(q)[1] = q[1] /\ Removal(q) = <<q[1], q[2], q[1]>>
  BY DEF Removal
<1>2. \A k \in K \cup H : k[1] \in 0 .. n
  BY <1>1 DEF Accounts
<1>3. \A p \in P \ Q, g \in H : p[1] # g[1]
  BY <1>1 DEF Accounts
<1>4. ASSUME NEW k \in K, k[1] \notin out, k[2] \notin lost
      PROVE  k \in H \/ \E p \in P \ Q : p[1] = k[1]
  <2>1. k \in G \/ \E p \in P : p[1] = k[1]
    BY <1>4 DEF Accounts
  <2>2. ASSUME NEW q \in Q, q[1] = k[1] PROVE k \in H
    <3>1. k[3] = k[1] /\ q[2] = k[2]
      BY <1>4, <2>2 DEF Accounts
    <3>2. k = Removal(q)
      BY <2>2, <3>1 DEF Removal
    <3> QED BY <3>2
  <2> QED BY <2>1, <2>2
<1> QED BY <1>2, <1>3, <1>4 DEF Accounts

\* A file goes and the index is not told: it is left out, or was refused.
LEMMA FilesVanish ==
    ASSUME NEW P, NEW K, NEW G, NEW refused, NEW out, NEW lost, NEW n,
           Accounts(P, K, G, refused, out, lost, n),
           NEW Q \in SUBSET P, NEW more, NEW left \in SUBSET refused,
           \A p \in P \ Q : p[1] \in out \cup more \/ p[1] \in refused
    PROVE  Accounts(Q, K, G, left, out \cup more, lost, n)
<1>1. ASSUME NEW k \in K, k[1] \notin out \cup more, k[2] \notin lost
      PROVE  k \in G \/ \E p \in Q : p[1] = k[1]
  <2>1. k \in G \/ \E p \in P : p[1] = k[1]
    BY <1>1 DEF Accounts
  <2>2. ASSUME NEW p \in P, p[1] = k[1], p \notin Q PROVE FALSE
    <3>1. p[2] = k[2] /\ p[1] \in refused
      BY <1>1, <2>2 DEF Accounts
    <3>2. p[2] \in lost
      BY <1>1, <2>2, <3>1 DEF Accounts
    <3> QED BY <1>1, <3>1, <3>2
  <2> QED BY <2>1, <2>2
<1> QED BY <1>1 DEF Accounts

\* The index forgets what it is told is gone, or what it did not want to know for
\* its owner has been removed.
LEMMA EventsArrive ==
    ASSUME NEW P, NEW K, NEW G, NEW refused, NEW out, NEW lost, NEW n,
           Accounts(P, K, G, refused, out, lost, n),
           NEW L \in SUBSET K, NEW H \in SUBSET G, NEW more, NEW now,
           \A k \in K \ L : k \in G \/ k[2] \in lost,
           \A k \in L : k \in G => k \in H \/ k[1] \in out \cup more,
           \A id \in now : id \in refused \/ \E k \in K : k[1] = id /\ k[2] \in lost
    PROVE  Accounts(P, L, H, now, out \cup more, lost, n)
<1>1. ASSUME NEW p \in P, p[1] \notin out \cup more, p[2] \notin lost
      PROVE  \E k \in L : k[1] = p[1]
  <2>1. PICK k \in K : k[1] = p[1]
    BY <1>1 DEF Accounts
  <2>2. k \notin G /\ k[2] = p[2]
    BY <1>1, <2>1 DEF Accounts
  <2> QED BY <1>1, <2>1, <2>2
<1>2. ASSUME NEW id \in now
      PROVE  /\ id \in 0 .. n
             /\ id \notin out \cup more => \A p \in P : p[1] = id => p[2] \in lost
  <2>1. CASE id \in refused
    BY <2>1 DEF Accounts
  <2>2. CASE \E k \in K : k[1] = id /\ k[2] \in lost
    BY <2>2 DEF Accounts
  <2> QED BY <1>2, <2>1, <2>2
<1>3. \A k \in L : k[1] \notin out \cup more /\ k[2] \notin lost
          => k \in H \/ \E p \in P : p[1] = k[1]
  BY DEF Accounts
<1>4. \A k \in L \cup H : k[1] \in 0 .. n
  BY DEF Accounts
<1>5. \A p \in P, g \in H : p[1] # g[1]
  BY DEF Accounts
<1>6. \A k \in L : k[1] \notin out \cup more =>
          k[3] = k[1] /\ \A p \in P : p[1] = k[1] => p[2] = k[2]
  BY DEF Accounts
<1> QED BY <1>1, <1>2, <1>3, <1>4, <1>5, <1>6 DEF Accounts

\* A user is removed.
LEMMA UserGoes ==
    ASSUME NEW P, NEW K, NEW G, NEW refused, NEW out, NEW lost, NEW n,
           Accounts(P, K, G, refused, out, lost, n), NEW user
    PROVE  Accounts(P, K, G, refused, out, lost \cup {user}, n)
BY DEF Accounts

-----------------------------------------------------------------------------
(* What is on its way, in order *)

IsSeq(s) == \E E : s \in Seq(E)
Sent(call) == IF call.at = "asked" THEN call.batch ELSE <<>>
Waiting(sync) == sync.args_to_retry \o sync.queue
Way(call, sync) == Sent(call) \o Waiting(sync)

\* Nothing is said to be removed before it is said to be added.
InOrder(path) ==
    \A j, k \in DOMAIN path :
        j < k /\ path[j].kind = "FileRemoved" /\ path[k].kind = "FileAdded"
            => path[j].file # path[k].file

LEMMA GoodIsSeq ==
    ASSUME NEW batch, GoodBatch(batch)
    PROVE  IsSeq(batch)
BY DEF GoodBatch, IsSeq

LEMMA OneSeq ==
    ASSUME NEW e
    PROVE  IsSeq(<<e>>) /\ ToSet(<<e>>) = {e}
<1>1. <<e>> \in Seq({e})
  OBVIOUS
<1>2. ToSet(<<e>>) = {e}
  BY DEF ToSet
<1> QED BY <1>1, <1>2 DEF IsSeq

LEMMA NoneSeq == IsSeq(<<>>) /\ ToSet(<<>>) = {}
<1>1. <<>> \in Seq({})
  BY EmptySeq
<1> QED BY <1>1 DEF IsSeq, ToSet

LEMMA Both ==
    ASSUME NEW s, IsSeq(s), NEW t, IsSeq(t)
    PROVE  \E E : s \in Seq(E) /\ t \in Seq(E)
<1>1. PICK D : s \in Seq(D)
  BY DEF IsSeq
<1>2. PICK E : t \in Seq(E)
  BY DEF IsSeq
<1>3. s \in Seq(D \cup E) /\ t \in Seq(D \cup E)
  BY <1>1, <1>2, SeqMonotonic
<1> QED BY <1>3

LEMMA ConcatIs ==
    ASSUME NEW s, IsSeq(s), NEW t, IsSeq(t)
    PROVE  /\ IsSeq(s \o t) /\ ToSet(s \o t) = ToSet(s) \cup ToSet(t)
           /\ Len(s) \in Nat /\ DOMAIN s = 1 .. Len(s)
           /\ Len(t) \in Nat /\ DOMAIN t = 1 .. Len(t)
           /\ DOMAIN (s \o t) = 1 .. Len(s) + Len(t)
           /\ \A i \in 1 .. Len(s) : (s \o t)[i] = s[i]
           /\ \A i \in 1 .. Len(t) : (s \o t)[Len(s) + i] = t[i]
<1>1. PICK E : s \in Seq(E) /\ t \in Seq(E)
  BY Both
<1> DEFINE u == s \o t
<1>2. /\ u \in Seq(E) /\ Len(u) = Len(s) + Len(t)
      /\ \A i \in 1 .. Len(s) + Len(t) : u[i] = IF i <= Len(s) THEN s[i] ELSE t[i - Len(s)]
  BY <1>1, ConcatProperties
<1>3. /\ Len(s) \in Nat /\ DOMAIN s = 1 .. Len(s)
      /\ Len(t) \in Nat /\ DOMAIN t = 1 .. Len(t)
  BY <1>1, LenProperties
<1>4. DOMAIN u = 1 .. Len(s) + Len(t)
  BY <1>2, LenProperties
<1> HIDE DEF u
<1>5. \A i \in 1 .. Len(s) : u[i] = s[i]
  BY <1>2, <1>3
<1>6. ASSUME NEW i \in 1 .. Len(t) PROVE u[Len(s) + i] = t[i]
  <2>1. /\ Len(s) + i \in 1 .. Len(s) + Len(t) /\ ~(Len(s) + i <= Len(s))
        /\ (Len(s) + i) - Len(s) = i
    BY <1>3
  <2> QED BY <1>2, <2>1
<1>7. ToSet(u) = ToSet(s) \cup ToSet(t)
  <2>1. ASSUME NEW i \in 1 .. Len(s) + Len(t) PROVE u[i] \in ToSet(s) \cup ToSet(t)
    <3>1. CASE i <= Len(s)
      BY <1>3, <1>5, <3>1 DEF ToSet
    <3>2. CASE ~(i <= Len(s))
      <4>1. i - Len(s) \in 1 .. Len(t)
        BY <1>3, <3>2
      <4> QED BY <1>2, <1>3, <3>2, <4>1 DEF ToSet
    <3> QED BY <3>1, <3>2
  <2>2. ASSUME NEW i \in 1 .. Len(s) PROVE s[i] \in ToSet(u)
    <3>1. i \in DOMAIN u
      BY <1>3, <1>4
    <3> QED BY <1>5, <3>1 DEF ToSet
  <2>3. ASSUME NEW i \in 1 .. Len(t) PROVE t[i] \in ToSet(u)
    <3>1. Len(s) + i \in DOMAIN u
      BY <1>3, <1>4
    <3> QED BY <1>6, <3>1 DEF ToSet
  <2>4. /\ \A x \in ToSet(u) : x \in ToSet(s) \cup ToSet(t)
        /\ \A x \in ToSet(s) \cup ToSet(t) : x \in ToSet(u)
    BY <1>3, <1>4, <2>1, <2>2, <2>3 DEF ToSet
  <2> QED BY <2>4
<1>8. IsSeq(u)
  BY <1>2 DEF IsSeq
<1> QED BY <1>3, <1>4, <1>5, <1>6, <1>7, <1>8 DEF u

LEMMA Regroup ==
    ASSUME NEW s, IsSeq(s), NEW t, IsSeq(t), NEW u, IsSeq(u)
    PROVE  (s \o t) \o u = s \o (t \o u)
<1>1. PICK D : s \in Seq(D) /\ t \in Seq(D)
  BY Both
<1>2. PICK E : u \in Seq(E)
  BY DEF IsSeq
<1>3. s \in Seq(D \cup E) /\ t \in Seq(D \cup E) /\ u \in Seq(D \cup E)
  BY <1>1, <1>2, SeqMonotonic
<1> QED BY <1>3, ConcatAssociative

LEMMA WithNone ==
    ASSUME NEW s, IsSeq(s)
    PROVE  s \o <<>> = s /\ <<>> \o s = s
BY ConcatEmptySeq DEF IsSeq

\* What is said later may be, if nothing is added that was said to be removed.
LEMMA OrderedAppend ==
    ASSUME NEW s, IsSeq(s), InOrder(s), NEW t, IsSeq(t),
           \/ \A e \in ToSet(t) : e.kind # "FileAdded"
           \/ \E e : /\ t = <<e>>
                     /\ \A d \in ToSet(s) : d.kind = "FileRemoved" => d.file # e.file
    PROVE  InOrder(s \o t)
<1> DEFINE u == s \o t
           m == Len(s)
           n == Len(t)
<1>1. /\ m \in Nat /\ n \in Nat /\ DOMAIN u = 1 .. m + n
      /\ DOMAIN s = 1 .. m /\ DOMAIN t = 1 .. n
      /\ \A i \in 1 .. m : u[i] = s[i]
      /\ \A i \in 1 .. n : u[m + i] = t[i]
  BY ConcatIs
<1>2. \A e : t = <<e>> => n = 1 /\ t[1] = e
  OBVIOUS
<1> HIDE DEF u, m, n
<1> SUFFICES ASSUME NEW j \in 1 .. m + n, NEW k \in 1 .. m + n, j < k,
                    u[j].kind = "FileRemoved", u[k].kind = "FileAdded"
             PROVE  u[j].file # u[k].file
  BY <1>1, SMTT(30) DEF InOrder, u
<1>3. CASE k \in 1 .. m
  <2>1. j \in 1 .. m
    BY <1>1, <1>3
  <2> QED BY <1>1, <1>3, <2>1 DEF InOrder
<1>4. CASE k \notin 1 .. m
  <2>1. PICK i \in 1 .. n : k = m + i
    <3>1. k - m \in 1 .. n /\ k = m + (k - m)
      BY <1>1, <1>4
    <3> QED BY <3>1
  <2>2. u[k] = t[i] /\ t[i] \in ToSet(t)
    BY <1>1, <2>1 DEF ToSet
  <2>3. PICK e : /\ t = <<e>>
                 /\ \A d \in ToSet(s) : d.kind = "FileRemoved" => d.file # e.file
    BY <2>2
  <2>4. n = 1 /\ t[1] = e
    BY <1>2, <2>3
  <2>5. i = 1 /\ j \in 1 .. m
    BY <1>1, <2>1, <2>4
  <2>6. u[j] \in ToSet(s)
    BY <1>1, <2>5 DEF ToSet
  <2> QED BY <2>2, <2>3, <2>4, <2>5, <2>6
<1> QED BY <1>3, <1>4

\* What has been said first is taken away.
LEMMA OrderedRest ==
    ASSUME NEW s, IsSeq(s), NEW t, IsSeq(t), InOrder(s \o t)
    PROVE  /\ InOrder(t)
           /\ \A d \in ToSet(s), e \in ToSet(t) :
                  d.kind = "FileRemoved" /\ e.kind = "FileAdded" => d.file # e.file
<1> DEFINE u == s \o t
           m == Len(s)
           n == Len(t)
<1>1. /\ m \in Nat /\ n \in Nat /\ DOMAIN u = 1 .. m + n
      /\ DOMAIN s = 1 .. m /\ DOMAIN t = 1 .. n
      /\ \A i \in 1 .. m : u[i] = s[i]
      /\ \A i \in 1 .. n : u[m + i] = t[i]
  BY ConcatIs
<1>2. \A j, k \in DOMAIN u :
          j < k /\ u[j].kind = "FileRemoved" /\ u[k].kind = "FileAdded"
              => u[j].file # u[k].file
  BY DEF InOrder
<1> HIDE DEF u, m, n
<1>3. InOrder(t)
  <2> SUFFICES ASSUME NEW j \in 1 .. n, NEW k \in 1 .. n, j < k,
                      t[j].kind = "FileRemoved", t[k].kind = "FileAdded"
               PROVE  t[j].file # t[k].file
    BY <1>1 DEF InOrder
  <2>1. m + j \in DOMAIN u /\ m + k \in DOMAIN u /\ m + j < m + k
    BY <1>1
  <2>2. u[m + j] = t[j] /\ u[m + k] = t[k]
    BY <1>1
  <2> QED BY <1>2, <2>1, <2>2
<1>4. ASSUME NEW d \in ToSet(s), NEW e \in ToSet(t), d.kind = "FileRemoved", e.kind = "FileAdded"
      PROVE  d.file # e.file
  <2>1. PICK j \in 1 .. m : s[j] = d
    BY <1>1 DEF ToSet
  <2>2. PICK k \in 1 .. n : t[k] = e
    BY <1>1 DEF ToSet
  <2>3. j \in DOMAIN u /\ m + k \in DOMAIN u /\ j < m + k
    BY <1>1
  <2>4. u[j] = d /\ u[m + k] = e
    BY <1>1, <2>1, <2>2
  <2> QED BY <1>2, <1>4, <2>3, <2>4
<1> QED BY <1>3, <1>4

LEMMA WayIs ==
    ASSUME NEW call, GoodBatch(call.batch), NEW sync, GoodSync(sync)
    PROVE  /\ IsSeq(Sent(call)) /\ IsSeq(Waiting(sync)) /\ IsSeq(Way(call, sync))
           /\ IsSeq(sync.queue) /\ IsSeq(sync.args_to_retry)
<1>1. IsSeq(Sent(call))
  BY GoodIsSeq, NoneSeq DEF Sent
<1>2. IsSeq(sync.queue) /\ IsSeq(sync.args_to_retry)
  BY GoodIsSeq DEF GoodSync
<1>3. IsSeq(Waiting(sync))
  BY <1>2, ConcatIs DEF Waiting
<1> QED BY <1>1, <1>2, <1>3, ConcatIs DEF Way

\* Starting a call takes from what waits what it sends.
LEMMA StartedTakes ==
    ASSUME NEW sync, GoodSync(sync)
    PROVE  /\ NextBatch(sync) \o Waiting(Started(sync)) = Waiting(sync)
           /\ Started(sync).in_progress = TRUE /\ Started(sync).args_to_retry = <<>>
<1> DEFINE s == Started(sync)
           batch == NextBatch(sync)
<1>1. GoodBatch(batch) /\ GoodSync(s) /\ IsSeq(sync.queue) /\ IsSeq(sync.args_to_retry)
  BY StartedIsGood, GoodIsSeq DEF GoodSync
<1>2. CASE sync.args_to_retry # <<>>
  <2>1. batch = sync.args_to_retry
    BY <1>2 DEF NextBatch
  <2>2. s.queue = sync.queue /\ s.args_to_retry = <<>> /\ s.in_progress = TRUE
    BY <1>2 DEF Started, GoodSync, IsRecord
  <2> HIDE DEF s, batch
  <2>3. Waiting(s) = sync.queue
    BY <1>1, <2>2, WithNone DEF Waiting
  <2> QED BY <2>1, <2>2, <2>3 DEF Waiting, s, batch
<1>3. CASE sync.args_to_retry = <<>>
  <2> DEFINE q == sync.queue
             n == Len(q)
             m == Min({MaxBatch, n})
  <2>1. PICK E : q \in Seq(E)
    BY <1>1 DEF IsSeq
  <2>2. n \in Nat
    BY <2>1, LenProperties
  <2>3. m \in 0 .. n
    BY <2>2, SmallerIs
  <2>4. batch = SubSeq(q, 1, m)
    BY <1>3 DEF NextBatch
  <2> HIDE DEF m
  <2>5. Len(batch) = m
    <3>1. \A k \in 1 .. m : q[k] \in E
      BY <2>1, <2>2, <2>3, ElementOfSeq
    <3>2. Len(SubSeq(q, 1, m)) = IF 1 <= m THEN m - 1 + 1 ELSE 0
      BY <2>3, <3>1, SubSeqProperties
    <3> QED BY <2>3, <2>4, <3>2
  <2>6. s.queue = SubSeq(q, m + 1, n) /\ s.args_to_retry = <<>> /\ s.in_progress = TRUE
    BY <1>3, <2>5 DEF Started, GoodSync, IsRecord
  <2> HIDE DEF s, batch
  <2>7. Waiting(s) = SubSeq(q, m + 1, n)
    <3>1. IsSeq(s.queue)
      BY <1>1, GoodIsSeq DEF GoodSync
    <3> QED BY <2>6, <3>1, WithNone DEF Waiting
  <2>8. SubSeq(q, 1, m) \o SubSeq(q, m + 1, n) = SubSeq(q, 1, n)
    <3>1. 1 \in 1 .. Len(q) + 1 /\ m \in 1 - 1 .. Len(q) /\ n \in m .. Len(q)
      BY <2>2, <2>3
    <3> HIDE DEF q, n
    <3> QED BY <2>1, <3>1, ConcatAdjacentSubSeq
  <2>9. SubSeq(q, 1, n) = q
    BY <2>1, SubSeqFull
  <2>10. Waiting(sync) = q
    BY <1>1, <1>3, WithNone DEF Waiting
  <2> QED BY <2>4, <2>6, <2>7, <2>8, <2>9, <2>10 DEF s, batch
<1> QED BY <1>2, <1>3

\* What is on its way stays on its way, in the same order, until it is handled.
LEMMA WayStays ==
    ASSUME NEW call, GoodBatch(call.batch), "batch" \in DOMAIN call, "at" \in DOMAIN call,
           NEW sync, GoodSync(sync)
    PROVE  /\ call.at # "asked" => Way(Asked(NextBatch(sync)), Started(sync)) = Way(call, sync)
           /\ call.at # "asked" => Way(NoCall, Completed(sync)) = Way(call, sync)
           /\ call.at = "asked" /\ sync.args_to_retry = <<>>
                  => Way(NoCall, Failed(sync, call.batch)) = Way(call, sync)
           /\ call.at = "asked" =>
                  \A answer : Way(call, sync) = call.batch \o Way(Answered(call, answer), sync)
           /\ \A events : IsSeq(events) =>
                  Way(call, Enqueued(sync, events)) = Way(call, sync) \o events
<1>1. /\ IsSeq(Sent(call)) /\ IsSeq(Waiting(sync)) /\ IsSeq(Way(call, sync))
      /\ IsSeq(sync.queue) /\ IsSeq(sync.args_to_retry) /\ IsSeq(call.batch)
  BY WayIs, GoodIsSeq
<1>2. \A batch : Sent(Asked(batch)) = batch
  BY DEF Sent, Asked
<1>3. Sent(NoCall) = <<>> /\ \A answer : Sent(Answered(call, answer)) = <<>>
  BY DEF Sent, NoCall, Answered
<1>4. \A answer : Way(Answered(call, answer), sync) = Waiting(sync)
  BY <1>1, <1>3, WithNone DEF Way
<1>5. ASSUME call.at # "asked"
      PROVE  Way(call, sync) = Waiting(sync)
  BY <1>1, <1>5, WithNone DEF Way, Sent
<1>6. ASSUME call.at # "asked"
      PROVE  Way(Asked(NextBatch(sync)), Started(sync)) = Way(call, sync)
  BY <1>2, <1>5, <1>6, StartedTakes DEF Way
<1>7. ASSUME call.at # "asked"
      PROVE  Way(NoCall, Completed(sync)) = Way(call, sync)
  <2>1. Waiting(Completed(sync)) = Waiting(sync)
    BY DEF Completed, Waiting, GoodSync, IsRecord
  <2>2. Way(NoCall, Completed(sync)) = Waiting(sync)
    BY <1>1, <1>3, <2>1, WithNone DEF Way
  <2> QED BY <1>5, <1>7, <2>2
<1>8. ASSUME call.at = "asked", sync.args_to_retry = <<>>
      PROVE  Way(NoCall, Failed(sync, call.batch)) = Way(call, sync)
  <2>1. Waiting(Failed(sync, call.batch)) = call.batch \o sync.queue
    BY DEF Failed, Waiting, GoodSync, IsRecord
  <2>2. IsSeq(call.batch \o sync.queue)
    BY <1>1, ConcatIs
  <2>3. Way(NoCall, Failed(sync, call.batch)) = call.batch \o sync.queue
    BY <1>3, <2>1, <2>2, WithNone DEF Way
  <2>4. Waiting(sync) = sync.queue /\ Sent(call) = call.batch
    BY <1>1, <1>8, WithNone DEF Waiting, Sent
  <2> QED BY <2>3, <2>4 DEF Way
<1>9. ASSUME call.at = "asked", NEW answer
      PROVE  Way(call, sync) = call.batch \o Way(Answered(call, answer), sync)
  BY <1>4, <1>9 DEF Way, Sent
<1>10. ASSUME NEW events, IsSeq(events)
       PROVE  Way(call, Enqueued(sync, events)) = Way(call, sync) \o events
  <2>1. Waiting(Enqueued(sync, events)) = sync.args_to_retry \o (sync.queue \o events)
    BY DEF Enqueued, Waiting, GoodSync, IsRecord
  <2>2. Waiting(Enqueued(sync, events)) = Waiting(sync) \o events
    <3> DEFINE r == sync.args_to_retry
               q == sync.queue
    <3>1. IsSeq(r) /\ IsSeq(q) /\ IsSeq(events)
      BY <1>1, <1>10
    <3>2. Waiting(sync) = r \o q /\ Waiting(Enqueued(sync, events)) = r \o (q \o events)
      BY <2>1 DEF Waiting
    <3> HIDE DEF r, q
    <3>3. (r \o q) \o events = r \o (q \o events)
      BY ONLY <3>1, Regroup, SMTT(30)
    <3> QED BY <3>2, <3>3
  <2>3. Sent(call) \o (Waiting(sync) \o events) = (Sent(call) \o Waiting(sync)) \o events
    <3> DEFINE a == Sent(call)
               w == Waiting(sync)
    <3>1. IsSeq(a) /\ IsSeq(w) /\ IsSeq(events)
      BY <1>1, <1>10
    <3> HIDE DEF a, w
    <3>2. (a \o w) \o events = a \o (w \o events)
      BY ONLY <3>1, Regroup, SMTT(30)
    <3> QED BY <3>2 DEF a, w
  <2> QED BY <2>2, <2>3 DEF Way
<1> QED BY <1>6, <1>7, <1>8, <1>9, <1>10

-----------------------------------------------------------------------------
(* What the index does with a batch *)

\* The events that add a file of a user the index knows.
Welcome(i, batch) == {e \in ToSet(batch) : e.kind = "FileAdded" /\ e.owner \in DOMAIN i.users}

\* j is i, but for references, bytes, and files it asks the bucket to remove.
SameUsers(i, j) ==
    /\ DOMAIN j.users = DOMAIN i.users
    /\ j.sync.in_progress = i.sync.in_progress /\ j.sync.args_to_retry = i.sync.args_to_retry
    /\ \A x \in ToSet(j.sync.queue) : x \in ToSet(i.sync.queue) \/ x.kind = "FileToRemove"

LEMMA WithReferenceIs ==
    ASSUME NEW i, NEW gone, IndexSound(i, gone), NEW e
    PROVE  /\ SameUsers(i, WithReference(i, e))
           /\ WithReference(i, e).references =
                  IF e.kind = "FileAdded" /\ e.owner \in DOMAIN i.users
                  THEN i.references \cup {Reference(e)} ELSE i.references
<1> DEFINE u == e.owner
           j == WithReference(i, e)
<1>1. CASE ~(e.kind = "FileAdded" /\ u \in DOMAIN i.users)
  <2>1. j = i
    BY <1>1 DEF WithReference
  <2> QED BY <1>1, <2>1 DEF SameUsers
<1>2. CASE e.kind = "FileAdded" /\ u \in DOMAIN i.users
  <2> DEFINE c == Charged(i, e)
             bytes == i.users[u] + e.size
             more == ToRemove(i.sizes, ReferencesOf(i, u), bytes - ByteLimit)
             d == [i EXCEPT !.users[u] = bytes, !.sizes[e.hash] = e.size,
                            !.sync = Enqueued(@, more)]
  <2>1. /\ DOMAIN i = {"users", "references", "sizes", "sync"} /\ GoodSync(i.sync)
        /\ IsFiniteSet(i.references)
    BY DEF IndexSound, IsRecord, IndexFields
  <2>2. c = IF e.hash \in BlobsOf(i, u) THEN i ELSE d
    BY Zenon DEF Charged, more, bytes
  <2>3. IsSeq(more) /\ \A x \in ToSet(more) : x.kind = "FileToRemove"
    <3> DEFINE X == ReferencesOf(i, u)
               oldest == Oldest(i.sizes, X, bytes - ByteLimit)
               sorted == SetToSortSeq(oldest, Older)
    <3>1. more = [k \in 1 .. Cardinality(oldest) |-> FileToRemove(sorted[k].file)]
      BY Zenon DEF ToRemove, more
    <3>2. IsFiniteSet(X)
      BY <2>1, FS_Subset DEF ReferencesOf
    <3>3. IsSeq(more)
      BY <3>2, ToRemoveIsGood, GoodIsSeq
    <3> HIDE DEF sorted, oldest, more
    <3>4. \A k \in DOMAIN more : more[k].kind = "FileToRemove"
      BY <3>1 DEF FileToRemove
    <3> QED BY <3>3, <3>4 DEF ToSet
  <2> HIDE DEF more, bytes
  <2>4. /\ DOMAIN d = DOMAIN i /\ d.references = i.references /\ d.sync = Enqueued(i.sync, more)
        /\ DOMAIN d.users = DOMAIN i.users
    BY <2>1
  <2>5. /\ d.sync.in_progress = i.sync.in_progress /\ d.sync.args_to_retry = i.sync.args_to_retry
        /\ d.sync.queue = i.sync.queue \o more
    <3> HIDE DEF d
    <3> QED BY <2>1, <2>4 DEF Enqueued, GoodSync, IsRecord
  <2> HIDE DEF d
  <2>6. \A x \in ToSet(d.sync.queue) : x \in ToSet(i.sync.queue) \/ x.kind = "FileToRemove"
    <3>1. IsSeq(i.sync.queue)
      BY <2>1, GoodIsSeq DEF GoodSync
    <3>2. ToSet(i.sync.queue \o more) = ToSet(i.sync.queue) \cup ToSet(more)
      BY <2>3, <3>1, ConcatIs
    <3> QED BY <2>3, <2>5, <3>2
  <2>7. SameUsers(i, i) /\ SameUsers(i, d)
    BY <2>4, <2>5, <2>6 DEF SameUsers
  <2>8. SameUsers(i, c) /\ c.references = i.references /\ DOMAIN c = DOMAIN i
    BY <2>2, <2>4, <2>7
  <2> HIDE DEF c
  <2>9. j = [c EXCEPT !.references = @ \cup {Reference(e)}]
    BY <1>2, Zenon DEF WithReference, c
  <2> HIDE DEF j
  <2>10. j.users = c.users /\ j.sync = c.sync /\ j.references = i.references \cup {Reference(e)}
    BY <2>1, <2>8, <2>9
  <2> QED BY <1>2, <2>8, <2>10 DEF SameUsers, j
<1> QED BY <1>1, <1>2

LEMMA AllAddedIs ==
    ASSUME NEW i, NEW gone, IndexSound(i, gone), NEW batch, GoodBatch(batch)
    PROVE  /\ SameUsers(i, AllAdded(i, batch))
           /\ AllAdded(i, batch).references =
                  i.references \cup {Reference(e) : e \in Welcome(i, batch)}
<1> DEFINE n == Len(batch)
           R(k) == i.references \cup
                      {Reference(batch[m]) : m \in {x \in 1 .. k : /\ batch[x].kind = "FileAdded"
                                                                  /\ batch[x].owner \in DOMAIN i.users}}
<1>1. n \in Nat /\ DOMAIN batch = 1 .. n
  BY BatchIs DEF GoodBatch
<1>2. PICK h : /\ h[0] = i /\ AllAdded(i, batch) = h[n]
               /\ \A k \in 1 .. n : h[k] = WithReference(h[k - 1], batch[k])
               /\ \A k \in 0 .. n : IndexSound(h[k], gone)
  BY AllAddedSteps
<1> HIDE DEF n
<1> DEFINE D == {k \in 0 .. n : SameUsers(i, h[k]) /\ h[k].references = R(k)}
<1>3. 0 \in D
  <2>1. R(0) = i.references
    OBVIOUS
  <2>2. SameUsers(i, i)
    BY DEF SameUsers
  <2> HIDE DEF R
  <2> QED BY <1>1, <1>2, <2>1, <2>2
<1>4. ASSUME NEW k \in 0 .. n - 1, k \in D PROVE k + 1 \in D
  <2> DEFINE j == h[k]
             e == batch[k + 1]
             w == h[k + 1]
  <2>1. k + 1 \in 1 .. n /\ (k + 1) - 1 = k /\ k \in 0 .. n /\ k + 1 \in 0 .. n /\ k \in Nat
    BY <1>1
  <2>2. w = WithReference(j, e) /\ IndexSound(j, gone) /\ SameUsers(i, j) /\ j.references = R(k)
    BY <1>2, <1>4, <2>1
  <2> HIDE DEF R, w, j, e
  <2>3. /\ SameUsers(j, w)
        /\ w.references = IF e.kind = "FileAdded" /\ e.owner \in DOMAIN j.users
                          THEN j.references \cup {Reference(e)} ELSE j.references
    BY <2>2, WithReferenceIs
  <2>4. SameUsers(i, w) /\ DOMAIN j.users = DOMAIN i.users
    BY <2>2, <2>3 DEF SameUsers
  <2>5. R(k + 1) = IF e.kind = "FileAdded" /\ e.owner \in DOMAIN i.users
                   THEN R(k) \cup {Reference(e)} ELSE R(k)
    <3>1. 1 .. k + 1 = (1 .. k) \cup {k + 1}
      BY <2>1
    <3> QED BY <3>1 DEF R, e
  <2>6. w.references = R(k + 1)
    BY <2>2, <2>3, <2>4, <2>5
  <2> QED BY <2>1, <2>4, <2>6 DEF w
<1>5. n \in D
  <2>1. n \in 0 .. n
    BY <1>1
  <2>2. 0 .. n \subseteq D
    <3> HIDE DEF D
    <3> QED BY <1>1, <1>3, <1>4, Induction
  <2> QED BY <2>1, <2>2
<1>6. R(n) = i.references \cup {Reference(e) : e \in Welcome(i, batch)}
  BY <1>1 DEF Welcome, ToSet
<1> QED BY <1>2, <1>5, <1>6

LEMMA AllRemovedIs ==
    ASSUME NEW i, NEW gone, IndexSound(i, gone), NEW events
    PROVE  /\ DOMAIN AllRemoved(i, events).users = DOMAIN i.users
           /\ AllRemoved(i, events).sync = i.sync
           /\ AllRemoved(i, events).references =
                  {r \in i.references : \A e \in events : ~Refers(r, e)}
<1>1. AllRemoved(i, events).references = Kept(i, events) /\ AllRemoved(i, events).sync = i.sync
  BY FilesRemovedLeave
<1>2. DOMAIN AllRemoved(i, events).users = DOMAIN i.users
  BY FilesRemovedCost
<1> QED BY <1>1, <1>2 DEF Kept

-----------------------------------------------------------------------------
(* What is done to a bucket, once more *)

\* c has the users of b, with other files perhaps, and its queue.
SameRest(b, c) == DOMAIN c = Fields /\ DOMAIN c.users = DOMAIN b.users /\ c.sync = b.sync
With(b, files, pending) == b.files = files /\ b.pending = pending

LEMMA RestIsKept ==
    ASSUME NEW b, DOMAIN b = Fields
    PROVE  /\ \A file, status : /\ SameRest(b, WithStatus(b, file, status))
                               /\ With(WithStatus(b, file, status), b.files, b.pending)
           /\ \A file : /\ SameRest(b, Inserted(b, file))
                       /\ With(Inserted(b, file), b.files \cup {file}, b.pending)
           /\ \A file : /\ SameRest(b, NotPending(b, file))
                       /\ With(NotPending(b, file), b.files, b.pending \ {file})
           /\ \A files : /\ SameRest(b, [b EXCEPT !.pending = files])
                        /\ With([b EXCEPT !.pending = files], b.files, files)
           /\ \A files : /\ SameRest(b, Dropped(b, files))
                        /\ With(Dropped(b, files), b.files \ files, b.pending)
           /\ \A events : /\ DOMAIN Tells(b, events) = Fields
                         /\ Tells(b, events).users = b.users
                         /\ Tells(b, events).sync = Enqueued(b.sync, events)
                         /\ With(Tells(b, events), b.files, b.pending)
<1>1. ASSUME NEW file, NEW status
      PROVE  /\ SameRest(b, WithStatus(b, file, status))
             /\ With(WithStatus(b, file, status), b.files, b.pending)
  BY DEF SameRest, With, WithStatus, Fields
<1>2. ASSUME NEW file
      PROVE  /\ SameRest(b, Inserted(b, file))
             /\ With(Inserted(b, file), b.files \cup {file}, b.pending)
  BY DEF SameRest, With, Inserted, Fields
<1>3. ASSUME NEW file
      PROVE  /\ SameRest(b, NotPending(b, file))
             /\ With(NotPending(b, file), b.files, b.pending \ {file})
  BY DEF SameRest, With, NotPending, Fields
<1>4. ASSUME NEW files
      PROVE  /\ SameRest(b, [b EXCEPT !.pending = files])
             /\ With([b EXCEPT !.pending = files], b.files, files)
  BY DEF SameRest, With, Fields
<1>5. ASSUME NEW files
      PROVE  /\ SameRest(b, Dropped(b, files))
             /\ With(Dropped(b, files), b.files \ files, b.pending)
  BY DEF SameRest, With, Dropped, Fields
<1>6. ASSUME NEW events
      PROVE  /\ DOMAIN Tells(b, events) = Fields
             /\ Tells(b, events).users = b.users
             /\ Tells(b, events).sync = Enqueued(b.sync, events)
             /\ With(Tells(b, events), b.files, b.pending)
  BY DEF With, Tells, Fields
<1> QED BY <1>1, <1>2, <1>3, <1>4, <1>5, <1>6

LEMMA RefusedLeaves ==
    ASSUME NEW b, FilesSound(b), NEW ids
    PROVE  /\ SameRest(b, Refused(b, ids))
           /\ Refused(b, ids).files \subseteq b.files
           /\ Refused(b, ids).pending \subseteq b.pending
           /\ \A f \in b.files \cup b.pending :
                  f.id \notin ids => f \in Refused(b, ids).files \cup Refused(b, ids).pending
<1> DEFINE files == {f \in b.files \cup b.pending : f.id \in ids /\ f.owner \in DOMAIN b.users}
           uploading == {f \in files : IsUploading(b, f)}
           rejected(u) == [id \in IdsOf({f \in files : f.owner = u}) |-> "Rejected"]
           marked == [b EXCEPT !.users = [u \in DOMAIN @ |-> rejected(u) @@ @[u]],
                               !.pending = @ \ uploading]
           refused == b.files \cap (files \ uploading)
           c == Refused(b, ids)
<1>1. c = Dropped(marked, refused)
  BY DEF Refused
<1>2. \A f \in uploading \cup refused : f.id \in ids
  OBVIOUS
<1>3. refused \subseteq b.files
  OBVIOUS
<1> HIDE DEF files, uploading, rejected, refused
<1>4. /\ SameRest(b, marked) /\ marked.files = b.files /\ marked.pending = b.pending \ uploading
  BY DEF FilesSound, SameRest, Fields
<1> HIDE DEF marked, c
<1>5. SameRest(marked, c) /\ With(c, marked.files \ refused, marked.pending)
  <2>1. DOMAIN marked = Fields
    BY <1>4 DEF SameRest
  <2> QED BY <1>1, <2>1, RestIsKept, Zenon
<1>6. SameRest(b, c) /\ c.files = b.files \ refused /\ c.pending = b.pending \ uploading
  BY <1>4, <1>5 DEF SameRest, With
<1> QED BY <1>2, <1>6 DEF c

LEMMA UsersAre ==
    ASSUME NEW b, DOMAIN b = Fields, NEW batch
    PROVE  /\ DOMAIN WithUsers(b, batch) = Fields /\ WithUsers(b, batch).sync = b.sync
           /\ DOMAIN WithUsers(b, batch).users = DOMAIN b.users \cup UsersOf(batch, "UserAdded")
           /\ With(WithUsers(b, batch), b.files, b.pending)
           /\ DOMAIN WithoutUsers(b, batch) = Fields /\ WithoutUsers(b, batch).sync = b.sync
           /\ DOMAIN WithoutUsers(b, batch).users \subseteq DOMAIN b.users
           /\ With(WithoutUsers(b, batch),
                   {[f EXCEPT !.accessors = @ \ UsersOf(batch, "AccessorRemoved")] : f \in b.files},
                   b.pending)
<1>1. /\ DOMAIN WithUsers(b, batch) = Fields /\ WithUsers(b, batch).sync = b.sync
      /\ DOMAIN WithUsers(b, batch).users = DOMAIN b.users \cup UsersOf(batch, "UserAdded")
      /\ With(WithUsers(b, batch), b.files, b.pending)
  <2> DEFINE added == UsersOf(batch, "UserAdded")
             users == [u \in DOMAIN b.users \cup added |-> IF u \in added THEN <<>> ELSE b.users[u]]
             c == WithUsers(b, batch)
  <2>1. c = [b EXCEPT !.users = users]
    BY DEF WithUsers
  <2>2. DOMAIN users = DOMAIN b.users \cup added
    OBVIOUS
  <2> HIDE DEF added, users, c
  <2>3. DOMAIN c = Fields /\ c.sync = b.sync /\ c.users = users /\ With(c, b.files, b.pending)
    BY <2>1 DEF Fields, With
  <2> QED BY <2>2, <2>3 DEF c, added
<1>2. /\ DOMAIN WithoutUsers(b, batch) = Fields /\ WithoutUsers(b, batch).sync = b.sync
      /\ DOMAIN WithoutUsers(b, batch).users \subseteq DOMAIN b.users
      /\ With(WithoutUsers(b, batch),
              {[f EXCEPT !.accessors = @ \ UsersOf(batch, "AccessorRemoved")] : f \in b.files},
              b.pending)
  BY DEF WithoutUsers, Fields, With
<1> QED BY <1>1, <1>2

-----------------------------------------------------------------------------
(* The canisters agree *)

Owned(files) == {<<f.id, f.owner>> : f \in files}
Triple(x) == <<x.file, x.owner, x.created>>
Said(kind, events) == {Triple(e) : e \in {x \in events : x.kind = kind}}
Known(references, events) == {Triple(r) : r \in references} \cup Said("FileAdded", events)
Path == Way(to_index, bucket.sync)

\* Whatever is on its way, the index knows, or will know, what the bucket has.
AccountsInv ==
    /\ Accounts(Owned(bucket.files \cup bucket.pending), Known(index.references, ToSet(Path)),
                Said("FileRemoved", ToSet(Path) \cup to_bucket.answer), to_index.answer,
                excused, removed, file_count)
    /\ InOrder(Path)

\* Whoever owns a file is a user, or has been one.
Ever == DOMAIN index.users \cup removed
OwnersInv ==
    /\ DOMAIN bucket.users \subseteq Ever
    /\ \A f \in bucket.files \cup bucket.pending : f.owner \in Ever
    /\ \A e \in ToSet(Path) : e.kind = "FileAdded" => e.owner \in Ever
    /\ \A e \in ToSet(Way(to_bucket, index.sync)) : e.kind = "UserAdded" => e.user \in Ever

\* A canister knows that its call is under way, and keeps nothing to retry then.
CallsInv ==
    /\ {"at", "batch", "answer"} = DOMAIN to_index /\ {"at", "batch", "answer"} = DOMAIN to_bucket
    /\ bucket.sync.in_progress <=> to_index.at # "none"
    /\ index.sync.in_progress <=> to_bucket.at # "none"
    /\ to_index.at # "none" => bucket.sync.args_to_retry = <<>>
    /\ to_bucket.at # "none" => index.sync.args_to_retry = <<>>
    /\ to_index.at # "answered" => to_index.answer = {}
    /\ to_bucket.at # "answered" => to_bucket.answer = {}
    /\ \A e \in to_bucket.answer : e.kind = "FileRemoved"

AgreeInv == BytesInv /\ CallsInv /\ OwnersInv /\ AccountsInv

\* What the bucket does itself, as far as the index is concerned: a file comes, is
\* completed, goes, or vanishes.
Comes(events) ==
    \E user, owner, h, created, size, more :
        /\ user \in DOMAIN bucket.users /\ owner \in Ever
        /\ events = <<FileAdded(file_count + 1, h, owner, created, size)>>
        /\ Owned(bucket'.files \cup bucket'.pending) =
               Owned(bucket.files \cup bucket.pending) \cup {<<file_count + 1, user>>}
        /\ file_count' = file_count + 1 /\ excused' = excused \cup more
        /\ file_count + 1 \in more \/ (owner = user /\ created = file_count + 1)
Completes(events) ==
    /\ events = <<>> /\ UNCHANGED <<file_count, excused>>
    /\ Owned(bucket'.files \cup bucket'.pending) = Owned(bucket.files \cup bucket.pending)
Leaves(events) ==
    \E f \in bucket.files \cup bucket.pending :
        /\ events = <<FileRemoved(f)>> /\ UNCHANGED <<file_count, excused>>
        /\ Owned(bucket'.files \cup bucket'.pending) =
               Owned(bucket.files \cup bucket.pending) \ {<<f.id, f.owner>>}
Vanishes(events) ==
    \E f \in bucket.files \cup bucket.pending :
        /\ events = <<>> /\ file_count' = file_count /\ excused' = excused \cup {f.id}
        /\ Owned(bucket'.files \cup bucket'.pending) =
               Owned(bucket.files \cup bucket.pending) \ {<<f.id, f.owner>>}
BucketStep(events) ==
    /\ bucket'.sync = Enqueued(bucket.sync, events)
    /\ DOMAIN bucket'.users = DOMAIN bucket.users
    /\ UNCHANGED <<index, to_index, to_bucket, removed>>
    /\ Comes(events) \/ Completes(events) \/ Leaves(events) \/ Vanishes(events)

LEMMA OwnedIs ==
    ASSUME NEW files, KnownById(files), NEW f \in files
    PROVE  /\ Owned(files \ {f}) = Owned(files) \ {<<f.id, f.owner>>}
           /\ <<f.id, f.owner>> \in Owned(files)
BY DEF Owned, KnownById

LEMMA NothingEnqueued ==
    ASSUME NEW sync, GoodSync(sync)
    PROVE  Enqueued(sync, <<>>) = sync
<1>1. sync.queue \o <<>> = sync.queue
  BY WithNone, GoodIsSeq DEF GoodSync
<1> QED BY <1>1 DEF Enqueued, GoodSync, IsRecord

LEMMA UploadStartsComes ==
    ASSUME AgreeInv, NEW u \in Users, NEW h \in Hashes, NEW accessors \in SUBSET Accessors,
           NEW size \in Sizes, NEW chunks, UploadStarts(u, h, accessors, size, chunks)
    PROVE  \E events : BucketStep(events)
<1> DEFINE file == File(file_count + 1, u, h, accessors, size)
           events == <<FileAdded(file.id, h, u, file.id, size)>>
           b == Tells(bucket, events)
           up == WithStatus(b, file, "Uploading")
           done == Inserted(b, file)
<1>1. /\ u \in DOMAIN bucket.users /\ file_count' = file_count + 1 /\ excused' = excused
      /\ UNCHANGED <<index, to_index, to_bucket, removed>>
      /\ bucket' = IF chunks = 1 THEN WithStatus(done, file, "Complete")
                   ELSE [up EXCEPT !.pending = @ \cup {file}]
  BY DEF UploadStarts, NewFile, history
<1>2. file.id = file_count + 1 /\ file.owner = u
  BY DEF File
<1>3. DOMAIN bucket = Fields /\ u \in Ever
  BY <1>1 DEF AgreeInv, BytesInv, BucketInv, FilesSound, OwnersInv
<1> HIDE DEF file, events
<1>4. /\ DOMAIN b = Fields /\ b.users = bucket.users /\ b.sync = Enqueued(bucket.sync, events)
      /\ b.files = bucket.files /\ b.pending = bucket.pending
  BY <1>3, RestIsKept DEF With
<1> HIDE DEF b
<1>5. /\ DOMAIN done = Fields /\ DOMAIN done.users = DOMAIN b.users /\ done.sync = b.sync
      /\ done.files = b.files \cup {file} /\ done.pending = b.pending
  BY <1>4, RestIsKept, SMTT(30) DEF With, SameRest
<1>6. /\ DOMAIN up = Fields /\ DOMAIN up.users = DOMAIN b.users /\ up.sync = b.sync
      /\ up.files = b.files /\ up.pending = b.pending
  <2>1. SameRest(b, up) /\ With(up, b.files, b.pending)
    BY <1>4, RestIsKept
  <2> QED BY <2>1 DEF With, SameRest
<1> HIDE DEF done, up
<1>7. /\ DOMAIN bucket'.users = DOMAIN b.users /\ bucket'.sync = b.sync
      /\ bucket'.files \cup bucket'.pending = bucket.files \cup bucket.pending \cup {file}
  <2>1. CASE chunks = 1
    <3>1. /\ SameRest(done, WithStatus(done, file, "Complete"))
          /\ With(WithStatus(done, file, "Complete"), done.files, done.pending)
      BY <1>5, RestIsKept, Zenon
    <3> QED BY <1>1, <1>4, <1>5, <2>1, <3>1 DEF SameRest, With
  <2>2. CASE chunks # 1
    <3> DEFINE c == [up EXCEPT !.pending = @ \cup {file}]
    <3>1. SameRest(up, c) /\ With(c, up.files, up.pending \cup {file})
      BY <1>6, RestIsKept
    <3> HIDE DEF c
    <3>2. bucket' = c
      BY <1>1, <2>2 DEF c
    <3> QED BY <1>4, <1>6, <3>1, <3>2 DEF SameRest, With
  <2> QED BY <2>1, <2>2
<1>8. Owned(bucket'.files \cup bucket'.pending) =
          Owned(bucket.files \cup bucket.pending) \cup {<<file_count + 1, u>>}
  BY <1>2, <1>7 DEF Owned
<1>9. events = <<FileAdded(file_count + 1, h, u, file_count + 1, size)>>
  BY <1>2 DEF events
<1>10. Comes(events)
  <2>1. excused' = excused \cup {}
    BY <1>1
  <2> QED BY <1>1, <1>3, <1>8, <1>9, <2>1 DEF Comes
<1> QED BY <1>1, <1>4, <1>7, <1>10 DEF BucketStep

LEMMA ForwardComes ==
    ASSUME AgreeInv, NEW u \in Users, NEW accessors \in SUBSET Accessors,
           NEW f \in bucket.files, Forward(u, f, accessors)
    PROVE  \E events : BucketStep(events)
<1> DEFINE copy == File(file_count + 1, u, f.hash, accessors, Size[f.hash])
           done == Inserted(bucket, copy)
           d == WithStatus(done, copy, "Complete")
           events == <<FileAdded(copy.id, f.hash, f.owner, f.id, Size[f.hash])>>
<1>1. /\ u \in DOMAIN bucket.users /\ file_count' = file_count + 1
      /\ excused' = excused \cup {copy.id} /\ bucket' = Tells(d, events)
      /\ UNCHANGED <<index, to_index, to_bucket, removed>>
  BY DEF Forward, NewFile
<1>2. copy.id = file_count + 1 /\ copy.owner = u
  BY DEF File
<1>3. DOMAIN bucket = Fields /\ f.owner \in Ever
  BY DEF AgreeInv, BytesInv, BucketInv, FilesSound, OwnersInv
<1> HIDE DEF copy, events
<1>4. SameRest(bucket, done) /\ With(done, bucket.files \cup {copy}, bucket.pending)
  BY <1>3, RestIsKept, Zenon
<1> HIDE DEF done
<1>5. SameRest(done, d) /\ With(d, done.files, done.pending)
  BY <1>4, RestIsKept DEF SameRest
<1> HIDE DEF d
<1>6. /\ bucket'.users = d.users /\ bucket'.sync = Enqueued(d.sync, events)
      /\ With(bucket', d.files, d.pending)
  <2>1. DOMAIN d = Fields
    BY <1>5 DEF SameRest
  <2> QED BY <1>1, <2>1, RestIsKept
<1>7. /\ DOMAIN bucket'.users = DOMAIN bucket.users
      /\ bucket'.sync = Enqueued(bucket.sync, events)
      /\ bucket'.files \cup bucket'.pending = bucket.files \cup bucket.pending \cup {copy}
  BY <1>4, <1>5, <1>6 DEF SameRest, With
<1>8. Owned(bucket'.files \cup bucket'.pending) =
          Owned(bucket.files \cup bucket.pending) \cup {<<file_count + 1, u>>}
  BY <1>2, <1>7 DEF Owned
<1>9. events = <<FileAdded(file_count + 1, f.hash, f.owner, f.id, Size[f.hash])>>
  BY <1>2 DEF events
<1>10. Comes(events)
  <2>1. file_count + 1 \in {copy.id}
    BY <1>2
  <2> QED BY <1>1, <1>3, <1>8, <1>9, <2>1 DEF Comes
<1> QED BY <1>1, <1>7, <1>10 DEF BucketStep

LEMMA UploadEndsLeaves ==
    ASSUME AgreeInv, NEW f \in bucket.pending, UploadEnds(f)
    PROVE  \E events : BucketStep(events)
<1> DEFINE b == NotPending(bucket, f)
           done == Inserted(b, f)
           up == WithStatus(done, f, "Complete")
           gone == WithStatus(b, f, "Rejected")
           all == bucket.files \cup bucket.pending
           event == FileRemoved(f)
<1>1. /\ UNCHANGED <<index, to_index, to_bucket, removed, file_count>>
      /\ \/ bucket' = up /\ excused' = excused
         \/ bucket' = Tells(gone, <<event>>) /\ excused' = excused
         \/ bucket' = gone /\ excused' = excused \cup {f.id}
  BY DEF UploadEnds, UploadCompletes, UploadMismatches, UploadExpires, bounds
<1>2. /\ DOMAIN bucket = Fields /\ KnownById(all) /\ GoodSync(bucket.sync)
      /\ f \notin bucket.files /\ f \in all
  BY DEF AgreeInv, BytesInv, BucketInv, FilesSound
<1>3. Owned(all \ {f}) = Owned(all) \ {<<f.id, f.owner>>}
  BY <1>2, OwnedIs
<1>4. Enqueued(bucket.sync, <<>>) = bucket.sync
  BY <1>2, NothingEnqueued
<1>5. SameRest(bucket, b) /\ With(b, bucket.files, bucket.pending \ {f})
  BY <1>2, RestIsKept, Zenon
<1> HIDE DEF b, event
<1>6. SameRest(b, done) /\ With(done, b.files \cup {f}, b.pending)
  BY <1>5, RestIsKept, Zenon DEF SameRest
<1>7. SameRest(b, gone) /\ With(gone, b.files, b.pending)
  BY <1>5, RestIsKept DEF SameRest
<1> HIDE DEF done, gone
<1>8. SameRest(done, up) /\ With(up, done.files, done.pending)
  BY <1>6, RestIsKept DEF SameRest
<1> HIDE DEF up
<1>9. CASE bucket' = up /\ excused' = excused
  <2>1. /\ DOMAIN bucket'.users = DOMAIN bucket.users /\ bucket'.sync = bucket.sync
        /\ bucket'.files \cup bucket'.pending = all
    BY <1>2, <1>5, <1>6, <1>8, <1>9 DEF SameRest, With
  <2>2. Completes(<<>>)
    BY <1>1, <1>9, <2>1 DEF Completes
  <2> QED BY <1>1, <1>4, <2>1, <2>2 DEF BucketStep
<1>10. /\ DOMAIN gone = Fields /\ DOMAIN gone.users = DOMAIN bucket.users
       /\ gone.sync = bucket.sync /\ gone.files \cup gone.pending = all \ {f}
  BY <1>2, <1>5, <1>7 DEF SameRest, With
<1>11. CASE bucket' = Tells(gone, <<event>>) /\ excused' = excused
  <2>1. /\ bucket'.users = gone.users /\ bucket'.sync = Enqueued(gone.sync, <<event>>)
        /\ With(bucket', gone.files, gone.pending)
    BY <1>10, <1>11, RestIsKept
  <2>2. bucket'.files \cup bucket'.pending = all \ {f}
    BY <1>10, <2>1 DEF With
  <2>3. Leaves(<<event>>)
    BY <1>1, <1>2, <1>3, <1>11, <2>2 DEF Leaves, event
  <2> QED BY <1>1, <1>10, <2>1, <2>3 DEF BucketStep
<1>12. CASE bucket' = gone /\ excused' = excused \cup {f.id}
  <2>1. Vanishes(<<>>)
    BY <1>1, <1>2, <1>3, <1>10, <1>12 DEF Vanishes
  <2> QED BY <1>1, <1>4, <1>10, <1>12, <2>1 DEF BucketStep
<1> QED BY <1>1, <1>9, <1>11, <1>12

LEMMA FileGoesLeaves ==
    ASSUME AgreeInv, NEW f \in bucket.files, FileGoes(f)
    PROVE  \E events : BucketStep(events)
<1> DEFINE c == Dropped(bucket, {f})
           all == bucket.files \cup bucket.pending
           event == FileRemoved(f)
<1>1. /\ UNCHANGED <<index, to_index, to_bucket, removed, file_count, excused>>
      /\ bucket' = Tells(c, <<event>>)
  BY DEF FileGoes, bounds, history
<1>2. /\ DOMAIN bucket = Fields /\ KnownById(all) /\ f \notin bucket.pending /\ f \in all
  BY DEF AgreeInv, BytesInv, BucketInv, FilesSound
<1>3. Owned(all \ {f}) = Owned(all) \ {<<f.id, f.owner>>}
  BY <1>2, OwnedIs
<1>4. SameRest(bucket, c) /\ With(c, bucket.files \ {f}, bucket.pending)
  BY <1>2, RestIsKept, Zenon
<1> HIDE DEF c, event
<1>5. /\ bucket'.users = c.users /\ bucket'.sync = Enqueued(c.sync, <<event>>)
      /\ With(bucket', c.files, c.pending)
  <2>1. DOMAIN c = Fields
    BY <1>4 DEF SameRest
  <2> QED BY <1>1, <2>1, RestIsKept
<1>6. bucket'.files \cup bucket'.pending = all \ {f}
  BY <1>2, <1>4, <1>5 DEF With
<1>7. Leaves(<<event>>)
  BY <1>1, <1>2, <1>3, <1>6 DEF Leaves, event
<1> QED BY <1>1, <1>4, <1>5, <1>7 DEF BucketStep, SameRest

LEMMA AtBucketIs ==
    ASSUME AgreeInv, AtBucket
    PROVE  \E events : BucketStep(events)
<1>1. CASE \E u \in Users, accessors \in SUBSET Accessors :
               \E h \in Hashes, size \in Sizes, chunks \in {1, 2} :
                  UploadStarts(u, h, accessors, size, chunks)
  BY <1>1, UploadStartsComes
<1>2. CASE \E u \in Users, accessors \in SUBSET Accessors :
               \E f \in bucket.files : Forward(u, f, accessors)
  BY <1>2, ForwardComes
<1>3. CASE \E f \in bucket.pending : UploadEnds(f)
  BY <1>3, UploadEndsLeaves
<1>4. CASE \E f \in bucket.files : FileGoes(f)
  BY <1>4, FileGoesLeaves
<1> QED BY <1>1, <1>2, <1>3, <1>4, Zenon DEF AtBucket

LEMMA SaidIs ==
    /\ \A kind, A, B : Said(kind, A \cup B) = Said(kind, A) \cup Said(kind, B)
    /\ \A kind : Said(kind, {}) = {}
    /\ \A file, h, owner, created, size :
           /\ Said("FileAdded", {FileAdded(file, h, owner, created, size)}) = {<<file, owner, created>>}
           /\ Said("FileRemoved", {FileAdded(file, h, owner, created, size)}) = {}
    /\ \A f : /\ Said("FileRemoved", {FileRemoved(f)}) = {Removal(<<f.id, f.owner>>)}
             /\ Said("FileAdded", {FileRemoved(f)}) = {}
<1>1. \A kind, A, B : Said(kind, A \cup B) = Said(kind, A) \cup Said(kind, B)
  BY DEF Said
<1>2. \A kind : Said(kind, {}) = {}
  BY DEF Said
<1>3. ASSUME NEW file, NEW h, NEW owner, NEW created, NEW size
      PROVE  /\ Said("FileAdded", {FileAdded(file, h, owner, created, size)}) = {<<file, owner, created>>}
             /\ Said("FileRemoved", {FileAdded(file, h, owner, created, size)}) = {}
  <2> DEFINE e == FileAdded(file, h, owner, created, size)
  <2>1. e.kind = "FileAdded" /\ Triple(e) = <<file, owner, created>>
    BY DEF FileAdded, Triple
  <2> HIDE DEF e
  <2>2. Said("FileAdded", {e}) = {Triple(e)} /\ Said("FileRemoved", {e}) = {}
    BY <2>1 DEF Said
  <2> QED BY <2>1, <2>2 DEF e
<1>4. ASSUME NEW f
      PROVE  /\ Said("FileRemoved", {FileRemoved(f)}) = {Removal(<<f.id, f.owner>>)}
             /\ Said("FileAdded", {FileRemoved(f)}) = {}
  <2> DEFINE e == FileRemoved(f)
  <2>1. e.kind = "FileRemoved" /\ Triple(e) = Removal(<<f.id, f.owner>>)
    BY DEF FileRemoved, Triple, Removal
  <2> HIDE DEF e
  <2>2. Said("FileRemoved", {e}) = {Triple(e)} /\ Said("FileAdded", {e}) = {}
    BY <2>1 DEF Said
  <2> QED BY <2>1, <2>2 DEF e
<1> QED BY <1>1, <1>2, <1>3, <1>4

LEMMA TriplesAre ==
    ASSUME NEW R, NEW E
    PROVE  \A k \in Known(R, E) : k = <<k[1], k[2], k[3]>>
BY DEF Known, Said, Triple

LEMMA OwnedById ==
    ASSUME NEW files, KnownById(files)
    PROVE  \A p, q \in Owned(files) : p[1] = q[1] => p = q
BY DEF Owned, KnownById

\* What the invariant says, of a bucket's step for a start.
LEMMA AgreeInvHas ==
    ASSUME AgreeInv
    PROVE  /\ DOMAIN bucket = Fields /\ KnownById(bucket.files \cup bucket.pending)
           /\ GoodSync(bucket.sync) /\ GoodSync(index.sync) /\ IndexSound(index, removed)
           /\ GoodBatch(to_index.batch) /\ GoodBatch(to_bucket.batch)
           /\ {"at", "batch", "answer"} = DOMAIN to_index
           /\ {"at", "batch", "answer"} = DOMAIN to_bucket
           /\ IsSeq(Path) /\ IsSeq(Way(to_bucket, index.sync)) /\ file_count \in Nat
BY WayIs DEF AgreeInv, BytesInv, BucketInv, FilesSound, IndexSound, CallsInv, Path

LEMMA BucketStepKeepsAccounts ==
    ASSUME AgreeInv, NEW events, BucketStep(events)
    PROVE  AccountsInv'
<1> DEFINE P == Owned(bucket.files \cup bucket.pending)
           K == Known(index.references, ToSet(Path))
           G == Said("FileRemoved", ToSet(Path) \cup to_bucket.answer)
           Q == Owned(bucket'.files \cup bucket'.pending)
           L == Known(index'.references, ToSet(Path'))
           H == Said("FileRemoved", ToSet(Path') \cup to_bucket'.answer)
           refused == to_index.answer
           n == file_count
<1>1. /\ KnownById(bucket.files \cup bucket.pending) /\ GoodSync(bucket.sync)
      /\ GoodBatch(to_index.batch) /\ IsSeq(Path) /\ file_count \in Nat
      /\ "at" \in DOMAIN to_index /\ "batch" \in DOMAIN to_index
  BY AgreeInvHas
<1>2. Accounts(P, K, G, refused, excused, removed, n) /\ InOrder(Path)
  BY DEF AgreeInv, AccountsInv
<1>3. /\ bucket'.sync = Enqueued(bucket.sync, events)
      /\ UNCHANGED <<index, to_index, to_bucket, removed>>
      /\ Comes(events) \/ Completes(events) \/ Leaves(events) \/ Vanishes(events)
  BY DEF BucketStep
<1>4. IsSeq(events)
  BY <1>3, OneSeq, NoneSeq DEF Comes, Completes, Leaves, Vanishes
<1>5. Path' = Path \o events
  <2>1. Way(to_index, Enqueued(bucket.sync, events)) = Way(to_index, bucket.sync) \o events
    BY <1>1, <1>4, WayStays
  <2> QED BY <1>3, <2>1 DEF Path
<1>6. ToSet(Path') = ToSet(Path) \cup ToSet(events)
  BY <1>1, <1>4, <1>5, ConcatIs
<1>7. L = K \cup Said("FileAdded", ToSet(events)) /\ H = G \cup Said("FileRemoved", ToSet(events))
  <2>1. L = K \cup Said("FileAdded", ToSet(events))
    <3>1. L = Known(index.references, ToSet(Path) \cup ToSet(events))
      BY <1>3, <1>6
    <3>2. Known(index.references, ToSet(Path) \cup ToSet(events))
              = Known(index.references, ToSet(Path)) \cup Said("FileAdded", ToSet(events))
      <4> DEFINE R == index.references
                 A == ToSet(Path)
                 B == ToSet(events)
      <4> HIDE DEF R, A, B
      <4>1. Known(R, A \cup B) = Known(R, A) \cup Said("FileAdded", B)
        BY DEF Known, Said
      <4> QED BY <4>1 DEF R, A, B
    <3> QED BY <3>1, <3>2
  <2>2. ToSet(Path') \cup to_bucket'.answer = (ToSet(Path) \cup to_bucket.answer) \cup ToSet(events)
    BY <1>3, <1>6
  <2>3. H = G \cup Said("FileRemoved", ToSet(events))
    BY <2>2, SaidIs
  <2> QED BY <2>1, <2>3
<1>8. \A k \in K : k = <<k[1], k[2], k[3]>>
  BY TriplesAre
<1>9. \A p, q \in P : p[1] = q[1] => p = q
  BY <1>1, OwnedById
<1>10. \A d \in ToSet(Path) : d.kind = "FileRemoved" => d.file \in 0 .. n
  <2> SUFFICES ASSUME NEW d \in ToSet(Path), d.kind = "FileRemoved" PROVE d.file \in 0 .. n
    OBVIOUS
  <2>1. Triple(d) \in G /\ Triple(d)[1] = d.file
    BY DEF Said, Triple
  <2> HIDE DEF P, K, G
  <2> QED BY <1>2, <2>1 DEF Accounts
<1> HIDE DEF P, K, G, Q, L, H
<1> SUFFICES Accounts(Q, L, H, refused, excused', removed, file_count') /\ InOrder(Path')
  BY <1>3 DEF AccountsInv, Q, L, H
<1>11. CASE Comes(events)
  <2>1. PICK user, owner, h, created, size, more :
            /\ events = <<FileAdded(n + 1, h, owner, created, size)>>
            /\ Q = P \cup {<<n + 1, user>>}
            /\ file_count' = n + 1 /\ excused' = excused \cup more
            /\ n + 1 \in more \/ (owner = user /\ created = n + 1)
    BY <1>11 DEF Comes, P, Q
  <2> DEFINE e == FileAdded(n + 1, h, owner, created, size)
  <2>2. ToSet(events) = {e} /\ e.file = n + 1
    BY <2>1, OneSeq DEF FileAdded
  <2>3. L = K \cup {<<n + 1, owner, created>>} /\ H = G
    BY <1>7, <2>2, SaidIs
  <2>4. Accounts(Q, L, H, refused, excused', removed, n + 1)
    BY <1>1, <1>2, <2>1, <2>3, FileComes
  <2>5. InOrder(Path')
    <3> HIDE DEF e
    <3>1. \A d \in ToSet(Path) : d.kind = "FileRemoved" => d.file # e.file
      BY <1>1, <1>10, <2>2
    <3>2. events = <<e>>
      BY <2>1 DEF e
    <3> QED BY <1>1, <1>2, <1>4, <1>5, <3>1, <3>2, OrderedAppend
  <2> QED BY <2>1, <2>4, <2>5
<1>12. ASSUME \A e \in ToSet(events) : e.kind # "FileAdded"
       PROVE  InOrder(Path')
  BY <1>1, <1>2, <1>4, <1>5, <1>12, OrderedAppend
<1>13. CASE Completes(events)
  <2>1. events = <<>> /\ Q = P /\ UNCHANGED <<file_count, excused>>
    BY <1>13 DEF Completes, P, Q
  <2>2. ToSet(events) = {}
    BY <2>1, NoneSeq
  <2>3. L = K /\ H = G
    BY <1>7, <2>2, SaidIs
  <2> QED BY <1>2, <1>12, <2>1, <2>2, <2>3
<1>14. CASE Leaves(events)
  <2>1. PICK f \in bucket.files \cup bucket.pending :
            /\ events = <<FileRemoved(f)>> /\ UNCHANGED <<file_count, excused>>
            /\ Q = P \ {<<f.id, f.owner>>}
    BY <1>14 DEF Leaves, P, Q
  <2> DEFINE p == <<f.id, f.owner>>
  <2>2. ToSet(events) = {FileRemoved(f)}
    BY <2>1, OneSeq
  <2>3. L = K /\ H = G \cup {Removal(p)}
    BY <1>7, <2>2, SaidIs
  <2>4. p \in P
    BY DEF P, Owned
  <2>5. InOrder(Path')
    BY <1>12, <2>2 DEF FileRemoved
  <2> HIDE DEF p
  <2>6. Accounts(P \ {p}, K, G \cup {Removal(q) : q \in {p}}, refused, excused, removed, n)
    BY <1>2, <1>8, <1>9, <2>4, FilesGo
  <2>7. {Removal(q) : q \in {p}} = {Removal(p)}
    OBVIOUS
  <2> QED BY <2>1, <2>3, <2>5, <2>6, <2>7 DEF p
<1>15. CASE Vanishes(events)
  <2>1. PICK f \in bucket.files \cup bucket.pending :
            /\ events = <<>> /\ file_count' = n /\ excused' = excused \cup {f.id}
            /\ Q = P \ {<<f.id, f.owner>>}
    BY <1>15 DEF Vanishes, P, Q
  <2>2. ToSet(events) = {}
    BY <2>1, NoneSeq
  <2>3. L = K /\ H = G
    BY <1>7, <2>2, SaidIs
  <2>4. \A p \in P \ Q : p[1] \in excused \cup {f.id}
    BY <2>1
  <2>5. Accounts(Q, K, G, refused, excused \cup {f.id}, removed, n)
    BY <1>2, <2>1, <2>4, FilesVanish
  <2> QED BY <1>12, <2>1, <2>2, <2>3, <2>5
<1> QED BY <1>3, <1>11, <1>13, <1>14, <1>15

LEMMA BucketStepKeepsOwners ==
    ASSUME AgreeInv, NEW events, BucketStep(events)
    PROVE  OwnersInv' /\ CallsInv'
<1> DEFINE all == bucket.files \cup bucket.pending
<1>1. /\ GoodSync(bucket.sync) /\ GoodBatch(to_index.batch) /\ IsSeq(Path)
      /\ "at" \in DOMAIN to_index /\ "batch" \in DOMAIN to_index
  BY AgreeInvHas
<1>2. OwnersInv /\ CallsInv
  BY DEF AgreeInv
<1>3. /\ bucket'.sync = Enqueued(bucket.sync, events) /\ DOMAIN bucket'.users = DOMAIN bucket.users
      /\ UNCHANGED <<index, to_index, to_bucket, removed>>
      /\ Comes(events) \/ Completes(events) \/ Leaves(events) \/ Vanishes(events)
  BY DEF BucketStep
<1>4. IsSeq(events) /\ \A e \in ToSet(events) : e.kind = "FileAdded" => e.owner \in Ever
  <2>1. CASE Comes(events)
    <3>1. PICK owner, h, created, size :
              owner \in Ever /\ events = <<FileAdded(file_count + 1, h, owner, created, size)>>
      BY <2>1 DEF Comes
    <3> QED BY <3>1, OneSeq DEF FileAdded
  <2>2. CASE Leaves(events)
    <3>1. PICK f : events = <<FileRemoved(f)>>
      BY <2>2 DEF Leaves
    <3> QED BY <3>1, OneSeq DEF FileRemoved
  <2>3. CASE Completes(events) \/ Vanishes(events)
    BY <2>3, NoneSeq DEF Completes, Vanishes
  <2> QED BY <1>3, <2>1, <2>2, <2>3
<1>5. Path' = Path \o events
  <2>1. Way(to_index, Enqueued(bucket.sync, events)) = Way(to_index, bucket.sync) \o events
    BY <1>1, <1>4, WayStays
  <2> QED BY <1>3, <2>1 DEF Path
<1>6. ToSet(Path') = ToSet(Path) \cup ToSet(events)
  BY <1>1, <1>4, <1>5, ConcatIs
<1> DEFINE more == bucket'.files \cup bucket'.pending
<1>7. \A p \in Owned(more) : p \in Owned(all) \/ p[2] \in DOMAIN bucket.users
  <2> HIDE DEF all, more
  <2>1. CASE Comes(events)
    <3>1. PICK user \in DOMAIN bucket.users : Owned(more) = Owned(all) \cup {<<file_count + 1, user>>}
      BY <2>1 DEF Comes, all, more
    <3> QED BY <3>1
  <2>2. CASE Completes(events)
    BY <2>2 DEF Completes, all, more
  <2>3. CASE Leaves(events) \/ Vanishes(events)
    <3>1. Owned(more) \subseteq Owned(all)
      BY <2>3 DEF Leaves, Vanishes, all, more
    <3> QED BY <3>1
  <2> QED BY <1>3, <2>1, <2>2, <2>3
<1>8. \A f \in more : f.owner \in Ever
  <2>1. \A f \in all : f.owner \in Ever
    BY <1>2 DEF OwnersInv
  <2>2. DOMAIN bucket.users \subseteq Ever
    BY <1>2 DEF OwnersInv
  <2> HIDE DEF all, more
  <2>3. \A p \in Owned(all) : p[2] \in Ever
    BY <2>1 DEF Owned
  <2>4. \A p \in Owned(more) : p[2] \in Ever
    BY <1>7, <2>2, <2>3
  <2>5. ASSUME NEW f \in more PROVE f.owner \in Ever
    <3>1. <<f.id, f.owner>> \in Owned(more) /\ <<f.id, f.owner>>[2] = f.owner
      BY DEF Owned
    <3> QED BY <2>4, <3>1
  <2> QED BY <2>5
<1>9. OwnersInv'
  <2>1. Ever' = Ever
    BY <1>3 DEF Ever
  <2> QED BY <1>2, <1>3, <1>4, <1>6, <1>8, <2>1 DEF OwnersInv
<1>10. bucket'.sync.in_progress = bucket.sync.in_progress
       /\ bucket'.sync.args_to_retry = bucket.sync.args_to_retry
  BY <1>1, <1>3 DEF Enqueued, GoodSync, IsRecord
<1>11. CallsInv'
  BY <1>2, <1>3, <1>10 DEF CallsInv
<1> QED BY <1>9, <1>11

-----------------------------------------------------------------------------
(* The other steps *)

\* The index's users change.
LEMMA AtIndexKeepsAgree ==
    ASSUME AgreeInv, AtIndex
    PROVE  CallsInv' /\ OwnersInv' /\ AccountsInv'
<1> DEFINE Asks(event, user) ==
              /\ DOMAIN index' = DOMAIN index /\ index'.references = index.references
              /\ index'.sync = Enqueued(index.sync, <<event>>)
              /\ event.kind = "UserAdded" => event.user \in Ever'
              /\ Ever \subseteq Ever'
              /\ removed' = removed \/ removed' = removed \cup {user}
              /\ UNCHANGED <<bucket, to_index, to_bucket, file_count, excused>>
<1>1. DOMAIN index = {"users", "references", "sizes", "sync"}
  BY AgreeInvHas DEF IndexSound, IsRecord, IndexFields
<1>2. PICK event, user : Asks(event, user)
  <2>1. ASSUME NEW user \in Users, AddUser(user)
        PROVE  Asks(UserEvent("UserAdded", user), user)
    <3> DEFINE users == [u \in DOMAIN index.users \cup {user} |-> IF u = user THEN 0 ELSE index.users[u]]
               event == UserEvent("UserAdded", user)
    <3>1. /\ index' = [index EXCEPT !.users = users, !.sync = Enqueued(@, <<event>>)]
          /\ UNCHANGED <<bucket, to_index, to_bucket, file_count, excused, removed>>
      BY <2>1 DEF AddUser, ChangesUsers, history
    <3>2. DOMAIN users = DOMAIN index.users \cup {user}
      OBVIOUS
    <3>3. event.user = user
      BY DEF UserEvent
    <3> HIDE DEF users, event
    <3>4. /\ DOMAIN index' = DOMAIN index /\ index'.references = index.references
          /\ index'.sync = Enqueued(index.sync, <<event>>) /\ index'.users = users
      BY <1>1, <3>1
    <3>5. Ever' = Ever \cup {user}
      BY <3>1, <3>2, <3>4 DEF Ever
    <3> QED BY <3>1, <3>3, <3>4, <3>5 DEF event
  <2>2. ASSUME NEW user \in Users, RemoveUser(user)
        PROVE  Asks(UserEvent("UserRemoved", user), user)
    <3> DEFINE users == [u \in DOMAIN index.users \ {user} |-> index.users[u]]
               event == UserEvent("UserRemoved", user)
    <3>1. /\ index' = [index EXCEPT !.users = users, !.sync = Enqueued(@, <<event>>)]
          /\ removed' = removed \cup {user}
          /\ UNCHANGED <<bucket, to_index, to_bucket, file_count, excused>>
      BY <2>2 DEF RemoveUser, ChangesUsers
    <3>2. DOMAIN users = DOMAIN index.users \ {user}
      OBVIOUS
    <3>3. event.kind # "UserAdded"
      BY DEF UserEvent
    <3> HIDE DEF users, event
    <3>4. /\ DOMAIN index' = DOMAIN index /\ index'.references = index.references
          /\ index'.sync = Enqueued(index.sync, <<event>>) /\ index'.users = users
      BY <1>1, <3>1
    <3>5. Ever \subseteq Ever'
      BY <3>1, <3>2, <3>4 DEF Ever
    <3> QED BY <3>1, <3>3, <3>4, <3>5 DEF event
  <2>3. ASSUME NEW a \in Accessors, RemoveAccessor(a)
        PROVE  Asks(UserEvent("AccessorRemoved", a), a)
    <3> DEFINE event == UserEvent("AccessorRemoved", a)
    <3>1. /\ index' = [index EXCEPT !.sync = Enqueued(@, <<event>>)]
          /\ UNCHANGED <<bucket, to_index, to_bucket, file_count, excused, removed>>
      BY <2>3 DEF RemoveAccessor, ChangesUsers, history
    <3>2. event.kind # "UserAdded"
      BY DEF UserEvent
    <3> HIDE DEF event
    <3>3. /\ DOMAIN index' = DOMAIN index /\ index'.references = index.references
          /\ index'.sync = Enqueued(index.sync, <<event>>) /\ index'.users = index.users
      BY <1>1, <3>1
    <3>4. Ever' = Ever
      BY <3>1, <3>3 DEF Ever
    <3> QED BY <3>1, <3>2, <3>3, <3>4 DEF event
  <2> HIDE DEF Asks
  <2> QED BY <2>1, <2>2, <2>3 DEF AtIndex
<1>3. /\ GoodSync(index.sync) /\ GoodBatch(to_bucket.batch) /\ IsSeq(Way(to_bucket, index.sync))
      /\ "at" \in DOMAIN to_bucket /\ "batch" \in DOMAIN to_bucket
  BY AgreeInvHas
<1>4. Path' = Path
  BY <1>2 DEF Path
<1>5. AccountsInv'
  <2>1. CASE removed' = removed
    BY <1>2, <1>4, <2>1 DEF AgreeInv, AccountsInv
  <2>2. CASE removed' = removed \cup {user}
    <3>1. Accounts(Owned(bucket.files \cup bucket.pending), Known(index.references, ToSet(Path)),
                   Said("FileRemoved", ToSet(Path) \cup to_bucket.answer), to_index.answer,
                   excused, removed \cup {user}, file_count)
      BY UserGoes DEF AgreeInv, AccountsInv
    <3> QED BY <1>2, <1>4, <2>2, <3>1 DEF AgreeInv, AccountsInv
  <2> QED BY <1>2, <2>1, <2>2
<1>6. ToSet(Way(to_bucket', index'.sync)) = ToSet(Way(to_bucket, index.sync)) \cup {event}
  <2>1. IsSeq(<<event>>) /\ ToSet(<<event>>) = {event}
    BY OneSeq
  <2> DEFINE w == Way(to_bucket, index.sync)
             t == <<event>>
  <2>2. Way(to_bucket, Enqueued(index.sync, t)) = w \o t
    <3>1. IsSeq(t)
      BY <2>1
    <3> HIDE DEF t
    <3> QED BY <1>3, <3>1, WayStays
  <2>3. ToSet(w \o t) = ToSet(w) \cup ToSet(t)
    <3>1. IsSeq(w) /\ IsSeq(t)
      BY <1>3, <2>1
    <3> HIDE DEF w, t
    <3> QED BY <3>1, ConcatIs
  <2> QED BY <1>2, <2>1, <2>2, <2>3
<1>7. OwnersInv'
  BY <1>2, <1>4, <1>6 DEF AgreeInv, OwnersInv
<1>8. index'.sync.in_progress = index.sync.in_progress
      /\ index'.sync.args_to_retry = index.sync.args_to_retry
  BY <1>2, <1>3 DEF Enqueued, GoodSync, IsRecord
<1>9. CallsInv'
  BY <1>2, <1>8 DEF AgreeInv, CallsInv
<1> QED BY <1>5, <1>7, <1>9

\* A call starts or fails: what is on its way stays there.
LEMMA CallsKeepAgree ==
    ASSUME AgreeInv, BucketSyncs \/ CallToIndexRejected \/ IndexSyncs \/ CallToBucketRejected
    PROVE  CallsInv' /\ OwnersInv' /\ AccountsInv'
<1> DEFINE Told == Way(to_bucket, index.sync)
<1>1. /\ GoodSync(bucket.sync) /\ GoodSync(index.sync)
      /\ GoodBatch(to_index.batch) /\ GoodBatch(to_bucket.batch)
      /\ {"at", "batch", "answer"} = DOMAIN to_index
      /\ {"at", "batch", "answer"} = DOMAIN to_bucket
      /\ DOMAIN bucket = Fields /\ DOMAIN index = {"users", "references", "sizes", "sync"}
  BY AgreeInvHas DEF IndexSound, IsRecord, IndexFields
<1>2. CallsInv /\ OwnersInv /\ AccountsInv
  BY DEF AgreeInv
<1>3. /\ NoCall.at = "none" /\ NoCall.answer = {} /\ DOMAIN NoCall = {"at", "batch", "answer"}
      /\ \A batch : /\ Asked(batch).at = "asked" /\ Asked(batch).answer = {}
                   /\ DOMAIN Asked(batch) = {"at", "batch", "answer"}
  BY DEF NoCall, Asked
<1>4. ASSUME NEW sync, bucket' = [bucket EXCEPT !.sync = sync]
      PROVE  /\ bucket'.sync = sync /\ bucket'.users = bucket.users
             /\ bucket'.files = bucket.files /\ bucket'.pending = bucket.pending
  BY <1>1, <1>4 DEF Fields
<1>5. ASSUME NEW sync, index' = [index EXCEPT !.sync = sync]
      PROVE  index'.sync = sync /\ index'.users = index.users /\ index'.references = index.references
  BY <1>1, <1>5
<1>6. CASE BucketSyncs \/ CallToIndexRejected
  <2>1. /\ UNCHANGED <<index, to_bucket, excused, removed, file_count>>
        /\ bucket'.users = bucket.users
        /\ bucket'.files = bucket.files /\ bucket'.pending = bucket.pending
        /\ \/ /\ ~bucket.sync.in_progress /\ bucket'.sync = Started(bucket.sync)
              /\ to_index' = Asked(NextBatch(bucket.sync))
           \/ /\ to_index.at = "asked" /\ to_index' = NoCall
              /\ bucket'.sync = Failed(bucket.sync, to_index.batch)
    <3>1. CASE BucketSyncs
      BY <1>4, <3>1 DEF BucketSyncs, CanSync, bounds, history
    <3>2. CASE CallToIndexRejected
      BY <1>4, <3>2 DEF CallToIndexRejected, history
    <3> QED BY <1>6, <3>1, <3>2
  <2>2. /\ to_index.answer = {} /\ to_index'.answer = {}
        /\ Way(to_index', bucket'.sync) = Way(to_index, bucket.sync)
        /\ DOMAIN to_index' = {"at", "batch", "answer"}
        /\ to_index'.at # "answered"
        /\ bucket'.sync.in_progress <=> to_index'.at # "none"
        /\ to_index'.at # "none" => bucket'.sync.args_to_retry = <<>>
    <3>1. CASE /\ ~bucket.sync.in_progress /\ bucket'.sync = Started(bucket.sync)
               /\ to_index' = Asked(NextBatch(bucket.sync))
      <4>1. to_index.at = "none"
        BY <1>2, <3>1 DEF CallsInv
      <4>2. Way(to_index', bucket'.sync) = Way(to_index, bucket.sync)
        <5>1. Way(Asked(NextBatch(bucket.sync)), Started(bucket.sync)) = Way(to_index, bucket.sync)
          BY <1>1, <4>1, WayStays
        <5> QED BY <3>1, <5>1
      <4>3. bucket'.sync.in_progress = TRUE /\ bucket'.sync.args_to_retry = <<>>
        BY <1>1, <3>1, StartedTakes
      <4> QED BY <1>2, <1>3, <3>1, <4>1, <4>2, <4>3 DEF CallsInv
    <3>2. CASE /\ to_index.at = "asked" /\ to_index' = NoCall
               /\ bucket'.sync = Failed(bucket.sync, to_index.batch)
      <4>1. bucket.sync.args_to_retry = <<>>
        BY <1>2, <3>2 DEF CallsInv
      <4>2. Way(to_index', bucket'.sync) = Way(to_index, bucket.sync)
        <5>1. to_index.at = "asked"
          BY <3>2
        <5>2. Way(NoCall, Failed(bucket.sync, to_index.batch)) = Way(to_index, bucket.sync)
          BY <1>1, <4>1, <5>1, WayStays
        <5> QED BY <3>2, <5>2
      <4>3. bucket'.sync.in_progress = FALSE
        BY <1>1, <3>2 DEF Failed, GoodSync, IsRecord
      <4> QED BY <1>2, <1>3, <3>2, <4>2, <4>3 DEF CallsInv
    <3> QED BY <2>1, <3>1, <3>2
  <2>3. Path' = Path /\ Ever' = Ever
    BY <2>1, <2>2 DEF Path, Ever
  <2>4. AccountsInv'
    BY <1>2, <2>1, <2>2, <2>3 DEF AccountsInv
  <2>5. OwnersInv'
    BY <1>2, <2>1, <2>2, <2>3 DEF OwnersInv
  <2>6. CallsInv'
    BY <1>2, <2>1, <2>2 DEF CallsInv
  <2> QED BY <2>4, <2>5, <2>6
<1>7. CASE IndexSyncs \/ CallToBucketRejected
  <2>1. /\ UNCHANGED <<bucket, to_index, excused, removed, file_count>>
        /\ index'.users = index.users /\ index'.references = index.references
        /\ \/ /\ ~index.sync.in_progress /\ index'.sync = Started(index.sync)
              /\ to_bucket' = Asked(NextBatch(index.sync))
           \/ /\ to_bucket.at = "asked" /\ to_bucket' = NoCall
              /\ index'.sync = Failed(index.sync, to_bucket.batch)
    <3>1. CASE IndexSyncs
      BY <1>5, <3>1 DEF IndexSyncs, CanSync, bounds, history
    <3>2. CASE CallToBucketRejected
      BY <1>5, <3>2 DEF CallToBucketRejected, history
    <3> QED BY <1>7, <3>1, <3>2
  <2>2. /\ to_bucket.answer = {} /\ to_bucket'.answer = {}
        /\ Way(to_bucket', index'.sync) = Way(to_bucket, index.sync)
        /\ DOMAIN to_bucket' = {"at", "batch", "answer"}
        /\ to_bucket'.at # "answered"
        /\ index'.sync.in_progress <=> to_bucket'.at # "none"
        /\ to_bucket'.at # "none" => index'.sync.args_to_retry = <<>>
    <3>1. CASE /\ ~index.sync.in_progress /\ index'.sync = Started(index.sync)
               /\ to_bucket' = Asked(NextBatch(index.sync))
      <4>1. to_bucket.at = "none"
        BY <1>2, <3>1 DEF CallsInv
      <4>2. Way(to_bucket', index'.sync) = Way(to_bucket, index.sync)
        <5>1. Way(Asked(NextBatch(index.sync)), Started(index.sync)) = Way(to_bucket, index.sync)
          BY <1>1, <4>1, WayStays
        <5> QED BY <3>1, <5>1
      <4>3. index'.sync.in_progress = TRUE /\ index'.sync.args_to_retry = <<>>
        BY <1>1, <3>1, StartedTakes
      <4> QED BY <1>2, <1>3, <3>1, <4>1, <4>2, <4>3 DEF CallsInv
    <3>2. CASE /\ to_bucket.at = "asked" /\ to_bucket' = NoCall
               /\ index'.sync = Failed(index.sync, to_bucket.batch)
      <4>1. index.sync.args_to_retry = <<>>
        BY <1>2, <3>2 DEF CallsInv
      <4>2. Way(to_bucket', index'.sync) = Way(to_bucket, index.sync)
        <5>1. to_bucket.at = "asked"
          BY <3>2
        <5>2. Way(NoCall, Failed(index.sync, to_bucket.batch)) = Way(to_bucket, index.sync)
          BY <1>1, <4>1, <5>1, WayStays
        <5> QED BY <3>2, <5>2
      <4>3. index'.sync.in_progress = FALSE
        BY <1>1, <3>2 DEF Failed, GoodSync, IsRecord
      <4> QED BY <1>2, <1>3, <3>2, <4>2, <4>3 DEF CallsInv
    <3> QED BY <2>1, <3>1, <3>2
  <2>3. Path' = Path /\ Ever' = Ever
    BY <2>1 DEF Path, Ever
  <2>4. AccountsInv'
    BY <1>2, <2>1, <2>2, <2>3 DEF AccountsInv
  <2>5. OwnersInv'
    BY <1>2, <2>1, <2>2, <2>3 DEF OwnersInv
  <2>6. CallsInv'
    BY <1>2, <2>1, <2>2 DEF CallsInv
  <2> QED BY <2>4, <2>5, <2>6
<1> QED BY <1>6, <1>7

\* The bucket drops what the index has refused.
LEMMA BucketHearsKeepsAgree ==
    ASSUME AgreeInv, BucketHears
    PROVE  CallsInv' /\ OwnersInv' /\ AccountsInv'
<1> DEFINE b == Refused(bucket, to_index.answer)
           all == bucket.files \cup bucket.pending
           more == bucket'.files \cup bucket'.pending
<1>1. /\ GoodSync(bucket.sync) /\ GoodBatch(to_index.batch)
      /\ {"at", "batch", "answer"} = DOMAIN to_index /\ FilesSound(bucket)
  BY AgreeInvHas DEF AgreeInv, BytesInv, BucketInv
<1>2. CallsInv /\ OwnersInv /\ AccountsInv
  BY DEF AgreeInv
<1>3. /\ to_index.at = "answered" /\ to_index' = NoCall
      /\ bucket' = [b EXCEPT !.sync = Completed(@)]
      /\ UNCHANGED <<index, to_bucket, excused, removed, file_count>>
  BY DEF BucketHears, bounds, history
<1>4. /\ SameRest(bucket, b) /\ b.files \subseteq bucket.files /\ b.pending \subseteq bucket.pending
      /\ \A f \in all : f.id \notin to_index.answer => f \in b.files \cup b.pending
  BY <1>1, RefusedLeaves
<1> HIDE DEF b
<1>5. /\ bucket'.sync = Completed(bucket.sync) /\ DOMAIN bucket'.users = DOMAIN bucket.users
      /\ bucket'.files = b.files /\ bucket'.pending = b.pending
  BY <1>3, <1>4 DEF SameRest, Fields
<1>6. /\ NoCall.at = "none" /\ NoCall.answer = {} /\ DOMAIN NoCall = {"at", "batch", "answer"}
  BY DEF NoCall
<1>7. Path' = Path /\ Ever' = Ever
  <2>1. Way(NoCall, Completed(bucket.sync)) = Way(to_index, bucket.sync)
    BY <1>1, <1>3, WayStays
  <2> QED BY <1>3, <1>5, <2>1 DEF Path, Ever
<1>8. more \subseteq all /\ \A f \in all : f \notin more => f.id \in to_index.answer
  BY <1>4, <1>5
<1>9. /\ Owned(more) \subseteq Owned(all)
      /\ \A p \in Owned(all) \ Owned(more) : p[1] \in to_index.answer
  <2> HIDE DEF all, more
  <2> QED BY <1>8 DEF Owned
<1>10. AccountsInv'
  <2> DEFINE K == Known(index.references, ToSet(Path))
             G == Said("FileRemoved", ToSet(Path) \cup to_bucket.answer)
             P == Owned(all)
             Q == Owned(more)
  <2>1. Accounts(P, K, G, to_index.answer, excused, removed, file_count) /\ InOrder(Path)
    BY <1>2 DEF AccountsInv
  <2>2. Q \in SUBSET P /\ \A p \in P \ Q : p[1] \in to_index.answer
    BY <1>9
  <2> HIDE DEF K, G, P, Q
  <2>3. Accounts(Q, K, G, {}, excused \cup {}, removed, file_count)
    BY <2>1, <2>2, FilesVanish
  <2>4. excused \cup {} = excused
    OBVIOUS
  <2>5. Accounts(Q, K, G, {}, excused, removed, file_count)
    BY <2>3, <2>4
  <2> QED BY <1>3, <1>6, <1>7, <2>1, <2>5 DEF AccountsInv, K, G, Q
<1>11. OwnersInv'
  BY <1>2, <1>3, <1>5, <1>7, <1>8 DEF OwnersInv
<1>12. bucket'.sync.in_progress = FALSE
  BY <1>1, <1>5 DEF Completed, GoodSync, IsRecord
<1>13. CallsInv'
  BY <1>2, <1>3, <1>6, <1>12 DEF CallsInv
<1> QED BY <1>10, <1>11, <1>13

LEMMA RefersIs ==
    ASSUME NEW r, NEW e
    PROVE  /\ Refers(r, e) <=> Triple(r) = Triple(e)
           /\ Triple(Reference(e)) = Triple(e)
           /\ Triple(e)[1] = e.file /\ Triple(e)[2] = e.owner
BY DEF Refers, Triple, Reference

\* What the index has after a batch, and what it refuses, given the users it knows.
Taken(R, B, users) ==
    {r \in R \cup {Reference(e) : e \in {x \in B : x.kind = "FileAdded" /\ x.owner \in users}} :
        \A e \in B : e.kind = "FileRemoved" => ~Refers(r, e)}
TurnedDown(B, users) ==
    {e.file : e \in {x \in B : x.kind = "FileAdded" /\ x.owner \notin users}}

\* The index takes in a batch: B is the batch, C what comes after it, A what it
\* has been answered.
LEMMA BatchArrives ==
    ASSUME NEW P, NEW R, NEW B, NEW C, NEW A, NEW refused, NEW out, NEW lost, NEW n,
           Accounts(P, Known(R, B \cup C), Said("FileRemoved", (B \cup C) \cup A),
                    refused, out, lost, n),
           NEW users, \A e \in B : e.kind = "FileAdded" => e.owner \in users \cup lost,
           \A d \in B, e \in C :
               d.kind = "FileRemoved" /\ e.kind = "FileAdded" => d.file # e.file
    PROVE  Accounts(P, Known(Taken(R, B, users), C), Said("FileRemoved", C \cup A),
                    TurnedDown(B, users), out, lost, n)
<1> DEFINE S == {x \in B : x.kind = "FileAdded" /\ x.owner \in users}
           Q == Taken(R, B, users)
           now == TurnedDown(B, users)
           K == Known(R, B \cup C)
           G == Said("FileRemoved", (B \cup C) \cup A)
           L == Known(Q, C)
           H == Said("FileRemoved", C \cup A)
<1>1. /\ \A k : k \in K <=> \/ \E r \in R : k = Triple(r)
                           \/ \E e \in B \cup C : e.kind = "FileAdded" /\ k = Triple(e)
      /\ \A k : k \in G <=> \E d \in B \cup C \cup A : d.kind = "FileRemoved" /\ k = Triple(d)
      /\ \A k : k \in L <=> \/ \E r \in Q : k = Triple(r)
                           \/ \E e \in C : e.kind = "FileAdded" /\ k = Triple(e)
      /\ \A k : k \in H <=> \E d \in C \cup A : d.kind = "FileRemoved" /\ k = Triple(d)
  BY DEF Known, Said
<1>11. Q = {r \in R \cup {Reference(e) : e \in S} :
               \A e \in B : e.kind = "FileRemoved" => ~Refers(r, e)}
  BY DEF Taken
<1>12. now = {e.file : e \in {x \in B : x.kind = "FileAdded" /\ x.owner \notin users}}
  BY DEF TurnedDown
<1> HIDE DEF K, G, L, H, Q, now
<1>2. ASSUME NEW r \in R \cup {Reference(e) : e \in S}, r \notin Q
      PROVE  Triple(r) \in G
  <2>1. PICK d \in B : d.kind = "FileRemoved" /\ Refers(r, d)
    BY <1>2, <1>11
  <2>2. Triple(r) = Triple(d)
    BY <2>1, RefersIs
  <2> QED BY <1>1, <2>1, <2>2
<1>3. L \in SUBSET K
  <2> SUFFICES ASSUME NEW k \in L PROVE k \in K
    OBVIOUS
  <2>1. ASSUME NEW r \in Q, k = Triple(r) PROVE k \in K
    <3>1. CASE r \in R
      BY <1>1, <2>1, <3>1
    <3>2. CASE r \notin R
      <4>1. PICK e \in S : r = Reference(e)
        BY <1>11, <3>2
      <4>2. k = Triple(e)
        BY <2>1, <4>1, RefersIs
      <4> QED BY <1>1, <4>2
    <3> QED BY <3>1, <3>2
  <2>2. ASSUME NEW e \in C, e.kind = "FileAdded", k = Triple(e) PROVE k \in K
    BY <1>1, <2>2
  <2> QED BY <1>1, <2>1, <2>2
<1>4. H \in SUBSET G
  BY <1>1
<1>5. ASSUME NEW k \in K \ L PROVE k \in G \/ k[2] \in lost
  <2>1. ASSUME NEW r \in R, k = Triple(r) PROVE k \in G
    <3>1. r \notin Q
      BY <1>1, <2>1
    <3> QED BY <1>2, <2>1, <3>1
  <2>2. ASSUME NEW e \in B \cup C, e.kind = "FileAdded", k = Triple(e)
        PROVE  k \in G \/ k[2] \in lost
    <3>1. e \in B /\ k[2] = e.owner /\ k = Triple(Reference(e))
      BY <1>1, <2>2, RefersIs
    <3>2. CASE e.owner \in users
      <4>1. e \in S /\ Reference(e) \notin Q
        BY <1>1, <2>2, <3>1, <3>2
      <4> QED BY <1>2, <3>1, <4>1
    <3>3. CASE e.owner \notin users
      BY <2>2, <3>1, <3>3
    <3> QED BY <3>2, <3>3
  <2> QED BY <1>1, <2>1, <2>2
<1>6. ASSUME NEW k \in L, k \in G PROVE k \in H
  <2>1. PICK d \in B \cup C \cup A : d.kind = "FileRemoved" /\ k = Triple(d)
    BY <1>1, <1>6
  <2>2. CASE d \in C \cup A
    BY <1>1, <2>1, <2>2
  <2>3. CASE d \in B
    <3>1. ASSUME NEW r \in Q, k = Triple(r) PROVE FALSE
      <4>1. ~Refers(r, d)
        BY <1>11, <2>1, <2>3
      <4> QED BY <2>1, <3>1, <4>1, RefersIs
    <3>2. ASSUME NEW e \in C, e.kind = "FileAdded", k = Triple(e) PROVE FALSE
      <4>1. Triple(d)[1] = d.file /\ Triple(e)[1] = e.file
        BY DEF Triple
      <4> QED BY <2>1, <2>3, <3>2, <4>1
    <3> QED BY <1>1, <3>1, <3>2
  <2> QED BY <2>2, <2>3
<1>7. ASSUME NEW id \in now PROVE \E k \in K : k[1] = id /\ k[2] \in lost
  <2>1. PICK e \in B : e.kind = "FileAdded" /\ e.owner \notin users /\ id = e.file
    BY <1>12
  <2>2. Triple(e) \in K /\ Triple(e)[1] = id /\ Triple(e)[2] \in lost
    BY <1>1, <2>1, RefersIs
  <2> QED BY <2>2
<1>8. Accounts(P, K, G, refused, out, lost, n)
  BY DEF K, G
<1> DEFINE none == {}
<1>9. Accounts(P, L, H, now, out \cup none, lost, n)
  <2> HIDE DEF none
  <2>1. /\ \A k \in K \ L : k \in G \/ k[2] \in lost
        /\ \A k \in L : k \in G => k \in H \/ k[1] \in out \cup none
    BY <1>5, <1>6
  <2>2. Accounts(P, K, G, now, out, lost, n)
    <3>1. ASSUME NEW id \in now
          PROVE  id \in 0 .. n /\ (id \notin out => \A p \in P : p[1] = id => p[2] \in lost)
      <4>1. PICK k \in K : k[1] = id /\ k[2] \in lost
        BY <1>7
      <4> QED BY <1>8, <4>1 DEF Accounts
    <3> QED BY <1>8, <3>1 DEF Accounts
  <2>3. /\ \A k \in K \ L : k \in G \/ k[2] \in lost
        /\ \A k \in L : k \in G => k \in H \/ k[1] \in out \cup none
        /\ \A id \in now : id \in now \/ \E k \in K : k[1] = id /\ k[2] \in lost
    BY <2>1
  <2> QED BY ONLY <1>3, <1>4, <2>2, <2>3, EventsArrive, ZenonT(60)
<1>10. out \cup none = out
  OBVIOUS
<1> QED BY <1>9, <1>10 DEF L, H, Q, now

\* The index takes in an answer, A; B is what is on its way to it.
LEMMA AnswerArrives ==
    ASSUME NEW P, NEW R, NEW B, NEW A, NEW refused, NEW out, NEW lost, NEW n,
           Accounts(P, Known(R, B), Said("FileRemoved", B \cup A), refused, out, lost, n),
           \A d \in A : d.kind = "FileRemoved",
           NEW Q, Q = {r \in R : \A e \in A : ~Refers(r, e)},
           NEW more, more = {d.file : d \in {x \in A : \E e \in B : e.kind = "FileAdded" /\ e.file = x.file}}
    PROVE  Accounts(P, Known(Q, B), Said("FileRemoved", B), refused, out \cup more, lost, n)
<1> DEFINE K == Known(R, B)
           G == Said("FileRemoved", B \cup A)
           L == Known(Q, B)
           H == Said("FileRemoved", B)
<1>1. /\ \A k : k \in K <=> \/ \E r \in R : k = Triple(r)
                           \/ \E e \in B : e.kind = "FileAdded" /\ k = Triple(e)
      /\ \A k : k \in G <=> \E d \in B \cup A : d.kind = "FileRemoved" /\ k = Triple(d)
      /\ \A k : k \in L <=> \/ \E r \in Q : k = Triple(r)
                           \/ \E e \in B : e.kind = "FileAdded" /\ k = Triple(e)
      /\ \A k : k \in H <=> \E d \in B : d.kind = "FileRemoved" /\ k = Triple(d)
  BY DEF Known, Said
<1> HIDE DEF K, G, L, H
<1>2. L \in SUBSET K /\ H \in SUBSET G
  BY <1>1
<1>3. ASSUME NEW k \in K \ L PROVE k \in G
  <2>1. PICK r \in R : k = Triple(r)
    BY <1>1
  <2>2. r \notin Q
    BY <1>1, <2>1
  <2>3. PICK d \in A : Refers(r, d)
    BY <2>2
  <2>4. k = Triple(d) /\ d.kind = "FileRemoved"
    BY <2>1, <2>3, RefersIs
  <2> QED BY <1>1, <2>4
<1>4. ASSUME NEW k \in L, k \in G PROVE k \in H \/ k[1] \in out \cup more
  <2>1. PICK d \in B \cup A : d.kind = "FileRemoved" /\ k = Triple(d)
    BY <1>1, <1>4
  <2>2. CASE d \in B
    BY <1>1, <2>1, <2>2
  <2>3. CASE d \in A
    <3>1. ASSUME NEW r \in Q, k = Triple(r) PROVE FALSE
      BY <2>1, <2>3, <3>1, RefersIs
    <3>2. PICK e \in B : e.kind = "FileAdded" /\ k = Triple(e)
      BY <1>1, <3>1
    <3>3. k[1] = d.file /\ k[1] = e.file
      BY <2>1, <3>2, RefersIs
    <3> QED BY <2>3, <3>2, <3>3
  <2> QED BY <2>2, <2>3
<1>5. Accounts(P, K, G, refused, out, lost, n)
  BY DEF K, G
<1>6. Accounts(P, L, H, refused, out \cup more, lost, n)
  BY <1>2, <1>3, <1>4, <1>5, EventsArrive
<1> QED BY <1>6 DEF L, H

\* What is on its way, as a set.
LEMMA WayHas ==
    ASSUME NEW call, GoodBatch(call.batch), NEW sync, GoodSync(sync)
    PROVE  ToSet(Way(call, sync)) =
               ToSet(Sent(call)) \cup ToSet(sync.args_to_retry) \cup ToSet(sync.queue)
<1>1. /\ IsSeq(Sent(call)) /\ IsSeq(Waiting(sync))
      /\ IsSeq(sync.queue) /\ IsSeq(sync.args_to_retry)
  BY WayIs
<1>2. ToSet(Waiting(sync)) = ToSet(sync.args_to_retry) \cup ToSet(sync.queue)
  BY <1>1, ConcatIs DEF Waiting
<1>3. ToSet(Way(call, sync)) = ToSet(Sent(call)) \cup ToSet(Waiting(sync))
  BY <1>1, ConcatIs DEF Way
<1> QED BY <1>2, <1>3

\* What the index tells the bucket about its users stays as it is.
LEMMA ToldStays ==
    ASSUME NEW call, GoodBatch(call.batch), NEW i, GoodSync(i.sync), NEW j, GoodSync(j.sync),
           SameUsers(i, j)
    PROVE  \A e \in ToSet(Way(call, j.sync)) :
               e \in ToSet(Way(call, i.sync)) \/ e.kind = "FileToRemove"
<1>1. ToSet(Way(call, i.sync)) =
          ToSet(Sent(call)) \cup ToSet(i.sync.args_to_retry) \cup ToSet(i.sync.queue)
  BY WayHas
<1>2. ToSet(Way(call, j.sync)) =
          ToSet(Sent(call)) \cup ToSet(j.sync.args_to_retry) \cup ToSet(j.sync.queue)
  BY WayHas
<1> QED BY <1>1, <1>2 DEF SameUsers

\* The index handles a batch of the bucket's.
LEMMA IndexHandlesKeepsAgree ==
    ASSUME AgreeInv, IndexHandles
    PROVE  CallsInv' /\ OwnersInv' /\ AccountsInv'
<1> DEFINE batch == to_index.batch
           added == AllAdded(index, batch)
           gone == OfKind(batch, "FileRemoved")
           now == Rejected(index, batch)
           rest == Way(Answered(to_index, now), bucket.sync)
           B == ToSet(batch)
           C == ToSet(rest)
           A == to_bucket.answer
           users == DOMAIN index.users
<1>1. /\ GoodSync(bucket.sync) /\ GoodSync(index.sync) /\ IndexSound(index, removed)
      /\ GoodBatch(batch) /\ GoodBatch(to_bucket.batch)
      /\ {"at", "batch", "answer"} = DOMAIN to_index
  BY AgreeInvHas
<1>2. CallsInv /\ OwnersInv /\ AccountsInv
  BY DEF AgreeInv
<1>3. /\ to_index.at = "asked" /\ index' = AllRemoved(added, gone)
      /\ to_index' = Answered(to_index, now)
      /\ UNCHANGED <<bucket, to_bucket, file_count, excused, removed>>
  BY DEF IndexHandles, bounds, history
<1>4. Path = batch \o rest /\ IsSeq(batch) /\ IsSeq(rest) /\ Path' = rest
  <2>1. Way(to_index, bucket.sync) = batch \o rest
    <3> HIDE DEF now
    <3> QED BY <1>1, <1>3, WayStays, ZenonT(30)
  <2>2. IsSeq(batch)
    BY <1>1, GoodIsSeq
  <2>3. Answered(to_index, now).batch = batch
    BY DEF Answered
  <2>4. IsSeq(rest)
    BY <1>1, <2>3, WayIs
  <2>5. Path' = rest
    BY <1>3 DEF Path
  <2> QED BY <2>1, <2>2, <2>4, <2>5 DEF Path
<1>5. /\ SameUsers(index, added) /\ IndexSound(added, removed)
      /\ added.references = index.references \cup {Reference(e) : e \in Welcome(index, batch)}
  BY <1>1, AllAddedIs, AllAddedIsSound
<1> HIDE DEF added, rest
<1>6. /\ DOMAIN index'.users = DOMAIN added.users /\ index'.sync = added.sync
      /\ index'.references = {r \in added.references : \A e \in gone : ~Refers(r, e)}
  BY <1>3, <1>5, AllRemovedIs
<1>7. /\ DOMAIN index'.users = users /\ Ever' = Ever /\ SameUsers(index, index')
      /\ GoodSync(index'.sync)
  BY <1>3, <1>5, <1>6 DEF SameUsers, Ever, IndexSound
<1>8. ToSet(Path) = B \cup C /\ ToSet(Path') = C
  <2>1. ToSet(batch \o rest) = B \cup C
    <3>1. IsSeq(batch) /\ IsSeq(rest)
      BY <1>4
    <3> HIDE DEF batch
    <3> QED BY <3>1, ConcatIs
  <2> QED BY <1>4, <2>1
<1>9. AccountsInv'
  <2> DEFINE P == Owned(bucket.files \cup bucket.pending)
             R == index.references
             Q == index'.references
  <2>1. /\ InOrder(rest)
        /\ \A d \in B, e \in C : d.kind = "FileRemoved" /\ e.kind = "FileAdded" => d.file # e.file
    <3>1. InOrder(batch \o rest) /\ IsSeq(batch) /\ IsSeq(rest)
      BY <1>2, <1>4 DEF AccountsInv
    <3> HIDE DEF batch
    <3> QED BY <3>1, OrderedRest
  <2>2. \A e \in B : e.kind = "FileAdded" => e.owner \in users \cup removed
    BY <1>2, <1>8 DEF OwnersInv, Ever
  <2>3. Q = Taken(R, B, users)
    <3> DEFINE S == {e \in B : e.kind = "FileAdded" /\ e.owner \in users}
    <3>1. S = Welcome(index, batch)
      BY DEF Welcome
    <3>2. gone = {e \in B : e.kind = "FileRemoved"}
      BY DEF OfKind
    <3>3. Taken(R, B, users) = {r \in R \cup {Reference(e) : e \in S} :
                                   \A e \in B : e.kind = "FileRemoved" => ~Refers(r, e)}
      BY DEF Taken
    <3> HIDE DEF S, gone, B
    <3> QED BY <1>5, <1>6, <3>1, <3>2, <3>3
  <2>4. now = TurnedDown(B, users)
    <3>1. {x \in OfKind(batch, "FileAdded") : x.owner \notin users}
              = {x \in B : x.kind = "FileAdded" /\ x.owner \notin users}
      BY DEF OfKind
    <3> QED BY <3>1 DEF Rejected, TurnedDown
  <2>5. Accounts(P, Known(R, B \cup C), Said("FileRemoved", (B \cup C) \cup A),
                 to_index.answer, excused, removed, file_count)
    BY <1>2, <1>8 DEF AccountsInv
  <2> HIDE DEF P, R, Q, B, C, A, now, users
  <2>6. Accounts(P, Known(Q, C), Said("FileRemoved", C \cup A), now, excused, removed, file_count)
    <3>1. \A d \in B, e \in C : d.kind = "FileRemoved" /\ e.kind = "FileAdded" => d.file # e.file
      BY <2>1
    <3> QED BY <2>2, <2>3, <2>4, <2>5, <3>1, BatchArrives
  <2>7. to_index'.answer = now
    BY <1>1, <1>3 DEF Answered
  <2> QED BY <1>3, <1>4, <1>8, <2>1, <2>6, <2>7 DEF AccountsInv, P, Q, A
<1>10. OwnersInv'
  <2>1. \A e \in ToSet(Way(to_bucket, index'.sync)) :
            e \in ToSet(Way(to_bucket, index.sync)) \/ e.kind = "FileToRemove"
    BY <1>1, <1>7, ToldStays
  <2>2. ToSet(Path') \subseteq ToSet(Path)
    BY <1>8
  <2> QED BY <1>2, <1>3, <1>7, <2>1, <2>2 DEF OwnersInv
<1>11. /\ to_index'.at = "answered" /\ DOMAIN to_index' = {"at", "batch", "answer"}
       /\ index'.sync.in_progress = index.sync.in_progress
       /\ index'.sync.args_to_retry = index.sync.args_to_retry
  BY <1>1, <1>3, <1>7 DEF Answered, SameUsers
<1>12. CallsInv'
  BY <1>2, <1>3, <1>11 DEF CallsInv
<1> QED BY <1>9, <1>10, <1>12

\* The index hears what the bucket has removed, and lets go of it.
LEMMA IndexHearsKeepsAgree ==
    ASSUME AgreeInv, IndexHears
    PROVE  CallsInv' /\ OwnersInv' /\ AccountsInv'
<1> DEFINE A == to_bucket.answer
           B == ToSet(Path)
           i == AllRemoved(index, A)
           more == {e.file : e \in {x \in A : Queued(x.file)}}
<1>1. /\ GoodSync(bucket.sync) /\ GoodSync(index.sync) /\ IndexSound(index, removed)
      /\ GoodBatch(to_index.batch) /\ GoodBatch(to_bucket.batch)
      /\ {"at", "batch", "answer"} = DOMAIN to_bucket
  BY AgreeInvHas
<1>2. CallsInv /\ OwnersInv /\ AccountsInv
  BY DEF AgreeInv
<1>3. /\ to_bucket.at = "answered" /\ to_bucket' = NoCall
      /\ index' = [i EXCEPT !.sync = Completed(@)] /\ excused' = excused \cup more
      /\ UNCHANGED <<bucket, to_index, file_count, removed>>
  BY DEF IndexHears, bounds
<1>4. /\ DOMAIN i.users = DOMAIN index.users /\ i.sync = index.sync
      /\ i.references = {r \in index.references : \A e \in A : ~Refers(r, e)}
      /\ DOMAIN i = {"users", "references", "sizes", "sync"}
  <2>1. IndexSound(i, removed)
    BY <1>1, AllRemovedIsSound
  <2>2. /\ DOMAIN i.users = DOMAIN index.users /\ i.sync = index.sync
        /\ i.references = {r \in index.references : \A e \in A : ~Refers(r, e)}
    BY <1>1, AllRemovedIs
  <2> HIDE DEF i, A
  <2> QED BY <2>1, <2>2 DEF IndexSound, IsRecord, IndexFields
<1> HIDE DEF i
<1>5. /\ DOMAIN index'.users = DOMAIN index.users /\ index'.sync = Completed(index.sync)
      /\ index'.references = i.references
  BY <1>3, <1>4
<1>6. NoCall.at = "none" /\ NoCall.answer = {} /\ DOMAIN NoCall = {"at", "batch", "answer"}
  BY DEF NoCall
<1>7. Path' = Path /\ Ever' = Ever
  BY <1>3, <1>5 DEF Path, Ever
<1>8. AccountsInv'
  <2> DEFINE P == Owned(bucket.files \cup bucket.pending)
             R == index.references
             Q == i.references
             Late == {x \in A : \E e \in B : e.kind = "FileAdded" /\ e.file = x.file}
  <2>1. \A id : Queued(id) <=> \E e \in B : e.kind = "FileAdded" /\ e.file = id
    <3>1. B = ToSet(Sent(to_index)) \cup ToSet(bucket.sync.args_to_retry) \cup ToSet(bucket.sync.queue)
      BY <1>1, WayHas DEF Path
    <3>2. ToSet(bucket.sync.queue \o bucket.sync.args_to_retry)
              = ToSet(bucket.sync.queue) \cup ToSet(bucket.sync.args_to_retry)
      BY <1>1, WayIs, ConcatIs, ZenonT(30)
    <3>3. ToSet(Sent(to_index)) = IF to_index.at = "asked" THEN ToSet(to_index.batch) ELSE {}
      BY NoneSeq DEF Sent
    <3> DEFINE X == ToSet(bucket.sync.queue \o bucket.sync.args_to_retry) \cup
                        (IF to_index.at = "asked" THEN ToSet(to_index.batch) ELSE {})
    <3>4. X = B
      BY <3>1, <3>2, <3>3
    <3>5. \A id : Queued(id) <=> \E e \in X : e.kind = "FileAdded" /\ e.file = id
      BY DEF Queued
    <3> HIDE DEF X, B
    <3> QED BY <3>4, <3>5
  <2>2. more = {d.file : d \in Late}
    BY <2>1
  <2>3. \A d \in A : d.kind = "FileRemoved"
    BY <1>2 DEF CallsInv
  <2>4. /\ Accounts(P, Known(R, B), Said("FileRemoved", B \cup A), to_index.answer,
                    excused, removed, file_count)
        /\ InOrder(Path)
    BY <1>2 DEF AccountsInv
  <2>5. Q = {r \in R : \A e \in A : ~Refers(r, e)}
    BY <1>4
  <2> HIDE DEF P, R, Q, A, B, more
  <2>6. Accounts(P, Known(Q, B), Said("FileRemoved", B), to_index.answer,
                 excused \cup more, removed, file_count)
    BY <2>2, <2>3, <2>4, <2>5, AnswerArrives
  <2>7. ToSet(Path') \cup to_bucket'.answer = B
    BY <1>3, <1>6, <1>7 DEF B
  <2> QED BY <1>3, <1>5, <1>7, <2>4, <2>6, <2>7 DEF AccountsInv, P, Q, B
<1>9. OwnersInv'
  <2>1. Way(to_bucket', index'.sync) = Way(to_bucket, index.sync)
    <3>1. Way(NoCall, Completed(index.sync)) = Way(to_bucket, index.sync)
      BY <1>1, <1>3, WayStays
    <3> QED BY <1>3, <1>5, <3>1
  <2> QED BY <1>2, <1>3, <1>7, <2>1 DEF OwnersInv
<1>10. index'.sync.in_progress = FALSE
  BY <1>1, <1>5 DEF Completed, GoodSync, IsRecord
<1>11. CallsInv'
  BY <1>2, <1>3, <1>6, <1>10 DEF CallsInv
<1> QED BY <1>8, <1>9, <1>11

\* The owners of files that have gone, or lost accessors.
Stripped(files, gone) == {[f EXCEPT !.accessors = @ \ gone] : f \in files}
LEMMA OwnedOfRest ==
    ASSUME NEW b, FilesSound(b), NEW S \in SUBSET b.files, NEW gone
    PROVE  Owned(Stripped(b.files \ S, gone) \cup b.pending) =
               Owned(b.files \cup b.pending) \ Owned(S)
<1> DEFINE files == b.files
           pending == b.pending
           strip(f) == [f EXCEPT !.accessors = @ \ gone]
           rest == {strip(f) : f \in files \ S} \cup pending
<1>7. KnownById(files \cup pending) /\ files \cap pending = {} /\ S \in SUBSET files
  BY DEF FilesSound
<1> HIDE DEF files, pending
<1>1. /\ \A f \in files \cup pending : f \in Files
      /\ \A f, g \in files \cup pending : f.id = g.id => f = g
  BY <1>7 DEF KnownById
<1>2. \A f \in Files : strip(f).id = f.id /\ strip(f).owner = f.owner
  BY DEF Files
<1> HIDE DEF strip
<1>3. ASSUME NEW p \in Owned(rest) PROVE p \in Owned(files \cup pending) \ Owned(S)
  <2>1. PICK g \in rest : p = <<g.id, g.owner>>
    BY DEF Owned
  <2>2. PICK f \in (files \ S) \cup pending : g.id = f.id /\ g.owner = f.owner
    BY <1>1, <1>2, <2>1
  <2>3. p = <<f.id, f.owner>> /\ f \notin S
    BY <1>7, <2>1, <2>2
  <2>4. p \in Owned(files \cup pending)
    BY <2>3 DEF Owned
  <2>5. ASSUME NEW s \in S, p = <<s.id, s.owner>> PROVE FALSE
    <3>1. s.id = f.id
      BY <2>3, <2>5
    <3> QED BY <1>1, <1>7, <2>3, <3>1
  <2> QED BY <2>4, <2>5 DEF Owned
<1>4. ASSUME NEW p \in Owned(files \cup pending) \ Owned(S) PROVE p \in Owned(rest)
  <2>1. PICK f \in files \cup pending : p = <<f.id, f.owner>> /\ f \notin S
    BY DEF Owned
  <2>2. CASE f \in pending
    BY <2>1, <2>2 DEF Owned
  <2>3. CASE f \in files
    <3>1. strip(f) \in rest /\ strip(f).id = f.id /\ strip(f).owner = f.owner
      BY <1>1, <1>2, <2>1, <2>3
    <3> HIDE DEF rest
    <3> QED BY <2>1, <3>1 DEF Owned
  <2> QED BY <2>2, <2>3
<1>5. Owned(rest) = Owned(files \cup pending) \ Owned(S)
  BY <1>3, <1>4
<1>6. rest = Stripped(files \ S, gone) \cup pending
  BY DEF strip, Stripped
<1> HIDE DEF rest
<1> QED BY <1>5, <1>6 DEF files, pending

LEMMA SaidOfFiles ==
    ASSUME NEW files
    PROVE  /\ Said("FileRemoved", {FileRemoved(f) : f \in files}) = {Removal(q) : q \in Owned(files)}
           /\ Said("FileAdded", {FileRemoved(f) : f \in files}) = {}
<1> DEFINE E == {FileRemoved(f) : f \in files}
<1>1. \A f : FileRemoved(f).kind = "FileRemoved" /\ Triple(FileRemoved(f)) = Removal(<<f.id, f.owner>>)
  BY DEF FileRemoved, Triple, Removal
<1>2. \A e \in E : e.kind = "FileRemoved"
  BY <1>1
<1>3. Said("FileAdded", E) = {}
  <2> HIDE DEF E
  <2> QED BY <1>2 DEF Said
<1>4. Said("FileRemoved", E) = {Triple(e) : e \in E}
  <2> HIDE DEF E
  <2>1. {x \in E : x.kind = "FileRemoved"} = E
    BY <1>2
  <2> QED BY <2>1 DEF Said
<1>5. ASSUME NEW t PROVE t \in {Triple(e) : e \in E} <=> t \in {Removal(q) : q \in Owned(files)}
  <2>1. t \in {Triple(e) : e \in E} <=> \E f \in files : t = Triple(FileRemoved(f))
    OBVIOUS
  <2>2. t \in {Removal(q) : q \in Owned(files)} <=> \E f \in files : t = Removal(<<f.id, f.owner>>)
    BY DEF Owned
  <2> QED BY <1>1, <2>1, <2>2
<1>6. {Triple(e) : e \in E} = {Removal(q) : q \in Owned(files)}
  <2> HIDE DEF E
  <2> QED BY <1>5
<1> QED BY <1>3, <1>4, <1>6

\* The bucket handles a batch of the index's: files go, some of which it says so in
\* the answer and the others in its queue.
LEMMA BucketHandlesIs ==
    ASSUME AgreeInv, BucketHandles
    PROVE  \E told, later :
              LET Q == Owned(told \cup later)
                  events == FilesRemoved(later)
              IN  /\ to_bucket.at = "asked"
                  /\ to_bucket' = Answered(to_bucket, {FileRemoved(f) : f \in told})
                  /\ bucket'.sync = Enqueued(bucket.sync, events)
                  /\ IsSeq(events) /\ ToSet(events) = {FileRemoved(f) : f \in later}
                  /\ Q \in SUBSET Owned(bucket.files \cup bucket.pending)
                  /\ Owned(bucket'.files \cup bucket'.pending) =
                         Owned(bucket.files \cup bucket.pending) \ Q
                  /\ DOMAIN bucket'.users
                         \subseteq DOMAIN bucket.users \cup UsersOf(to_bucket.batch, "UserAdded")
                  /\ UNCHANGED <<index, to_index, file_count, excused, removed>>
<1> DEFINE batch == to_bucket.batch
           b == WithUsers(bucket, batch)
           files == {f \in b.files : Goes(b, f, batch)}
           c == Dropped(b, files)
           d == WithoutUsers(c, batch)
           added == UsersOf(batch, "UserAdded")
           gone == UsersOf(batch, "AccessorRemoved")
<1>1. PICK told \in SUBSET files :
          /\ bucket' = Tells(d, FilesRemoved(files \ told))
          /\ to_bucket' = Answered(to_bucket, {FileRemoved(f) : f \in told})
  BY DEF BucketHandles
<1>2. /\ to_bucket.at = "asked"
      /\ UNCHANGED <<index, to_index, file_count, excused, removed>>
  BY DEF BucketHandles, bounds, history
<1>3. /\ DOMAIN bucket = Fields /\ KnownById(bucket.files \cup bucket.pending)
      /\ bucket.files \cap bucket.pending = {} /\ IsFiniteSet(bucket.files)
  BY DEF AgreeInv, BytesInv, BucketInv, FilesSound, CountsSound
<1> HIDE DEF batch
<1>4. /\ DOMAIN b = Fields /\ b.sync = bucket.sync
      /\ DOMAIN b.users = DOMAIN bucket.users \cup added
      /\ b.files = bucket.files /\ b.pending = bucket.pending
  BY <1>3, UsersAre DEF With
<1>5. files \in SUBSET bucket.files
  <2>1. files \subseteq b.files
    OBVIOUS
  <2> HIDE DEF files
  <2> QED BY <1>4, <2>1
<1> HIDE DEF b, files, added, gone
<1>6. /\ DOMAIN c = Fields /\ DOMAIN c.users = DOMAIN b.users /\ c.sync = b.sync
      /\ c.files = b.files \ files /\ c.pending = b.pending
  <2>1. SameRest(b, c) /\ With(c, b.files \ files, b.pending)
    BY <1>4, RestIsKept, Zenon
  <2> QED BY <2>1 DEF SameRest, With
<1> HIDE DEF c
<1>7. /\ DOMAIN d = Fields /\ d.sync = c.sync /\ DOMAIN d.users \subseteq DOMAIN c.users
      /\ d.files = Stripped(c.files, gone) /\ d.pending = c.pending
  BY <1>6, UsersAre DEF With, gone, Stripped
<1> HIDE DEF d
<1> DEFINE later == files \ told
           events == FilesRemoved(later)
<1>8. /\ bucket'.users = d.users /\ bucket'.sync = Enqueued(d.sync, events)
      /\ bucket'.files = d.files /\ bucket'.pending = d.pending
  <2> HIDE DEF later
  <2>1. bucket' = Tells(d, events)
    BY <1>1 DEF later
  <2> HIDE DEF events
  <2>2. /\ Tells(d, events).users = d.users /\ Tells(d, events).sync = Enqueued(d.sync, events)
        /\ With(Tells(d, events), d.files, d.pending)
    BY <1>7, RestIsKept
  <2> QED BY <2>1, <2>2 DEF With
<1>9. told \cup later = files
  OBVIOUS
<1>10. IsSeq(events) /\ ToSet(events) = {FileRemoved(f) : f \in later}
  <2>1. later \subseteq bucket.files
    BY <1>5
  <2> HIDE DEF later
  <2>2. IsFiniteSet(later) /\ KnownById(later)
    BY <1>3, <2>1, FS_Subset DEF KnownById
  <2> QED BY <2>2, FilesRemovedAre DEF IsSeq
<1> HIDE DEF later
<1>11. Owned(files) \in SUBSET Owned(bucket.files \cup bucket.pending)
  BY <1>5 DEF Owned
<1>12. Owned(bucket'.files \cup bucket'.pending) =
           Owned(bucket.files \cup bucket.pending) \ Owned(files)
  <2>1. bucket'.files \cup bucket'.pending =
            Stripped(bucket.files \ files, gone) \cup bucket.pending
    BY <1>4, <1>6, <1>7, <1>8
  <2>2. FilesSound(bucket)
    BY DEF AgreeInv, BytesInv, BucketInv
  <2>3. Owned(Stripped(bucket.files \ files, gone) \cup bucket.pending)
            = Owned(bucket.files \cup bucket.pending) \ Owned(files)
    BY ONLY <1>5, <2>2, OwnedOfRest
  <2> QED BY <2>1, <2>3
<1>13. DOMAIN bucket'.users \subseteq DOMAIN bucket.users \cup added
  BY <1>4, <1>6, <1>7, <1>8
<1>14. bucket'.sync = Enqueued(bucket.sync, events)
  BY <1>4, <1>6, <1>7, <1>8
<1> HIDE DEF events
<1>15. events = FilesRemoved(later)
  BY DEF events
<1> QED BY <1>1, <1>2, <1>9, <1>10, <1>11, <1>12, <1>13, <1>14, <1>15 DEF batch, added

LEMMA BucketHandlesKeepsAgree ==
    ASSUME AgreeInv, BucketHandles
    PROVE  CallsInv' /\ OwnersInv' /\ AccountsInv'
<1> DEFINE P == Owned(bucket.files \cup bucket.pending)
           K == Known(index.references, ToSet(Path))
           G == Said("FileRemoved", ToSet(Path) \cup to_bucket.answer)
           batch == to_bucket.batch
<1>1. /\ GoodSync(bucket.sync) /\ GoodSync(index.sync)
      /\ GoodBatch(to_index.batch) /\ GoodBatch(batch) /\ IsSeq(Path)
      /\ KnownById(bucket.files \cup bucket.pending)
      /\ {"at", "batch", "answer"} = DOMAIN to_index
      /\ {"at", "batch", "answer"} = DOMAIN to_bucket
  BY AgreeInvHas
<1>2. CallsInv /\ OwnersInv /\ AccountsInv
  BY DEF AgreeInv
<1>3. PICK told, later :
          LET Q == Owned(told \cup later)
              events == FilesRemoved(later)
          IN  /\ to_bucket.at = "asked"
              /\ to_bucket' = Answered(to_bucket, {FileRemoved(f) : f \in told})
              /\ bucket'.sync = Enqueued(bucket.sync, events)
              /\ IsSeq(events) /\ ToSet(events) = {FileRemoved(f) : f \in later}
              /\ Q \in SUBSET Owned(bucket.files \cup bucket.pending)
              /\ Owned(bucket'.files \cup bucket'.pending) =
                     Owned(bucket.files \cup bucket.pending) \ Q
              /\ DOMAIN bucket'.users
                     \subseteq DOMAIN bucket.users \cup UsersOf(to_bucket.batch, "UserAdded")
              /\ UNCHANGED <<index, to_index, file_count, excused, removed>>
  BY BucketHandlesIs, Zenon
<1> DEFINE Q == Owned(told \cup later)
           events == FilesRemoved(later)
           answer == {FileRemoved(f) : f \in told}
           C == {FileRemoved(f) : f \in later}
<1>4. /\ to_bucket.at = "asked" /\ to_bucket' = Answered(to_bucket, answer)
      /\ bucket'.sync = Enqueued(bucket.sync, events)
      /\ IsSeq(events) /\ ToSet(events) = C /\ Q \in SUBSET P
      /\ Owned(bucket'.files \cup bucket'.pending) = P \ Q
      /\ DOMAIN bucket'.users \subseteq DOMAIN bucket.users \cup UsersOf(batch, "UserAdded")
      /\ UNCHANGED <<index, to_index, file_count, excused, removed>>
  BY <1>3, Zenon
<1>5. to_bucket'.at = "answered" /\ to_bucket'.answer = answer
      /\ DOMAIN to_bucket' = {"at", "batch", "answer"}
  BY <1>1, <1>4 DEF Answered
<1>6. /\ \A e \in answer \cup C : e.kind = "FileRemoved"
      /\ Said("FileAdded", C) = {}
      /\ Said("FileRemoved", answer) \cup Said("FileRemoved", C) = {Removal(q) : q \in Q}
  <2>1. \A e \in answer \cup C : e.kind = "FileRemoved"
    BY DEF FileRemoved
  <2>2. Q = Owned(told) \cup Owned(later)
    BY DEF Owned
  <2>3. /\ Said("FileRemoved", answer) = {Removal(q) : q \in Owned(told)}
        /\ Said("FileRemoved", C) = {Removal(q) : q \in Owned(later)}
        /\ Said("FileAdded", C) = {}
    BY SaidOfFiles
  <2>4. {Removal(q) : q \in Owned(told) \cup Owned(later)}
            = {Removal(q) : q \in Owned(told)} \cup {Removal(q) : q \in Owned(later)}
    <3> DEFINE S == Owned(told)
               T == Owned(later)
    <3> HIDE DEF S, T
    <3>1. {Removal(q) : q \in S \cup T} = {Removal(q) : q \in S} \cup {Removal(q) : q \in T}
      OBVIOUS
    <3> QED BY <3>1 DEF S, T
  <2> HIDE DEF answer, C, Q
  <2> QED BY <2>1, <2>2, <2>3, <2>4
<1> HIDE DEF Q, events, answer, C
<1>7. Path' = Path \o events
  <2>1. /\ IsSeq(events) /\ GoodSync(bucket.sync) /\ GoodBatch(to_index.batch)
        /\ "at" \in DOMAIN to_index /\ "batch" \in DOMAIN to_index
    BY <1>1, <1>4
  <2>2. Way(to_index, Enqueued(bucket.sync, events)) = Way(to_index, bucket.sync) \o events
    BY ONLY <2>1, WayStays
  <2> QED BY <1>4, <2>2 DEF Path
<1>8. ToSet(Path') = ToSet(Path) \cup C
  BY <1>1, <1>4, <1>7, ConcatIs
<1>9. AccountsInv'
  <2> DEFINE B == ToSet(Path)
             R == index.references
             L == Known(index'.references, ToSet(Path'))
             H == Said("FileRemoved", ToSet(Path') \cup to_bucket'.answer)
  <2>1. L = K
    <3>1. L = Known(R, B \cup C)
      BY <1>4, <1>8
    <3>2. Known(R, B \cup C) = Known(R, B) \cup Said("FileAdded", C)
      <4> HIDE DEF B, R
      <4> QED BY DEF Known, Said
    <3> QED BY <1>6, <3>1, <3>2
  <2>2. H = G \cup {Removal(q) : q \in Q}
    <3>1. to_bucket.answer = {}
      BY <1>2, <1>4 DEF CallsInv
    <3>2. G = Said("FileRemoved", B)
      BY <3>1
    <3>3. H = Said("FileRemoved", (B \cup C) \cup answer)
      BY <1>5, <1>8
    <3> HIDE DEF B, H, G
    <3>4. H = (Said("FileRemoved", B) \cup Said("FileRemoved", C)) \cup Said("FileRemoved", answer)
      <4> DEFINE D == B \cup C
      <4>1. Said("FileRemoved", D) = Said("FileRemoved", B) \cup Said("FileRemoved", C)
        BY SaidIs
      <4> HIDE DEF D
      <4>2. Said("FileRemoved", D \cup answer)
                = Said("FileRemoved", D) \cup Said("FileRemoved", answer)
        BY SaidIs
      <4>3. H = Said("FileRemoved", D \cup answer)
        BY <3>3 DEF D
      <4> QED BY <4>1, <4>2, <4>3
    <3> QED BY <1>6, <3>2, <3>4
  <2>3. Accounts(P, K, G, to_index.answer, excused, removed, file_count) /\ InOrder(Path)
    BY <1>2 DEF AccountsInv
  <2>4. \A k \in K : k = <<k[1], k[2], k[3]>>
    BY TriplesAre
  <2>5. \A p, q \in P : p[1] = q[1] => p = q
    BY <1>1, OwnedById
  <2>6. InOrder(Path')
    <3>1. \A e \in ToSet(events) : e.kind # "FileAdded"
      BY <1>4, <1>6
    <3> QED BY <1>1, <1>4, <1>7, <2>3, <3>1, OrderedAppend
  <2> HIDE DEF P, K, G, L, H
  <2>7. Accounts(P \ Q, K, G \cup {Removal(q) : q \in Q}, to_index.answer,
                 excused, removed, file_count)
    BY <1>4, <2>3, <2>4, <2>5, FilesGo
  <2> QED BY <1>4, <2>1, <2>2, <2>6, <2>7 DEF AccountsInv, L, H
<1>10. OwnersInv'
  <2> DEFINE rest == Way(Answered(to_bucket, answer), index.sync)
  <2>1. Way(to_bucket, index.sync) = batch \o rest /\ Way(to_bucket', index'.sync) = rest
    <3>1. to_bucket.at = "asked"
      BY <1>4
    <3>2. Way(to_bucket, index.sync) = batch \o rest
      BY ONLY <1>1, <3>1, WayStays, ZenonT(30)
    <3> QED BY <1>4, <3>2
  <2>2. IsSeq(batch) /\ IsSeq(rest)
    <3>1. Answered(to_bucket, answer).batch = batch
      BY <1>1 DEF Answered
    <3> QED BY <1>1, <3>1, WayIs, GoodIsSeq
  <2>3. ToSet(Way(to_bucket, index.sync)) = ToSet(batch) \cup ToSet(rest)
    <3> HIDE DEF batch, rest
    <3> QED BY <2>1, <2>2, ConcatIs
  <2> HIDE DEF batch, rest
  <2>4. UsersOf(batch, "UserAdded") \subseteq Ever
    <3>1. \A e \in ToSet(batch) : e.kind = "UserAdded" => e.user \in Ever
      BY <1>2, <2>3 DEF OwnersInv
    <3> QED BY <3>1 DEF UsersOf, OfKind
  <2>5. Ever' = Ever
    BY <1>4 DEF Ever
  <2>6. DOMAIN bucket'.users \subseteq Ever
    BY <1>2, <1>4, <2>4 DEF OwnersInv
  <2>7. \A f \in bucket'.files \cup bucket'.pending : f.owner \in Ever
    <3>1. \A p \in P : p[2] \in Ever
      BY <1>2 DEF OwnersInv, Owned
    <3> DEFINE more == bucket'.files \cup bucket'.pending
    <3> HIDE DEF P, more
    <3>2. \A p \in Owned(more) : p[2] \in Ever
      BY <1>4, <3>1 DEF more
    <3>3. ASSUME NEW f \in more PROVE f.owner \in Ever
      <4>1. <<f.id, f.owner>> \in Owned(more) /\ <<f.id, f.owner>>[2] = f.owner
        BY DEF Owned
      <4> QED BY <3>2, <4>1
    <3> QED BY <3>3 DEF more
  <2>8. \A e \in ToSet(Path') : e.kind = "FileAdded" => e.owner \in Ever
    BY <1>2, <1>6, <1>8 DEF OwnersInv
  <2>9. \A e \in ToSet(Way(to_bucket', index'.sync)) : e.kind = "UserAdded" => e.user \in Ever
    BY <1>2, <2>1, <2>3 DEF OwnersInv
  <2> QED BY <2>5, <2>6, <2>7, <2>8, <2>9 DEF OwnersInv
<1>11. bucket'.sync.in_progress = bucket.sync.in_progress
       /\ bucket'.sync.args_to_retry = bucket.sync.args_to_retry
  BY <1>1, <1>4 DEF Enqueued, GoodSync, IsRecord
<1>12. CallsInv'
  BY <1>2, <1>4, <1>5, <1>6, <1>11 DEF CallsInv
<1> QED BY <1>9, <1>10, <1>12

LEMMA NextKeepsAgree ==
    ASSUME AgreeInv, [Next]_vars
    PROVE  AgreeInv'
<1>1. BytesInv'
  BY NextKeepsBytes DEF AgreeInv
<1>2. CallsInv' /\ OwnersInv' /\ AccountsInv'
  <2>1. CASE UNCHANGED vars
    <3>1. UNCHANGED <<Path, Ever>>
      BY <2>1 DEF vars, Path, Ever
    <3>2. CallsInv'
      BY <2>1 DEF vars, AgreeInv, CallsInv
    <3>3. OwnersInv'
      BY <2>1, <3>1 DEF vars, AgreeInv, OwnersInv
    <3>4. AccountsInv'
      BY <2>1, <3>1 DEF vars, AgreeInv, AccountsInv
    <3> QED BY <3>2, <3>3, <3>4
  <2>2. CASE AtBucket
    BY <2>2, AtBucketIs, BucketStepKeepsAccounts, BucketStepKeepsOwners
  <2>3. CASE AtIndex
    BY <2>3, AtIndexKeepsAgree
  <2>4. CASE BucketSyncs \/ CallToIndexRejected \/ IndexSyncs \/ CallToBucketRejected
    BY <2>4, CallsKeepAgree
  <2>5. CASE IndexHandles
    BY <2>5, IndexHandlesKeepsAgree
  <2>6. CASE BucketHears
    BY <2>6, BucketHearsKeepsAgree
  <2>7. CASE BucketHandles
    BY <2>7, BucketHandlesKeepsAgree
  <2>8. CASE IndexHears
    BY <2>8, IndexHearsKeepsAgree
  <2> QED BY <2>1, <2>2, <2>3, <2>4, <2>5, <2>6, <2>7, <2>8 DEF Next, Syncs
<1> QED BY <1>1, <1>2 DEF AgreeInv

LEMMA NothingOnItsWay == Waiting(Idle) = <<>> /\ Way(NoCall, Idle) = <<>>
<1>1. IsSeq(<<>>) /\ Sent(NoCall) = <<>> /\ Idle.queue = <<>> /\ Idle.args_to_retry = <<>>
  BY NoneSeq DEF Sent, NoCall, Idle
<1>2. Waiting(Idle) = <<>>
  BY <1>1, WithNone DEF Waiting
<1> QED BY <1>1, <1>2, WithNone DEF Way

LEMMA InitAgree == Init => AgreeInv
<1> SUFFICES ASSUME Init PROVE AgreeInv
  OBVIOUS
<1>1. /\ bucket.sync = Idle /\ index.sync = Idle /\ to_index = NoCall /\ to_bucket = NoCall
      /\ file_count = 0 /\ excused = {} /\ removed = {}
      /\ bucket.users = <<>> /\ bucket.files = {} /\ bucket.pending = {}
      /\ index.users = <<>> /\ index.references = {}
  BY DEF Init
<1>2. /\ NoCall.at = "none" /\ NoCall.answer = {} /\ DOMAIN NoCall = {"at", "batch", "answer"}
      /\ Idle.in_progress = FALSE
  BY DEF NoCall, Idle
<1>3. Path = <<>> /\ Way(to_bucket, index.sync) = <<>>
  BY <1>1, NothingOnItsWay DEF Path
<1>4. ToSet(<<>>) = {} /\ DOMAIN <<>> = {}
  BY NoneSeq
<1>5. CallsInv
  BY <1>1, <1>2 DEF CallsInv
<1>6. OwnersInv
  BY <1>1, <1>3, <1>4 DEF OwnersInv
<1>7. AccountsInv
  <2>1. /\ Owned(bucket.files \cup bucket.pending) = {}
        /\ Known(index.references, ToSet(Path)) = {}
        /\ Said("FileRemoved", ToSet(Path) \cup to_bucket.answer) = {}
        /\ to_index.answer = {}
    BY <1>1, <1>2, <1>3, <1>4 DEF Owned, Known, Said
  <2>2. Accounts({}, {}, {}, {}, excused, removed, file_count)
    BY DEF Accounts
  <2>3. InOrder(<<>>)
    BY <1>4 DEF InOrder
  <2> QED BY <1>3, <2>1, <2>2, <2>3 DEF AccountsInv
<1> QED BY <1>5, <1>6, <1>7, InitBytes DEF AgreeInv

LEMMA AgreeInvSays == AgreeInv => QuietCopiesAgree
<1> SUFFICES ASSUME AgreeInv PROVE QuietCopiesAgree
  OBVIOUS
<1>1. CallsInv /\ AccountsInv /\ GoodSync(bucket.sync) /\ GoodBatch(to_index.batch)
  BY AgreeInvHas DEF AgreeInv
<1> DEFINE P == Owned(bucket.files \cup bucket.pending)
           K == Known(index.references, ToSet(Path))
           G == Said("FileRemoved", ToSet(Path) \cup to_bucket.answer)
<1>2. ASSUME Quiet PROVE Path = <<>> /\ to_bucket.answer = {}
  <2>1. to_index.at = "none" /\ to_bucket.at = "none" /\ ~CanSync(bucket.sync)
    BY <1>2 DEF Quiet
  <2>2. ~bucket.sync.in_progress /\ to_bucket.answer = {}
    BY <1>1, <2>1 DEF CallsInv
  <2> DEFINE q == bucket.sync.queue
             r == bucket.sync.args_to_retry
  <2>3. q \o r = <<>>
    BY <2>1, <2>2 DEF CanSync
  <2>4. IsSeq(q) /\ IsSeq(r)
    BY <1>1, WayIs
  <2>5. q = <<>> /\ r = <<>>
    <3> HIDE DEF q, r
    <3>1. PICK E : q \in Seq(E) /\ r \in Seq(E)
      BY <2>4, Both
    <3> QED BY <2>3, <3>1, ConcatEqualIffEmpty
  <2>6. Sent(to_index) = <<>>
    BY <2>1 DEF Sent
  <2>7. Path = <<>> \o (<<>> \o <<>>)
    BY <2>5, <2>6 DEF Path, Way, Waiting
  <2> QED BY <2>2, <2>7, NoneSeq, WithNone
<1>3. ASSUME Quiet
      PROVE  G = {} /\ K = {Triple(r) : r \in index.references}
  <2>1. ToSet(Path) = {} /\ to_bucket.answer = {}
    BY <1>2, <1>3, NoneSeq
  <2> QED BY <2>1 DEF Known, Said
<1>4. Accounts(P, K, G, to_index.answer, excused, removed, file_count)
  BY <1>1 DEF AccountsInv
<1>5. /\ \A r : Triple(r)[1] = r.file /\ Triple(r)[2] = r.owner
      /\ \A p : p \in P <=> \E f \in bucket.files \cup bucket.pending : p = <<f.id, f.owner>>
  BY DEF Triple, Owned
<1> HIDE DEF P, K, G
<1>6. ASSUME Quiet, NEW id \in Ids \ excused,
             ~\E f \in bucket.files \cup bucket.pending : f.id = id /\ f.owner \in removed,
             ~\E r \in index.references : r.file = id /\ r.owner \in removed
      PROVE  id \in IdsOf(bucket.files \cup bucket.pending)
                 <=> \E r \in index.references : r.file = id
  <2>1. ASSUME NEW f \in bucket.files \cup bucket.pending, f.id = id
        PROVE  \E r \in index.references : r.file = id
    <3> DEFINE p == <<f.id, f.owner>>
    <3>1. p \in P /\ p[1] = id /\ p[2] \notin removed
      BY <1>5, <1>6, <2>1
    <3> HIDE DEF p
    <3>2. PICK k \in K : k[1] = id
      BY <1>4, <1>6, <3>1 DEF Accounts
    <3> QED BY <1>3, <1>5, <1>6, <3>2
  <2>2. ASSUME NEW r \in index.references, r.file = id
        PROVE  \E f \in bucket.files \cup bucket.pending : f.id = id
    <3> DEFINE k == Triple(r)
    <3>1. k \in K /\ k[1] = id /\ k[2] \notin removed /\ G = {}
      BY <1>3, <1>5, <1>6, <2>2
    <3> HIDE DEF k
    <3>2. PICK p \in P : p[1] = id
      BY <1>4, <1>6, <3>1 DEF Accounts
    <3> QED BY <1>5, <3>2
  <2> QED BY <2>1, <2>2 DEF IdsOf
<1> QED BY <1>1, <1>6 DEF QuietCopiesAgree, CallsInv

\* What the run checks on two users and three files: when nothing is under way, the
\* index refers to exactly the files the bucket has, but for those left out.
THEOREM QuietCopiesStayInStep == Spec => []QuietCopiesAgree
<1>1. Init => AgreeInv
  BY InitAgree
<1>2. AgreeInv /\ [Next]_vars => AgreeInv'
  BY NextKeepsAgree
<1>3. AgreeInv => QuietCopiesAgree
  BY AgreeInvSays
<1> QED BY <1>1, <1>2, <1>3, PTL DEF Spec
=============================================================================
