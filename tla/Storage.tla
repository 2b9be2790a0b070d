------------------------------- MODULE Storage -------------------------------
(***************************************************************************)
(* The store of uploaded files: a storage_bucket canister that keeps them  *)
(* and the storage_index canister that says who may use how much of it.    *)
(*                                                                         *)
(* Each tells the other what has happened through a queue of events, in    *)
(* batches, one call at a time; a batch whose call is rejected is sent     *)
(* again before any other.  The answers carry events as well: the index's  *)
(* names the files it rejects, the bucket's those it has removed.          *)
(*                                                                         *)
(* What a user uses is counted by what the clients say: the index is told  *)
(* the size a client has declared, which the bucket can only tell to be    *)
(* wrong with the last chunk, and the index keeps one size for each hash,  *)
(* whoever declared it.                                                    *)
(*                                                                         *)
(* There is one bucket.  A file's id is the number of the file, and stands *)
(* for its time of creation too.  Nobody but the owner uploads chunks of a *)
(* file, nor again once the upload has ended.  The oldest files of a user  *)
(* beyond the limit are deleted: add_or_update_users sets                  *)
(* delete_oldest_if_limit_exceeded for everybody.                          *)
(* Operators named Mut_* are wrong on purpose (see the README).            *)
(***************************************************************************)
EXTENDS SequencesExt, Integers

CONSTANTS
    Users, Accessors, Hashes,
    Size,         \* of the data with each hash
    Sizes,        \* what clients declare the size of a file to be
    ByteLimit,    \* byte_limit of every user
    MaxBatch,     \* MAX_EVENTS_TO_SYNC_PER_BATCH
    MaxFiles,     \* bound: files ever uploaded or forwarded
    MaxUserCalls, \* bound: calls of the index that add or remove users or accessors
    MaxRejections \* bound: rejected calls

ASSUME ConstantsAssumption ==
    /\ Size \in [Hashes -> Nat] /\ Sizes \subseteq Nat
    /\ MaxBatch \in Nat \ {0} /\ {ByteLimit, MaxFiles, MaxUserCalls, MaxRejections} \subseteq Nat

VARIABLES
    bucket,    \* users, files, pending_files, reference_counts, blobs, index_sync_state
    index,     \* users with their bytes_used, references, sizes, sync_state of the bucket
    to_index,  \* the c2c_sync_bucket call that is not answered yet
    to_bucket, \* the c2c_sync_index call that is not answered yet
    file_count, user_calls, rejections, \* bounds
    excused,   \* history: files the canisters will not agree about, see QuietCopiesAgree
    removed,   \* history: users that have been removed
    misled     \* history: users that had data somebody declared a wrong size for

vars == <<bucket, index, to_index, to_bucket, file_count, user_calls, rejections,
          excused, removed, misled>>
bounds == <<file_count, user_calls, rejections>>
history == <<excused, removed, misled>>

SumOfSizes(size, hashes) == Cardinality(UNION {{h} \X (1 .. size[h]) : h \in hashes})

-----------------------------------------------------------------------------
(* IndexSyncState and BucketSyncState *)

Idle == [queue |-> <<>>, in_progress |-> FALSE, args_to_retry |-> <<>>]
Enqueued(sync, events) == [sync EXCEPT !.queue = @ \o events]

CanSync(sync) == ~sync.in_progress /\ sync.queue \o sync.args_to_retry # <<>>
NextBatch(sync) ==
    IF sync.args_to_retry # <<>> THEN sync.args_to_retry
    ELSE SubSeq(sync.queue, 1, Min({MaxBatch, Len(sync.queue)}))
Started(sync) ==
    IF sync.args_to_retry # <<>>
    THEN [sync EXCEPT !.in_progress = TRUE, !.args_to_retry = <<>>]
    ELSE [sync EXCEPT !.in_progress = TRUE,
                      !.queue = SubSeq(@, Len(NextBatch(sync)) + 1, Len(@))]
Completed(sync) == [sync EXCEPT !.in_progress = FALSE]
Failed(sync, batch) == [sync EXCEPT !.in_progress = FALSE, !.args_to_retry = batch]

\* A batch lists its events by kind: their order across kinds is lost.
OfKind(batch, kind) == {e \in ToSet(batch) : e.kind = kind}

NoCall == [at |-> "none", batch |-> <<>>, answer |-> {}]
Asked(batch) == [at |-> "asked", batch |-> batch, answer |-> {}]
Answered(call, answer) == [call EXCEPT !.at = "answered", !.answer = answer]

FileAdded(file, hash, owner, created, size) ==
    [kind |-> "FileAdded", file |-> file, hash |-> hash, owner |-> owner, created |-> created,
     size |-> size]
FileRemoved(file) ==
    [kind |-> "FileRemoved", file |-> file.id, owner |-> file.owner, created |-> file.id]
UserEvent(kind, user) == [kind |-> kind, user |-> user]
FileToRemove(id) == [kind |-> "FileToRemove", file |-> id]

-----------------------------------------------------------------------------
(* The bucket's files *)

File(id, owner, hash, accessors, size) ==
    [id |-> id, owner |-> owner, hash |-> hash, accessors |-> accessors, size |-> size]
IdsOf(files) == {f.id : f \in files}

\* insert_completed_file, and the same for a forwarded file, whose blob is there
Inserted(b, file) ==
    [b EXCEPT !.files = @ \cup {file}, !.reference_counts[file.hash] = @ + 1,
              !.blobs = @ \cup {file.hash}]

\* process_removed_file, for some files: data goes with its last reference.
ReferencesLeft(b, files) ==
    [h \in Hashes |-> b.reference_counts[h] - Cardinality({f \in files : f.hash = h})]
Mut_Dropped(b, files) ==
    [b EXCEPT !.files = @ \ files, !.reference_counts = ReferencesLeft(b, files),
              !.blobs = @ \ {f.hash : f \in files}]
Dropped(b, files) ==
    LET left == ReferencesLeft(b, files)
    IN  [b EXCEPT !.files = @ \ files, !.reference_counts = left,
                  !.blobs = @ \ {h \in {f.hash : f \in files} : left[h] <= 0}]
Tells(b, events) == [b EXCEPT !.sync = Enqueued(@, events)]

\* Users: each has the status of the files it owns.
WithStatus(b, file, status) == [b EXCEPT !.users[file.owner] = (file.id :> status) @@ @]
Listed(b, file) == file.owner \in DOMAIN b.users /\ file.id \in DOMAIN b.users[file.owner]
IsUploading(b, file) == Listed(b, file) /\ b.users[file.owner][file.id] = "Uploading"

\* upload_chunk_v2 with the first chunk, of one or of several.  A file of one
\* chunk whose hash is wrong, as it is if the size is, leaves no trace.
NewFile == file_count < MaxFiles /\ file_count' = file_count + 1
UploadStarts(user, hash, accessors, size, chunks) ==
    LET file == File(file_count + 1, user, hash, accessors, size)
        b == Tells(bucket, <<FileAdded(file.id, hash, user, file.id, size)>>)
    IN  /\ NewFile /\ user \in DOMAIN bucket.users
        /\ chunks = 1 => size = Size[hash]
        /\ bucket' = IF chunks = 1 THEN WithStatus(Inserted(b, file), file, "Complete")
                     ELSE [WithStatus(b, file, "Uploading") EXCEPT !.pending = @ \cup {file}]
        /\ UNCHANGED <<index, to_index, to_bucket, user_calls, rejections, history>>

\* upload_chunk_v2 with the last chunk: the upload is complete, its hash is wrong,
\* or it has expired; of the last the index is not told.  Data of another size has
\* another hash.
NotPending(b, file) == [b EXCEPT !.pending = @ \ {file}]
UploadCompletes(file) ==
    /\ file.size = Size[file.hash]
    /\ bucket' = WithStatus(Inserted(NotPending(bucket, file), file), file, "Complete")
    /\ UNCHANGED excused
Mut_UploadMismatches(file) ==
    /\ bucket' = WithStatus(NotPending(bucket, file), file, "Rejected")
    /\ UNCHANGED excused
UploadMismatches(file) ==
    /\ bucket' = Tells(WithStatus(NotPending(bucket, file), file, "Rejected"),
                       <<FileRemoved(file)>>)
    /\ UNCHANGED excused
UploadExpires(file) ==
    /\ bucket' = WithStatus(NotPending(bucket, file), file, "Rejected")
    /\ excused' = excused \cup {file.id}
UploadEnds(file) ==
    /\ file.owner \in DOMAIN bucket.users
    /\ Listed(bucket, file) => IsUploading(bucket, file)
    /\ UploadCompletes(file) \/ UploadMismatches(file) \/ UploadExpires(file)
    /\ UNCHANGED <<index, to_index, to_bucket, bounds, removed, misled>>

\* forward_file: the index is told of the file as the original owner's.
Forward(user, file, accessors) ==
    LET size == Size[file.hash]
        copy == File(file_count + 1, user, file.hash, accessors, size)
    IN  /\ NewFile /\ user \in DOMAIN bucket.users
        /\ bucket' = Tells(WithStatus(Inserted(bucket, copy), copy, "Complete"),
                           <<FileAdded(copy.id, file.hash, file.owner, file.id, size)>>)
        /\ excused' = excused \cup {copy.id}
        /\ UNCHANGED <<index, to_index, to_bucket, user_calls, rejections, removed, misled>>

\* delete_file and delete_files, by the owner or an accessor; remove_expired_files
FileGoes(file) ==
    /\ bucket' = Tells(Dropped(bucket, {file}), <<FileRemoved(file)>>)
    /\ UNCHANGED <<index, to_index, to_bucket, bounds, history>>

-----------------------------------------------------------------------------
(* The index's users and references *)

ReferencesOf(i, user) == {r \in i.references : r.owner = user}
BlobsOf(i, user) == {r.hash : r \in ReferencesOf(i, user)}

\* delete_oldest_if_limit_exceeded: the oldest files, until they are large enough.
Older(r, s) == r.created < s.created \/ (r.created = s.created /\ r.file < s.file)
SizeOfOlder(sizes, references, r) ==
    FoldSet(LAMBDA s, sum : sum + sizes[s.hash], 0, {s \in references : Older(s, r)})
Oldest(sizes, references, exceeded_by) ==
    {r \in references : SizeOfOlder(sizes, references, r) < exceeded_by}
ToRemove(sizes, references, exceeded_by) ==
    LET oldest == Oldest(sizes, references, exceeded_by)
        sorted == SetToSortSeq(oldest, Older)
    IN  [n \in 1 .. Cardinality(oldest) |-> FileToRemove(sorted[n].file)]

\* add_file_reference; data a user owns already costs nothing, and its size stays.
Reference(e) == [owner |-> e.owner, created |-> e.created, file |-> e.file, hash |-> e.hash]
Mut_Charged(i, e) ==
    [i EXCEPT !.users[e.owner] = @ + e.size, !.sizes[e.hash] = e.size]
Charged(i, e) ==
    LET bytes_used == i.users[e.owner] + e.size
    IN  IF e.hash \in BlobsOf(i, e.owner) THEN i
        ELSE [i EXCEPT !.users[e.owner] = bytes_used,
                       !.sizes[e.hash] = e.size,
                       !.sync = Enqueued(@, ToRemove(i.sizes, ReferencesOf(i, e.owner),
                                                     bytes_used - ByteLimit))]
WithReference(i, e) ==
    IF e.kind = "FileAdded" /\ e.owner \in DOMAIN i.users
    THEN [Charged(i, e) EXCEPT !.references = @ \cup {Reference(e)}]
    ELSE i
AllAdded(i, batch) ==
    LET added[k \in 0 .. Len(batch)] ==
            IF k = 0 THEN i ELSE WithReference(added[k - 1], batch[k])
    IN  added[Len(batch)]

Rejected(i, batch) ==
    {e.file : e \in {x \in OfKind(batch, "FileAdded") : x.owner \notin DOMAIN i.users}}

\* remove_file_reference, for some events; an unknown file changes nothing, and
\* data costs a user nothing once none of its files has it.
Refers(r, e) == r.owner = e.owner /\ r.created = e.created /\ r.file = e.file
WithoutReferences(i, events) ==
    [i EXCEPT !.references = {r \in @ : \A e \in events : ~Refers(r, e)}]
AllRemoved(i, events) ==
    LET left == WithoutReferences(i, events)
        released(u) == SumOfSizes(i.sizes, BlobsOf(i, u) \ BlobsOf(left, u))
        referred_to == {r.hash : r \in left.references}
    IN  [left EXCEPT !.users = [u \in DOMAIN @ |-> Max({0, @[u] - released(u)})],
                     !.sizes = [h \in Hashes |-> IF h \in referred_to THEN @[h] ELSE 0]]

UserCall == user_calls < MaxUserCalls /\ user_calls' = user_calls + 1
ChangesUsers ==
    UserCall /\ UNCHANGED <<bucket, to_index, to_bucket, file_count, rejections>>

\* add_or_update_users
AddUser(user) ==
    /\ user \notin DOMAIN index.users
    /\ index' = [index EXCEPT
                    !.users = [u \in DOMAIN @ \cup {user} |-> IF u = user THEN 0 ELSE @[u]],
                    !.sync = Enqueued(@, <<UserEvent("UserAdded", user)>>)]
    /\ ChangesUsers /\ UNCHANGED history

\* remove_user
RemoveUser(user) ==
    /\ index' = [index EXCEPT !.users = [u \in DOMAIN @ \ {user} |-> @[u]],
                              !.sync = Enqueued(@, <<UserEvent("UserRemoved", user)>>)]
    /\ removed' = removed \cup {user}
    /\ ChangesUsers /\ UNCHANGED <<excused, misled>>

RemoveAccessor(accessor) ==
    /\ index' = [index EXCEPT !.sync = Enqueued(@, <<UserEvent("AccessorRemoved", accessor)>>)]
    /\ ChangesUsers /\ UNCHANGED history

-----------------------------------------------------------------------------
(* From the bucket to the index *)

BucketSyncs ==
    /\ CanSync(bucket.sync)
    /\ to_index' = Asked(NextBatch(bucket.sync))
    /\ bucket' = [bucket EXCEPT !.sync = Started(@)]
    /\ UNCHANGED <<index, to_bucket, bounds, history>>

\* Those that have the data a wrong size is declared for, or get it with the same batch.
Gets(batch, user) == {e.hash : e \in {x \in OfKind(batch, "FileAdded") : x.owner = user}}
Misled(i, batch) ==
    {u \in Users : \E e \in OfKind(batch, "FileAdded") :
                       /\ e.size # Size[e.hash]
                       /\ e.hash \in BlobsOf(i, u) \cup Gets(batch, u)}

\* c2c_sync_bucket
IndexHandles ==
    /\ to_index.at = "asked"
    /\ index' = AllRemoved(AllAdded(index, to_index.batch), OfKind(to_index.batch, "FileRemoved"))
    /\ to_index' = Answered(to_index, Rejected(index, to_index.batch))
    /\ misled' = misled \cup Misled(index, to_index.batch)
    /\ UNCHANGED <<bucket, to_bucket, bounds, excused, removed>>

Rejection == rejections < MaxRejections /\ rejections' = rejections + 1
CallToIndexRejected ==
    /\ to_index.at = "asked" /\ Rejection
    /\ to_index' = NoCall
    /\ bucket' = [bucket EXCEPT !.sync = Failed(@, to_index.batch)]
    /\ UNCHANGED <<index, to_bucket, file_count, user_calls, history>>

\* handle_success: what the index rejects is removed, if its owner is known.  A
\* file whose status is lost is not looked for among the pending ones.
Refused(b, ids) ==
    LET files == {f \in b.files \cup b.pending : f.id \in ids /\ f.owner \in DOMAIN b.users}
        uploading == {f \in files : IsUploading(b, f)}
        rejected(u) == [id \in IdsOf({f \in files : f.owner = u}) |-> "Rejected"]
        marked == [b EXCEPT !.users = [u \in DOMAIN @ |-> rejected(u) @@ @[u]],
                            !.pending = @ \ uploading]
    IN  Dropped(marked, b.files \cap (files \ uploading))
BucketHears ==
    /\ to_index.at = "answered"
    /\ bucket' = [Refused(bucket, to_index.answer) EXCEPT !.sync = Completed(@)]
    /\ to_index' = NoCall
    /\ UNCHANGED <<index, to_bucket, bounds, history>>

-----------------------------------------------------------------------------
(* From the index to the bucket *)

IndexSyncs ==
    /\ CanSync(index.sync)
    /\ to_bucket' = Asked(NextBatch(index.sync))
    /\ index' = [index EXCEPT !.sync = Started(@)]
    /\ UNCHANGED <<bucket, to_index, bounds, history>>

\* c2c_sync_index: additions, removals of users, of accessors, then of files.
\* Adding a user again makes the bucket forget which files it owns; what is
\* uploaded in part remains in any case.  Files that lose their last accessor go.
UsersOf(batch, kind) == {e.user : e \in OfKind(batch, kind)}
Goes(b, file, batch) ==
    \/ file.owner \in UsersOf(batch, "UserRemoved") /\ Listed(b, file)
    \/ file.accessors # {} /\ file.accessors \subseteq UsersOf(batch, "AccessorRemoved")
    \/ \E e \in OfKind(batch, "FileToRemove") : e.file = file.id
WithUsers(b, batch) ==
    LET added == UsersOf(batch, "UserAdded")
    IN  [b EXCEPT !.users = [u \in DOMAIN @ \cup added |-> IF u \in added THEN <<>> ELSE @[u]]]
WithoutUsers(b, batch) ==
    [b EXCEPT
        !.users = [u \in DOMAIN @ \ UsersOf(batch, "UserRemoved") |-> @[u]],
        !.files = {[f EXCEPT !.accessors = @ \ UsersOf(batch, "AccessorRemoved")] : f \in @}]
\* The removals, one after the other; nothing depends on their order.
FilesRemoved(files) ==
    LET ids == SetToSeq(IdsOf(files))
    IN  [n \in DOMAIN ids |-> FileRemoved(CHOOSE f \in files : f.id = ids[n])]

BucketHandles ==
    LET batch == to_bucket.batch
        b == WithUsers(bucket, batch)
        files == {f \in b.files : Goes(b, f, batch)}
    IN  /\ to_bucket.at = "asked"
        /\ \E told \in SUBSET files : \* in the answer; the others come later
            /\ Cardinality(told) = Min({MaxBatch, Cardinality(files)})
            /\ bucket' = Tells(WithoutUsers(Dropped(b, files), batch),
                               FilesRemoved(files \ told))
            /\ to_bucket' = Answered(to_bucket, {FileRemoved(f) : f \in told})
        /\ UNCHANGED <<index, to_index, bounds, history>>

CallToBucketRejected ==
    /\ to_bucket.at = "asked" /\ Rejection
    /\ to_bucket' = NoCall
    /\ index' = [index EXCEPT !.sync = Failed(@, to_bucket.batch)]
    /\ UNCHANGED <<bucket, to_index, file_count, user_calls, history>>

\* handle_success.  The bucket's queue may still hold the addition of a file
\* the answer says is removed; then the index will never let go of it.
Queued(id) ==
    \E e \in ToSet(bucket.sync.queue \o bucket.sync.args_to_retry) \cup
             (IF to_index.at = "asked" THEN ToSet(to_index.batch) ELSE {}) :
        e.kind = "FileAdded" /\ e.file = id
IndexHears ==
    /\ to_bucket.at = "answered"
    /\ index' = [AllRemoved(index, to_bucket.answer) EXCEPT !.sync = Completed(@)]
    /\ to_bucket' = NoCall
    /\ excused' = excused \cup {e.file : e \in {x \in to_bucket.answer : Queued(x.file)}}
    /\ UNCHANGED <<bucket, to_index, bounds, removed, misled>>

-----------------------------------------------------------------------------
(* The specification *)

Init ==
    /\ bucket = [users |-> <<>>, files |-> {}, pending |-> {}, sync |-> Idle,
                 reference_counts |-> [h \in Hashes |-> 0], blobs |-> {}]
    /\ index = [users |-> <<>>, references |-> {}, sizes |-> [h \in Hashes |-> 0], sync |-> Idle]
    /\ to_index = NoCall /\ to_bucket = NoCall
    /\ file_count = 0 /\ user_calls = 0 /\ rejections = 0
    /\ excused = {} /\ removed = {} /\ misled = {}

AtBucket ==
    \/ \E u \in Users, accessors \in SUBSET Accessors :
          \/ \E h \in Hashes, size \in Sizes, chunks \in {1, 2} :
                UploadStarts(u, h, accessors, size, chunks)
          \/ \E f \in bucket.files : Forward(u, f, accessors)
    \/ \E f \in bucket.pending : UploadEnds(f)
    \/ \E f \in bucket.files : FileGoes(f)
AtIndex ==
    \/ \E u \in Users : AddUser(u) \/ RemoveUser(u)
    \/ \E a \in Accessors : RemoveAccessor(a)
Syncs ==
    \/ BucketSyncs \/ IndexHandles \/ CallToIndexRejected \/ BucketHears
    \/ IndexSyncs \/ BucketHandles \/ CallToBucketRejected \/ IndexHears

Next == AtBucket \/ AtIndex \/ Syncs
Spec == Init /\ [][Next]_vars

-----------------------------------------------------------------------------
(* Properties *)

Ids == 1 .. MaxFiles

\* The bucket keeps data exactly as long as a file refers to it (remove_blob is
\* called with the last reference), and a file is either complete or pending.
BlobsMatchFiles ==
    /\ \A h \in Hashes :
          /\ bucket.reference_counts[h] = Cardinality({f \in bucket.files : f.hash = h})
          /\ h \in bucket.blobs <=> bucket.reference_counts[h] > 0
    /\ IdsOf(bucket.files) \cap IdsOf(bucket.pending) = {}

\* A user that has never been removed is charged once for all its data and for what
\* it is worth, unless somebody declared a wrong size for data that it had: a wrong
\* size touches nobody else, though the index keeps one for each hash.
BytesUsedExact ==
    \A u \in DOMAIN index.users \ (removed \cup misled) :
        index.users[u] = SumOfSizes(Size, BlobsOf(index, u))

\* When nothing is under way, the index refers to the files the bucket has.  Not
\* so for a file that was forwarded, that expired while it was uploaded, whose
\* removal was answered before its addition was sent, or whose owner has been
\* removed.  And each canister knows that a call of its own is under way, so that
\* what is queued is sent.
Quiet == /\ ~CanSync(bucket.sync) /\ ~CanSync(index.sync)
         /\ to_index.at = "none" /\ to_bucket.at = "none"
QuietCopiesAgree ==
    /\ bucket.sync.in_progress <=> to_index.at # "none"
    /\ index.sync.in_progress <=> to_bucket.at # "none"
    /\ Quiet =>
        \A id \in Ids \ excused :
            \/ \E f \in bucket.files \cup bucket.pending : f.id = id /\ f.owner \in removed
            \/ \E r \in index.references : r.file = id /\ r.owner \in removed
            \/ id \in IdsOf(bucket.files \cup bucket.pending)
                  <=> \E r \in index.references : r.file = id
=============================================================================
