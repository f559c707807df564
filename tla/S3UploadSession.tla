---------------------------- MODULE S3UploadSession ----------------------------
(****************************************************************************)
(* S3UploadSession (src/s3/s3_upload_session.cpp): one S3 object written by  *)
(* concurrent Write calls, published by Finalize or thrown away by Abort.    *)
(*                                                                          *)
(* Every critical section under state_lock is one action; the condition      *)
(* variable's wait loops are guards, since every change of a waited-for      *)
(* condition calls notify_all.  A request to S3 is outstanding while its     *)
(* thread's pc says so; the action that receives the response also applies   *)
(* the request to the store and runs the critical section that follows, as   *)
(* only the thread itself can tell those moments apart.                      *)
(*                                                                          *)
(* The byte at file offset k is the number k, so a part or an object is the  *)
(* sequence of the offsets its bytes came from.                              *)
(****************************************************************************)
EXTENDS Naturals, FiniteSets, Sequences, SequencesExt

CONSTANTS
    Threads,        \* the threads that call into the session
    Writes,         \* the Write inputs: records [location, size]
    MaxCalls,       \* bound: number of calls made on the session
    MaxFileSize,    \* config.max_file_size
    MaxParts,       \* config.max_parts
    MaxPartSize,    \* S3UploadConfig::MAX_MULTIPART_PART_SIZE
    PartSize,       \* config.PartSize, a function of the reserved parts
    None            \* an empty pointer

ASSUME SessionAssumption ==
    /\ IsFiniteSet(Threads)
    /\ None \notin Threads
    /\ None \notin Seq(Nat) /\ None \notin [bytes : Seq(Nat), capacity : Nat]
    /\ Writes \subseteq [location : Nat, size : Nat]
    /\ MaxCalls \in Nat
    /\ MaxFileSize \in Nat \ {0}
    /\ MaxParts \in Nat \ {0}
    /\ MaxPartSize \in Nat \ {0}
    /\ PartSize \in [0..MaxParts -> 1..MaxPartSize]

VARIABLES
    \* S3UploadSession, guarded by state_lock
    lifecycle_state,        \* LifecycleState
    active_operations,      \* admitted writes and the finalizer
    next_offset,            \* end of the accepted bytes
    buffered_part,          \* None or [bytes, capacity]
    initialization_state,   \* InitializationState
    multipart_upload_id,    \* whether the upload ID is known
    part_etags,             \* per reserved part, whether its ETag is stored
    primary_error,          \* None or the thread whose failure was latched
    abort_error,            \* whether the cleanup request failed
    failure_disposition,    \* FailureDisposition
    abort_suppressed,
    cleanup_state,          \* CleanupState
    \* S3FileHandle
    length,                 \* the handle's length, advanced by each write
    \* the calling threads
    pc,                     \* where each thread is
    op,                     \* the public method it runs
    arg,                    \* the arguments of its Write
    todo,                   \* PreparedWrite.parts still to upload
    local_buffered_part,    \* the buffer a Finalize took over
    thrown,                 \* disposition of the exception it handles
    \* the object store
    upload,                 \* the multipart upload: None, Open, Completed, Aborted
    stored,                 \* the bytes stored under each part number
    object,                 \* the published object, None before
    \* history
    initiates,              \* initiation requests sent
    aborts,                 \* abort requests sent
    reports,                \* the failures reported to callers
    calls                   \* calls made

controlVars == <<lifecycle_state, active_operations, cleanup_state>>
dataVars    == <<next_offset, buffered_part, part_etags, length>>
initVars    == <<initialization_state, multipart_upload_id>>
failureVars == <<primary_error, abort_error, failure_disposition, abort_suppressed>>
inputVars   == <<op, arg>>
localVars   == <<todo, local_buffered_part, thrown>>
s3Vars      == <<upload, stored, object>>
histVars    == <<initiates, aborts, reports, calls>>

vars == <<controlVars, dataVars, initVars, failureVars, pc, inputVars, localVars,
          s3Vars, histVars>>

-----------------------------------------------------------------------------
LifecycleState      == {"ACTIVE", "FINALIZING", "FINALIZED", "ABORTING", "ABORTED"}
InitializationState == {"NOT_STARTED", "IN_PROGRESS", "SUCCEEDED", "FAILED"}
CleanupState        == {"NONE", "IN_PROGRESS", "COMPLETE"}
FailureDisposition  == {"DEFINITIVE", "AMBIGUOUS"}
UploadState         == {"None", "Open", "Completed", "Aborted"}

\* Where a thread holds one unit of active_operations, from its admission to
\* the critical section that gives it back.
WriterLabels   == {"PrepareWrite", "UpdateCursor"}
UploadLabels   == {"EnsureMultipartUpload", "InitializeMultipartUpload",
                   "ThrowIfFailed", "UploadPart"}
FinalizeLabels == {"Finalize", "UploadSingle", "CompleteMultipartUpload",
                   "ReceiveCompletion", "FinishFinalize"}
FailureLabels  == {"LatchFailure", "ReleaseOperation"}
OperationLabels == WriterLabels \cup UploadLabels \cup FinalizeLabels \cup FailureLabels

\* A thread waiting for the response to a request of the given kind.
UploadRequests == {"InitializeMultipartUpload", "UploadPart", "UploadSingle",
                   "ReceiveCompletion"}
AbortRequests  == {"ReleaseCleanup", "AbortCleanup"}
WaitLabels     == {"BeginWriteOperation", "BeginFinalize", "Abort", "ReleaseWait",
                   "AbortDrain", "AbortFailureWait"}
Labels == {"Idle"} \cup OperationLabels \cup AbortRequests \cup WaitLabels

Byte == Nat
BufferedPart == [bytes : Seq(Byte), capacity : Nat]
PreparedPart == [part_number : Nat, bytes : Seq(Byte)]

\* The bytes of the file from offset lo up to, not including, hi.
Bytes(lo, hi) == [i \in 1..(hi - lo) |-> lo + i - 1]

failed == primary_error # None

Init ==
    /\ lifecycle_state = "ACTIVE"
    /\ active_operations = 0
    /\ next_offset = 0
    /\ buffered_part = None
    /\ initialization_state = "NOT_STARTED"
    /\ multipart_upload_id = FALSE
    /\ part_etags = <<>>
    /\ primary_error = None
    /\ abort_error = FALSE
    /\ failure_disposition = "DEFINITIVE"
    /\ abort_suppressed = FALSE
    /\ cleanup_state = "NONE"
    /\ length = 0
    /\ pc = [t \in Threads |-> "Idle"]
    /\ op = [t \in Threads |-> "Write"]
    /\ arg = [t \in Threads |-> [location |-> 0, size |-> 0]]
    /\ todo = [t \in Threads |-> <<>>]
    /\ local_buffered_part = [t \in Threads |-> None]
    /\ thrown = [t \in Threads |-> "DEFINITIVE"]
    /\ upload = "None"
    /\ stored = [n \in 1..MaxParts |-> None]
    /\ object = None
    /\ initiates = 0
    /\ aborts = 0
    /\ reports = {}
    /\ calls = 0

-----------------------------------------------------------------------------
(* Calls, returns and exceptions. *)

Goto(t, label) == pc' = [pc EXCEPT ![t] = label]

\* An exception leaves the try block: the catch clause will latch it.
Throw(t, disposition) ==
    /\ Goto(t, "LatchFailure")
    /\ thrown' = [thrown EXCEPT ![t] = disposition]
    /\ UNCHANGED <<todo, local_buffered_part>>

\* ThrowFailure(CaptureFailure()) out of the session, into the caller.
Report(abort) == reports' = reports \cup {<<primary_error, abort>>}

\* Bound on the calls a behaviour makes.
Budget == calls < MaxCalls /\ calls' = calls + 1

\* A thread enters a public method of the session.
Enter(t, method, label) ==
    /\ pc[t] = "Idle"
    /\ Goto(t, label)
    /\ op' = [op EXCEPT ![t] = method]
    /\ todo' = [todo EXCEPT ![t] = <<>>]
    /\ local_buffered_part' = [local_buffered_part EXCEPT ![t] = None]
    /\ UNCHANGED <<controlVars, dataVars, initVars, failureVars, thrown, s3Vars,
                   initiates, aborts, reports>>

CallWrite(t) ==
    /\ Budget
    /\ Enter(t, "Write", "BeginWriteOperation")
    /\ \E w \in Writes : arg' = [arg EXCEPT ![t] = w]

CallFinalize(t) == Budget /\ Enter(t, "Finalize", "BeginFinalize") /\ UNCHANGED arg

CallAbort(t) == Budget /\ Enter(t, "Abort", "Abort") /\ UNCHANGED arg

-----------------------------------------------------------------------------
(* Admission. *)

\* Mutant: callers are answered while the cleanup is still running.
SettledAtOnce == TRUE

\* A failed session answers only when its cleanup is over.
Settled == failed => cleanup_state = "COMPLETE"

BeginWriteOperation(t) ==
    /\ pc[t] = "BeginWriteOperation"
    /\ Settled
    /\ \/ /\ failed
          /\ Goto(t, "Idle")
          /\ Report(abort_error)
          /\ UNCHANGED active_operations
       \/ /\ ~failed
          /\ lifecycle_state # "ACTIVE"     \* rejected, nothing is latched
          /\ Goto(t, "Idle")
          /\ UNCHANGED <<active_operations, reports>>
       \/ /\ ~failed
          /\ lifecycle_state = "ACTIVE"
          /\ active_operations' = active_operations + 1
          /\ Goto(t, "PrepareWrite")
          /\ UNCHANGED reports
    /\ UNCHANGED <<lifecycle_state, cleanup_state, dataVars, initVars, failureVars,
                   inputVars, localVars, s3Vars, initiates, aborts, calls>>

\* Mutant: writes still in progress do not keep a Finalize out.
FinalizeIgnoresWriters == lifecycle_state # "ACTIVE"

\* No Finalize starts now: another operation is active, or the session has ended.
FinalizeRefused == lifecycle_state # "ACTIVE" \/ active_operations > 0

BeginFinalize(t) ==
    /\ pc[t] = "BeginFinalize"
    /\ Settled
    /\ \/ /\ failed
          /\ Goto(t, "Idle")
          /\ Report(abort_error)
          /\ UNCHANGED <<lifecycle_state, active_operations, buffered_part,
                         local_buffered_part>>
       \/ /\ ~failed
          /\ FinalizeRefused
          /\ Goto(t, "Idle")                \* rejected, or already finalized
          /\ UNCHANGED <<lifecycle_state, active_operations, buffered_part,
                         local_buffered_part, reports>>
       \/ /\ ~failed
          /\ ~FinalizeRefused
          /\ lifecycle_state' = "FINALIZING"
          /\ active_operations' = active_operations + 1
          /\ local_buffered_part' = [local_buffered_part EXCEPT ![t] = buffered_part]
          /\ buffered_part' = None
          /\ Goto(t, "Finalize")
          /\ UNCHANGED reports
    /\ UNCHANGED <<cleanup_state, next_offset, part_etags, length, initVars, failureVars,
                   inputVars, todo, thrown, s3Vars, initiates, aborts, calls>>

-----------------------------------------------------------------------------
(* Failure and release. *)

\* Mutant: a later failure replaces the first.
LatchLastFailure(t, disposition) ==
    /\ primary_error' = t
    /\ failure_disposition' = disposition
    /\ abort_suppressed' = (abort_suppressed \/ disposition = "AMBIGUOUS")
    /\ lifecycle_state' = IF lifecycle_state = "FINALIZING" THEN "ACTIVE" ELSE lifecycle_state
    /\ UNCHANGED abort_error

\* The first failure is kept; an unknown outcome forbids the abort for good.
LatchFailureLocked(t, disposition) ==
    /\ primary_error' = IF failed THEN primary_error ELSE t
    /\ failure_disposition' = IF failed THEN failure_disposition ELSE disposition
    /\ abort_suppressed' = (abort_suppressed \/ disposition = "AMBIGUOUS")
    /\ lifecycle_state' = IF lifecycle_state = "FINALIZING" THEN "ACTIVE" ELSE lifecycle_state
    /\ UNCHANGED abort_error

\* FailOperation's first half; ReleaseOperation follows under a new lock.
LatchFailure(t) ==
    /\ pc[t] = "LatchFailure"
    /\ LatchFailureLocked(t, thrown[t])
    /\ Goto(t, "ReleaseOperation")
    /\ UNCHANGED <<active_operations, cleanup_state, dataVars, initVars, inputVars, localVars,
                   s3Vars, histVars>>

\* Mutant: an upload with an unknown outcome is aborted as well.
AbortAlways == multipart_upload_id

\* Mutant: an upload without any stored part is left alone.
AbortOnlyParts == multipart_upload_id /\ ~abort_suppressed /\ TRUE \in Range(part_etags)

\* Whether the last operation out of a failed session must abort the upload.
MustAbort == failure_disposition = "DEFINITIVE" /\ multipart_upload_id /\ ~abort_suppressed

\* Mutant: every failing operation cleans up, whoever is still active.
EveryReleaseCleans == cleanup_state # "COMPLETE"

\* Mutant: the count is compared before it is decremented.
ReleaseCountsItself == active_operations = 0 /\ cleanup_state = "NONE"

\* The operation being released is the last one and nobody has cleaned up.
LastRelease == active_operations = 1 /\ cleanup_state = "NONE"

ReleaseOperation(t) ==
    /\ pc[t] = "ReleaseOperation"
    /\ active_operations' = active_operations - 1
    /\ \/ /\ ~failed
          /\ Goto(t, "Idle")
          /\ UNCHANGED <<cleanup_state, aborts, reports>>
       \/ /\ failed /\ LastRelease /\ MustAbort
          /\ cleanup_state' = "IN_PROGRESS"
          /\ aborts' = aborts + 1
          /\ Goto(t, "ReleaseCleanup")
          /\ UNCHANGED reports
       \/ /\ failed /\ LastRelease /\ ~MustAbort
          /\ cleanup_state' = "COMPLETE"
          /\ Goto(t, "Idle")
          /\ Report(abort_error)
          /\ UNCHANGED aborts
       \/ /\ failed /\ ~LastRelease
          /\ Goto(t, "ReleaseWait")
          /\ UNCHANGED <<cleanup_state, aborts, reports>>
    /\ UNCHANGED <<lifecycle_state, dataVars, initVars, failureVars, inputVars, localVars,
                   s3Vars, initiates, calls>>

ReleaseWait(t) ==
    /\ pc[t] = "ReleaseWait"
    /\ cleanup_state = "COMPLETE"
    /\ Goto(t, "Idle")
    /\ Report(abort_error)
    /\ UNCHANGED <<controlVars, dataVars, initVars, failureVars, inputVars, localVars,
                   s3Vars, initiates, aborts, calls>>

\* The store's answer to DELETE ?uploadId; only 204 counts as success.
AbortMultipartUpload(error) ==
    /\ \/ /\ upload = "Open"
          /\ upload' = "Aborted"
          /\ error \in BOOLEAN      \* applied; the response may be lost
       \/ /\ error
          /\ UNCHANGED upload
    /\ UNCHANGED <<stored, object>>

ReleaseCleanup(t) ==
    /\ pc[t] = "ReleaseCleanup"
    /\ \E error \in BOOLEAN :
          /\ AbortMultipartUpload(error)
          /\ abort_error' = (abort_error \/ error)
          /\ Report(abort_error \/ error)
    /\ cleanup_state' = "COMPLETE"
    /\ Goto(t, "Idle")
    /\ UNCHANGED <<lifecycle_state, active_operations, dataVars, initVars, primary_error,
                   failure_disposition, abort_suppressed, inputVars, localVars, initiates,
                   aborts, calls>>

-----------------------------------------------------------------------------
(* Write: cutting the input into parts. *)

HasPartCapacity(reserved) == reserved < MaxParts

\* Mutant: the size of the part before is used.
ShouldBufferStale(remaining, reserved) ==
    IF reserved = 0 THEN remaining <= PartSize[reserved] ELSE remaining < PartSize[reserved - 1]

ShouldBuffer(remaining, reserved) ==
    IF reserved = 0 THEN remaining <= PartSize[reserved] ELSE remaining < PartSize[reserved]

\* How much of the input the current buffer takes.
Copied(buffer, size) ==
    IF buffer = None THEN 0 ELSE Min({size, buffer.capacity - Len(buffer.bytes)})

Appended(buffer, location, size) ==
    [buffer EXCEPT !.bytes = @ \o Bytes(location, location + Copied(buffer, size))]

\* A full buffer becomes a part only when more input follows it.
Flushes(buffer, size) == buffer # None /\ Copied(buffer, size) < size

\* How many parts the loop reserves straight from the caller's memory: it ends
\* when the input is used up, the rest is buffered, or no part is left to reserve.
DirectCount(remaining, reserved) ==
    Min({k \in 0..remaining :
            \/ k * MaxPartSize >= remaining
            \/ ~HasPartCapacity(reserved + k)
            \/ ShouldBuffer(remaining - k * MaxPartSize, reserved + k)})

DirectParts(lo, hi, reserved, count) ==
    [k \in 1..count |->
        [part_number |-> reserved + k,
         bytes |-> Bytes(lo + (k - 1) * MaxPartSize, Min({lo + k * MaxPartSize, hi}))]]

\* What PrepareWrite makes of an accepted write: the parts it reserves, the
\* buffer it leaves, whether that buffer is newly allocated, and whether every
\* part needed could be reserved.
PreparedWrite(location, size) ==
    LET reserved == Len(part_etags)
        flushes  == Flushes(buffered_part, size)
        appended == Appended(buffered_part, location, size)
        lo       == location + Copied(buffered_part, size)
        hi       == location + size
        flushed  == IF flushes
                    THEN <<[part_number |-> reserved + 1, bytes |-> appended.bytes]>>
                    ELSE <<>>
        base     == reserved + Len(flushed)
        count    == DirectCount(hi - lo, base)
        tail     == Min({lo + count * MaxPartSize, hi})
    IN  IF flushes /\ ~HasPartCapacity(reserved)
        THEN [fits |-> FALSE, parts |-> <<>>, allocates |-> FALSE, buffer |-> None]
        ELSE [fits      |-> tail = hi \/ ShouldBuffer(hi - tail, base + count),
              parts     |-> flushed \o DirectParts(lo, hi, base, count),
              allocates |-> tail < hi,
              buffer    |-> IF tail < hi
                            THEN [bytes |-> Bytes(tail, hi), capacity |-> PartSize[base + count]]
                            ELSE IF buffered_part = None \/ flushes THEN None ELSE appended]

\* A slot without an ETag for each newly reserved part.
Reserve(parts) == part_etags' = part_etags \o [i \in 1..Len(parts) |-> FALSE]

\* Where a thread goes when it has no (more) part to upload.
AfterParts(t) == IF op[t] = "Write" THEN "UpdateCursor" ELSE "CompleteMultipartUpload"
NextPart(t, parts) == IF parts = <<>> THEN AfterParts(t) ELSE "EnsureMultipartUpload"

\* Mutant: the size limit is not checked.
RejectsNoSize(location, size) == failed \/ location # next_offset

\* Mutant: a write below next_offset is taken for the next one.
RejectsNoOverlap(location, size) == failed \/ size > MaxFileSize - next_offset

Rejects(location, size) ==
    \/ failed
    \/ location # next_offset
    \/ size > MaxFileSize - next_offset

AwaitsTurn(location) == location > next_offset /\ ~failed

PrepareWrite(t) ==
    LET location == arg[t].location
        size     == arg[t].size
        prepared == PreparedWrite(location, size)
    IN  /\ pc[t] = "PrepareWrite"
        /\ ~AwaitsTurn(location)
        /\ \/ /\ Rejects(location, size)
              /\ Throw(t, "DEFINITIVE")
              /\ UNCHANGED dataVars
           \/ /\ ~Rejects(location, size)
              /\ prepared.fits
              /\ Reserve(prepared.parts)
              /\ buffered_part' = prepared.buffer
              /\ next_offset' = next_offset + size
              /\ todo' = [todo EXCEPT ![t] = prepared.parts]
              /\ Goto(t, NextPart(t, prepared.parts))
              /\ UNCHANGED <<length, local_buffered_part, thrown>>
           \/ /\ ~Rejects(location, size)           \* the buffer is already moved out
              /\ ~prepared.fits \/ prepared.allocates
              /\ Reserve(prepared.parts)
              /\ buffered_part' = None
              /\ Throw(t, "DEFINITIVE")
              /\ UNCHANGED <<next_offset, length>>
        /\ UNCHANGED <<controlVars, initVars, failureVars, inputVars, s3Vars, histVars>>

-----------------------------------------------------------------------------
(* Uploading parts. *)

\* ThrowIfFailed at the loop head and the wait for the one initializer.
EnsureMultipartUpload(t) ==
    /\ pc[t] = "EnsureMultipartUpload"
    /\ initialization_state = "IN_PROGRESS" => failed
    /\ \/ /\ failed
          /\ Throw(t, "DEFINITIVE")
          /\ UNCHANGED <<initialization_state, initiates>>
       \/ /\ ~failed
          /\ initialization_state = "SUCCEEDED"
          /\ Goto(t, "ThrowIfFailed")
          /\ UNCHANGED <<initialization_state, initiates, localVars>>
       \/ /\ ~failed
          /\ initialization_state = "NOT_STARTED"
          /\ initialization_state' = "IN_PROGRESS"
          /\ initiates' = initiates + 1
          /\ Goto(t, "InitializeMultipartUpload")
          /\ UNCHANGED localVars
    /\ UNCHANGED <<controlVars, dataVars, multipart_upload_id, failureVars, inputVars,
                   s3Vars, aborts, reports, calls>>

\* The response to POST ?uploads and the publication of its outcome.  A lost or
\* unreadable response leaves it open whether an upload exists; an error status
\* says none does.
InitializeMultipartUpload(t) ==
    /\ pc[t] = "InitializeMultipartUpload"
    /\ \/ /\ upload' = "Open"
          /\ multipart_upload_id' = TRUE
          /\ initialization_state' = "SUCCEEDED"
          /\ IF failed
             THEN Throw(t, "DEFINITIVE")
             ELSE Goto(t, "ThrowIfFailed") /\ UNCHANGED localVars
          /\ UNCHANGED <<lifecycle_state, failureVars>>
       \/ /\ \E disposition \in FailureDisposition :
                /\ upload' \in (IF disposition = "AMBIGUOUS" THEN {"None", "Open"} ELSE {"None"})
                /\ LatchFailureLocked(t, disposition)
                /\ Throw(t, disposition)
          /\ initialization_state' = "FAILED"
          /\ UNCHANGED multipart_upload_id
    /\ UNCHANGED <<active_operations, cleanup_state, dataVars, inputVars, stored, object,
                   histVars>>

ThrowIfFailed(t) ==
    /\ pc[t] = "ThrowIfFailed"
    /\ \/ failed /\ Throw(t, "DEFINITIVE")
       \/ ~failed /\ Goto(t, "UploadPart") /\ UNCHANGED localVars
    /\ UNCHANGED <<controlVars, dataVars, initVars, failureVars, inputVars, s3Vars, histVars>>

\* PUT ?partNumber&uploadId: the store keeps the bytes while the upload is open.
PutPart(part) ==
    /\ upload = "Open"
    /\ stored' = [stored EXCEPT ![part.part_number] = part.bytes]
    /\ UNCHANGED <<upload, object>>

\* The response to the PUT, then StorePartETag.
UploadPart(t) ==
    LET part == Head(todo[t])
    IN  /\ pc[t] = "UploadPart"
        /\ \/ /\ PutPart(part)
              /\ ~failed
              /\ part_etags' = [part_etags EXCEPT ![part.part_number] = TRUE]
              /\ todo' = [todo EXCEPT ![t] = Tail(@)]
              /\ Goto(t, NextPart(t, Tail(todo[t])))
              /\ UNCHANGED <<local_buffered_part, thrown>>
           \/ /\ PutPart(part) \/ UNCHANGED s3Vars  \* failed, or an error response
              /\ Throw(t, "DEFINITIVE")
              /\ UNCHANGED part_etags
        /\ UNCHANGED <<controlVars, next_offset, buffered_part, length, initVars, failureVars,
                       inputVars, histVars>>

\* S3FileSystem::Write after the session's Write returned its claim.
UpdateCursor(t) ==
    /\ pc[t] = "UpdateCursor"
    /\ length' = Max({length, arg[t].location + arg[t].size})
    /\ Goto(t, "ReleaseOperation")              \* WriteClaim::Finish
    /\ UNCHANGED <<controlVars, next_offset, buffered_part, part_etags, initVars, failureVars,
                   inputVars, localVars, s3Vars, histVars>>

-----------------------------------------------------------------------------
(* Finalize. *)

Finalize(t) ==
    LET buffer == local_buffered_part[t]
        number == Len(part_etags) + 1
    IN  /\ pc[t] = "Finalize"
        /\ \/ /\ part_etags = <<>>
              /\ Goto(t, "UploadSingle")
              /\ UNCHANGED <<part_etags, localVars>>
           \/ /\ part_etags # <<>> /\ buffer = None
              /\ Goto(t, "CompleteMultipartUpload")
              /\ UNCHANGED <<part_etags, localVars>>
           \/ /\ part_etags # <<>> /\ buffer # None
              /\ HasPartCapacity(Len(part_etags))
              /\ Reserve(<<buffer>>)
              /\ todo' = [todo EXCEPT ![t] =
                             <<[part_number |-> number, bytes |-> buffer.bytes]>>]
              /\ local_buffered_part' = [local_buffered_part EXCEPT ![t] = None]
              /\ Goto(t, "EnsureMultipartUpload")
              /\ UNCHANGED thrown
           \/ /\ part_etags # <<>> /\ buffer # None
              /\ ~HasPartCapacity(Len(part_etags))
              /\ Throw(t, "DEFINITIVE")
              /\ UNCHANGED part_etags
        /\ UNCHANGED <<controlVars, next_offset, buffered_part, length, initVars, failureVars,
                       inputVars, s3Vars, histVars>>

\* UploadSingle or UploadEmpty: the whole object in one PUT.
PutObject(t) ==
    /\ object' = IF local_buffered_part[t] = None THEN <<>> ELSE local_buffered_part[t].bytes
    /\ UNCHANGED <<upload, stored>>

UploadSingle(t) ==
    /\ pc[t] = "UploadSingle"
    /\ \/ /\ PutObject(t)
          /\ Goto(t, "FinishFinalize")
          /\ UNCHANGED localVars
       \/ /\ PutObject(t) \/ UNCHANGED s3Vars
          /\ Throw(t, "DEFINITIVE")
    /\ UNCHANGED <<controlVars, dataVars, initVars, failureVars, inputVars, histVars>>

\* ThrowIfFailed and GetMultipartSnapshot; then the completion request is out.
CompleteMultipartUpload(t) ==
    /\ pc[t] = "CompleteMultipartUpload"
    /\ LET missing == \E i \in DOMAIN part_etags : ~part_etags[i]
       IN \/ /\ failed \/ missing
             /\ Throw(t, "DEFINITIVE")
          \/ /\ ~failed /\ ~missing
             /\ Goto(t, "ReceiveCompletion")
             /\ UNCHANGED localVars
    /\ UNCHANGED <<controlVars, dataVars, initVars, failureVars, inputVars, s3Vars, histVars>>

\* POST ?uploadId publishes the parts named in the request, in order.
PublishParts ==
    /\ upload = "Open"
    /\ upload' = "Completed"
    /\ object' = FlattenSeq([i \in DOMAIN part_etags |-> stored[i]])
    /\ UNCHANGED stored

\* An error status or an embedded error says nothing was published; a lost or
\* unreadable response leaves it open.
ReceiveCompletion(t) ==
    /\ pc[t] = "ReceiveCompletion"
    /\ \/ /\ PublishParts
          /\ Goto(t, "FinishFinalize")
          /\ UNCHANGED localVars
       \/ /\ PublishParts \/ UNCHANGED s3Vars
          /\ Throw(t, "AMBIGUOUS")
       \/ /\ UNCHANGED s3Vars
          /\ Throw(t, "DEFINITIVE")
    /\ UNCHANGED <<controlVars, dataVars, initVars, failureVars, inputVars, histVars>>

FinishFinalize(t) ==
    /\ pc[t] = "FinishFinalize"
    /\ active_operations' = active_operations - 1
    /\ lifecycle_state' = "FINALIZED"
    /\ Goto(t, "Idle")
    /\ UNCHANGED <<cleanup_state, dataVars, initVars, failureVars, inputVars, localVars,
                   s3Vars, histVars>>

-----------------------------------------------------------------------------
(* Abort. *)

\* Abort's second half, once no operation is active.
AbortDrained(t) ==
    /\ buffered_part' = None
    /\ \/ /\ failed /\ cleanup_state = "COMPLETE"
          /\ lifecycle_state' = "ABORTED"
          /\ Goto(t, "Idle")
          /\ Report(abort_error)
          /\ UNCHANGED <<cleanup_state, aborts>>
       \/ /\ failed /\ cleanup_state # "COMPLETE"
          /\ lifecycle_state' = "ABORTING"
          /\ Goto(t, "AbortFailureWait")
          /\ UNCHANGED <<cleanup_state, aborts, reports>>
       \/ /\ ~failed /\ multipart_upload_id /\ ~abort_suppressed
          /\ lifecycle_state' = "ABORTING"
          /\ cleanup_state' = "IN_PROGRESS"
          /\ aborts' = aborts + 1
          /\ Goto(t, "AbortCleanup")
          /\ UNCHANGED reports
       \/ /\ ~failed /\ (~multipart_upload_id \/ abort_suppressed)
          /\ lifecycle_state' = "ABORTED"
          /\ cleanup_state' = "COMPLETE"
          /\ Goto(t, "Idle")
          /\ UNCHANGED <<aborts, reports>>

Abort(t) ==
    /\ pc[t] = "Abort"
    /\ lifecycle_state \notin {"FINALIZING", "ABORTING"}
    /\ \/ /\ lifecycle_state \in {"FINALIZED", "ABORTED"}   \* returns false, or true
          /\ Goto(t, "Idle")
          /\ UNCHANGED <<lifecycle_state, cleanup_state, buffered_part, aborts, reports>>
       \/ /\ lifecycle_state = "ACTIVE"
          /\ active_operations > 0
          /\ lifecycle_state' = "ABORTING"
          /\ Goto(t, "AbortDrain")
          /\ UNCHANGED <<cleanup_state, buffered_part, aborts, reports>>
       \/ /\ lifecycle_state = "ACTIVE"
          /\ active_operations = 0
          /\ AbortDrained(t)
    /\ UNCHANGED <<active_operations, next_offset, part_etags, length, initVars, failureVars,
                   inputVars, localVars, s3Vars, initiates, calls>>

AbortDrain(t) ==
    /\ pc[t] = "AbortDrain"
    /\ active_operations = 0
    /\ AbortDrained(t)
    /\ UNCHANGED <<active_operations, next_offset, part_etags, length, initVars, failureVars,
                   inputVars, localVars, s3Vars, initiates, calls>>

AbortFailureWait(t) ==
    /\ pc[t] = "AbortFailureWait"
    /\ cleanup_state = "COMPLETE"
    /\ lifecycle_state' = "ABORTED"
    /\ Goto(t, "Idle")
    /\ Report(abort_error)
    /\ UNCHANGED <<active_operations, cleanup_state, dataVars, initVars, failureVars, inputVars,
                   localVars, s3Vars, initiates, aborts, calls>>

\* A failed request is thrown at the caller and not kept in the session.
AbortCleanup(t) ==
    /\ pc[t] = "AbortCleanup"
    /\ \E error \in BOOLEAN : AbortMultipartUpload(error)
    /\ cleanup_state' = "COMPLETE"
    /\ lifecycle_state' = "ABORTED"
    /\ Goto(t, "Idle")
    /\ UNCHANGED <<active_operations, dataVars, initVars, failureVars, inputVars, localVars,
                   histVars>>

-----------------------------------------------------------------------------
Step(t) ==
    \/ BeginWriteOperation(t) \/ PrepareWrite(t) \/ EnsureMultipartUpload(t)
    \/ InitializeMultipartUpload(t) \/ ThrowIfFailed(t) \/ UploadPart(t) \/ UpdateCursor(t)
    \/ LatchFailure(t) \/ ReleaseOperation(t) \/ ReleaseWait(t) \/ ReleaseCleanup(t)
    \/ BeginFinalize(t) \/ Finalize(t) \/ UploadSingle(t) \/ CompleteMultipartUpload(t)
    \/ ReceiveCompletion(t) \/ FinishFinalize(t)
    \/ Abort(t) \/ AbortDrain(t) \/ AbortFailureWait(t) \/ AbortCleanup(t)

Calls(t) == CallWrite(t) \/ CallFinalize(t) \/ CallAbort(t)

Next == \E t \in Threads : Calls(t) \/ Step(t)

Spec == Init /\ [][Next]_vars

-----------------------------------------------------------------------------
(* Properties. *)

\* The variables that steer the session have their types.
ControlTypeOK ==
    /\ lifecycle_state \in LifecycleState
    /\ active_operations \in Nat
    /\ cleanup_state \in CleanupState
    /\ initialization_state \in InitializationState
    /\ multipart_upload_id \in BOOLEAN
    /\ primary_error \in Threads \cup {None}
    /\ abort_error \in BOOLEAN
    /\ failure_disposition \in FailureDisposition
    /\ abort_suppressed \in BOOLEAN
    /\ pc \in [Threads -> Labels]
    /\ op \in [Threads -> {"Write", "Finalize", "Abort"}]
    /\ thrown \in [Threads -> FailureDisposition]
    /\ upload \in UploadState
    /\ initiates \in Nat
    /\ aborts \in Nat
    /\ reports \subseteq (Threads \X BOOLEAN)
    /\ calls \in Nat

\* Every variable has its type; in particular the accepted bytes never exceed the
\* configured maximum.
TypeOK ==
    /\ ControlTypeOK
    /\ next_offset \in 0..MaxFileSize
    /\ buffered_part \in BufferedPart \cup {None}
    /\ part_etags \in Seq(BOOLEAN)
    /\ length \in Nat
    /\ arg \in [Threads -> [location : Nat, size : Nat]]
    /\ todo \in [Threads -> Seq(PreparedPart)]
    /\ local_buffered_part \in [Threads -> BufferedPart \cup {None}]
    /\ stored \in [1..MaxParts -> Seq(Byte) \cup {None}]
    /\ object \in Seq(Byte) \cup {None}

\* The threads between their admission and the release of their operation.
Operating == {t \in Threads : pc[t] \in OperationLabels}

\* active_operations counts exactly the admitted operations that are not released
\* yet, whatever path (return, local error, latched error) each of them takes out.
ActiveOperationsCounted == active_operations = Cardinality(Operating)

\* Whatever is published under the object's name is the accepted input, every byte
\* once and in order: also when a part slot was reserved for bytes that were lost,
\* and when the response to the publishing request never came.
PublishedObjectIsInput == object # None => object = Bytes(0, next_offset)

\* A finalized upload is published, did not fail, and has the length the handle
\* reports: no write is still between its upload and its cursor update.
FinalizedObjectComplete ==
    lifecycle_state = "FINALIZED" =>
        /\ object # None
        /\ ~failed
        /\ length = next_offset

\* Once the abort request is sent no other request for the upload is outstanding,
\* so no part can arrive at an upload that is being aborted.
AbortRequestIsLast == aborts > 0 => \A t \in Threads : pc[t] \notin UploadRequests

\* The upload is initiated at most once and aborted at most once, however many
\* threads need it or see it fail.
RequestsSentOnce == initiates <= 1 /\ aborts <= 1

\* A completed upload is never aborted, although its completion may have been
\* reported to the session as a failure.
CompletedNotAborted == upload = "Completed" => aborts = 0

\* When the cleanup is over no upload is left open without anybody having tried to
\* abort it, unless an unknown outcome forbids the attempt.
NoLeakedUpload ==
    cleanup_state = "COMPLETE" /\ upload = "Open" => aborts = 1 \/ abort_suppressed

\* All callers of a failed session are told the same failure, including whether
\* its cleanup failed.
StableError == Cardinality(reports) <= 1

\* A session aborted without a failure never published anything.
AbortedNotPublished == lifecycle_state = "ABORTED" /\ ~failed => object = None

\* What a step may do to a failure, an ended session and a completed cleanup.
FailureKept ==
    /\ failed => UNCHANGED <<primary_error, failure_disposition, next_offset>>
    /\ lifecycle_state \in {"FINALIZED", "ABORTED"} => UNCHANGED lifecycle_state
    /\ cleanup_state = "COMPLETE" => UNCHANGED <<cleanup_state, abort_error, upload>>

\* After the first failure nothing more is accepted and the failure stays what it
\* is; FINALIZED and ABORTED are final; after the cleanup the upload is left alone.
FailureIsFinal == [][FailureKept]_vars

Atomic == INSTANCE AtomicUpload WITH
    Callers  <- Threads,
    accepted <- next_offset,
    cause    <- primary_error,
    outcome  <- IF failed THEN "Failed"
                ELSE CASE lifecycle_state = "FINALIZED" -> "Published"
                       [] lifecycle_state = "ABORTED"   -> "Aborted"
                       [] OTHER                         -> "Open"

\* The session with all its threads, waits and lost responses is an atomic upload:
\* it ends once, for one reason; nothing is accepted once the object is published or
\* the upload has ended; nothing is published after the end, nor part of the input.
ImplementsAtomicUpload == Atomic!UploadSpec

\* A writer waiting for bytes nobody has written.
WaitsForGap(t) ==
    pc[t] = "PrepareWrite" /\ ~failed /\ arg[t].location > next_offset

\* Every call returns, unless the session ends up waiting for a gap in the input: a
\* failed session gets through its cleanup, whoever waits for an initializer or for
\* bytes that will never come.
CallsReturn ==
    \A t \in Threads :
        pc[t] # "Idle" ~> (pc[t] = "Idle" \/ \E u \in Threads : WaitsForGap(u))
=============================================================================
