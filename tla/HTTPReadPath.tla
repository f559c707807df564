----------------------------- MODULE HTTPReadPath -----------------------------
(****************************************************************************)
(* Opening and reading one path over HTTP (src/http/httpfs.cpp,               *)
(* src/http/http_request.cpp) by several threads of a query, through the      *)
(* state that all handles of the path share (src/include/http/http_state.hpp):*)
(* whether the server supports range requests, which one thread finds out     *)
(* while the others wait, and the full download that one thread makes for all *)
(* when it does not.                                                          *)
(*                                                                          *)
(* The file on the server has versions 1, 2, ...; an ETag is the version.     *)
(* Bytes are known by their version and the offset they were taken from.      *)
(****************************************************************************)
EXTENDS Integers, Sequences, FiniteSets

CONSTANTS
    Threads,        \* one handle each; threads of one handle have equal handles
    Lengths,        \* the length of each version, a sequence
    Setups,         \* servers and settings
    Retries,        \* http_params.retries
    MaxCalls,       \* bound: opens and reads
    MaxStates,      \* bound: file states created
    None

\* The server: whether it has ranges, sends ETags and answers HEAD with a length.  The
\* settings: the metadata cache, the fallback, forced downloads and their threshold.
ASSUME ReadPathAssumption ==
    /\ Lengths \in Seq(Nat \ {0}) /\ Lengths # <<>>
    /\ Setups \subseteq
          [ranges : {"yes", "no", "mixed"}, etags : BOOLEAN,
           head : {"exact", "larger", "absent", "refused"},
           cache : {"GLOBAL", "QUERY_LOCAL", "NONE"},
           auto_fallback_to_full_download : BOOLEAN,
           force_download : BOOLEAN, force_download_threshold : Nat]
    /\ {Retries, MaxCalls, MaxStates} \subseteq Nat
    /\ None \notin {"Open", "Mark", "Info", "Read"}
    /\ None \notin [size : Nat, pinned : Nat \cup {None}, version : Nat]

VARIABLES
    setup,          \* chosen once
    version,        \* the version the server has
    states,         \* the HTTPFileState objects made so far
    file_states,    \* the one registered for the path, 0 if none
    metadata,       \* the metadata cache's entry for the path, or None
    handle,         \* per thread: the fields of its HTTPFileHandle
    pc, op,         \* per thread: place in the code and local variables
    calls           \* opens and reads so far

vars == <<setup, version, states, file_states, metadata, handle, pc, op, calls>>

\* downloads and invalidated are histories: completed downloads and invalidations.
NewFileState == [support |-> "UNKNOWN", probing |-> FALSE, cached_data |-> None,
                 downloading |-> FALSE, downloads |-> 0, invalidated |-> 0]

NoHandle == [state |-> 0, length |-> 0, etag |-> None, force_full_download |-> FALSE]

NoResult == [outcome |-> "None", version |-> 0, from |-> 0, pinned |-> None]

\* The contents of a CachedFileDownload.
Empty == [size |-> 0, version |-> 0]

\* purpose: what the range request or the download is for.  support and owns_probe are
\* the guard's; result is what a read returned or threw.
NoOp == [purpose |-> None, location |-> 0, size |-> 0, again |-> FALSE,
         write_cache |-> FALSE, attempts |-> 0, support |-> "SUPPORTED",
         owns_probe |-> FALSE, buffer |-> Empty, result |-> NoResult]

Init ==
    /\ setup \in Setups
    /\ version = 1
    /\ states = <<>> /\ file_states = 0
    /\ metadata = None
    /\ handle = [t \in Threads |-> NoHandle]
    /\ pc = [t \in Threads |-> "Closed"]
    /\ op = [t \in Threads |-> NoOp]
    /\ calls = 0

Goto(t, label) == pc' = [pc EXCEPT ![t] = label]
State(t) == states[handle[t].state]
Opening(t) == op[t].purpose # "Read"

\* An exception leaves an open without a handle and a read with its handle.
Throw(t, what) ==
    IF Opening(t)
    THEN /\ handle' = [handle EXCEPT ![t] = NoHandle]
         /\ op' = [op EXCEPT ![t] = NoOp]
         /\ Goto(t, "Closed")
    ELSE /\ op' = [op EXCEPT ![t] = [NoOp EXCEPT !.result.outcome = what]]
         /\ Goto(t, "Ready")
         /\ UNCHANGED handle

-----------------------------------------------------------------------------
(* HTTPFileHandle::Initialize for reading. *)

\* InitializeRequestState with GetFileState.  The caller may bring the metadata of some
\* version along, from a listing.
Open(t) ==
    /\ pc[t] = "Closed" /\ calls < MaxCalls
    /\ calls' = calls + 1
    /\ \/ file_states # 0 /\ UNCHANGED <<states, file_states>>
       \/ /\ file_states = 0 /\ Len(states) < MaxStates
          /\ states' = Append(states, NewFileState)
          /\ file_states' = Len(states')
    /\ \E info \in {None} \cup (IF setup.etags THEN 1..version ELSE {}) :
          handle' = [handle EXCEPT ![t] =
              [NoHandle EXCEPT !.state = file_states', !.etag = info,
                               !.length = IF info = None THEN 0 ELSE Lengths[info]]]
    /\ op' = [op EXCEPT ![t] = NoOp]
    /\ Goto(t, "TryInitializeRead")
    /\ UNCHANGED <<setup, version, metadata>>

TryInitializeRead(t) ==
    /\ pc[t] = "TryInitializeRead"
    /\ \/ /\ setup.force_download
          /\ op' = [op EXCEPT ![t].purpose = "Open"]
          /\ Goto(t, "FullDownload")
          /\ UNCHANGED handle
       \/ /\ ~setup.force_download /\ setup.cache # "NONE" /\ metadata # None
          /\ handle' = [handle EXCEPT ![t].length = metadata.length, ![t].etag = metadata.etag]
          /\ Goto(t, "Ready")
          /\ UNCHANGED op
       \/ /\ ~setup.force_download /\ (setup.cache = "NONE" \/ metadata = None)
          /\ op' = [op EXCEPT ![t].write_cache = setup.cache # "NONE"]
          /\ Goto(t, "LoadFileInfo")
          /\ UNCHANGED handle
    /\ UNCHANGED <<setup, version, states, file_states, metadata, calls>>

\* TryLoadFileInfoWithoutRequest: a download of the path is already there, or the caller
\* brought the metadata along.
LoadFileInfo(t) ==
    /\ pc[t] = "LoadFileInfo"
    /\ \/ /\ State(t).cached_data # None
          /\ handle' = [handle EXCEPT ![t].length = State(t).cached_data.size]
          /\ Goto(t, "InitializeFileInfo")
       \/ /\ State(t).cached_data = None /\ handle[t].etag # None
          /\ Goto(t, "InitializeFileInfo")
          /\ UNCHANGED handle
       \/ /\ State(t).cached_data = None /\ handle[t].etag = None
          /\ Goto(t, "HeadRequest")
          /\ UNCHANGED handle
    /\ UNCHANGED <<setup, version, states, file_states, metadata, op, calls>>

\* The length as the response gives it, 0 if it does not.
Applied(h, length) ==
    [h EXCEPT !.length = length, !.etag = IF setup.etags THEN version ELSE None]

HeadLength == CASE setup.head = "exact"  -> Lengths[version]
                [] setup.head = "larger" -> Lengths[version] + 1
                [] OTHER -> 0

Guardless(o) == [o EXCEPT !.support = "SUPPORTED", !.owns_probe = FALSE]

\* The response may say Accept-Ranges: bytes.
ApplyFileInfo(t, length) ==
    /\ handle' = [handle EXCEPT ![t] = Applied(@, length)]
    /\ \/ /\ setup.ranges # "no"
          /\ op' = [op EXCEPT ![t] = [Guardless(@) EXCEPT !.purpose = "Mark"]]
          /\ Goto(t, "BeginRequest")
       \/ /\ op' = [op EXCEPT ![t] = Guardless(@)]
          /\ Goto(t, "InitializeFileInfo")

\* A HEAD that is refused is repeated as a GET of the first two bytes.
HeadRequest(t) ==
    /\ pc[t] = "HeadRequest"
    /\ \/ setup.head # "refused" /\ ApplyFileInfo(t, HeadLength)
       \/ /\ setup.head = "refused"
          /\ op' = [op EXCEPT ![t].purpose = "Info", ![t].size = 2]
          /\ Goto(t, "BeginRequest")
          /\ UNCHANGED handle
       \/ Throw(t, "Error")
    /\ UNCHANGED <<setup, version, states, file_states, metadata, calls>>

InitializeFileInfo(t) ==
    /\ pc[t] = "InitializeFileInfo"
    /\ IF \/ handle[t].length = 0
          \/ handle[t].length < setup.force_download_threshold
          \/ handle[t].force_full_download
       THEN /\ op' = [op EXCEPT ![t] = [NoOp EXCEPT !.purpose = "Open"]]
            /\ Goto(t, "FullDownload")
            /\ UNCHANGED metadata
       ELSE /\ metadata' = IF op[t].write_cache
                           THEN [length |-> handle[t].length, etag |-> handle[t].etag]
                           ELSE metadata
            /\ op' = [op EXCEPT ![t] = NoOp]
            /\ Goto(t, "Ready")
    /\ UNCHANGED <<setup, version, states, file_states, handle, calls>>

-----------------------------------------------------------------------------
(* Reading. *)

\* DuckDB's readers ask for ranges within the length of the handle.
Read(t) ==
    /\ pc[t] = "Ready" /\ calls < MaxCalls
    /\ calls' = calls + 1
    /\ \E location \in 0..handle[t].length - 1 :
          \E size \in 1..handle[t].length - location :
             op' = [op EXCEPT ![t] = [NoOp EXCEPT !.purpose = "Read",
                                                  !.location = location, !.size = size]]
    /\ Goto(t, "ReadAt")
    /\ UNCHANGED <<setup, version, states, file_states, metadata, handle>>

\* The read returns bytes of a version from an offset, by range or from the cache; pinned
\* is the ETag of the handle that made the download they come from.
Returned(t, outcome, v, from, pinned) ==
    /\ op' = [op EXCEPT ![t] = [NoOp EXCEPT !.location = op[t].location, !.result =
           [outcome |-> outcome, version |-> v, from |-> from, pinned |-> pinned]]]
    /\ Goto(t, "Ready")

ReadAt(t) ==
    LET cached == State(t).cached_data
    IN  /\ pc[t] = "ReadAt"
        /\ \/ /\ cached # None /\ cached.size >= op[t].location + op[t].size
              /\ Returned(t, "Cached", cached.version, op[t].location, cached.pinned)
              /\ UNCHANGED handle
           \/ /\ cached # None /\ cached.size < op[t].location + op[t].size
              /\ Throw(t, "CachedTooShort")
           \/ /\ cached = None
              /\ Goto(t, "BeginRequest")
              /\ UNCHANGED <<op, handle>>
        /\ UNCHANGED <<setup, version, states, file_states, metadata, calls>>

Coordinated(t) == op[t].purpose = "Mark" \/ setup.auto_fallback_to_full_download

\* Guard: whether range requests are supported, read without the mutex first.
BeginRequest(t) ==
    /\ pc[t] = "BeginRequest"
    /\ \/ /\ ~Coordinated(t)
          /\ Goto(t, "RangeRequest") /\ UNCHANGED op
       \/ /\ Coordinated(t)
          /\ State(t).support # "UNKNOWN"
          /\ op' = [op EXCEPT ![t].support = State(t).support]
          /\ Goto(t, "Guarded")
       \/ /\ Coordinated(t)
          /\ State(t).support = "UNKNOWN"
          /\ Goto(t, "AwaitProbe") /\ UNCHANGED op
    /\ UNCHANGED <<setup, version, states, file_states, metadata, handle, calls>>

MayProbe(s) == ~s.probing \/ s.support # "UNKNOWN"

AwaitProbe(t) ==
    /\ pc[t] = "AwaitProbe"
    /\ MayProbe(State(t))
    /\ op' = [op EXCEPT ![t].support = State(t).support,
                        ![t].owns_probe = State(t).support = "UNKNOWN"]
    /\ states' = [states EXCEPT ![handle[t].state].probing = @ \/ State(t).support = "UNKNOWN"]
    /\ Goto(t, "Guarded")
    /\ UNCHANGED <<setup, version, file_states, metadata, handle, calls>>

Resolved(s, support) == [s EXCEPT !.support = support, !.probing = FALSE]

\* Mutant: a failed probe is not given up.
ProbeKept(s) == s

\* AbortProbe.
ProbeAborted(s) == IF s.support = "UNKNOWN" THEN [s EXCEPT !.probing = FALSE] ELSE s

\* Mutant: success is recorded whatever this request knew.
MarkedAlways(s, o) == Resolved(s, "SUPPORTED")

\* MarkSupported.
Marked(s, o) == IF o.support = "UNKNOWN" THEN Resolved(s, "SUPPORTED") ELSE s

\* The guard is destroyed.
Destroyed(s, o) == IF o.owns_probe THEN ProbeAborted(s) ELSE s

SetState(t, s) == states' = [states EXCEPT ![handle[t].state] = s]

\* Ranges are not supported: a read downloads the file unless it has done so already; an
\* open whose request was not even sent has no length and downloads the file, too.
FallBack(t) ==
    \/ /\ op[t].purpose = "Info"
       /\ handle' = [handle EXCEPT ![t].length = 0, ![t].force_full_download = TRUE]
       /\ op' = [op EXCEPT ![t] = Guardless(@)]
       /\ Goto(t, "InitializeFileInfo")
    \/ /\ op[t].purpose = "Read" /\ ~op[t].again
       /\ op' = [op EXCEPT ![t] = Guardless(@)]
       /\ Goto(t, "FullDownload")
       /\ UNCHANGED handle
    \/ /\ op[t].purpose = "Read" /\ op[t].again
       /\ Throw(t, "FailedAfterDownload")

\* With the guard constructed: MarkRangeRequestsSupported ends, a request that cannot
\* succeed is not sent, and any other is.
Guarded(t) ==
    /\ pc[t] = "Guarded"
    /\ \/ /\ op[t].purpose = "Mark"
          /\ SetState(t, Marked(State(t), op[t]))
          /\ op' = [op EXCEPT ![t] = Guardless(@)]
          /\ Goto(t, "InitializeFileInfo")
          /\ UNCHANGED handle
       \/ /\ op[t].purpose # "Mark" /\ op[t].support = "NOT_SUPPORTED"
          /\ FallBack(t)
          /\ UNCHANGED states
       \/ /\ op[t].purpose # "Mark" /\ op[t].support # "NOT_SUPPORTED"
          /\ Goto(t, "RangeRequest")
          /\ UNCHANGED <<states, op, handle>>
    /\ UNCHANGED <<setup, version, file_states, metadata, calls>>

\* EraseGlobalCacheEntry.
ErasedGlobally == IF setup.cache = "GLOBAL" THEN None ELSE metadata

\* Mutant: an ETag is not compared.
EveryMatches(h) == TRUE

\* If-Match and ValidateResponseETag.
Matches(h) == h.etag \in {None, version}

\* What the server sends for the range of t: the bytes it takes, from which offset, and
\* whether it says so in Content-Length.  A server without ranges sends the whole file.
Answer(t) ==
    (IF setup.ranges # "no" /\ op[t].location < Lengths[version]
     THEN {[status |-> 206, from |-> op[t].location, announced |-> TRUE, size |->
               IF op[t].location + op[t].size <= Lengths[version]
               THEN op[t].size ELSE Lengths[version] - op[t].location]}
     ELSE {}) \cup
    (IF setup.ranges # "yes"
     THEN {[status |-> 200, from |-> 0, announced |-> a, size |-> Lengths[version]] :
              a \in BOOLEAN}
     ELSE {})

\* ValidateContentLength fails.  The response is marked as an error but keeps its status and
\* its headers, which is all that an open asks for (RetryFileInfoWithRange).
RangeIgnored(t) ==
    \E a \in Answer(t) :
        /\ Matches(handle[t])
        /\ a.announced /\ a.size # op[t].size
        /\ IF setup.auto_fallback_to_full_download
           THEN SetState(t, Resolved(State(t), "NOT_SUPPORTED"))
           ELSE UNCHANGED states
        /\ \/ op[t].purpose = "Info" /\ ApplyFileInfo(t, Lengths[version])
           \/ /\ op[t].purpose = "Read"
              /\ IF setup.auto_fallback_to_full_download
                 THEN FallBack(t) ELSE Throw(t, "RangeNotSupported")
        /\ UNCHANGED metadata

\* The response is accepted and its body arrives: all of it, or none before the request
\* is repeated.  206 marks ranges as supported before the body, others after it.
Accepted(t) ==
    \E a \in Answer(t) :
        /\ Matches(handle[t])
        /\ a.size = op[t].size \/ (op[t].purpose = "Info" /\ ~a.announced)
        /\ \/ /\ SetState(t, Marked(State(t), op[t]))
              /\ \/ /\ op[t].purpose = "Read"
                    /\ Returned(t, "Range", version, a.from, None)
                    /\ UNCHANGED handle
                 \/ /\ op[t].purpose = "Info"
                    /\ ApplyFileInfo(t, IF a.announced THEN Lengths[version] ELSE 0)
           \/ /\ a.status = 206 /\ op[t].attempts < Retries
              /\ SetState(t, Marked(State(t), op[t]))
              /\ op' = [op EXCEPT ![t].attempts = @ + 1, ![t].support = "SUPPORTED",
                                  ![t].owns_probe = FALSE]
              /\ UNCHANGED <<pc, handle>>
        /\ UNCHANGED metadata

\* An error, more or fewer bytes than asked for, or a version other than the one opened:
\* the guard gives the probe up.
RangeFails(t) ==
    /\ SetState(t, Destroyed(State(t), op[t]))
    /\ Throw(t, "Error")
    /\ metadata' \in IF Matches(handle[t]) THEN {metadata} ELSE {metadata, ErasedGlobally}

RangeRequest(t) ==
    /\ pc[t] = "RangeRequest"
    /\ RangeIgnored(t) \/ Accepted(t) \/ RangeFails(t)
    /\ UNCHANGED <<setup, version, file_states, calls>>

-----------------------------------------------------------------------------
(* The full download. *)

\* FullDownload returns: an open takes its length from it, a read compares them.
Downloaded(t, size) ==
    \/ /\ op[t].purpose = "Open"
       /\ handle' = [handle EXCEPT ![t].length = size]
       /\ op' = [op EXCEPT ![t] = NoOp]
       /\ Goto(t, "Ready")
    \/ /\ op[t].purpose = "Read" /\ size # handle[t].length
       /\ op' = [op EXCEPT ![t].buffer = Empty]
       /\ Goto(t, "InvalidateCachedFile")
       /\ UNCHANGED handle
    \/ /\ op[t].purpose = "Read" /\ size = handle[t].length
       /\ op' = [op EXCEPT ![t].again = TRUE, ![t].buffer = Empty, ![t].attempts = 0]
       /\ Goto(t, "ReadAt")
       /\ UNCHANGED handle

FullDownload(t) ==
    /\ pc[t] = "FullDownload"
    /\ \/ State(t).cached_data # None /\ Downloaded(t, State(t).cached_data.size)
       \/ /\ State(t).cached_data = None
          /\ Goto(t, "StartDownload")
          /\ UNCHANGED <<op, handle>>
    /\ UNCHANGED <<setup, version, states, file_states, metadata, calls>>

MayDownload(s) == ~s.downloading

\* Mutant: a download that others have completed meanwhile is made again.
NeverDownloaded(s) == FALSE

AlreadyDownloaded(s) == s.cached_data # None

StartDownload(t) ==
    /\ pc[t] = "StartDownload"
    /\ MayDownload(State(t))
    /\ \/ /\ AlreadyDownloaded(State(t))
          /\ Goto(t, "FullDownload")
          /\ UNCHANGED <<states, op>>
       \/ /\ ~AlreadyDownloaded(State(t))
          /\ SetState(t, [State(t) EXCEPT !.downloading = TRUE])
          /\ op' = [op EXCEPT ![t].attempts = 0]
          /\ Goto(t, "GetRequest")
    /\ UNCHANGED <<setup, version, file_states, metadata, handle, calls>>

\* Mutant: bytes of an earlier attempt stay in the buffer.
AppendedAgain(b, size) == [size |-> b.size + size, version |-> version]

\* Reset for a new response, then Append.
Received(b, size) == [size |-> size, version |-> version]

\* Mutant: a failed download is not given up.
DownloadKept(s) == s

\* CachedFileDownload::Abort.
DownloadAborted(s) == [s EXCEPT !.downloading = FALSE]

GetRequest(t) ==
    /\ pc[t] = "GetRequest"
    /\ \/ /\ Matches(handle[t])                  \* complete
          /\ op' = [op EXCEPT ![t].buffer = Received(@, Lengths[version])]
          /\ Goto(t, "Finalize")
          /\ UNCHANGED <<states, handle, metadata>>
       \/ /\ Matches(handle[t])                  \* cut off after one byte, and repeated
          /\ op[t].attempts < Retries
          /\ op' = [op EXCEPT ![t].buffer = Received(@, 1), ![t].attempts = @ + 1]
          /\ UNCHANGED <<pc, states, handle, metadata>>
       \/ /\ SetState(t, DownloadAborted(State(t)))
          /\ Throw(t, "Error")
          /\ metadata' \in IF Matches(handle[t]) THEN {metadata} ELSE {metadata, ErasedGlobally}
    /\ UNCHANGED <<setup, version, file_states, calls>>

\* Mutant: the data is handed to the caller but not to the file.
FinalizedEmpty(s, data) == [s EXCEPT !.downloading = FALSE, !.downloads = @ + 1]

Finalized(s, data) ==
    [s EXCEPT !.downloading = FALSE, !.downloads = @ + 1, !.cached_data = data]

Finalize(t) ==
    /\ pc[t] = "Finalize"
    /\ SetState(t, Finalized(State(t), [size |-> op[t].buffer.size, pinned |-> handle[t].etag,
                                        version |-> op[t].buffer.version]))
    /\ Downloaded(t, op[t].buffer.size)
    /\ UNCHANGED <<setup, version, file_states, metadata, calls>>

\* The download has another length than the handle: nobody should use it.
InvalidateCachedFile(t) ==
    /\ pc[t] = "InvalidateCachedFile"
    /\ SetState(t, [State(t) EXCEPT !.cached_data = None, !.invalidated = @ + 1])
    /\ Goto(t, "EraseFileState")
    /\ UNCHANGED <<setup, version, file_states, metadata, handle, op, calls>>

EraseFileState(t) ==
    /\ pc[t] = "EraseFileState"
    /\ file_states' = 0
    /\ Throw(t, "LengthMismatch")
    /\ UNCHANGED <<setup, version, states, metadata, calls>>

-----------------------------------------------------------------------------
(* The rest. *)

Close(t) ==
    /\ pc[t] = "Ready"
    /\ handle' = [handle EXCEPT ![t] = NoHandle]
    /\ op' = [op EXCEPT ![t] = NoOp]
    /\ Goto(t, "Closed")
    /\ UNCHANGED <<setup, version, states, file_states, metadata, calls>>

Resting(t) == pc[t] \in {"Closed", "Ready"}

\* HTTPState::Reset and HTTPMetadataCache::QueryEnd.  Handles may outlive the query.
QueryEnd ==
    /\ \A t \in Threads : Resting(t)
    /\ file_states # 0 \/ metadata # None
    /\ file_states' = 0
    /\ metadata' = IF setup.cache = "QUERY_LOCAL" THEN None ELSE metadata
    /\ UNCHANGED <<setup, version, states, handle, pc, op, calls>>

ReplaceFile ==
    /\ version < Len(Lengths)
    /\ version' = version + 1
    /\ UNCHANGED <<setup, states, file_states, metadata, handle, pc, op, calls>>

Step(t) ==
    \/ TryInitializeRead(t) \/ LoadFileInfo(t) \/ HeadRequest(t) \/ InitializeFileInfo(t)
    \/ ReadAt(t) \/ BeginRequest(t) \/ AwaitProbe(t) \/ Guarded(t) \/ RangeRequest(t)
    \/ FullDownload(t) \/ StartDownload(t) \/ GetRequest(t) \/ Finalize(t)
    \/ InvalidateCachedFile(t) \/ EraseFileState(t)

Next ==
    \/ \E t \in Threads : Open(t) \/ Read(t) \/ Close(t) \/ Step(t)
    \/ QueryEnd \/ ReplaceFile

Spec == Init /\ [][Next]_vars

\* Threads that can run do run and requests are answered or time out.
FairSpec == Spec /\ \A t \in Threads : WF_vars(Step(t))

-----------------------------------------------------------------------------
(* Properties. *)

Using(i) == {t \in Threads : handle[t].state = i}

\* While range support is unknown and a probe is running, exactly one request owns it:
\* the readers who wait for it wait for somebody, and nobody else probes.
ProbeHasOwner ==
    \A i \in DOMAIN states :
        LET owners == {t \in Using(i) : op[t].owns_probe}
        IN  /\ Cardinality(owners) <= 1
            /\ states[i].support = "UNKNOWN" => (states[i].probing <=> owners # {})

\* Once a response has shown that ranges are not supported no older request, late to
\* finish, makes the handles of the path believe that they are.
SupportNeverRestored ==
    [][\A i \in DOMAIN states : states[i].support = "NOT_SUPPORTED" =>
           states'[i].support = "NOT_SUPPORTED"]_vars

\* A file is downloaded by one thread at a time, and once for all handles: again only
\* after it was invalidated.
DownloadedOnce ==
    \A i \in DOMAIN states :
        LET active == {t \in Using(i) : pc[t] \in {"GetRequest", "Finalize"}}
        IN  /\ Cardinality(active) <= 1
            /\ states[i].downloading <=> active # {}
            /\ states[i].downloads <= states[i].invalidated + 1

\* What is cached is one version, whole, however often its download was repeated.
DownloadIsWhole ==
    \A i \in DOMAIN states : states[i].cached_data # None =>
        states[i].cached_data.size = Lengths[states[i].cached_data.version]

\* A read of a handle that knows its ETag returns the bytes of that version from the
\* offset asked for, by range or from a download that was made for the same ETag, however
\* the file was replaced meanwhile.  (Where the handle has too great a length, from HEAD or
\* from a download of another version, a file that a server without ranges sends whole can
\* be just as long as the range asked for.)
ReadsOpenedVersion ==
    \A t \in Threads : LET r == op[t].result IN
        /\ handle[t].etag # None
        /\ r.outcome = "Range" \/ (r.outcome = "Cached" /\ r.pinned = handle[t].etag)
        => /\ r.version = handle[t].etag
           /\ handle[t].length <= Lengths[handle[t].etag] => r.from = op[t].location

\* A read that has downloaded the file finds the download, unless a handle that knew
\* another length has invalidated it.
ReadsItsDownload ==
    \A t \in Threads :
        op[t].result.outcome = "FailedAfterDownload" => State(t).invalidated > 0

\* Every open and every read ends: waiting for the probe and for the download of another
\* thread, which may fail, included.
CallsEnd == \A t \in Threads : ~Resting(t) ~> Resting(t)
=============================================================================
