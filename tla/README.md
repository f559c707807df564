# A TLA+ verification project for duckdb-httpfs

DuckDB's httpfs extension reads files over HTTP and reads and writes objects of
S3-compatible stores. This project models its concurrent parts in TLA+, checks
small instances with TLC and proves with TLAPS, for every value of the constants, nearly all
of the safety properties of the uploads, their sizing, the requests, the reads, the connection
cache and the deletions, among them that the upload session implements an atomic upload. Paths below are
relative to the repository (`src/...`, `src/include/...`).

## 1. The system

| component | state | operations | interacts with |
|---|---|---|---|
| **S3 upload session** `s3/s3_upload_session.cpp` | lifecycle, number of admitted operations, accepted bytes, buffered part, upload ID and ETags, latched failure, cleanup state (one mutex, one condition variable) | `Write`, `Finalize`, `Abort` from any thread | owned by the S3 file handle; sends requests through the request executor |
| **S3 file handle** `s3/s3fs.cpp` | upload state, number of claims, the owned session, cursor | `Write`, `Close`/`FileSync`, `AbortFileWrite` | wraps the session; destroys it after an abort |
| **HTTP request session** `http/http_request_session.cpp` | current settings snapshot, client generation, idle clients | `Capture`, `TryPublish`, `AcquireClient`, `InvalidateClients`, release of a lease | shared by every request of a handle and by its upload session |
| **S3 request executor** `s3/s3_request.cpp` | none of its own; publishes snapshots | `Run` (retry loop), `TryRefreshSession`, `SetSessionRegion` | request session, secrets, refresh mutex of `HTTPState` |
| **Per-path file state** `http/http_state.cpp` | range-request support and probe, cached full download | `BeginRangeRequest`, `StartDownload`, `Finalize`, `Invalidate` | shared by all handles of a path in a query |
| **HTTP read path** `http/httpfs.cpp`, `http/http_request.cpp` | handle metadata (length, ETag), read buffer | open, `Read`, fallback to a full download | file state, metadata cache, request session |
| **Metadata cache** `http/http_metadata_cache.hpp` | map from path to HEAD result | `Insert`, `Find`, `Erase`, cleared at query end | read path |
| **Upload sizing** `s3/s3_settings.cpp` | none (pure) | `S3UploadConfig::Create`, `PartSize` | upload session |
| **S3 listing and glob** `s3/s3_list.cpp` | continuation tokens, directories still to be listed, the strategy, files found | `ExpandNextPath` | request executor; XML reader |
| **Hugging Face glob** `hffs.cpp` | next page, directories still to be listed, files found | `Glob` | HTTP requests |
| **S3 bulk delete** `s3/s3_delete.cpp` | batches by credentials and bucket | `RemoveFiles`, `RemoveFile`, `RemoveDirectory` | request executor; XML reader |
| **S3 XML responses** `s3/s3_xml_response.cpp` | stack of open elements, namespace bindings | one interpretation per kind of answer | uploads, listings, deletes, errors |
| **Connection cache** `http/httpfs_connection_caching.cpp` | pools of parked clients | `Find`, `Store`, `Clear` | SHARED leases, `HTTPFSCurlUtil` |
| **Curl client** `http/httpfs_curl_client.cpp` | a libcurl handle with sticky options, buffers of the last request | one call per method | connection cache |
| Secrets, URLs, signing, other clients, crypto, settings | none, or external | | |

What is hard here: threads of one query write one object in any order, through a
buffer and parts of growing size; any of them may fail while others wait for it;
the cleanup of a failed upload must happen exactly once, after the last request
and never after a completion that may have been applied; a handle destroys the
session its other threads may still be in; connections are condemned while
requests use them, or handed to another user with the options of the last one;
listings come in pages of a bucket that changes; one answer reports on many
deletions. `PROJECT.json` lists these hazards with their source lines.

What makes the parts correct:

* *upload session*: the published object is the input, complete, or nothing is
  published; the store's upload is completed or aborted, never leaked silently,
  never aborted after completion; all callers are told one failure; every call
  returns.
* *file handle*: the session outlives the threads inside it; an abort that came too
  late leaves the handle usable; aborts return.
* *request session*: a condemned client is not handed out again, the pool fits the
  current settings, a client has one owner.
* *request executor*: a refresh and a redirect that cross each other both survive;
  one expired key costs one renewal; a POST that may have been applied is not
  repeated; every request ends.
* *file state and read path*: one probe, one download, both handed over when their
  owner fails; a read returns the bytes of the version that was opened.
* *upload sizing*: the schedule covers the largest file and is no coarser than needed.
* *globs*: every file that matches and was there all the time is returned once, and no
  other; the expansion ends (it does not for every name: see the findings in section 3).
* *curl client and cache*: a request goes out as its own caller asked, whatever its client
  was used for; a client is with one thread; a streamed GET delivers one response.
* *bulk delete and XML*: the call returns only when all files are gone, each removed with
  the credentials of its own path; an answer that is cut, ill-formed or ambiguous is
  rejected, and nothing in an accepted one is overlooked.

## 2. Modules

| module | models | extends |
|---|---|---|
| `S3UploadSession` | the upload session with the object store it talks to | instance of `AtomicUpload` |
| `AtomicUpload` | what a session promises: input is accepted in order, the upload ends once, the object appears whole or never | |
| `S3UploadSessionProofs` | proofs: the control state of the session, and the handle around it | `S3FileHandle` |
| `S3UploadDataProofs` | proofs: the bytes of the object, and the refinement of `AtomicUpload` | `S3UploadSessionProofs` |
| `S3FileHandle` | the handle's claims and abort, composed with the session | `S3UploadSession` |
| `HTTPClients` | the constants of the two places that keep idle clients | |
| `HTTPRequestSession` | snapshots, generations, idle clients, leases | `HTTPClients` |
| `HTTPRequestSessionProofs` | proofs: freshness and ownership of clients | `HTTPRequestSession` |
| `S3RequestExecutor` | the retry loop, credential refresh and region redirect of several threads over one session | `HTTPRequestSession` |
| `S3RequestExecutorProofs` | proofs: refresh, redirect and retry | `S3RequestExecutor` |
| `S3UploadConfig` | the part size schedule and the search for it | |
| `S3UploadSized` | an upload session run with such a schedule | `S3UploadSession`, `S3UploadConfig` |
| `S3UploadSizedProofs` | proofs: the schedule is the tightest that covers the file, and part numbers never run out | `S3UploadSized`, `S3UploadDataProofs` |
| `HTTPReadPath` | opening and reading a path: file state, download, metadata cache | |
| `HTTPReadPathProofs` | proofs: probe, download and versions | `HTTPReadPath` |
| `GlobPattern` | patterns by path segments, and what matching means | |
| `S3Glob`, `HFGlob` | the two globs, each over a store that changes | `GlobPattern` |
| `CurlTransfer` | the callbacks of a streamed GET, one for each event libcurl reports | |
| `HTTPFSCurlUtil` | the curl clients and their shared cache | `CurlTransfer`, `HTTPClients` |
| `HTTPFSCurlUtilProofs` | proofs: requests, the owners of clients, the callbacks of a GET | `HTTPFSCurlUtil` |
| `S3XMLResponse` | the XML reader over tokens, the interpretations, and well-formedness without a stack | |
| `S3Delete` | deletion in batches, its answers read by the XML reader | `S3XMLResponse` |
| `S3DeleteProofs` | proofs: credentials, and which files are removed | `S3Delete` |
| `MC...` | the instances for TLC | |

### S3UploadSession

Every section under `state_lock` is one action. A wait loop on `state_changed` is
the guard of the action that follows it: each assignment to a waited-for condition
is followed by `notify_all` in the same section, so no wake-up is lost. A thread's
`pc` names the function whose next section it will run. Actions carry the names of
the functions; a function with several sections has one action per section
(`ReleaseOperation`, `ReleaseWait`, `ReleaseCleanup`; `Abort`, `AbortDrain`,
`AbortFailureWait`, `AbortCleanup`). A C++ exception is the move to `LatchFailure`
(the catch clauses of `Write` and `Finalize`), with its disposition in `thrown`.

The store (external) has one multipart upload, its parts and the object. Each
request has three outcomes: applied and answered; refused with an error and not
applied; no response, in which case it was applied or not. A request whose response
was lost is applied, if at all, before the caller goes on.

Data is abstracted to offsets: the byte at file offset k is the number k, so a part
is the sequence of the offsets its bytes came from and a lost, repeated or misplaced
byte shows. The part size schedule is a constant function. An upload ID, an ETag or
an exception is a truth value or the thread that caused it.

`AtomicUpload` is the promise without threads, parts or requests. The refinement mapping
(`Atomic`) takes the upload as failed from the moment a failure is latched, by the thread
that caused it, as published or aborted from the end of the lifecycle, `next_offset` as the
length of the accepted input, and the object as what the store holds.

### S3FileHandle

The handle's sections under `upload_lock`, each one action, around the session's own
steps. `at` is a thread's place in the handle's code, `pc` its place in the session.
`upload_session` becomes FALSE where `detached_session` is reset.

### HTTPRequestSession

One action per critical section of the class, and the request loop of its callers:
capture, acquire, an error or a stalled connection, release; or capture and publish.
A snapshot is its identity and what `CanReuseClientsWith` compares. `stale` records
the clients that existed when the clients were invalidated. Clients that return to a
shared cache leave the model. A return that finds no memory to store the lease only drops
the client and is left out.

### S3RequestExecutor

Each access to the session, to the secret and to the store is an action; `pc` names the
function and, inside `TryRefreshSession` and `SetSessionRegion`, the place in their
publication loops. A snapshot has the fields that the loops merge (key, region,
`region_redirected`, `credential_generation`). A key is a number that grows with every
renewal of the secret. A response is a set of what it says, because one may ask for new
credentials and name another region as well. The 403, redirect and RequestTimeout answers
are not applied by the store; a lost request and a 5xx may be.

### S3UploadConfig, S3UploadSized

`ReadFrom` and `Create` with their checks, the tiers of the schedule (`ScheduleCovers`) and
the binary search over initial sizes, as recursive functions; `PartSize` caps each tier at
the largest part. `S3UploadSized` gives `S3UploadSession` the sizes that `PartSize` computes
for a file limit the schedule covers exactly.

### HTTPReadPath

One path and its file states: `states[i]` is an `HTTPFileState` object, `file_states` the
registered one. A handle keeps its object after the registration is erased or the query
ends, as the shared pointer in the code does. `Open` to `InitializeFileInfo` are
`HTTPFileHandle::Initialize` for reading, step by step; `ReadAt` to `RangeRequest` a read;
`FullDownload` to `EraseFileState` the fallback. Each section under `state_mutex` or the
cached file's `lock` is an action; the range guard's fields are `op[t].support` and
`op[t].owns_probe`. The server is external: it may lack ranges or have them sometimes, send
ETags or not, refuse HEAD or report a wrong or no length, fail, cut a body off and replace
the file.

Where HEAD is refused the open asks for the first two bytes. Only the status and the headers
of the answer count (`RetryFileInfoWithRange`): the whole file with status 200 marks ranges as
not supported and still gives the open its length and ETag, without a download and also where
the fallback is off. The download is forced only where ranges were known to be missing
before, so that nothing was asked (`FallBack`).

### GlobPattern, S3Glob, HFGlob

A key is a sequence of names, a pattern a sequence of segments: a set of names, or `**`. The
stem of a segment is the set of names with the literal text before its first wildcard, which
is what a listing's prefix selects by. `Match` is the code's recursion as a function of two
positions; `Matches` (in `GlobPattern`) is the meaning it is compared with. The store is
external: it lists the entries after a position in a fixed order, grouped at the delimiter,
a page at a time. One call of `ExpandNextPath` is one action, two where the first page is
asked for a second time by directories, because the bucket may change in between. Names go
through the URL encoding of the answer and `S3Url::Decode`, as tables.

`HFGlob` has one action per request of the loop and one for the final matching. A directory
that no longer exists is answered with an error, which ends the glob. The characters of the
JSON list are left out, and with them an entry cut off at the end of a response, which the
parser drops.

### CurlTransfer, HTTPFSCurlUtil

A handle of libcurl is a record of the options the code sets; the setters behave as the
manual of libcurl says (setting one method changes others). `Prepare` and `Restore` are the
options a method sets before and takes back after it is performed. A pool of the cache is
searched, filled, or cleared under its own lock, so these are one action per pool.
A client that a thread has is its own, so performing the request is one action, whose GETs
end as `CurlTransfer` computes for a script of header blocks and data. `IsScript` says what
libcurl may report: data belongs to the header block before it, only the answer of a proxy,
an interim response or a redirect is followed by another block (the client sets up no
authentication that answers a 401 or 407 by asking again), and a transfer that succeeds does
not end with a proxy's answer. `request_info` is a
bit that changes when the buffers are replaced, so that a callback into released ones shows.

### S3XMLResponse, S3Delete

The reader consumes one token (start or end tag, text, CDATA, comment, declaration, or
something ill-formed) per step and keeps the stack of elements and the bindings of prefixes
as the code does. `WellFormed` and `ScopedNamespace` say the same by the positions of the
tags, without a stack; `ReaderIsExact` compares the two after every token. The
interpretations take the child elements by name and namespace, as `GetChildText` does.

`S3Delete` resolves all paths first, forms the batches, and sends a request per chunk, whose
answer the reader then reads; the body may end after any token. A secret may be renewed at
any time. For one operation and for answers to other requests, the documents are arbitrary
token sequences up to a bound.

## 3. Runs

| run | instance | checks |
|---|---|---|
| `upload_race` | 3 threads, 4 calls, 6 writes that buffer, flush, go directly, overlap, leave gaps or exceed the limit; 2 parts | the safety properties of the session; the session implements `AtomicUpload` |
| `handle` | 3 threads, 3 calls on the handle | aborts and destruction; every call of the session and every `AbortUpload` returns |
| `upload_sized` | blocks of 2 bytes, parts of 2 to 20, 7 parts, 3 tiers, every file limit; 1 thread, 7 calls, a file of 12 bytes that parts of 2, 2, 4, 4 cover exactly | the schedule covers the file and starts as small as possible; part numbers never run out |
| `executor` | 2 threads, 2 requests, keys 0 to 2 of which one expires, one 403 for another reason, 1 transient retry | refresh, redirect and retry crossing each other |
| `executor_liveness` | 2 threads, 2 requests, keys 0 and 1, the method that is repeated most | every request ends |
| `read_race` | 2 threads, 4 opens and reads, a file of 2 bytes replaced by one of 3 and one of 1, 11 servers and settings, 2 file states | probe, download, versions |
| `read_liveness` | 3 threads, 3 calls, 1 version, 10 of these servers and settings | opens and reads end |
| `glob` | 11 keys (files beside directories, a marker, a name to encode, a name that a second decoding changes), 10 patterns, pages of 2, 2 changes; 6 files, 6 patterns, pages of 2, 2 commits for Hugging Face | both globs are exact; the S3 glob ends where such a name has one page |
| `glob_encoding` | a directory `p+q` with 3 files, pages of 2 | **violated** (`GlobIsExact`): see below |
| `glob_endless` | the same directory, the pattern `p+*/*` | **violated** (`GlobEnds`): see below |
| `clients` | 2 threads, 3 clients; request session: 5 configurations, 2 URLs, 3 snapshots, 2 invalidations; curl: 2 pools of 1 slot, 3 requests of 8 kinds by users with and without a token and a proxy, 1 retry; 18 kinds of handlers, 65 scripts | ownership and freshness of clients in either place; requests, streamed responses |
| `delete` | 9 operations on 5 files in 2 buckets with 2 secrets, 2 keys per request, 1 renewal; documents of up to 4 arbitrary tokens and answers with missing, doubled or foreign children | files, credentials, the XML reader |

Three threads are enough for a writer, one that waits for it and one that ends the
session; four calls let one thread call again after the others have failed. Two or
three parts reach the first part (whose buffering rule differs), a later one, and the
exhaustion of the part numbers. `CHECK_DEADLOCK FALSE` is set because a session whose
calls are used up, or that waits for a write nobody makes, really stops.

The sizes of the schedules in `upload_sized` keep the proportions that matter (a last tier
that is cut short, a cap that is reached, a limit that just fits or just does not). In `executor` one
expiring key with one unrelated 403 is the least that lets a refresh be used up for
nothing, and three keys let another connection renew in between. In `read_race` four calls
are two opens and a read each, or one handle that reads again after a failure; versions
of different length, one longer and one shorter than the first, make a stale handle visible
by its length and by its bytes. Its setups
are the default and what differs from it in one or two respects: no, some or all ranges; a
HEAD that is refused (with and without ETags, and without the fallback), too long or without
a length; each kind of metadata cache; no fallback; forced and threshold downloads.

In `glob` pages of two make every listing of three entries continue, and one file per
directory counts as dense (100 in the code), so that the first page chooses either strategy;
two changes remove and add keys before and behind the position of a listing. In `clients` three
requests are one that leaves options behind, one that reuses its client and one that runs at
the same time, and three clients for two slots force an eviction. Four tokens are two nested
elements with declarations that shadow each other.

**Findings.** `ScanCurrentCommonPrefix` stores the decoded prefix (`s3_list.cpp:141`) and
decodes it again for the next page, and `S3Url::Decode` makes a blank of a plus, although "In
S3 urls, + means a plus symbol" (`test/sql/copy/s3/url_encode.test:49`). What follows for a
directory `p+q` with more than a page of files, when the glob goes by directories, depends on
the pattern:

* `glob_encoding`: with `*/*` the second page is asked for below `p q`; the files after the
  first page are missing, without an error. Listing finds them.
* `glob_endless`: with `p+*/*` the directory `p q` no longer matches and is not listed. The
  token of the first page is never used up, so `SelectNextCommonPrefix` is not called
  (`s3_list.cpp:153`), and every call of `ExpandNextPath` returns true and changes nothing:
  the glob runs for ever, without a request. The counterexample ends in stuttering because the
  step that repeats changes no variable. `test/sql/copy/s3/glob_s3_paging.test_slow:110`
  expects such a paged glob to end with every file, with either strategy.

So `glob` passes for less than every bucket: its directory with more than a page has a name
that survives a second decoding (`d e`), and its `p+q` has one page. Under that restriction
`GlobIsExact` and `GlobEnds` hold.

Two things met while modelling are recorded here because no document contradicts them.
`RemoveDirectory` hands `RemoveFiles` the names that `ListFiles` calls back with, which are
relative to the directory, and `S3Url::Resolve` rejects them: in the model the operation
always throws unless the directory is empty. `ClearCachedConnections` empties the cache but
has no generation, unlike the request session: a client in use at that moment is parked
again afterwards.

`ReadsOpenedVersion` has two exceptions that are real: a cached download is read without
comparing the ETag of the handle that made it, so a handle opened for another version, or
without an ETag, can leave its version to others in the same query; and a handle that
is longer than the version it was opened for, because HEAD reported too much or because the
file shrank while it was opened, can be sent the whole file, by a server that ignores ranges,
in place of a range that happens to be as long. The second exception was first stated for
HEAD alone; the proof of `OpenedVersionIsRead` failed for a file that shrinks, which the
instance then had no version for. `ReadsItsDownload` has one: a reader whose handle has another
length takes the download away from one that was about to use it, and that read fails with
an error.

`RequestsSentOnce`, `AbortRequestIsLast`, `CompletedNotAborted` and `NoLeakedUpload`
together say what happens to the upload in the store. `NoLeakedUpload` allows an open
upload after the cleanup only where the abort request was tried and failed, or the
outcome of the completion or initiation is unknown; the code documents both.
`ImplementsAtomicUpload` says the rest in one formula: the first failure is
final, an aborted upload publishes nothing, the object appears in one step and is the
accepted input.
`StableError` is why admission waits for the cleanup (`BeginWriteOperation`): all
callers report the same pair of primary failure and cleanup error.

**Fairness.** Weak fairness of each thread's own steps, not of new calls: a thread
that can run is scheduled, and every request is answered or times out (the clients
have timeouts). Mutexes need no stronger assumption because no section is retried.
`CallsReturn` and `AbortUploadReturns` exclude one case that is real: a write whose
predecessor never arrives waits until the session fails, and an `Abort` waits for
that writer, for as long as nobody writes the gap. DuckDB's writers cover the file,
so this is not reported as a defect.

`RunReturns` and `CallsEnd` use the same fairness for the steps of a request, an open or a
read, and `GlobEnds` that of the calls of `ExpandNextPath`, which the reader of the file list
repeats until there are no more files; their retries are bounded in the code, and the
changes of the bucket in the instance. The refresh mutex needs none beyond it because
the instances make finitely many calls.

Each property has a mutant, an operator next to the definition it replaces (marked
`Mutant:`), that breaks it as a plausible slip in the code would.

## 4. Proofs

Every theorem holds for every value of the constants that satisfies the assumption of its
module (`SessionAssumption`, `ReadPathAssumption`, `CurlAssumption`, `DeleteAssumption`, ...):
any number of threads, calls, parts, clients, keys, versions, pools and paths. The
assumptions say that bounds are naturals, that threads are finitely many where they are
counted, that `None` is no value of the data, and what the types of the code say of the
inputs (a GET has no body, a path has its fields). TLC evaluates them in every run.

No property below is inductive alone. Each module defines an inductive invariant as a
conjunction of named parts, shows it for one action per lemma (`<Action>Preserves`),
collects these in one lemma for the next-state relation, and derives the properties.

**S3UploadSessionProofs**: `OperationsCounted`, `AbortRequestLast`, `SentOnce`,
`NeverAbortsCompleted`, `UploadNotLeaked`, `ErrorStable`, `AbortPublishesNothing`,
`FailureStaysFinal`. `ControlInv` is the conjunction of

* `ControlTypeOK`, the types of the control variables;
* `OperationInv`: the counter equals the number of threads at an operation label, a
  finalizing session has exactly its finalizer admitted, an aborted or finalized one
  has nobody;
* `CleanupInv`: the owner of the cleanup is unique (`AbortOwners`), it exists exactly
  while the state is IN_PROGRESS, and there is no operation then;
* `InitializationInv`: one thread initializes, and only while the state says so;
* `StoreInv`: what the store can hold given the session's state, e.g. the upload is
  completed only if the session is finalized or its abort is suppressed;
* `ReportInv`: every report made equals the failure that is latched now, because
  reports are made only after the cleanup is complete.

The counter and the cleanup owner are the crux: a cleanup starts when the count
reaches zero, and a new operation is admitted only without a failure, so from then on
no upload request can be outstanding.

The same module proves of the handle: `SessionOutlivesUsers`, `AbortAgrees`. `HandleInv` counts the
claims (`ClaimInv`), names the one thread that aborts (`AborterInv`), and says that the session is
gone exactly when the handle is aborted, and that nobody holds a claim then (`DestroyInv`). It contains `ControlInv`, because
which thread may still be inside is a matter of the session's own state.

**S3UploadDataProofs**: `SessionTypes`, `PublishesInput`, `FinalizedIsComplete`,
`UploadIsAtomic`. `DataInv` says where the accepted input is. As long as the upload can
still be published (`Publishable`: no failure is latched or about to be), there is a function
`bound`, where each part ends, such that part n, in the store or with the thread that
uploads it, is exactly the input from `bound[n - 1]` to `bound[n]`, and the input after the
last part is in the buffer, the session's or the one a Finalize has taken (`LayoutInv`).
`FinalizeInv` says what a Finalize has done at each of its steps, down to the object it
published; `CursorInv` that the handle's length lags behind the session's offset only by the
writes in progress; `ObjectInv` that an object there is the input, and is there once the
session is finalized. The completion joins the parts with `FlattenSeq`, a recursive function:
the lemma `FlattenLayout` shows that parts end to end join to what they cover, by taking the
least part number at which the join would be wrong, which needs no induction theorem.
For `UploadIsAtomic` every step is shown to be one of
`Accepts`, `Publishes`, `Ends` and `Fails` of the atomic upload, seen through the refinement
mapping, or to leave the mapped state alone (`Stutters`).

**S3UploadSizedProofs**: `SchedulesAreTight`, `SizedSchedulesAreTight`, `PartsAlwaysSuffice`.
The first part is about the arithmetic of `S3UploadConfig`, whose loops are recursive
functions. Such a function is a CHOOSE, so the module first shows that functions defined by
recursion over the naturals exist and are unique (`RecursionExists`), by the least number at
which the claim would fail; then that what `ScheduleCovers` adds up by tiers, with its
divisions and its last, shorter tier, is the sum of the sizes of the parts (`HeldIsRoom`,
`CoversIsRoom`); that this sum grows with the initial size (`CoveringUpward`); and so that the
binary search returns the least size that covers (`InitialIsLeast`).

`PartsAlwaysSuffice` is about a session that follows the schedule. `SessionRoom[n]` is the
room in the first n parts. The invariant `RoomInv` says that the accepted input reaches behind
the room of all reserved parts, but for the last one, which a Finalize makes of what is left,
and that a buffer starts behind them: `PrepareWrite` reserves a part for a full buffer, or
straight from the caller's memory a part at least as large as the schedule asks for; a smaller
rest stays in the buffer. The room of all parts is at least the largest file,
so whoever still has bytes has a part number (`PartForRest`). It needs `DataInv` for the types
and `ControlInv` for who can be at work besides a writer or a finalizer.

**HTTPRequestSessionProofs**: `StaleClientsAreDropped`, `ClientsHaveOneOwner`. What carries
the current client generation, a capture, a lease or an idle client, belongs to the current
settings and was not there at an invalidation (`CaptureInv`, `LeaseInv`, `IdleInv`).

**S3RequestExecutorProofs**: `RedirectKept`, `OneRefreshPerKey`, `PostsAppliedOnce`,
`RetriesSuffice`, `CredentialsGrow`. Two orders hold the invariant together: of two
snapshots of a session the later one has no smaller key or generation and keeps a redirect
(`Earlier`), and the credentials a thread holds to publish are newer than those its request
failed with (`NewMaterial`). A publication that meets another snapshot than it captured
starts again, so it never overwrites what it has not seen.

**HTTPReadPathProofs**: `ProbeIsOwned`, `FileIsDownloadedOnce`, `CachedFileIsWhole`,
`DownloadIsRead`, `OpenedVersionIsRead`, `SupportStaysLost`. A file state says probing, or
downloading, exactly if one thread is doing that (`ProbeInv`, `DownloadInv`); what that
thread's guard and buffer say agrees with the state while it works without the mutex
(`GuardInv`, `BufferInv`), and what a thread has read of the state before still allows what
it will do (`AgainInv`, `RangeInv`).

**HTTPFSCurlUtilProofs**: `RequestsAreSentAsAsked`, `ClientsAreHeldOnce`,
`TransfersAreFaithful`. A client alive is in
one slot or with one thread (`SlotInv`, `OwnerInv`, `AliveInv`), so nobody changes what a
thread configured; and every method takes back what it set, whatever that was
(`RequestOnHandle`), so each client is at rest between requests (`AtRest`): no custom
method, no body, no HEAD, and the token and certificates its handle was made with.
`TransfersAreFaithful` is an induction over the events of a script of any length. After n of
them a transfer waits for its response, and has told its handlers nothing (`Waiting`), or
receives the data of the response (`Receiving`): with a kept body it has all of it, with a
content handler all of it, or what came until a handler ended the transfer. It needs the
assumption that the scripts are ones libcurl produces (`IsScript`).

**S3DeleteProofs**: `CredentialsAreOwn`, `CleanReportsAreTrue`, `OnlyTargetsAreRemoved`,
`EveryTargetIsRemoved`. The key of a batch names the secret of all its paths and of its
credentials (`BatchesInv`), so a refresh by the first path of a chunk gives credentials of
the same secret (`WorkInv`). For the last theorem every path is gone, in a batch, or ahead in
the batch in work (`CoveredInv`), and a report found clean must not hide a refusal
(`CleanReportsAreTrue`). That one follows the XML reader through the report: whatever the
names, prefixes and declarations of the root, reading a report of any number of keys is
shown, an element at a time, to leave a stack that holds the root and a child for each
element, so that the first error is a child the interpreter meets.

**Only model-checked.** All liveness (`CallsReturn`, `AbortUploadReturns`, `RunReturns`,
`CallsEnd`, `GlobEnds`): fairness and ENABLED are out of the prover's reach. Where a recursion
over data is compared with another definition of the same thing over arbitrary inputs:
matching and pages (`GlobIsExact`, `HFGlobIsExact`), the XML reader on documents other than the store's reports
(`ReaderIsExact`, the rest of `NothingOverlooked`).

## 5. Not modelled, and assumptions

* An error status means that the request was not applied; a request whose response
  was lost is not applied after the session has moved on.
* In particular a completion that the executor repeats after a 5xx, and that the store had
  applied, is answered with an error; the two modules are not composed, and this case is a
  hazard without a property.
* `HTTPReadPath` opens for reading only; S3 overrides (version pinning) are left out, and a
  read stays within the length of its handle.
* `HTTPFSCurlUtil` follows clients that go through the shared cache; those that a request
  session keeps idle and leases again (`HTTPRequestSession`) are reused without it, and the
  options of their handles are not followed there.
* Memory allocation failures inside critical sections.
* `idx_t` overflow: offsets are bounded by the maximum file size, which the code
  checks by subtraction.
* Text: the characters of XML names, references and numbers, URLs, signatures, messages,
  logging; the characters of a glob segment. Cryptography and the other network clients
  (httplib, WASM) are libraries or thin wrappers of them.
* Opening for writing in `HTTPFileSystem`, `ListFiles`, the creation of secrets, the
  registration of options.
* A store that changes lists its entries in a fixed order; the Hub lists a directory as
  files and directories with a page limit the code sends. A response of a bulk delete with status 200 reports every key it refused.
* See `components` in `PROJECT.json`.

## 6. Open ends

1. Safety parts of the globs that need no recursion: no file twice, none that never matched,
   the directories still to be listed.
2. The XML reader against `WellFormed` for documents of any length.
3. The upload session over the executor: what a repeated completion does to it.
4. `HTTPReadPath`: the S3 overrides with version pinning.
