-------------------------------- MODULE S3Delete --------------------------------
(****************************************************************************)
(* S3FileSystem::RemoveFiles (src/s3/s3_delete.cpp): the paths are resolved    *)
(* and sorted into batches that one request may serve, and each batch is       *)
(* deleted in requests of MAX_KEYS_PER_REQUEST keys.  Whether a key was        *)
(* deleted stands in the body of the response, an XML document, which is read  *)
(* token by token here (S3XMLResponse).  RemoveFile and RemoveDirectory too.   *)
(*                                                                            *)
(* External: the store, which may refuse some keys of a request and whose      *)
(* answer may be lost or cut short, and the secrets, which are replaced when   *)
(* they have expired.                                                          *)
(****************************************************************************)
EXTENDS S3XMLResponse

CONSTANTS
    Operations,     \* records [name, paths]; a path is a record
                    \* [absolute, bucket, key, secret, http_params, directory]
    Refreshable,    \* secrets with refresh_info; credential refresh is enabled
    MAX_KEYS_PER_REQUEST,
    DeleteNames,    \* how the store names elements: records [prefix, attributes]
    AnswersAnything(_), \* operations whose requests may be answered by any document
    Documents,      \* such documents,
    Tokens,         \* tokens that may follow them,
    MaxTokens,      \* bound: and how many tokens they have then
    MaxRefreshes    \* bound: secrets replaced

VARIABLES
    operation,
    resolved,       \* paths resolved
    delete_batches, \* batch key -> [auth_params, paths]
    batch, batch_start,     \* the batch in work, <<>> none, and its first path not yet asked for
    session,        \* credentials of the delete session
    version,        \* secret -> its version
    objects,        \* what the bucket holds
    deleted,        \* history: [path, credentials] of every deletion
    answer,         \* what is left of the response's document
    document, reader,       \* what was read of it, and the reader
    truthful,       \* history: every answer so far was the store's own
    pc

storeVars == <<objects, deleted, version>>
readVars  == <<answer, document, reader, truthful>>
batchVars == <<resolved, delete_batches, batch, batch_start, session>>
vars == <<operation, batchVars, storeVars, readVars, pc>>

Path ==
    [absolute : BOOLEAN, bucket : STRING, key : STRING, secret : STRING, http_params : STRING,
     directory : STRING]

ASSUME DeleteAssumption ==
    /\ Operations \subseteq [name : {"RemoveFiles", "RemoveFile", "RemoveDirectory"}, paths : Seq(Path)]
    /\ \A o \in Operations : o.name = "RemoveFile" => Len(o.paths) = 1
    /\ DeleteNames \subseteq [prefix : STRING, attributes : Seq(Attributes)]
    /\ MAX_KEYS_PER_REQUEST \in Nat \ {0}
    /\ MAX_NESTING_DEPTH \in Nat /\ MaxTokens \in Nat /\ MaxRefreshes \in Nat

Object(path) == <<path.bucket, path.key>>
AllPaths == UNION {ToSet(o.paths) : o \in Operations}
Targets == {Object(operation.paths[i]) : i \in DOMAIN operation.paths}
Secrets == {path.secret : path \in AllPaths}

Init ==
    /\ operation \in Operations
    /\ resolved = 0
    /\ delete_batches = <<>>
    /\ batch = <<>>
    /\ batch_start = 0
    /\ session = <<>>
    /\ version = [secret \in Secrets |-> 0]
    /\ objects = {Object(path) : path \in AllPaths}
    /\ deleted = {}
    /\ answer = <<>> /\ document = <<>> /\ reader = NewReader /\ truthful = TRUE
    /\ pc = operation.name

Throw(reason) == pc' = reason

\* The secret of a path is replaced when its credentials have expired.
RefreshSecret ==
    /\ pc \in {"RemoveFiles", "Request"}
    /\ \E secret \in Refreshable \cap Secrets :
          /\ MapThenSumSet(LAMBDA s : version[s], Secrets) < MaxRefreshes
          /\ version' = [version EXCEPT ![secret] = @ + 1]
    /\ UNCHANGED <<operation, batchVars, objects, deleted, readVars, pc>>

-----------------------------------------------------------------------------
\* Batches.

ReadAuthParams(path) == [secret |-> path.secret, version |-> version[path.secret]]

\* Mutant: neither the credentials nor the secret is part of the key.
BatchByBucket(path) == <<path.bucket, path.http_params>>

\* CreateDeleteBatchKey: the bucket's URL, the credentials and HTTP parameters, the secret
\* and, where it may be refreshed, the directory it was looked up for.
CreateDeleteBatchKey(path) ==
    <<path.bucket, ReadAuthParams(path), path.http_params, path.secret,
      IF path.secret \in Refreshable THEN path.directory ELSE "">>

\* A path that is no S3 URL throws before anything was sent.
ResolvePath ==
    LET path == operation.paths[resolved + 1]
        key  == CreateDeleteBatchKey(path)
        held == IF key \in DOMAIN delete_batches THEN delete_batches[key]
                ELSE [auth_params |-> ReadAuthParams(path), paths |-> <<>>]
    IN  /\ pc = "RemoveFiles"
        /\ resolved < Len(operation.paths)
        /\ IF path.absolute
           THEN /\ delete_batches' = [k \in DOMAIN delete_batches \cup {key} |->
                       IF k = key THEN [held EXCEPT !.paths = Append(@, path)]
                       ELSE delete_batches[k]]
                /\ resolved' = resolved + 1
                /\ UNCHANGED pc
           ELSE Throw("InvalidPath") /\ UNCHANGED <<delete_batches, resolved>>
        /\ UNCHANGED <<operation, batch, batch_start, session, storeVars, readVars>>

\* The batches come in the order of a hash table.
NextBatch ==
    /\ pc = "RemoveFiles"
    /\ resolved = Len(operation.paths)
    /\ \/ /\ delete_batches = <<>>
          /\ pc' = "Returned"
          /\ UNCHANGED <<delete_batches, batch, batch_start, session>>
       \/ \E key \in DOMAIN delete_batches :
             /\ batch' = delete_batches[key].paths
             /\ batch_start' = 0
             /\ session' = delete_batches[key].auth_params
             /\ delete_batches' = [k \in DOMAIN delete_batches \ {key} |-> delete_batches[k]]
             /\ pc' = "Request"
    /\ UNCHANGED <<operation, resolved, storeVars, readVars>>

-----------------------------------------------------------------------------
\* A request.

Chunk == SubSeq(batch, batch_start + 1, Min({batch_start + MAX_KEYS_PER_REQUEST, Len(batch)}))

\* Expired credentials are refreshed by the path the request was looked up for.
Credentials ==
    IF session.version = version[session.secret] THEN session
    ELSE ReadAuthParams(batch[batch_start + 1])

Deletes(paths) ==
    /\ objects' = objects \ {Object(path) : path \in paths}
    /\ deleted' = deleted \cup {[path |-> path, credentials |-> Credentials] : path \in paths}
    /\ session' = Credentials

\* <DeleteResult><Error><Key>..</Key><Code>..</Code></Error>..</DeleteResult>, Quiet.
Element(named, local_name) == Name(named.prefix, local_name)
Leaf(named, local_name, text) ==
    <<Start(Element(named, local_name), <<>>), Text(text), End(Element(named, local_name))>>
ErrorElement(named, key) ==
    <<Start(Element(named, "Error"), <<>>)>> \o Leaf(named, "Key", key)
        \o Leaf(named, "Code", "AccessDenied") \o <<End(Element(named, "Error"))>>
DeleteResult(named, keys) ==
    IF keys = <<>> THEN <<Declaration, Empty(Element(named, "DeleteResult"), named.attributes)>>
    ELSE <<Declaration, Start(Element(named, "DeleteResult"), named.attributes)>>
            \o FlattenSeq([i \in DOMAIN keys |-> ErrorElement(named, keys[i])])
            \o <<End(Element(named, "DeleteResult"))>>

StartReading(doc, own) ==
    /\ answer' = doc
    /\ document' = <<>>
    /\ reader' = NewReader
    /\ truthful' = (truthful /\ own)
    /\ pc' = "ReadResponse"

\* A request error, after which the store may have done any part of it; a status that is
\* not 200, with nothing done; or a 200, with a report of the keys that were refused.
Request ==
    LET chunk == Chunk
    IN  /\ pc = "Request"
        /\ \E refused \in SUBSET ToSet(chunk) :
              \/ /\ Deletes(ToSet(chunk) \ refused)
                 /\ Throw("RequestError")
                 /\ UNCHANGED readVars
              \/ /\ Deletes({})
                 /\ Throw("StatusError")
                 /\ UNCHANGED readVars
              \/ /\ Deletes(ToSet(chunk) \ refused)
                 /\ LET keys == Filter(chunk, LAMBDA path : path \in refused)
                    IN  \E named \in DeleteNames :
                            StartReading(DeleteResult(named, [i \in DOMAIN keys |-> keys[i].key]),
                                         TRUE)
              \/ /\ AnswersAnything(operation)
                 /\ Deletes({})
                 /\ \E doc \in Documents : StartReading(doc, FALSE)
        /\ UNCHANGED <<operation, resolved, delete_batches, batch, batch_start, version>>

\* The next token of the answer, or any token.
ReadToken ==
    /\ pc = "ReadResponse"
    /\ ~reader.rejected
    /\ \E token \in IF answer # <<>> THEN {answer[1]}
                    ELSE IF truthful \/ Len(document) >= MaxTokens THEN {} ELSE Tokens :
          /\ document' = Append(document, token)
          /\ reader' = Read(reader, token)
    /\ answer' = IF answer = <<>> THEN <<>> ELSE Tail(answer)
    /\ UNCHANGED <<operation, batchVars, storeVars, truthful, pc>>

\* Mutant: the keys the answer names are not looked at.
ReportIsParsed == ParseDocument(reader) /\ InterpretDeleteObjects(reader.root).accepted

ReportIsClean ==
    /\ ParseDocument(reader)
    /\ InterpretDeleteObjects(reader.root).accepted
    /\ InterpretDeleteObjects(reader.root).errors = <<>>

\* The body ends, possibly before the document does.
EndOfBody ==
    /\ pc = "ReadResponse"
    /\ IF ~ReportIsClean
       THEN Throw("MalformedOrFailed") /\ UNCHANGED <<batch, batch_start>>
       ELSE IF batch_start + MAX_KEYS_PER_REQUEST < Len(batch)
       THEN /\ batch_start' = batch_start + MAX_KEYS_PER_REQUEST
            /\ pc' = "Request"
            /\ UNCHANGED batch
       ELSE /\ batch' = <<>>
            /\ batch_start' = 0
            /\ pc' = "RemoveFiles"
    /\ UNCHANGED <<operation, resolved, delete_batches, session, storeVars, readVars>>

-----------------------------------------------------------------------------
\* The other operations.

\* The file is opened, which finds out whether it exists, and deleted.
RemoveFile ==
    LET path == operation.paths[1]
    IN  /\ pc = "RemoveFile"
        /\ \/ /\ Object(path) \notin objects \/ ~path.absolute
              /\ Throw("NoSuchFile")
              /\ UNCHANGED <<objects, deleted>>
           \/ /\ Object(path) \in objects /\ path.absolute
              /\ \/ Throw("RequestError") /\ UNCHANGED <<objects, deleted>>
                 \/ /\ pc' \in {"Returned", "RequestError"}
                    /\ objects' = objects \ {Object(path)}
                    /\ deleted' = deleted \cup {[path |-> path, credentials |-> ReadAuthParams(path)]}
        /\ UNCHANGED <<operation, batchVars, version, readVars>>

\* ListFiles calls back with names relative to the directory, which RemoveFiles then takes
\* for paths.
RemoveDirectory ==
    /\ pc = "RemoveDirectory"
    /\ operation' = [operation EXCEPT !.paths =
                        [i \in DOMAIN @ |-> [@[i] EXCEPT !.absolute = FALSE]]]
    /\ pc' = "RemoveFiles"
    /\ UNCHANGED <<batchVars, storeVars, readVars>>

Next ==
    \/ ResolvePath \/ NextBatch \/ Request \/ ReadToken \/ EndOfBody \/ RemoveFile
    \/ RemoveDirectory \/ RefreshSecret

Spec == Init /\ [][Next]_vars

-----------------------------------------------------------------------------
RemovedAll == pc = "Returned" /\ truthful => Targets \cap objects = {}

\* Nothing else is ever removed, and nothing at all where a path is no S3 URL: they are all
\* resolved before the first request.
RemovesOnlyTargets ==
    /\ {Object(path) : path \in AllPaths} \ objects \subseteq Targets
    /\ pc = "InvalidPath" => deleted = {}

\* RemoveFiles and RemoveFile return only when every file they were given is gone, however
\* the answers were cut, and never remove another one; a path that is no S3 URL is found
\* before the first file is removed.
RemovedExactly == RemovedAll /\ RemovesOnlyTargets

\* Every file is deleted with credentials of the secret that its own path selects, though
\* one request serves many paths and looks up its credentials by the first of them.
OwnCredentials == \A d \in deleted : d.credentials.secret = d.path.secret

\* The reader accepts the well-formed documents and no other, and the elements that are
\* open have the namespaces their prefixes stand for where they are.
ReaderIsExact ==
    LET open == Enclosing(document, Len(document) + 1)
        sorted == SetToSortSeq(open, LAMBDA a, b : a < b)
    IN  pc = "ReadResponse" =>
            /\ ParseDocument(reader) <=> WellFormed(document)
            /\ ~reader.rejected =>
                  /\ Len(reader.elements) = Cardinality(open)
                  /\ \A i \in DOMAIN reader.elements :
                        reader.elements[i].namespace_uri =
                            ScopedNamespace(document, sorted[i], document[sorted[i]].name.prefix)

\* A report of the store's own that is found clean tells of keys that are gone.
CleanReportIsTrue ==
    pc = "ReadResponse" /\ truthful /\ ReportIsClean =>
        \A path \in ToSet(Chunk) : Object(path) \notin objects

\* Nothing a document says is lost: no error of the store's own report, nor of any accepted
\* report an Error element, of a listing a Contents element; and a completion is recognized
\* only where there is one ETag to read.
NothingOverlooked ==
    /\ CleanReportIsTrue
    /\ pc = "ReadResponse" /\ ParseDocument(reader) =>
          /\ InterpretDeleteObjects(reader.root).accepted =>
                Len(InterpretDeleteObjects(reader.root).errors)
                    = Cardinality(RootChildren(document, "Error"))
          /\ InterpretListObjectsV2(reader.root).accepted =>
                /\ Len(InterpretListObjectsV2(reader.root).objects)
                      = Cardinality(RootChildren(document, "Contents"))
                /\ InterpretListObjectsV2(reader.root).continuation_token # <<>> =>
                      Cardinality(RootChildren(document, "NextContinuationToken")) = 1
          /\ TryParse(reader).type = "MULTIPART_COMPLETION" =>
                Cardinality(RootChildren(document, "ETag")) = 1
          /\ TryParse(reader).type = "MULTIPART_INITIALIZATION" =>
                Cardinality(RootChildren(document, "UploadId")) = 1
=============================================================================
