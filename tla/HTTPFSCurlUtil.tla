---------------------------- MODULE HTTPFSCurlUtil ----------------------------
(****************************************************************************)
(* HTTPFSCurlUtil and HTTPFSCurlClient: clients, each a libcurl handle with   *)
(* options that stay set, are parked in a cache all threads share and used    *)
(* for requests of other users, with other parameters.                        *)
(*                                                                            *)
(* A pool of the cache is searched under its own lock, so a search is one     *)
(* step per pool.  A client a thread has is its own, so a request is one      *)
(* step.  libcurl's options behave as its manual says (external).             *)
(****************************************************************************)
EXTENDS HTTPClients, CurlTransfer, FiniteSetsExt, Functions

CONSTANTS
    Calls,          \* what callers ask for: records [request, url, params, caller_owns_client],
                    \* request: [method, body, send_post_as_get_request],
                    \* params: [bearer_token, ca_cert_file, verify_ssl, http_proxy], "" is none
    Gets,           \* how the handlers of a GET behave, see CurlTransfer
    Scripts,        \* what libcurl may report of a GET
    POOL_COUNT, POOL_SIZE,
    Retries,        \* http_retries
    MaxRequests     \* bound: requests sent

\* The sink of a GET, its GetTransferState; another request's is its request_info, 0 or 1.
TRANSFER == 2

Methods == {"GET", "HEAD", "PUT", "DELETE", "OPTIONS", "POST"}
Requests == {c.request : c \in Calls}
Params == {c.params : c \in Calls}

\* The options of a libcurl handle, and clients.
CurlOptions ==
    [token : {""} \cup {params.bearer_token : params \in Params},
     cert : {""} \cup {params.ca_cert_file : params \in Params},
     verify : BOOLEAN, proxy : {""} \cup {params.http_proxy : params \in Params},
     method : {"GET", "HEAD", "POST"}, custom : Methods \cup {None},
     fields : {request.body : request \in Requests} \cup {None},
     nobody : BOOLEAN, sink : {0, 1, TRANSFER} \cup {None}]
CurlClients ==
    [base_url : {c.url : c \in Calls}, curl : CurlOptions \cup {None},
     stored_bearer_token : {""} \cup {params.bearer_token : params \in Params},
     stored_cert_file_path : {""} \cup {params.ca_cert_file : params \in Params},
     request_info : {0, 1}]

ASSUME CurlAssumption ==
    /\ POOL_COUNT \in Nat \ {0} /\ POOL_SIZE \in Nat \ {0}
    /\ None \notin Threads /\ None \notin Nat /\ None \notin CurlClients /\ None \notin Methods
    /\ \A request \in Requests :
          request.method \in Methods /\ (request.method \notin {"PUT", "POST"} => request.body = None)
    /\ \A params \in Params : params.verify_ssl \in BOOLEAN
    /\ \A get \in Gets : get.stream_content \in BOOLEAN
    /\ \A script \in Scripts : IsScript(script)
    /\ Retries \in Nat /\ MaxClients \in Nat /\ MaxRequests \in Nat

VARIABLES
    connection_caching_enabled,
    pools,          \* per pool and slot: a client or None
    cache_pool_idx, \* per thread: the pool it looks at first
    clients,        \* per client: None or its record
    call,           \* per thread: None or what it was called for
    client,         \* per thread: the client it has, or None
    pc, scanned,    \* per thread: its next step, the pools searched so far
    retried,        \* per thread: attempts made again
    wire,           \* per thread: None or the request as it was sent
    outcome,        \* per thread: None, "response", "request_error" or "exception"
    requests        \* requests sent so far

cacheVars  == <<pools, cache_pool_idx>>
threadVars == <<call, client, pc, scanned, retried, wire, outcome>>
vars == <<connection_caching_enabled, cacheVars, clients, threadVars, requests>>

Pools == 0..POOL_COUNT - 1
Slots == 1..POOL_SIZE
Clients == 1..MaxClients

Init ==
    /\ connection_caching_enabled \in BOOLEAN
    /\ pools = [p \in Pools |-> [s \in Slots |-> None]]
    /\ cache_pool_idx \in [Threads -> Pools]
    /\ clients = [c \in Clients |-> None]
    /\ call = [t \in Threads |-> None]
    /\ client = [t \in Threads |-> None]
    /\ pc = [t \in Threads |-> "Idle"]
    /\ scanned = [t \in Threads |-> 0]
    /\ retried = [t \in Threads |-> 0]
    /\ wire = [t \in Threads |-> None]
    /\ outcome = [t \in Threads |-> None]
    /\ requests = 0

Goto(t, label) == pc' = [pc EXCEPT ![t] = label] /\ scanned' = [scanned EXCEPT ![t] = 0]

-----------------------------------------------------------------------------
\* libcurl's options.

\* A new handle.
FreshOptions(token, cert) ==
    [token |-> token, cert |-> cert, verify |-> TRUE, proxy |-> "", method |-> "GET",
     custom |-> None, fields |-> None, nobody |-> FALSE, sink |-> None]

SetNobody(o, on) ==
    [o EXCEPT !.nobody = on,
              !.method = IF on THEN "HEAD" ELSE IF @ = "HEAD" THEN "GET" ELSE @]
SetHttpGet(o, on) == IF on THEN [o EXCEPT !.method = "GET", !.nobody = FALSE] ELSE o
SetPost(o, on) ==
    IF on THEN [o EXCEPT !.method = "POST", !.nobody = FALSE] ELSE [o EXCEPT !.method = "GET"]
SetPostFields(o, fields) == [o EXCEPT !.fields = fields, !.method = "POST"]
SetCustomRequest(o, custom) == [o EXCEPT !.custom = custom]

\* The request curl_easy_perform sends with these options.
Sent(o) ==
    [method |-> IF o.custom # None THEN o.custom ELSE o.method,
     body   |-> IF o.method = "POST" THEN o.fields ELSE None,
     token  |-> o.token, cert |-> o.cert, verify |-> o.verify, proxy |-> o.proxy,
     nobody |-> o.nobody, sink |-> o.sink]

-----------------------------------------------------------------------------
\* HTTPFSCurlClient.

\* Mutant: a handle is kept whatever token it was made for.
KeepsAnyHandle(c, params) == c.curl # None /\ c.stored_cert_file_path = params.ca_cert_file

KeepsHandle(c, params) ==
    /\ c.curl # None
    /\ c.stored_bearer_token = params.bearer_token
    /\ c.stored_cert_file_path = params.ca_cert_file

InitializeHandle(c, params) ==
    IF KeepsHandle(c, params) THEN c
    ELSE [c EXCEPT !.curl = FreshOptions(params.bearer_token, params.ca_cert_file),
                   !.stored_bearer_token = params.bearer_token,
                   !.stored_cert_file_path = params.ca_cert_file]

\* Configure: a new request_info, whose buffers the callbacks fill.
Initialize(c, params) ==
    LET handled == InitializeHandle(c, params)
        fresh   == [handled EXCEPT !.request_info = 1 - @]
    IN  [fresh EXCEPT !.curl.verify = params.verify_ssl,
                      !.curl.sink = fresh.request_info,
                      !.curl.proxy = params.http_proxy]

NewClient(url, params) ==
    Initialize([base_url |-> url, curl |-> None, stored_bearer_token |-> "",
                stored_cert_file_path |-> "", request_info |-> 0], params)

\* The callbacks still point to the buffers that are released here.
Cleanup(c) == [c EXCEPT !.request_info = 1 - @]

\* The options a request sets before it is performed.
PrepareGet(o, request) == [SetHttpGet(SetNobody(o, FALSE), TRUE) EXCEPT !.sink = TRANSFER]
PrepareHead(o, request) == SetHttpGet(SetNobody(o, TRUE), FALSE)
PreparePut(o, request) == SetPostFields(SetCustomRequest(o, "PUT"), request.body)
PrepareDelete(o, request) == SetCustomRequest(o, "DELETE")
PrepareOptions(o, request) == SetCustomRequest(o, "OPTIONS")
PreparePost(o, request) ==
    SetPostFields(IF request.send_post_as_get_request THEN SetCustomRequest(o, "GET")
                  ELSE SetPost(o, TRUE),
                  request.body)

Prepare(o, request) ==
    CASE request.method = "GET"     -> PrepareGet(o, request)
      [] request.method = "HEAD"    -> PrepareHead(o, request)
      [] request.method = "PUT"     -> PreparePut(o, request)
      [] request.method = "DELETE"  -> PrepareDelete(o, request)
      [] request.method = "OPTIONS" -> PrepareOptions(o, request)
      [] request.method = "POST"    -> PreparePost(o, request)

\* The options it takes back afterwards.
Restore(o, request, info) ==
    CASE request.method = "GET"  -> [o EXCEPT !.sink = info]
      [] request.method = "HEAD" -> SetHttpGet(SetNobody(o, FALSE), TRUE)
      [] request.method = "PUT"  -> SetPostFields(SetCustomRequest(o, None), None)
      [] request.method = "POST" -> SetPost(SetPostFields(SetCustomRequest(o, None), None), FALSE)
      [] OTHER                   -> SetCustomRequest(o, None)

-----------------------------------------------------------------------------
\* Calls.

\* A caller with a client of its own (a lease) asks for it first and closes it afterwards;
\* one without leaves that to SendRequest, which does not cache what a proxy is used for.
EnableCaching(c) == connection_caching_enabled /\ c.params.http_proxy = ""

SendRequest(t) ==
    \E c \in Calls :
        LET caching == ~c.caller_owns_client /\ EnableCaching(c)
        IN  /\ pc[t] = "Idle"
            /\ requests < MaxRequests
            /\ requests' = requests + 1
            /\ call' = [call EXCEPT ![t] =
                   [request |-> c.request, url |-> c.url, params |-> c.params,
                    caller_owns_client |-> c.caller_owns_client, stores |-> caching]]
            /\ retried' = [retried EXCEPT ![t] = 0]
            /\ Goto(t, IF caching THEN "CachingSendRequest" ELSE "InitializeClient")
            /\ UNCHANGED <<connection_caching_enabled, cacheVars, clients, client, wire, outcome>>

\* One pool of Find.
FindIn(t) == (cache_pool_idx[t] + scanned[t]) % POOL_COUNT
Fitting(p, url) ==
    {s \in Slots : pools[p][s] # None /\ clients[pools[p][s]].base_url = url}

\* Mutant: the entry is not moved out of its slot.
EntryKept(p, s) == pools

EntryMoved(p, s) == [pools EXCEPT ![p][s] = None]

\* The client found is configured for the request.
FindHit(t) ==
    LET p     == FindIn(t)
        slots == Fitting(p, call[t].url)
        found == pools[p][Min(slots)]
    IN  /\ slots # {}
        /\ pools' = EntryMoved(p, Min(slots))
        /\ cache_pool_idx' = [cache_pool_idx EXCEPT ![t] = p]
        /\ client' = [client EXCEPT ![t] = found]
        /\ clients' = [clients EXCEPT ![found] = Initialize(@, call[t].params)]
        /\ Goto(t, "Perform")

FindOn(t, after) ==
    /\ Fitting(FindIn(t), call[t].url) = {}
    /\ IF scanned[t] + 1 < POOL_COUNT
       THEN scanned' = [scanned EXCEPT ![t] = @ + 1] /\ UNCHANGED pc
       ELSE Goto(t, after)
    /\ UNCHANGED <<cacheVars, client, clients>>

Find(t, after) == FindHit(t) \/ FindOn(t, after)

\* CachingSendRequest looks in the cache itself, and InitializeClient does so once more.
CachingSendRequest(t) ==
    /\ pc[t] = "CachingSendRequest"
    /\ Find(t, "InitializeClient")
    /\ UNCHANGED <<connection_caching_enabled, call, retried, wire, outcome, requests>>

InitializeClient(t) ==
    /\ pc[t] = "InitializeClient"
    /\ \/ /\ connection_caching_enabled \/ scanned[t] > 0
          /\ Find(t, "NewClient")
       \/ /\ ~connection_caching_enabled /\ scanned[t] = 0
          /\ Goto(t, "NewClient")
          /\ UNCHANGED <<cacheVars, client, clients>>
    /\ UNCHANGED <<connection_caching_enabled, call, retried, wire, outcome, requests>>

MakeClient(t) ==
    /\ pc[t] = "NewClient"
    /\ \E new \in Clients :
          /\ clients[new] = None
          /\ \A other \in Clients : clients[other] = None => new <= other
          /\ clients' = [clients EXCEPT ![new] = NewClient(call[t].url, call[t].params)]
          /\ client' = [client EXCEPT ![t] = new]
    /\ Goto(t, "Perform")
    /\ UNCHANGED <<connection_caching_enabled, cacheVars, call, retried, wire, outcome, requests>>

\* How a GET may end.
GetOutcomes == {GetTransfer(get, script).outcome : get \in Gets, script \in Scripts}

\* The request is performed; the options it set are taken back.
Perform(t) ==
    LET c        == clients[client[t]]
        prepared == Prepare(c.curl, call[t].request)
    IN  /\ pc[t] = "Perform"
        /\ wire' = [wire EXCEPT ![t] = [base_url |-> c.base_url, info |-> c.request_info,
                                        sent |-> Sent(prepared)]]
        /\ clients' = [clients EXCEPT ![client[t]].curl =
                          Restore(prepared, call[t].request, c.request_info)]
        /\ \E ended \in IF call[t].request.method = "GET" THEN GetOutcomes
                         ELSE {"response", "request_error"} :
              outcome' = [outcome EXCEPT ![t] = ended]
        /\ Goto(t, "Performed")
        /\ UNCHANGED <<connection_caching_enabled, cacheVars, call, client, retried, requests>>

Destroyed(t) ==
    /\ clients' = [clients EXCEPT ![client[t]] = None]
    /\ client' = [client EXCEPT ![t] = None]

\* An error, or a status that is worth it, makes HTTPUtil repeat the request with another
\* client.
Retry(t) ==
    /\ pc[t] = "Performed"
    /\ retried[t] < Retries
    /\ retried' = [retried EXCEPT ![t] = @ + 1]
    /\ Destroyed(t)
    /\ wire' = [wire EXCEPT ![t] = None]
    /\ outcome' = [outcome EXCEPT ![t] = None]
    /\ Goto(t, "InitializeClient")
    /\ UNCHANGED <<connection_caching_enabled, cacheVars, call, requests>>

\* The lease is closed: cleaned up and parked, if clients are cached now.
ClosesClient(t) ==
    call[t].caller_owns_client /\ outcome[t] = "response" /\ connection_caching_enabled

\* CachingSendRequest parks the client it took unless the request throws, which it also
\* does after some request errors.
StoresClient(t) == call[t].stores /\ outcome[t] # "exception"
DropsClient(t) == ~ClosesClient(t) /\ (StoresClient(t) => outcome[t] = "request_error")

Return(t) ==
    /\ pc[t] = "Performed"
    /\ wire' = [wire EXCEPT ![t] = None]
    /\ outcome' = [outcome EXCEPT ![t] = None]
    /\ \/ /\ ClosesClient(t)
          /\ clients' = [clients EXCEPT ![client[t]] = Cleanup(@)]
          /\ Goto(t, "Store")
          /\ UNCHANGED <<call, client>>
       \/ /\ StoresClient(t)
          /\ Goto(t, "Store")
          /\ UNCHANGED <<call, client, clients>>
       \/ /\ DropsClient(t)
          /\ Destroyed(t)
          /\ call' = [call EXCEPT ![t] = None]
          /\ Goto(t, "Idle")
    /\ UNCHANGED <<connection_caching_enabled, cacheVars, retried, requests>>

\* A stalled connection: the lease is invalid and the cache is cleared.
ReturnTimedOut(t) ==
    /\ pc[t] = "Performed"
    /\ call[t].caller_owns_client
    /\ wire' = [wire EXCEPT ![t] = None]
    /\ outcome' = [outcome EXCEPT ![t] = None]
    /\ Destroyed(t)
    /\ Goto(t, "ClearCachedConnections")
    /\ UNCHANGED <<connection_caching_enabled, cacheVars, call, retried, requests>>

FreeSlots(p) == {s \in Slots : pools[p][s] = None}

Parked(t, p, s) ==
    /\ pools' = [pools EXCEPT ![p][s] = client[t]]
    /\ client' = [client EXCEPT ![t] = None]
    /\ call' = [call EXCEPT ![t] = None]
    /\ Goto(t, "Idle")

\* Pass 1 looks for a free slot, pass 2 evicts.
Store(t) ==
    LET p == FindIn(t)
    IN  /\ pc[t] = "Store"
        /\ scanned[t] < POOL_COUNT
        /\ \/ /\ FreeSlots(p) # {}
              /\ Parked(t, p, Min(FreeSlots(p)))
              /\ cache_pool_idx' = [cache_pool_idx EXCEPT ![t] = p]
           \/ /\ FreeSlots(p) = {}
              /\ scanned' = [scanned EXCEPT ![t] = @ + 1]
              /\ UNCHANGED <<cacheVars, client, call, pc>>
        /\ UNCHANGED <<connection_caching_enabled, clients, retried, wire, outcome, requests>>

Evict(t) ==
    LET p == cache_pool_idx[t]
    IN  /\ pc[t] = "Store"
        /\ scanned[t] = POOL_COUNT
        /\ \E s \in Slots :
              /\ Parked(t, p, s)
              /\ clients' = IF pools[p][s] = None THEN clients
                            ELSE [clients EXCEPT ![pools[p][s]] = None]
        /\ UNCHANGED <<connection_caching_enabled, cache_pool_idx, retried, wire, outcome, requests>>

\* One pool of Clear.
ClearCachedConnections(t) ==
    LET p == scanned[t]
    IN  /\ pc[t] = "ClearCachedConnections"
        /\ clients' = [c \in Clients |-> IF c \in Range(pools[p]) THEN None ELSE clients[c]]
        /\ pools' = [pools EXCEPT ![p] = [s \in Slots |-> None]]
        /\ IF p + 1 < POOL_COUNT
           THEN scanned' = [scanned EXCEPT ![t] = @ + 1] /\ UNCHANGED <<pc, call>>
           ELSE Goto(t, "Idle") /\ call' = [call EXCEPT ![t] = None]
        /\ UNCHANGED <<connection_caching_enabled, cache_pool_idx, client, retried, wire, outcome,
                       requests>>

\* The setting is global and not synchronized with requests.
SetHTTPConnectionCaching ==
    /\ requests < MaxRequests
    /\ connection_caching_enabled' = ~connection_caching_enabled
    /\ UNCHANGED <<cacheVars, clients, threadVars, requests>>

ThreadStep(t) ==
    \/ CachingSendRequest(t) \/ InitializeClient(t) \/ MakeClient(t) \/ Perform(t) \/ Retry(t)
    \/ Return(t) \/ ReturnTimedOut(t) \/ Store(t) \/ Evict(t) \/ ClearCachedConnections(t)

Next == SetHTTPConnectionCaching \/ \E t \in Threads : SendRequest(t) \/ ThreadStep(t)

Spec == Init /\ [][Next]_vars

-----------------------------------------------------------------------------
\* The request on the wire is the one that was asked for.
AsAsked(request, asked) ==
    LET sent   == request.sent
        method == asked.request.method
        params == asked.params
    IN  /\ request.base_url = asked.url
        /\ sent.method = IF method = "POST" /\ asked.request.send_post_as_get_request
                         THEN "GET" ELSE method
        /\ sent.body = asked.request.body
        /\ sent.nobody = (method = "HEAD")
        /\ sent.token = params.bearer_token
        /\ sent.cert = params.ca_cert_file
        /\ sent.verify = params.verify_ssl
        /\ sent.proxy = params.http_proxy
        /\ sent.sink = IF method = "GET" THEN TRANSFER ELSE request.info

\* Whatever a client was used for before, and by whom: a request goes to its own host with
\* its own method and body, the token, certificates, verification and proxy of its own
\* parameters and nobody else's, and its answer is written to buffers that exist
\* (ClientConfigurator::Configure, the methods of HTTPFSCurlClient and Cleanup).
SentAsAsked == \A t \in Threads : wire[t] # None => AsAsked(wire[t], call[t])

\* A client alive is in one slot of one pool or with one thread, and nowhere else: two
\* threads never use one handle, however their searches of the pools overlap.
ClientHeldOnce ==
    \A c \in Clients :
        Cardinality({x \in Pools \X Slots : pools[x[1]][x[2]] = c})
            + Cardinality({t \in Threads : client[t] = c})
            = IF clients[c] = None THEN 0 ELSE 1

EveryTransferFaithful == \A get \in Gets, script \in Scripts :
    TransferIsFaithful(get, script, GetTransfer(get, script))

\* A streamed GET hands its caller one response and the data of that response alone,
\* whatever proxy answers, interim responses and redirects came before it and wherever a
\* handler stops or throws (GetTransferState).
TransfersFaithful == \A t \in Threads :
    wire[t] # None /\ call[t].request.method = "GET" => EveryTransferFaithful
=============================================================================
