------------------------- MODULE HTTPFSCurlUtilProofs -------------------------
(****************************************************************************)
(* The inductive invariant of HTTPFSCurlUtil and what follows from it.        *)
(*                                                                          *)
(* A client alive is in one slot or with one thread, so nobody else changes   *)
(* what a thread configured; and every request takes back what it set, so a   *)
(* client that is not performing is at rest whatever it was used for.         *)
(*                                                                          *)
(* What the callbacks make of a transfer follows by induction over the events *)
(* libcurl reports: a transfer waits for its response or receives its data.   *)
(****************************************************************************)
EXTENDS HTTPFSCurlUtil, FiniteSetTheorems, WellFoundedInduction, TLAPS

Labels == {"Idle", "CachingSendRequest", "InitializeClient", "NewClient", "Perform", "Performed",
           "Store", "ClearCachedConnections"}

TypeInv ==
    /\ pools \in [Pools -> [Slots -> Clients \cup {None}]]
    /\ cache_pool_idx \in [Threads -> Pools]
    /\ clients \in [Clients -> CurlClients \cup {None}]
    /\ client \in [Threads -> Clients \cup {None}]
    /\ pc \in [Threads -> Labels]
    /\ scanned \in [Threads -> Nat]
    /\ call = [t \in Threads |-> call[t]]
    /\ wire = [t \in Threads |-> wire[t]]

\* A client is alive exactly if a slot or a thread has it, and one alone has it.
SlotInv ==
    \A p \in Pools, s \in Slots : pools[p][s] # None =>
        /\ clients[pools[p][s]] # None
        /\ \A q \in Pools, r \in Slots : pools[q][r] = pools[p][s] => q = p /\ r = s
        /\ \A t \in Threads : client[t] # pools[p][s]

OwnerInv ==
    \A t \in Threads : client[t] # None =>
        /\ clients[client[t]] # None
        /\ \A u \in Threads : client[u] = client[t] => u = t

InSlot(c) == \E p \in Pools : \E s \in Slots : pools[p][s] = c
WithThread(c) == \E t \in Threads : client[t] = c

AliveInv == \A c \in Clients : clients[c] # None => InSlot(c) \/ WithThread(c)

HeldInv == SlotInv /\ OwnerInv /\ AliveInv

\* The options of a handle no request is being performed with.
OptionsAtRest(o) ==
    /\ o \in CurlOptions
    /\ o.custom = None /\ o.fields = None /\ o.nobody = FALSE
    /\ o.method \in {"GET", "POST"}

\* Such a client; its handle has the token and the certificates it was made for.
AtRest(c) ==
    /\ c \in CurlClients
    /\ OptionsAtRest(c.curl)
    /\ c.curl.token = c.stored_bearer_token
    /\ c.curl.cert = c.stored_cert_file_path

RestInv == \A c \in Clients : clients[c] # None => AtRest(clients[c])

Asked(a) == a.request \in Requests /\ a.params \in Params /\ a.url \in {c.url : c \in Calls}

\* The client is configured for these parameters.
Configured(c, params) ==
    /\ c.curl.token = params.bearer_token
    /\ c.curl.cert = params.ca_cert_file
    /\ c.curl.verify = params.verify_ssl
    /\ c.curl.proxy = params.http_proxy
    /\ c.curl.sink = c.request_info

ThreadInv(t) ==
    /\ pc[t] # "Idle" => Asked(call[t])
    /\ client[t] # None <=> pc[t] \in {"Perform", "Performed", "Store"}
    /\ pc[t] = "ClearCachedConnections" => scanned[t] < POOL_COUNT
    /\ pc[t] = "Perform" =>
          /\ clients[client[t]].base_url = call[t].url
          /\ Configured(clients[client[t]], call[t].params)
    /\ wire[t] # None => pc[t] = "Performed" /\ AsAsked(wire[t], call[t])

Inv ==
    /\ TypeInv
    /\ HeldInv
    /\ RestInv
    /\ \A t \in Threads : ThreadInv(t)

-----------------------------------------------------------------------------
(* Handles and clients. *)

\* A request leaves the options at rest, and sends what it was asked to with those it did
\* not set itself.
LEMMA RequestOnHandle ==
  ASSUME NEW o, OptionsAtRest(o), NEW request \in Requests, NEW info \in {0, 1}
  PROVE  LET prepared == Prepare(o, request)
             sent     == Sent(prepared)
             restored == Restore(prepared, request, info)
         IN  /\ sent.method = IF request.method = "POST" /\ request.send_post_as_get_request
                              THEN "GET" ELSE request.method
             /\ sent.body = request.body
             /\ sent.nobody = (request.method = "HEAD")
             /\ sent.token = o.token /\ sent.cert = o.cert
             /\ sent.verify = o.verify /\ sent.proxy = o.proxy
             /\ sent.sink = IF request.method = "GET" THEN TRANSFER ELSE o.sink
             /\ OptionsAtRest(restored)
             /\ restored.token = o.token /\ restored.cert = o.cert
  <1>1. request.method \in Methods
    BY CurlAssumption
  <1>2. request.method \notin {"PUT", "POST"} => request.body = None
    BY CurlAssumption
  <1>3. request.body \in {r.body : r \in Requests}
    OBVIOUS
  <1>4. None \notin Methods
    BY CurlAssumption
  <1>5. CASE request.method = "GET"
    BY ZenonT(40), <1>2, <1>3, <1>4, <1>5 DEF Prepare, Restore, Sent, OptionsAtRest, CurlOptions, PrepareGet,
       SetNobody, SetHttpGet, TRANSFER, Methods
  <1>6. CASE request.method = "HEAD"
    BY ZenonT(40), <1>2, <1>3, <1>4, <1>6 DEF Prepare, Restore, Sent, OptionsAtRest, CurlOptions, PrepareHead,
       SetNobody, SetHttpGet, TRANSFER, Methods
  <1>7. CASE request.method = "PUT"
    BY ZenonT(40), <1>2, <1>3, <1>4, <1>7 DEF Prepare, Restore, Sent, OptionsAtRest, CurlOptions, PreparePut,
       SetPostFields, SetCustomRequest, TRANSFER, Methods
  <1>8. CASE request.method \in {"DELETE", "OPTIONS"}
    BY ZenonT(40), <1>2, <1>3, <1>4, <1>8 DEF Prepare, Restore, Sent, OptionsAtRest, CurlOptions,
       PrepareDelete, PrepareOptions, SetCustomRequest, TRANSFER, Methods
  <1>9. CASE request.method = "POST"
    BY ZenonT(40), <1>2, <1>3, <1>4, <1>9 DEF Prepare, Restore, Sent, OptionsAtRest, CurlOptions, PreparePost,
       SetPostFields, SetCustomRequest, SetPost, TRANSFER, Methods
  <1> QED  BY <1>1, <1>5, <1>6, <1>7, <1>8, <1>9 DEF Methods

\* Initialize makes a client at rest, or one that has no handle yet, fit for its parameters.
LEMMA InitializeClientFit ==
  ASSUME NEW c \in CurlClients, AtRest(c) \/ c.curl = None, NEW params \in Params
  PROVE  /\ AtRest(Initialize(c, params))
         /\ Initialize(c, params).base_url = c.base_url
         /\ Configured(Initialize(c, params), params)
  <1> DEFINE h == InitializeHandle(c, params)
             f == [h EXCEPT !.request_info = 1 - @]
  <1>1. AtRest(h) /\ h.base_url = c.base_url
        /\ h.curl.token = params.bearer_token /\ h.curl.cert = params.ca_cert_file
    <2>1. CASE KeepsHandle(c, params)
      BY <2>1 DEF InitializeHandle, KeepsHandle, AtRest
    <2>2. CASE ~KeepsHandle(c, params)
      BY <2>2 DEF InitializeHandle, FreshOptions, AtRest, CurlClients, CurlOptions, OptionsAtRest
    <2> QED  BY <2>1, <2>2
  <1>2. h.request_info \in {0, 1}
    BY <1>1 DEF AtRest, CurlClients
  <1>3. params.verify_ssl \in BOOLEAN
    BY CurlAssumption
  <1>4. params.http_proxy \in {p.http_proxy : p \in Params}
    OBVIOUS
  <1> HIDE DEF h
  <1>5. AtRest(f) /\ f.base_url = h.base_url /\ f.curl = h.curl /\ f.request_info \in {0, 1}
    <2>1. h \in CurlClients
      BY <1>1 DEF AtRest
    <2>2. 1 - h.request_info \in {0, 1}
      BY <1>2
    <2>3. f \in CurlClients /\ f.base_url = h.base_url /\ f.curl = h.curl
          /\ f.stored_bearer_token = h.stored_bearer_token
          /\ f.stored_cert_file_path = h.stored_cert_file_path
          /\ f.request_info = 1 - h.request_info
      BY <2>1, <2>2 DEF CurlClients
    <2> QED  BY <1>1, <2>2, <2>3 DEF AtRest
  <1> HIDE DEF f
  <1>6. Initialize(c, params) =
          [f EXCEPT !.curl.verify = params.verify_ssl, !.curl.sink = f.request_info,
                    !.curl.proxy = params.http_proxy]
    BY DEF Initialize, f, h
  <1> DEFINE o == [f.curl EXCEPT !.verify = params.verify_ssl, !.sink = f.request_info,
                                 !.proxy = params.http_proxy]
             g == [f EXCEPT !.curl = o]
  <1>7. /\ OptionsAtRest(o) /\ o.token = f.curl.token /\ o.cert = f.curl.cert
        /\ o.verify = params.verify_ssl /\ o.proxy = params.http_proxy /\ o.sink = f.request_info
    BY <1>3, <1>4, <1>5 DEF AtRest, OptionsAtRest, CurlOptions
  <1>8. Initialize(c, params) = g
    BY <1>5, <1>6 DEF AtRest, CurlClients
  <1> HIDE DEF o
  <1>9. /\ g \in CurlClients /\ g.base_url = f.base_url /\ g.curl = o
        /\ g.request_info = f.request_info
        /\ g.stored_bearer_token = f.stored_bearer_token
        /\ g.stored_cert_file_path = f.stored_cert_file_path
    BY <1>5, <1>7 DEF AtRest, OptionsAtRest, CurlClients
  <1> HIDE DEF g
  <1> QED  BY <1>1, <1>5, <1>7, <1>8, <1>9 DEF AtRest, Configured

\* A new client is at rest, has its own host and is fit for its parameters.
LEMMA NewClientFit ==
  ASSUME NEW url \in {c.url : c \in Calls}, NEW params \in Params
  PROVE  /\ AtRest(NewClient(url, params))
         /\ NewClient(url, params).base_url = url
         /\ Configured(NewClient(url, params), params)
  <1> DEFINE blank == [base_url |-> url, curl |-> None, stored_bearer_token |-> "",
                       stored_cert_file_path |-> "", request_info |-> 0]
  <1>1. blank \in CurlClients /\ blank.curl = None /\ blank.base_url = url
    BY DEF CurlClients
  <1> HIDE DEF blank
  <1> QED  BY <1>1, InitializeClientFit DEF NewClient, blank

-----------------------------------------------------------------------------
(* Pools and slots. *)

\* A set of naturals has a least element.
LEMMA LeastNumber ==
  ASSUME NEW S \in SUBSET Nat, S # {}
  PROVE  \E n \in S : \A m \in S : n <= m
  <1>1. PICK n \in S : \A m \in S : ~(<<m, n>> \in OpToRel(<, Nat))
    BY NatLessThanWellFounded, WFMin
  <1>2. ASSUME NEW m \in S PROVE n <= m
    <2>1. m \in Nat /\ n \in Nat /\ ~(m < n)
      BY <1>1 DEF OpToRel
    <2> QED  BY <2>1
  <1> QED  BY <1>2

\* Min chooses it.
LEMMA MinMember ==
  ASSUME NEW S \in SUBSET Nat, S # {}
  PROVE  Min(S) \in S
  BY LeastNumber DEF Min

\* A thread looks at a pool there is.
LEMMA FindInPool ==
  ASSUME TypeInv, NEW t \in Threads
  PROVE  FindIn(t) \in Pools
  <1>1. cache_pool_idx[t] \in Nat /\ scanned[t] \in Nat
    BY CurlAssumption DEF TypeInv, Pools
  <1> DEFINE n == cache_pool_idx[t] + scanned[t]
  <1>2. n \in Nat
    BY <1>1
  <1> HIDE DEF n
  <1>3. n % POOL_COUNT \in 0..POOL_COUNT - 1
    BY <1>2, CurlAssumption
  <1> QED  BY <1>3 DEF FindIn, Pools, n

\* The members of a set of slots are slots.
LEMMA LeastSlot ==
  ASSUME NEW S \in SUBSET Slots, S # {}
  PROVE  Min(S) \in S /\ Min(S) \in Slots
  <1>1. S \in SUBSET Nat
    BY CurlAssumption DEF Slots
  <1> QED  BY <1>1, MinMember

\* The changes of pools and clients, each of which leaves every client with one owner:
\* nothing moves,
LEMMA HeldWhereItWas ==
  ASSUME TypeInv, HeldInv, UNCHANGED <<pools, client>>,
         \A c \in Clients : clients'[c] = None <=> clients[c] = None
  PROVE  HeldInv'
  BY DEF HeldInv, SlotInv, OwnerInv, AliveInv, InSlot, WithThread, TypeInv

\* a thread takes a client from a slot,
LEMMA HeldAfterTaking ==
  ASSUME TypeInv, HeldInv, NEW t \in Threads, NEW p \in Pools, NEW s \in Slots,
         pools[p][s] # None, client[t] = None,
         pools' = [pools EXCEPT ![p][s] = None],
         client' = [client EXCEPT ![t] = pools[p][s]],
         \A c \in Clients : clients'[c] = None <=> clients[c] = None
  PROVE  HeldInv'
  <1>1. \A q \in Pools, r \in Slots : pools'[q][r] = IF q = p /\ r = s THEN None ELSE pools[q][r]
    BY DEF TypeInv
  <1>2. \A u \in Threads : client'[u] = IF u = t THEN pools[p][s] ELSE client[u]
    BY DEF TypeInv
  <1>3. pools[p][s] \in Clients
    BY DEF TypeInv
  <1>4. SlotInv'
    BY <1>1, <1>2, <1>3 DEF HeldInv, SlotInv, TypeInv
  <1>5. OwnerInv'
    BY <1>2, <1>3 DEF HeldInv, SlotInv, OwnerInv, TypeInv
  <1>6. ASSUME NEW c \in Clients, clients'[c] # None PROVE InSlot(c)' \/ WithThread(c)'
    <2>1. CASE c = pools[p][s]
      BY <1>2, <2>1 DEF WithThread
    <2>2. CASE c # pools[p][s] /\ InSlot(c)
      <3>1. PICK q \in Pools, r \in Slots : pools[q][r] = c
        BY <2>2 DEF InSlot
      <3>2. pools'[q][r] = c
        BY <1>1, <2>2, <3>1
      <3> QED  BY <3>2 DEF InSlot
    <2>3. CASE WithThread(c)
      <3>1. PICK u \in Threads : client[u] = c
        BY <2>3 DEF WithThread
      <3>2. None \notin Clients
        BY CurlAssumption DEF Clients
      <3>3. client'[u] = c
        BY <1>2, <3>1, <3>2
      <3> QED  BY <3>3 DEF WithThread
    <2> QED  BY <1>6, <2>1, <2>2, <2>3 DEF HeldInv, AliveInv
  <1> QED  BY <1>4, <1>5, <1>6 DEF HeldInv, AliveInv

\* a thread makes one,
LEMMA HeldAfterMaking ==
  ASSUME TypeInv, HeldInv, NEW t \in Threads, NEW new \in Clients, NEW made, made # None,
         clients[new] = None, client[t] = None, UNCHANGED pools,
         client' = [client EXCEPT ![t] = new],
         clients' = [clients EXCEPT ![new] = made]
  PROVE  HeldInv'
  <1>1. \A u \in Threads : client'[u] = IF u = t THEN new ELSE client[u]
    BY DEF TypeInv
  <1>2. \A c \in Clients : clients'[c] = IF c = new THEN made ELSE clients[c]
    BY DEF TypeInv
  <1>3. new # None
    BY CurlAssumption DEF Clients
  <1>4. \A q \in Pools, r \in Slots : pools[q][r] # new
    BY <1>3 DEF HeldInv, SlotInv
  <1>5. \A u \in Threads : client[u] # new
    BY <1>3 DEF HeldInv, OwnerInv
  <1>6. SlotInv'
    BY <1>1, <1>2, <1>4 DEF HeldInv, SlotInv, TypeInv
  <1>7. OwnerInv'
    BY <1>1, <1>2, <1>5 DEF HeldInv, OwnerInv, TypeInv
  <1>8. ASSUME NEW c \in Clients, clients'[c] # None PROVE InSlot(c)' \/ WithThread(c)'
    <2>1. CASE c = new
      BY <1>1, <2>1 DEF WithThread
    <2>2. CASE InSlot(c)
      BY <2>2 DEF InSlot
    <2>3. CASE WithThread(c)
      <3>1. PICK u \in Threads : client[u] = c
        BY <2>3 DEF WithThread
      <3>2. None \notin Clients
        BY CurlAssumption DEF Clients
      <3>3. client'[u] = c
        BY <1>1, <3>1, <3>2
      <3> QED  BY <3>3 DEF WithThread
    <2> QED  BY <1>2, <1>8, <2>1, <2>2, <2>3 DEF HeldInv, AliveInv
  <1> QED  BY <1>6, <1>7, <1>8 DEF HeldInv, AliveInv

\* a thread destroys the one it has,
LEMMA HeldAfterDestroying ==
  ASSUME TypeInv, HeldInv, NEW t \in Threads, client[t] # None, UNCHANGED pools, Destroyed(t)
  PROVE  HeldInv'
  <1>1. \A u \in Threads : client'[u] = IF u = t THEN None ELSE client[u]
    BY DEF TypeInv, Destroyed
  <1>2. \A c \in Clients : clients'[c] = IF c = client[t] THEN None ELSE clients[c]
    BY DEF TypeInv, Destroyed
  <1>3. SlotInv'
    BY <1>1, <1>2 DEF HeldInv, SlotInv, TypeInv
  <1>4. OwnerInv'
    BY <1>1, <1>2 DEF HeldInv, OwnerInv, TypeInv
  <1>5. ASSUME NEW c \in Clients, clients'[c] # None PROVE InSlot(c)' \/ WithThread(c)'
    <2>1. c # client[t] /\ clients[c] # None
      BY <1>2, <1>5
    <2>2. CASE InSlot(c)
      BY <2>2 DEF InSlot
    <2>3. CASE WithThread(c)
      <3>1. PICK u \in Threads : client[u] = c
        BY <2>3 DEF WithThread
      <3>2. client'[u] = c
        BY <1>1, <2>1, <3>1
      <3> QED  BY <3>2 DEF WithThread
    <2> QED  BY <2>1, <2>2, <2>3 DEF HeldInv, AliveInv
  <1> QED  BY <1>3, <1>4, <1>5 DEF HeldInv, AliveInv

\* a thread parks it in a slot and destroys what was there,
LEMMA HeldAfterParking ==
  ASSUME TypeInv, HeldInv, NEW t \in Threads, NEW p \in Pools, NEW s \in Slots,
         client[t] # None,
         pools' = [pools EXCEPT ![p][s] = client[t]],
         client' = [client EXCEPT ![t] = None],
         clients' = IF pools[p][s] = None THEN clients
                    ELSE [clients EXCEPT ![pools[p][s]] = None]
  PROVE  HeldInv'
  <1>1. \A q \in Pools, r \in Slots : pools'[q][r] = IF q = p /\ r = s THEN client[t] ELSE pools[q][r]
    BY DEF TypeInv
  <1>2. \A u \in Threads : client'[u] = IF u = t THEN None ELSE client[u]
    BY DEF TypeInv
  <1>3. None \notin Clients
    BY CurlAssumption DEF Clients
  <1>4. \A c \in Clients : clients'[c] = IF c = pools[p][s] THEN None ELSE clients[c]
    BY <1>3 DEF TypeInv
  <1>5. client[t] \in Clients /\ clients[client[t]] # None
    BY DEF TypeInv, HeldInv, OwnerInv
  <1>6. \A q \in Pools, r \in Slots : pools[q][r] # client[t]
    BY <1>5 DEF HeldInv, SlotInv
  <1>7. SlotInv'
    <2>1. SUFFICES ASSUME NEW q \in Pools, NEW r \in Slots, pools'[q][r] # None
                   PROVE  /\ clients'[pools'[q][r]] # None
                          /\ \A x \in Pools, y \in Slots :
                                 pools'[x][y] = pools'[q][r] => x = q /\ y = r
                          /\ \A u \in Threads : client'[u] # pools'[q][r]
      BY DEF SlotInv
    <2>2. CASE q = p /\ r = s
      BY <1>1, <1>2, <1>3, <1>4, <1>5, <1>6, <2>2 DEF HeldInv, OwnerInv
    <2>3. CASE ~(q = p /\ r = s)
      <3>1. pools'[q][r] = pools[q][r] /\ pools[q][r] \in Clients
        BY <1>1, <2>1, <2>3 DEF TypeInv
      <3>2. pools[q][r] # pools[p][s]
        BY <2>1, <2>3, <3>1 DEF HeldInv, SlotInv
      <3>3. clients'[pools[q][r]] # None
        BY <1>4, <2>1, <3>1, <3>2 DEF HeldInv, SlotInv
      <3> QED  BY <1>1, <1>2, <1>6, <2>1, <3>1, <3>3 DEF HeldInv, SlotInv
    <2> QED  BY <2>2, <2>3
  <1>8. OwnerInv'
    <2>1. SUFFICES ASSUME NEW u \in Threads, client'[u] # None
                   PROVE  /\ clients'[client'[u]] # None
                          /\ \A x \in Threads : client'[x] = client'[u] => x = u
      BY DEF OwnerInv
    <2>2. client'[u] = client[u] /\ client[u] \in Clients
      BY <1>2, <2>1 DEF TypeInv
    <2>3. client[u] # pools[p][s]
      BY <1>3, <2>2 DEF HeldInv, SlotInv
    <2> QED  BY <1>2, <1>4, <2>1, <2>2, <2>3 DEF HeldInv, OwnerInv
  <1>9. ASSUME NEW c \in Clients, clients'[c] # None PROVE InSlot(c)' \/ WithThread(c)'
    <2>1. c # pools[p][s] /\ clients[c] # None
      BY <1>4, <1>9
    <2>2. CASE InSlot(c)
      <3>1. PICK q \in Pools, r \in Slots : pools[q][r] = c
        BY <2>2 DEF InSlot
      <3>2. pools'[q][r] = c
        BY <1>1, <2>1, <3>1
      <3> QED  BY <3>2 DEF InSlot
    <2>3. CASE WithThread(c)
      <3>1. PICK u \in Threads : client[u] = c
        BY <2>3 DEF WithThread
      <3>2. CASE u = t
        BY <1>1, <3>1, <3>2 DEF InSlot
      <3>3. CASE u # t
        BY <1>2, <3>1, <3>3 DEF WithThread
      <3> QED  BY <3>2, <3>3
    <2> QED  BY <2>1, <2>2, <2>3 DEF HeldInv, AliveInv
  <1> QED  BY <1>7, <1>8, <1>9 DEF HeldInv, AliveInv

\* and a pool is emptied.
LEMMA HeldAfterClearing ==
  ASSUME TypeInv, HeldInv, NEW p \in Pools, UNCHANGED client,
         clients' = [c \in Clients |-> IF c \in Range(pools[p]) THEN None ELSE clients[c]],
         pools' = [pools EXCEPT ![p] = [s \in Slots |-> None]]
  PROVE  HeldInv'
  <1>1. \A q \in Pools, r \in Slots : pools'[q][r] = IF q = p THEN None ELSE pools[q][r]
    BY DEF TypeInv
  <1>2. \A c \in Clients : c \in Range(pools[p]) <=> \E s \in Slots : pools[p][s] = c
    BY DEF TypeInv, Range
  <1>3. \A c \in Clients : clients'[c] = IF \E s \in Slots : pools[p][s] = c THEN None ELSE clients[c]
    BY <1>2
  <1>4. \A q \in Pools, r \in Slots : pools[q][r] \in Clients \cup {None}
    BY DEF TypeInv
  <1>5. \A t \in Threads : client[t] \in Clients \cup {None}
    BY DEF TypeInv
  <1> QED  BY ONLY <1>1, <1>3, <1>4, <1>5, HeldInv, client' = client, p \in Pools
                DEF HeldInv, SlotInv, OwnerInv, AliveInv, InSlot, WithThread

-----------------------------------------------------------------------------
(* The actions. *)

\* A thread's step leaves the others what they had.
OthersKeep(t) ==
    \A u \in Threads \ {t} :
        /\ pc'[u] = pc[u] /\ scanned'[u] = scanned[u] /\ call'[u] = call[u]
        /\ client'[u] = client[u] /\ wire'[u] = wire[u]
        /\ client[u] # None => clients'[client[u]] = clients[client[u]]

\* So only its own part of the invariant has to be looked at.
LEMMA OneThreadMoves ==
  ASSUME \A u \in Threads : ThreadInv(u), NEW t \in Threads, OthersKeep(t), ThreadInv(t)'
  PROVE  (\A u \in Threads : ThreadInv(u))'
  <1>1. ASSUME NEW u \in Threads, u # t PROVE ThreadInv(u)'
    <2>1. ThreadInv(u)
      OBVIOUS
    <2>2. /\ pc'[u] = pc[u] /\ scanned'[u] = scanned[u] /\ call'[u] = call[u]
          /\ client'[u] = client[u] /\ wire'[u] = wire[u]
          /\ client[u] # None => clients'[client[u]] = clients[client[u]]
      BY <1>1 DEF OthersKeep
    <2> QED  BY ONLY <2>1, <2>2 DEF ThreadInv
  <1> QED  BY <1>1

\* Clients that are not made and not configured stay at rest.
LEMMA RestKept ==
  ASSUME RestInv,
         \A c \in Clients : clients'[c] \in {None, clients[c]} \/ AtRest(clients'[c])
  PROVE  RestInv'
  BY DEF RestInv

\* A live client is no None.
LEMMA RestIsAlive ==
  ASSUME NEW c, AtRest(c)
  PROVE  c # None /\ c \in CurlClients
  BY CurlAssumption DEF AtRest

\* A label and the count of pools searched.
LEMMA GotoTypes ==
  ASSUME TypeInv, NEW t \in Threads, NEW label \in Labels, Goto(t, label)
  PROVE  /\ pc' \in [Threads -> Labels] /\ scanned' \in [Threads -> Nat]
         /\ pc'[t] = label /\ scanned'[t] = 0
         /\ \A u \in Threads \ {t} : pc'[u] = pc[u] /\ scanned'[u] = scanned[u]
  BY DEF TypeInv, Goto

\* A caller asks for something.
LEMMA SendRequestPreserves ==
  ASSUME Inv, NEW t \in Threads, SendRequest(t)
  PROVE  Inv'
  <1>1. PICK c \in Calls :
          LET caching == ~c.caller_owns_client /\ EnableCaching(c)
          IN  /\ pc[t] = "Idle"
              /\ call' = [call EXCEPT ![t] =
                     [request |-> c.request, url |-> c.url, params |-> c.params,
                      caller_owns_client |-> c.caller_owns_client, stores |-> caching]]
              /\ Goto(t, IF caching THEN "CachingSendRequest" ELSE "InitializeClient")
              /\ UNCHANGED <<cacheVars, clients, client, wire>>
    BY DEF SendRequest
  <1> DEFINE label == IF ~c.caller_owns_client /\ EnableCaching(c) THEN "CachingSendRequest"
                      ELSE "InitializeClient"
  <1>2. label \in {"CachingSendRequest", "InitializeClient"} /\ label \in Labels /\ Goto(t, label)
    BY <1>1 DEF Labels
  <1> HIDE DEF label
  <1>3. UNCHANGED <<pools, cache_pool_idx, clients, client, wire>>
    BY <1>1 DEF cacheVars
  <1>4. /\ pc' \in [Threads -> Labels] /\ scanned' \in [Threads -> Nat]
        /\ pc'[t] = label /\ scanned'[t] = 0
        /\ \A u \in Threads \ {t} : pc'[u] = pc[u] /\ scanned'[u] = scanned[u]
    BY <1>2, GotoTypes DEF Inv
  <1>5. /\ call' = [u \in Threads |-> call'[u]]
        /\ \A u \in Threads \ {t} : call'[u] = call[u]
        /\ call'[t].request = c.request /\ call'[t].params = c.params /\ call'[t].url = c.url
    BY <1>1 DEF Inv, TypeInv
  <1>6. TypeInv'
    BY <1>3, <1>4, <1>5 DEF Inv, TypeInv
  <1>7. HeldInv'
    BY <1>3, HeldWhereItWas DEF Inv
  <1>8. RestInv'
    BY <1>3 DEF Inv, RestInv
  <1>9. ThreadInv(t)'
    <2>1. Asked(call'[t])
      BY <1>5 DEF Asked, Requests, Params
    <2>2. client[t] = None /\ wire[t] = None
      BY <1>1 DEF Inv, ThreadInv
    <2> QED  BY <1>2, <1>3, <1>4, <2>1, <2>2 DEF ThreadInv
  <1>10. OthersKeep(t)
    BY <1>3, <1>4, <1>5 DEF OthersKeep
  <1> QED  BY <1>6, <1>7, <1>8, <1>9, <1>10, OneThreadMoves DEF Inv

\* A client that fits is taken and configured.
LEMMA FindHitPreserves ==
  ASSUME Inv, NEW t \in Threads, pc[t] \in {"CachingSendRequest", "InitializeClient"},
         FindHit(t), UNCHANGED <<call, wire>>
  PROVE  Inv'
  <1> DEFINE p     == FindIn(t)
             slots == Fitting(p, call[t].url)
             s     == Min(slots)
             found == pools[p][s]
             made  == Initialize(clients[found], call[t].params)
  <1>1. p \in Pools
    BY FindInPool DEF Inv
  <1>2. slots \in SUBSET Slots /\ slots # {}
    BY DEF FindHit, Fitting
  <1> HIDE DEF slots
  <1>3. s \in slots /\ s \in Slots
    BY SMTT(40), <1>2, LeastSlot
  <1>4. found # None /\ clients[found].base_url = call[t].url
    BY ZenonT(40), <1>3 DEF slots, Fitting
  <1>5. found \in Clients /\ clients[found] # None
    BY <1>1, <1>3, <1>4 DEF Inv, TypeInv, HeldInv, SlotInv
  <1>6. /\ pools' = [pools EXCEPT ![p][s] = None]
        /\ cache_pool_idx' = [cache_pool_idx EXCEPT ![t] = p]
        /\ client' = [client EXCEPT ![t] = found]
        /\ clients' = [clients EXCEPT ![found] = made]
        /\ Goto(t, "Perform")
    BY DEF FindHit, EntryMoved, slots
  <1>7. AtRest(clients[found])
    BY <1>5 DEF Inv, RestInv
  <1>8. ThreadInv(t) /\ client[t] = None /\ Asked(call[t])
    BY DEF Inv, ThreadInv
  <1>9. AtRest(made) /\ made.base_url = call[t].url /\ Configured(made, call[t].params)
    <2>1. clients[found] \in CurlClients /\ call[t].params \in Params
      BY <1>7, <1>8 DEF AtRest, Asked
    <2> QED  BY <1>4, <1>7, <2>1, InitializeClientFit
  <1>10. made # None /\ made \in CurlClients
    BY <1>9, RestIsAlive
  <1> HIDE DEF p, s, made
  <1>11. /\ pc' \in [Threads -> Labels] /\ scanned' \in [Threads -> Nat]
         /\ pc'[t] = "Perform" /\ scanned'[t] = 0
         /\ \A u \in Threads \ {t} : pc'[u] = pc[u] /\ scanned'[u] = scanned[u]
    BY <1>6, GotoTypes DEF Inv, Labels
  <1>12. /\ \A c \in Clients : clients'[c] = IF c = found THEN made ELSE clients[c]
         /\ clients' \in [Clients -> CurlClients \cup {None}]
    BY <1>5, <1>6, <1>10 DEF Inv, TypeInv
  <1>13. /\ \A u \in Threads \ {t} : client'[u] = client[u]
         /\ client'[t] = found
         /\ client' \in [Threads -> Clients \cup {None}]
    BY <1>5, <1>6 DEF Inv, TypeInv
  <1>14. TypeInv'
    <2>1. pools' \in [Pools -> [Slots -> Clients \cup {None}]]
      BY <1>1, <1>3, <1>6 DEF Inv, TypeInv
    <2>2. cache_pool_idx' \in [Threads -> Pools]
      BY <1>1, <1>6 DEF Inv, TypeInv
    <2> QED  BY <1>11, <1>12, <1>13, <2>1, <2>2 DEF Inv, TypeInv
  <1>15. HeldInv'
    <2>1. \A c \in Clients : clients'[c] = None <=> clients[c] = None
      BY <1>5, <1>10, <1>12
    <2> QED  BY <1>1, <1>3, <1>4, <1>6, <1>8, <2>1, HeldAfterTaking DEF Inv
  <1>16. RestInv'
    BY <1>9, <1>12, RestKept DEF Inv
  <1>17. ThreadInv(t)'
    <2>1. clients'[client'[t]] = made /\ client'[t] # None
      BY <1>4, <1>5, <1>12, <1>13
    <2>2. wire[t] = None
      BY <1>8 DEF ThreadInv
    <2> QED  BY <1>8, <1>9, <1>11, <2>1, <2>2 DEF ThreadInv
  <1>18. OthersKeep(t)
    <2>1. \A u \in Threads : client[u] # found
      BY <1>1, <1>3, <1>4 DEF Inv, HeldInv, SlotInv
    <2> QED  BY <1>11, <1>12, <1>13, <2>1 DEF OthersKeep, Inv, TypeInv
  <1> QED  BY <1>14, <1>15, <1>16, <1>17, <1>18, OneThreadMoves DEF Inv

\* Nothing changes but labels and counts, of a thread that has no client before or after.
LEMMA SearchPreserves ==
  ASSUME Inv, NEW t \in Threads,
         pc[t] \in {"CachingSendRequest", "InitializeClient"},
         UNCHANGED <<pools, cache_pool_idx, client, clients, call, wire>>,
         pc' \in [Threads -> Labels], scanned' \in [Threads -> Nat],
         pc'[t] \in {"CachingSendRequest", "InitializeClient", "NewClient"},
         \A u \in Threads \ {t} : pc'[u] = pc[u] /\ scanned'[u] = scanned[u]
  PROVE  Inv'
  <1>1. TypeInv'
    BY DEF Inv, TypeInv
  <1>2. HeldInv'
    BY HeldWhereItWas DEF Inv
  <1>3. RestInv'
    BY DEF Inv, RestInv
  <1>4. ThreadInv(t)'
    <2>1. ThreadInv(t)
      BY DEF Inv
    <2> QED  BY <2>1 DEF ThreadInv
  <1>5. OthersKeep(t)
    BY DEF OthersKeep
  <1> QED  BY <1>1, <1>2, <1>3, <1>4, <1>5, OneThreadMoves DEF Inv

\* A search of the pools.
LEMMA FindPreserves ==
  ASSUME Inv, NEW t \in Threads, pc[t] \in {"CachingSendRequest", "InitializeClient"},
         NEW after \in {"InitializeClient", "NewClient"},
         Find(t, after), UNCHANGED <<call, wire>>
  PROVE  Inv'
  <1>1. CASE FindHit(t)
    BY <1>1, FindHitPreserves
  <1>2. CASE FindOn(t, after)
    <2>1. UNCHANGED <<pools, cache_pool_idx, client, clients, call, wire>>
      BY <1>2 DEF FindOn, cacheVars
    <2>2. CASE Goto(t, after)
      <3>1. after \in Labels
        BY DEF Labels
      <3> QED  BY <2>1, <2>2, <3>1, GotoTypes, SearchPreserves DEF Inv
    <2>3. CASE scanned' = [scanned EXCEPT ![t] = @ + 1] /\ UNCHANGED pc
      <3>1. /\ scanned' \in [Threads -> Nat] /\ pc' \in [Threads -> Labels]
            /\ \A u \in Threads \ {t} : pc'[u] = pc[u] /\ scanned'[u] = scanned[u]
        BY <2>3 DEF Inv, TypeInv
      <3> QED  BY <2>1, <2>3, <3>1, SearchPreserves
    <2> QED  BY <1>2, <2>2, <2>3 DEF FindOn
  <1> QED  BY <1>1, <1>2 DEF Find

\* The search of CachingSendRequest.
LEMMA CachingSendRequestPreserves ==
  ASSUME Inv, NEW t \in Threads, CachingSendRequest(t)
  PROVE  Inv'
  BY FindPreserves DEF CachingSendRequest

\* The search of InitializeClient, or none.
LEMMA InitializeClientPreserves ==
  ASSUME Inv, NEW t \in Threads, InitializeClient(t)
  PROVE  Inv'
  <1>1. pc[t] = "InitializeClient" /\ UNCHANGED <<call, wire>>
    BY DEF InitializeClient
  <1>2. CASE Find(t, "NewClient")
    BY <1>1, <1>2, FindPreserves
  <1>3. CASE Goto(t, "NewClient") /\ UNCHANGED <<cacheVars, client, clients>>
    <2>1. UNCHANGED <<pools, cache_pool_idx, client, clients, call, wire>>
      BY <1>1, <1>3 DEF cacheVars
    <2>2. "NewClient" \in Labels
      BY DEF Labels
    <2> QED  BY <1>1, <1>3, <2>1, <2>2, GotoTypes, SearchPreserves DEF Inv
  <1> QED  BY <1>2, <1>3 DEF InitializeClient

\* A new client, for the host and the parameters of the call.
LEMMA MakeClientPreserves ==
  ASSUME Inv, NEW t \in Threads, MakeClient(t)
  PROVE  Inv'
  <1> DEFINE made == NewClient(call[t].url, call[t].params)
  <1>1. PICK new \in Clients :
          /\ clients[new] = None
          /\ clients' = [clients EXCEPT ![new] = made]
          /\ client' = [client EXCEPT ![t] = new]
    BY DEF MakeClient
  <1>2. /\ pc[t] = "NewClient" /\ Goto(t, "Perform")
        /\ UNCHANGED <<pools, cache_pool_idx, call, wire>>
    BY DEF MakeClient, cacheVars
  <1>3. ThreadInv(t) /\ client[t] = None /\ wire[t] = None /\ Asked(call[t])
    BY <1>2 DEF Inv, ThreadInv
  <1>4. AtRest(made) /\ made.base_url = call[t].url /\ Configured(made, call[t].params)
    BY <1>3, NewClientFit DEF Asked
  <1> HIDE DEF made
  <1>5. made # None /\ made \in CurlClients
    BY <1>4, RestIsAlive
  <1>6. /\ pc' \in [Threads -> Labels] /\ scanned' \in [Threads -> Nat]
        /\ pc'[t] = "Perform" /\ scanned'[t] = 0
        /\ \A u \in Threads \ {t} : pc'[u] = pc[u] /\ scanned'[u] = scanned[u]
    BY <1>2, GotoTypes DEF Inv, Labels
  <1>7. /\ \A c \in Clients : clients'[c] = IF c = new THEN made ELSE clients[c]
        /\ clients' \in [Clients -> CurlClients \cup {None}]
    BY <1>1, <1>5 DEF Inv, TypeInv
  <1>8. /\ \A u \in Threads \ {t} : client'[u] = client[u]
        /\ client'[t] = new
        /\ client' \in [Threads -> Clients \cup {None}]
    BY <1>1 DEF Inv, TypeInv
  <1>9. TypeInv'
    BY <1>2, <1>6, <1>7, <1>8 DEF Inv, TypeInv
  <1>10. HeldInv'
    BY <1>1, <1>2, <1>3, <1>5, HeldAfterMaking DEF Inv
  <1>11. RestInv'
    BY <1>4, <1>7, RestKept DEF Inv
  <1>12. ThreadInv(t)'
    <2>1. new # None
      BY CurlAssumption DEF Clients
    <2>2. clients'[client'[t]] = made
      BY <1>7, <1>8
    <2> QED  BY <1>2, <1>3, <1>4, <1>6, <1>8, <2>1, <2>2 DEF ThreadInv
  <1>13. OthersKeep(t)
    <2>1. \A u \in Threads : client[u] # None => client[u] # new /\ client[u] \in Clients
      BY <1>1 DEF Inv, HeldInv, OwnerInv, TypeInv
    <2> QED  BY <1>2, <1>6, <1>7, <1>8, <2>1 DEF OthersKeep
  <1> QED  BY <1>9, <1>10, <1>11, <1>12, <1>13, OneThreadMoves DEF Inv

\* The request is performed as it was asked for, and its options are taken back.
LEMMA PerformPreserves ==
  ASSUME Inv, NEW t \in Threads, Perform(t)
  PROVE  Inv'
  <1> DEFINE c        == clients[client[t]]
             request  == call[t].request
             prepared == Prepare(c.curl, request)
             restored == Restore(prepared, request, c.request_info)
             used     == [c EXCEPT !.curl = restored]
             sent     == [base_url |-> c.base_url, info |-> c.request_info, sent |-> Sent(prepared)]
  <1>1. /\ pc[t] = "Perform" /\ Goto(t, "Performed")
        /\ UNCHANGED <<pools, cache_pool_idx, call, client>>
    BY DEF Perform, cacheVars
  <1>2. wire' = [wire EXCEPT ![t] = sent]
    BY DEF Perform
  <1>3. clients' = [clients EXCEPT ![client[t]].curl = restored]
    BY DEF Perform
  <1>4. /\ ThreadInv(t) /\ client[t] # None /\ Asked(call[t])
        /\ c.base_url = call[t].url /\ Configured(c, call[t].params)
    BY <1>1 DEF Inv, ThreadInv
  <1>5. client[t] \in Clients /\ c # None
    BY <1>4 DEF Inv, TypeInv, HeldInv, OwnerInv
  <1>6. AtRest(c) /\ c \in CurlClients /\ c.request_info \in {0, 1}
    BY <1>5 DEF Inv, RestInv, AtRest, CurlClients
  <1>7. request \in Requests /\ OptionsAtRest(c.curl)
    BY <1>4, <1>6 DEF Asked, AtRest
  <1>8. /\ Sent(prepared).method = IF request.method = "POST" /\ request.send_post_as_get_request
                                   THEN "GET" ELSE request.method
        /\ Sent(prepared).body = request.body
        /\ Sent(prepared).nobody = (request.method = "HEAD")
        /\ Sent(prepared).token = c.curl.token /\ Sent(prepared).cert = c.curl.cert
        /\ Sent(prepared).verify = c.curl.verify /\ Sent(prepared).proxy = c.curl.proxy
        /\ Sent(prepared).sink = IF request.method = "GET" THEN TRANSFER ELSE c.curl.sink
        /\ OptionsAtRest(restored)
        /\ restored.token = c.curl.token /\ restored.cert = c.curl.cert
    BY <1>6, <1>7, RequestOnHandle
  <1>9. AsAsked(sent, call[t])
    BY <1>4, <1>8 DEF AsAsked, Configured
  <1> HIDE DEF restored, sent
  <1>10. AtRest(used)
    BY <1>6, <1>8 DEF AtRest, OptionsAtRest, CurlClients
  <1>11. used # None /\ used \in CurlClients
    BY <1>10, RestIsAlive
  <1>12. clients' = [clients EXCEPT ![client[t]] = used]
    BY <1>3, <1>5 DEF Inv, TypeInv
  <1> HIDE DEF c, used
  <1>13. /\ pc' \in [Threads -> Labels] /\ scanned' \in [Threads -> Nat]
         /\ pc'[t] = "Performed" /\ scanned'[t] = 0
         /\ \A u \in Threads \ {t} : pc'[u] = pc[u] /\ scanned'[u] = scanned[u]
    BY <1>1, GotoTypes DEF Inv, Labels
  <1>14. /\ \A x \in Clients : clients'[x] = IF x = client[t] THEN used ELSE clients[x]
         /\ clients' \in [Clients -> CurlClients \cup {None}]
    BY <1>5, <1>11, <1>12 DEF Inv, TypeInv
  <1>15. /\ wire' = [u \in Threads |-> wire'[u]]
         /\ \A u \in Threads \ {t} : wire'[u] = wire[u]
         /\ wire'[t] = sent
    BY <1>2 DEF Inv, TypeInv
  <1>16. TypeInv'
    BY <1>1, <1>13, <1>14, <1>15 DEF Inv, TypeInv
  <1>17. HeldInv'
    <2>1. \A x \in Clients : clients'[x] = None <=> clients[x] = None
      BY <1>5, <1>11, <1>14 DEF c
    <2> QED  BY <1>1, <2>1, HeldWhereItWas DEF Inv
  <1>18. RestInv'
    BY <1>10, <1>14, RestKept DEF Inv
  <1>19. ThreadInv(t)'
    BY <1>1, <1>4, <1>9, <1>13, <1>15 DEF ThreadInv
  <1>20. OthersKeep(t)
    <2>1. \A u \in Threads \ {t} : client[u] # None => client[u] # client[t] /\ client[u] \in Clients
      BY <1>4 DEF Inv, HeldInv, OwnerInv, TypeInv
    <2> QED  BY <1>1, <1>13, <1>14, <1>15, <2>1 DEF OthersKeep
  <1> QED  BY <1>16, <1>17, <1>18, <1>19, <1>20, OneThreadMoves DEF Inv

\* A thread destroys its client and goes on without one.
LEMMA DestroyPreserves ==
  ASSUME Inv, NEW t \in Threads, pc[t] = "Performed",
         NEW label \in {"InitializeClient", "Idle", "ClearCachedConnections"},
         Destroyed(t), Goto(t, label), UNCHANGED <<pools, cache_pool_idx>>,
         wire' = [wire EXCEPT ![t] = None],
         call' = call \/ (label = "Idle" /\ call' = [call EXCEPT ![t] = None])
  PROVE  Inv'
  <1>1. ThreadInv(t) /\ client[t] # None /\ Asked(call[t])
    BY DEF Inv, ThreadInv
  <1>2. client[t] \in Clients
    BY <1>1 DEF Inv, TypeInv
  <1>3. /\ pc' \in [Threads -> Labels] /\ scanned' \in [Threads -> Nat]
        /\ pc'[t] = label /\ scanned'[t] = 0
        /\ \A u \in Threads \ {t} : pc'[u] = pc[u] /\ scanned'[u] = scanned[u]
    <2>1. label \in Labels
      BY DEF Labels
    <2> QED  BY <2>1, GotoTypes DEF Inv
  <1>4. /\ \A x \in Clients : clients'[x] = IF x = client[t] THEN None ELSE clients[x]
        /\ clients' \in [Clients -> CurlClients \cup {None}]
    BY <1>2 DEF Inv, TypeInv, Destroyed
  <1>5. /\ \A u \in Threads \ {t} : client'[u] = client[u]
        /\ client'[t] = None
        /\ client' \in [Threads -> Clients \cup {None}]
    BY DEF Inv, TypeInv, Destroyed
  <1>6. /\ wire' = [u \in Threads |-> wire'[u]]
        /\ \A u \in Threads \ {t} : wire'[u] = wire[u]
        /\ wire'[t] = None
    BY DEF Inv, TypeInv
  <1>7. /\ call' = [u \in Threads |-> call'[u]]
        /\ \A u \in Threads \ {t} : call'[u] = call[u]
        /\ label # "Idle" => call'[t] = call[t]
    BY DEF Inv, TypeInv
  <1>8. TypeInv'
    BY <1>3, <1>4, <1>5, <1>6, <1>7 DEF Inv, TypeInv
  <1>9. HeldInv'
    BY <1>1, HeldAfterDestroying DEF Inv
  <1>10. RestInv'
    BY <1>4, RestKept DEF Inv
  <1>11. ThreadInv(t)'
    <2>1. 0 < POOL_COUNT
      BY CurlAssumption
    <2> QED  BY <1>1, <1>3, <1>5, <1>6, <1>7, <2>1 DEF ThreadInv
  <1>12. OthersKeep(t)
    <2>1. \A u \in Threads \ {t} : client[u] # None => client[u] # client[t] /\ client[u] \in Clients
      BY <1>1 DEF Inv, HeldInv, OwnerInv, TypeInv
    <2> QED  BY <1>3, <1>4, <1>5, <1>6, <1>7, <2>1 DEF OthersKeep
  <1> QED  BY <1>8, <1>9, <1>10, <1>11, <1>12, OneThreadMoves DEF Inv

\* A thread goes on to park its client, which it may clean up before.
LEMMA KeepPreserves ==
  ASSUME Inv, NEW t \in Threads, pc[t] = "Performed", Goto(t, "Store"),
         UNCHANGED <<pools, cache_pool_idx, call, client>>,
         wire' = [wire EXCEPT ![t] = None],
         clients' = clients \/ clients' = [clients EXCEPT ![client[t]] = Cleanup(@)]
  PROVE  Inv'
  <1>1. ThreadInv(t) /\ client[t] # None /\ Asked(call[t])
    BY DEF Inv, ThreadInv
  <1>2. client[t] \in Clients /\ clients[client[t]] # None
    BY <1>1 DEF Inv, TypeInv, HeldInv, OwnerInv
  <1>3. AtRest(Cleanup(clients[client[t]]))
    <2> DEFINE c == clients[client[t]]
               d == Cleanup(c)
    <2>1. AtRest(c) /\ c \in CurlClients /\ c.request_info \in {0, 1}
      BY <1>2 DEF Inv, RestInv, AtRest, CurlClients
    <2> HIDE DEF c
    <2>2. 1 - c.request_info \in {0, 1}
      BY <2>1
    <2>3. /\ d \in CurlClients /\ d.curl = c.curl
          /\ d.stored_bearer_token = c.stored_bearer_token
          /\ d.stored_cert_file_path = c.stored_cert_file_path
      BY <2>1, <2>2 DEF Cleanup, CurlClients
    <2> HIDE DEF d
    <2>4. AtRest(d)
      BY <2>1, <2>3 DEF AtRest
    <2> QED  BY <2>4 DEF c, d
  <1> DEFINE cleaned == Cleanup(clients[client[t]])
  <1>4. cleaned # None /\ cleaned \in CurlClients
    BY <1>3, RestIsAlive
  <1>5. /\ clients' \in [Clients -> CurlClients \cup {None}]
        /\ \A x \in Clients : x # client[t] => clients'[x] = clients[x]
        /\ clients'[client[t]] \in {clients[client[t]], cleaned}
    BY <1>2, <1>4 DEF Inv, TypeInv
  <1> HIDE DEF cleaned
  <1>6. /\ pc' \in [Threads -> Labels] /\ scanned' \in [Threads -> Nat]
        /\ pc'[t] = "Store" /\ scanned'[t] = 0
        /\ \A u \in Threads \ {t} : pc'[u] = pc[u] /\ scanned'[u] = scanned[u]
    BY GotoTypes DEF Inv, Labels
  <1>7. /\ wire' = [u \in Threads |-> wire'[u]]
        /\ \A u \in Threads \ {t} : wire'[u] = wire[u]
        /\ wire'[t] = None
    BY DEF Inv, TypeInv
  <1>8. TypeInv'
    BY <1>5, <1>6, <1>7 DEF Inv, TypeInv
  <1>9. HeldInv'
    <2>1. \A x \in Clients : clients'[x] = None <=> clients[x] = None
      BY <1>2, <1>4, <1>5
    <2> QED  BY <2>1, HeldWhereItWas DEF Inv
  <1>10. RestInv'
    <2>1. \A x \in Clients : clients'[x] \in {None, clients[x]} \/ AtRest(clients'[x])
      BY <1>3, <1>5 DEF cleaned
    <2> QED  BY <2>1, RestKept DEF Inv
  <1>11. ThreadInv(t)'
    BY <1>1, <1>6, <1>7 DEF ThreadInv
  <1>12. OthersKeep(t)
    <2>1. \A u \in Threads \ {t} : client[u] # None => client[u] # client[t] /\ client[u] \in Clients
      BY <1>1 DEF Inv, HeldInv, OwnerInv, TypeInv
    <2> QED  BY <1>5, <1>6, <1>7, <2>1 DEF OthersKeep
  <1> QED  BY <1>8, <1>9, <1>10, <1>11, <1>12, OneThreadMoves DEF Inv

\* An attempt is repeated with another client.
LEMMA RetryPreserves ==
  ASSUME Inv, NEW t \in Threads, Retry(t)
  PROVE  Inv'
  BY DestroyPreserves DEF Retry, cacheVars

\* A timeout.
LEMMA ReturnTimedOutPreserves ==
  ASSUME Inv, NEW t \in Threads, ReturnTimedOut(t)
  PROVE  Inv'
  BY DestroyPreserves DEF ReturnTimedOut, cacheVars

\* The request has its answer.
LEMMA ReturnPreserves ==
  ASSUME Inv, NEW t \in Threads, Return(t)
  PROVE  Inv'
  <1>1. pc[t] = "Performed" /\ wire' = [wire EXCEPT ![t] = None] /\ UNCHANGED <<pools, cache_pool_idx>>
    BY DEF Return, cacheVars
  <1>2. CASE /\ clients' = [clients EXCEPT ![client[t]] = Cleanup(@)]
             /\ Goto(t, "Store")
             /\ UNCHANGED <<call, client>>
    BY <1>1, <1>2, KeepPreserves
  <1>3. CASE Goto(t, "Store") /\ UNCHANGED <<call, client, clients>>
    BY <1>1, <1>3, KeepPreserves
  <1>4. CASE Destroyed(t) /\ call' = [call EXCEPT ![t] = None] /\ Goto(t, "Idle")
    BY <1>1, <1>4, DestroyPreserves
  <1> QED  BY <1>2, <1>3, <1>4 DEF Return

\* A client is parked in a slot, from which another may be evicted.
LEMMA ParkPreserves ==
  ASSUME Inv, NEW t \in Threads, NEW p \in Pools, NEW s \in Slots, pc[t] = "Store",
         Parked(t, p, s), UNCHANGED wire,
         cache_pool_idx' = cache_pool_idx \/ cache_pool_idx' = [cache_pool_idx EXCEPT ![t] = p],
         clients' = IF pools[p][s] = None THEN clients
                    ELSE [clients EXCEPT ![pools[p][s]] = None]
  PROVE  Inv'
  <1>1. ThreadInv(t) /\ client[t] # None /\ wire[t] = None
    BY DEF Inv, ThreadInv
  <1>2. client[t] \in Clients
    BY <1>1 DEF Inv, TypeInv
  <1>3. /\ pools' = [pools EXCEPT ![p][s] = client[t]]
        /\ client' = [client EXCEPT ![t] = None]
        /\ call' = [call EXCEPT ![t] = None]
        /\ Goto(t, "Idle")
    BY DEF Parked
  <1>4. /\ pc' \in [Threads -> Labels] /\ scanned' \in [Threads -> Nat]
        /\ pc'[t] = "Idle" /\ scanned'[t] = 0
        /\ \A u \in Threads \ {t} : pc'[u] = pc[u] /\ scanned'[u] = scanned[u]
    BY <1>3, GotoTypes DEF Inv, Labels
  <1>5. /\ \A x \in Clients : clients'[x] \in {None, clients[x]}
        /\ \A x \in Clients : x # pools[p][s] => clients'[x] = clients[x]
        /\ clients' \in [Clients -> CurlClients \cup {None}]
    BY DEF Inv, TypeInv
  <1>6. /\ \A u \in Threads \ {t} : client'[u] = client[u] /\ call'[u] = call[u]
        /\ client'[t] = None
        /\ client' \in [Threads -> Clients \cup {None}]
        /\ call' = [u \in Threads |-> call'[u]]
    BY <1>3 DEF Inv, TypeInv
  <1>7. TypeInv'
    <2>1. pools' \in [Pools -> [Slots -> Clients \cup {None}]]
      BY <1>2, <1>3 DEF Inv, TypeInv
    <2>2. cache_pool_idx' \in [Threads -> Pools]
      BY DEF Inv, TypeInv
    <2>3. wire' = [u \in Threads |-> wire'[u]]
      BY DEF Inv, TypeInv
    <2> QED  BY <1>4, <1>5, <1>6, <2>1, <2>2, <2>3 DEF TypeInv
  <1>8. HeldInv'
    BY <1>1, <1>3, HeldAfterParking DEF Inv
  <1>9. RestInv'
    BY <1>5, RestKept DEF Inv
  <1>10. ThreadInv(t)'
    BY <1>1, <1>4, <1>6 DEF ThreadInv
  <1>11. OthersKeep(t)
    <2>1. \A u \in Threads : client[u] # None => client[u] # pools[p][s] /\ client[u] \in Clients
      BY DEF Inv, HeldInv, SlotInv, TypeInv
    <2> QED  BY <1>4, <1>5, <1>6, <2>1 DEF OthersKeep
  <1> QED  BY <1>7, <1>8, <1>9, <1>10, <1>11, OneThreadMoves DEF Inv

\* Pass 1 of Store.
LEMMA StorePreserves ==
  ASSUME Inv, NEW t \in Threads, Store(t)
  PROVE  Inv'
  <1> DEFINE p == FindIn(t)
             s == Min(FreeSlots(p))
  <1>1. p \in Pools
    BY FindInPool DEF Inv
  <1>2. pc[t] = "Store" /\ UNCHANGED <<clients, wire>>
    BY DEF Store
  <1>3. CASE /\ FreeSlots(p) # {}
             /\ Parked(t, p, s)
             /\ cache_pool_idx' = [cache_pool_idx EXCEPT ![t] = p]
    <2>1. FreeSlots(p) \in SUBSET Slots
      BY DEF FreeSlots
    <2>2. s \in FreeSlots(p) /\ s \in Slots
      BY <1>3, <2>1, LeastSlot
    <2>3. pools[p][s] = None
      BY <2>2 DEF FreeSlots
    <2> HIDE DEF p, s
    <2> QED  BY <1>1, <1>2, <1>3, <2>2, <2>3, ParkPreserves
  <1>4. CASE /\ scanned' = [scanned EXCEPT ![t] = @ + 1]
             /\ UNCHANGED <<cacheVars, client, call, pc>>
    <2>1. /\ scanned' \in [Threads -> Nat]
          /\ \A u \in Threads \ {t} : scanned'[u] = scanned[u]
          /\ UNCHANGED <<pools, cache_pool_idx, client, call, pc, clients, wire>>
      BY <1>2, <1>4 DEF Inv, TypeInv, cacheVars
    <2>2. TypeInv'
      BY <2>1 DEF Inv, TypeInv
    <2>3. HeldInv'
      BY <2>1, HeldWhereItWas DEF Inv
    <2>4. RestInv'
      BY <2>1 DEF Inv, RestInv
    <2>5. ThreadInv(t)'
      BY <1>2, <2>1 DEF Inv, ThreadInv
    <2>6. OthersKeep(t)
      BY <2>1 DEF OthersKeep
    <2> QED  BY <2>2, <2>3, <2>4, <2>5, <2>6, OneThreadMoves DEF Inv
  <1> QED  BY <1>3, <1>4 DEF Store

\* Pass 2 of Store.
LEMMA EvictPreserves ==
  ASSUME Inv, NEW t \in Threads, Evict(t)
  PROVE  Inv'
  <1> DEFINE p == cache_pool_idx[t]
  <1>1. p \in Pools
    BY DEF Inv, TypeInv
  <1>2. PICK s \in Slots :
          /\ Parked(t, p, s)
          /\ clients' = IF pools[p][s] = None THEN clients
                        ELSE [clients EXCEPT ![pools[p][s]] = None]
    BY DEF Evict
  <1>3. pc[t] = "Store" /\ UNCHANGED <<wire, cache_pool_idx>>
    BY DEF Evict
  <1> HIDE DEF p
  <1> QED  BY <1>1, <1>2, <1>3, ParkPreserves

\* A pool is emptied.
LEMMA ClearPreserves ==
  ASSUME Inv, NEW t \in Threads, ClearCachedConnections(t)
  PROVE  Inv'
  <1> DEFINE p == scanned[t]
  <1>1. /\ pc[t] = "ClearCachedConnections"
        /\ clients' = [c \in Clients |-> IF c \in Range(pools[p]) THEN None ELSE clients[c]]
        /\ pools' = [pools EXCEPT ![p] = [s \in Slots |-> None]]
        /\ UNCHANGED <<cache_pool_idx, client, wire>>
    BY DEF ClearCachedConnections
  <1>2. ThreadInv(t) /\ client[t] = None /\ wire[t] = None /\ p < POOL_COUNT /\ p \in Nat
    BY <1>1 DEF Inv, ThreadInv, TypeInv
  <1>3. p \in Pools
    BY <1>2, CurlAssumption DEF Pools
  <1>4. /\ \A x \in Clients : clients'[x] \in {None, clients[x]}
        /\ clients' \in [Clients -> CurlClients \cup {None}]
    BY <1>1 DEF Inv, TypeInv
  <1>5. /\ pc' \in [Threads -> Labels] /\ scanned' \in [Threads -> Nat]
        /\ call' = [u \in Threads |-> call'[u]]
        /\ \A u \in Threads \ {t} : pc'[u] = pc[u] /\ scanned'[u] = scanned[u] /\ call'[u] = call[u]
        /\ \/ pc'[t] = "Idle"
           \/ pc'[t] = pc[t] /\ call'[t] = call[t] /\ scanned'[t] < POOL_COUNT
    <2>1. CASE p + 1 < POOL_COUNT
      <3>1. scanned' = [scanned EXCEPT ![t] = @ + 1] /\ pc' = pc /\ call' = call
        BY <2>1 DEF ClearCachedConnections
      <3>2. scanned' \in [Threads -> Nat] /\ scanned'[t] = p + 1
            /\ \A u \in Threads \ {t} : scanned'[u] = scanned[u]
        BY <3>1 DEF Inv, TypeInv
      <3> QED  BY <2>1, <3>1, <3>2 DEF Inv, TypeInv
    <2>2. CASE ~(p + 1 < POOL_COUNT)
      <3>1. Goto(t, "Idle") /\ call' = [call EXCEPT ![t] = None]
        BY <2>2 DEF ClearCachedConnections
      <3>2. /\ pc' \in [Threads -> Labels] /\ scanned' \in [Threads -> Nat]
            /\ pc'[t] = "Idle"
            /\ \A u \in Threads \ {t} : pc'[u] = pc[u] /\ scanned'[u] = scanned[u]
        BY <3>1, GotoTypes DEF Inv, Labels
      <3>3. /\ call' = [u \in Threads |-> call'[u]]
            /\ \A u \in Threads \ {t} : call'[u] = call[u]
        BY <3>1 DEF Inv, TypeInv
      <3> QED  BY <3>2, <3>3
    <2> QED  BY <2>1, <2>2
  <1> HIDE DEF p
  <1>6. TypeInv'
    <2>1. pools' \in [Pools -> [Slots -> Clients \cup {None}]]
      BY <1>1, <1>3 DEF Inv, TypeInv
    <2> QED  BY <1>1, <1>4, <1>5, <2>1 DEF Inv, TypeInv
  <1>7. HeldInv'
    BY <1>1, <1>3, HeldAfterClearing DEF Inv
  <1>8. RestInv'
    BY <1>4, RestKept DEF Inv
  <1>9. ThreadInv(t)'
    BY <1>1, <1>2, <1>5 DEF ThreadInv
  <1>10. OthersKeep(t)
    <2>1. ASSUME NEW u \in Threads, client[u] # None PROVE clients'[client[u]] = clients[client[u]]
      <3>1. client[u] \in Clients
        BY <2>1 DEF Inv, TypeInv
      <3>2. client[u] \notin Range(pools[p])
        BY <1>3, <2>1 DEF Range, Inv, TypeInv, HeldInv, SlotInv
      <3> QED  BY <1>1, <3>1, <3>2
    <2> QED  BY <1>1, <1>5, <2>1 DEF OthersKeep
  <1> QED  BY <1>6, <1>7, <1>8, <1>9, <1>10, OneThreadMoves DEF Inv

\* Nothing that the invariant is about changes.
LEMMA StutterPreserves ==
  ASSUME Inv, UNCHANGED <<pools, cache_pool_idx, clients, threadVars>>
  PROVE  Inv'
  BY DEF Inv, TypeInv, HeldInv, SlotInv, OwnerInv, AliveInv, InSlot, WithThread, RestInv,
         ThreadInv, threadVars

\* The invariant holds at first,
LEMMA InitInv == Init => Inv
  <1> SUFFICES ASSUME Init PROVE Inv
    OBVIOUS
  <1>1. None \notin Clients
    BY CurlAssumption DEF Clients
  <1>2. TypeInv
    BY DEF Init, TypeInv, Labels
  <1>3. HeldInv
    BY DEF Init, HeldInv, SlotInv, OwnerInv, AliveInv
  <1>4. RestInv
    BY DEF Init, RestInv
  <1>5. \A t \in Threads : ThreadInv(t)
    BY DEF Init, ThreadInv
  <1> QED  BY <1>2, <1>3, <1>4, <1>5 DEF Inv

\* and every step preserves it.
LEMMA NextInv == Inv /\ [Next]_vars => Inv'
  <1> SUFFICES ASSUME Inv, [Next]_vars PROVE Inv'
    OBVIOUS
  <1>1. CASE UNCHANGED vars
    BY <1>1, StutterPreserves DEF vars, cacheVars
  <1>2. CASE SetHTTPConnectionCaching
    BY <1>2, StutterPreserves DEF SetHTTPConnectionCaching, cacheVars
  <1>3. ASSUME NEW t \in Threads, SendRequest(t) PROVE Inv'
    BY <1>3, SendRequestPreserves
  <1>4. ASSUME NEW t \in Threads, ThreadStep(t) PROVE Inv'
    BY <1>4, CachingSendRequestPreserves, InitializeClientPreserves, MakeClientPreserves,
       PerformPreserves, RetryPreserves, ReturnPreserves, ReturnTimedOutPreserves, StorePreserves,
       EvictPreserves, ClearPreserves DEF ThreadStep
  <1> QED  BY <1>1, <1>2, <1>3, <1>4 DEF Next

-----------------------------------------------------------------------------
(* What follows. *)

\* A client alive is in one slot or with one thread and at rest there, and a client about to
\* perform a request is configured for it (HTTPFSCurlUtil's cache and HTTPFSCurlClient).
THEOREM CurlInvariant == Spec => []Inv
  BY InitInv, NextInv, PTL DEF Spec

\* Every request is sent as it was asked for, whatever its client was used for before: for
\* any number of threads, pools, slots, calls and retries.
THEOREM RequestsAreSentAsAsked == Spec => []SentAsAsked
  <1>1. Inv => SentAsAsked
    BY DEF Inv, ThreadInv, SentAsAsked
  <1> QED  BY <1>1, CurlInvariant, PTL

\* One has as many members as there are of it.
LEMMA CountsOne ==
  ASSUME NEW S, NEW x \in S, \A y \in S : y = x
  PROVE  Cardinality(S) = 1
  <1>1. S = {x}
    OBVIOUS
  <1> QED  BY <1>1, FS_Singleton

\* No two slots and no two threads ever have the same client, and none is forgotten.
THEOREM ClientsAreHeldOnce == Spec => []ClientHeldOnce
  <1>1. ASSUME Inv PROVE ClientHeldOnce
    <2> SUFFICES ASSUME NEW c \in Clients
                 PROVE  Cardinality({x \in Pools \X Slots : pools[x[1]][x[2]] = c})
                            + Cardinality({t \in Threads : client[t] = c})
                            = IF clients[c] = None THEN 0 ELSE 1
      BY DEF ClientHeldOnce
    <2> DEFINE A == {x \in Pools \X Slots : pools[x[1]][x[2]] = c}
               B == {t \in Threads : client[t] = c}
    <2>0. c # None
      BY CurlAssumption DEF Clients
    <2>1. CASE clients[c] = None
      <3>1. A = {}
        BY <1>1, <2>0, <2>1 DEF Inv, HeldInv, SlotInv
      <3>2. B = {}
        BY <1>1, <2>0, <2>1 DEF Inv, HeldInv, OwnerInv
      <3>3. Cardinality(A) = 0 /\ Cardinality(B) = 0
        BY <3>1, <3>2, FS_EmptySet
      <3> HIDE DEF A, B
      <3>4. Cardinality(A) + Cardinality(B) = 0
        BY <3>3
      <3> QED  BY <2>1, <3>4 DEF A, B
    <2>2. CASE clients[c] # None /\ InSlot(c)
      <3>1. PICK p \in Pools, s \in Slots : pools[p][s] = c
        BY <2>2 DEF InSlot
      <3>2. B = {}
        BY <1>1, <2>0, <3>1 DEF Inv, HeldInv, SlotInv
      <3>3. <<p, s>> \in A
        BY <3>1
      <3>4. \A y \in A : y = <<p, s>>
        <4> TAKE y \in A
        <4>1. y[1] \in Pools /\ y[2] \in Slots /\ pools[y[1]][y[2]] = c /\ y = <<y[1], y[2]>>
          OBVIOUS
        <4>2. y[1] = p /\ y[2] = s
          BY <1>1, <2>0, <3>1, <4>1 DEF Inv, HeldInv, SlotInv
        <4> QED  BY <4>1, <4>2
      <3>5. Cardinality(A) = 1
        BY <3>3, <3>4, CountsOne
      <3>6. Cardinality(B) = 0
        BY <3>2, FS_EmptySet
      <3> HIDE DEF A, B
      <3>7. Cardinality(A) + Cardinality(B) = 1
        BY <3>5, <3>6
      <3> QED  BY <2>2, <3>7 DEF A, B
    <2>3. CASE clients[c] # None /\ WithThread(c)
      <3>1. PICK t \in Threads : client[t] = c
        BY <2>3 DEF WithThread
      <3>2. A = {}
        BY <1>1, <2>0, <3>1 DEF Inv, HeldInv, SlotInv
      <3>3. t \in B /\ \A u \in B : u = t
        BY <1>1, <2>0, <3>1 DEF Inv, HeldInv, OwnerInv
      <3>4. Cardinality(B) = 1
        BY <3>3, CountsOne
      <3>5. Cardinality(A) = 0
        BY <3>2, FS_EmptySet
      <3> HIDE DEF A, B
      <3>6. Cardinality(A) + Cardinality(B) = 1
        BY <3>4, <3>5
      <3> QED  BY <2>3, <3>6 DEF A, B
    <2> QED  BY <1>1, <2>1, <2>2, <2>3 DEF Inv, HeldInv, AliveInv
  <1> QED  BY <1>1, CurlInvariant, PTL

-----------------------------------------------------------------------------
(* The callbacks of a transfer. *)

\* What holds at the start of a range, and after each of its numbers, holds in all of it.
LEMMA RangeInduction ==
  ASSUME NEW N \in Nat, NEW T, 0 \in T, \A n \in 0..N : n < N /\ n \in T => n + 1 \in T
  PROVE  0..N \subseteq T
  <1> DEFINE Wrong == {n \in 0..N : n \notin T}
  <1>1. SUFFICES ASSUME Wrong # {} PROVE FALSE
    OBVIOUS
  <1>2. Wrong \in SUBSET Nat
    OBVIOUS
  <1>3. PICK n \in Wrong : \A k \in Wrong : n <= k
    BY <1>1, <1>2, LeastNumber
  <1>4. n # 0 /\ n - 1 \in 0..N /\ ~(n <= n - 1) /\ n - 1 < N
    OBVIOUS
  <1>5. n - 1 \in T
    BY <1>3, <1>4
  <1>6. (n - 1) + 1 \in T /\ (n - 1) + 1 = n
    BY <1>4, <1>5
  <1> QED  BY <1>6

\* The recursive function of Execute.
IsRun(g, get, events, n) ==
    g = [i \in 0..n |-> IF i = 0 THEN NewTransfer ELSE Callback(g[i - 1], get, events[i])]

\* It exists, for any number of events.
LEMMA RunExists ==
  ASSUME NEW get, NEW events, NEW N \in Nat
  PROVE  \E g : IsRun(g, get, events, N)
  <1> DEFINE T == {k \in 0..N : \E g : IsRun(g, get, events, k)}
  <1>1. 0 \in T
    <2> DEFINE g == [i \in 0..0 |-> NewTransfer]
    <2>1. g = [i \in 0..0 |-> IF i = 0 THEN NewTransfer ELSE Callback(g[i - 1], get, events[i])]
      <3> HIDE DEF NewTransfer, Callback
      <3> QED  OBVIOUS
    <2> HIDE DEF g
    <2>2. IsRun(g, get, events, 0)
      BY <2>1 DEF IsRun
    <2> QED  BY <2>2
  <1>2. ASSUME NEW k \in 0..N, k < N, k \in T PROVE k + 1 \in T
    <2>1. PICK g : IsRun(g, get, events, k)
      BY <1>2
    <2> DEFINE next == Callback(g[k], get, events[k + 1])
               h == [i \in 0..(k + 1) |-> IF i = k + 1 THEN next ELSE g[i]]
    <2>2. \A i \in 0..k : g[i] = IF i = 0 THEN NewTransfer ELSE Callback(g[i - 1], get, events[i])
      BY <2>1 DEF IsRun
    <2>3. h = [i \in 0..(k + 1) |-> h[i]]
      OBVIOUS
    <2>4. ASSUME NEW i \in 0..(k + 1)
          PROVE  h[i] = IF i = 0 THEN NewTransfer ELSE Callback(h[i - 1], get, events[i])
      <3>1. CASE i = k + 1
        <4>1. i # 0 /\ i - 1 = k /\ k \in 0..(k + 1) /\ k # k + 1
          BY <3>1
        <4> HIDE DEF next
        <4>2. h[i] = next /\ h[k] = g[k]
          BY <3>1, <4>1
        <4> HIDE DEF h
        <4> QED  BY <3>1, <4>1, <4>2 DEF next
      <3>2. CASE i # k + 1
        <4>1. i \in 0..k /\ (i # 0 => i - 1 \in 0..(k + 1) /\ i - 1 # k + 1)
          BY <3>2
        <4> HIDE DEF next
        <4>2. h[i] = g[i] /\ (i # 0 => h[i - 1] = g[i - 1])
          BY <3>2, <4>1
        <4> HIDE DEF h
        <4> QED  BY <2>2, <4>1, <4>2
      <3> QED  BY <3>1, <3>2
    <2> HIDE DEF h
    <2>5. IsRun(h, get, events, k + 1)
      BY <2>3, <2>4 DEF IsRun
    <2>6. k + 1 \in 0..N
      BY <1>2
    <2> QED  BY <2>5, <2>6
  <1> HIDE DEF T
  <1>3. 0..N \subseteq T
    BY <1>1, <1>2, RangeInduction
  <1>4. N \in T
    BY <1>3
  <1> QED  BY <1>4 DEF T

\* The state after n events.
State(get, script) == CHOOSE g : IsRun(g, get, script.events, Len(script.events))

\* Execute is the last of these states, each is what a callback made of the one before.
LEMMA Executes ==
  ASSUME NEW get, NEW script, Len(script.events) \in Nat
  PROVE  LET state == State(get, script)
         IN  /\ Execute(get, script) = state[Len(script.events)]
             /\ state[0] = NewTransfer
             /\ \A n \in 0..Len(script.events) : n < Len(script.events) =>
                   state[n + 1] = Callback(state[n], get, script.events[n + 1])
  <1> DEFINE state == State(get, script)
             N == Len(script.events)
  <1>1. Execute(get, script) = state[N]
    BY DEF Execute, State, IsRun
  <1>2. IsRun(state, get, script.events, N)
    BY RunExists DEF State
  <1> HIDE DEF state, N
  <1>3. \A i \in 0..N : state[i] = IF i = 0 THEN NewTransfer ELSE Callback(state[i - 1], get, script.events[i])
    BY <1>2 DEF IsRun
  <1>4. state[0] = NewTransfer
    BY <1>3 DEF N
  <1>5. ASSUME NEW n \in 0..N, n < N
        PROVE  state[n + 1] = Callback(state[n], get, script.events[n + 1])
    <2>1. n + 1 \in 0..N /\ n + 1 # 0 /\ (n + 1) - 1 = n
      BY <1>5 DEF N
    <2> QED  BY <1>3, <2>1
  <1> QED  BY <1>1, <1>4, <1>5 DEF state, N

\* The header blocks among the first n events, and the status of the last one.
IsBlock(event) == event[1] = "headers" /\ event[2] # PROXY
Blocks(events, n) == {i \in 1..n : IsBlock(events[i])}
Current(events, n) == IF Blocks(events, n) = {} THEN 0 ELSE events[Max(Blocks(events, n))][2]

\* How much data the first n events have for a status.
Got(events, n, status) == Cardinality({i \in 1..n : events[i] = <<"data", status>>})
Copies(k, status) == [i \in 1..k |-> status]

\* An event either is a new block or leaves the last one.
LEMMA CurrentStep ==
  ASSUME NEW events, NEW n \in Nat
  PROVE  Current(events, n + 1) =
           IF IsBlock(events[n + 1]) THEN events[n + 1][2] ELSE Current(events, n)
  <1>1. CASE IsBlock(events[n + 1])
    <2> DEFINE S == Blocks(events, n + 1)
    <2>1. n + 1 \in S /\ \A i \in S : i \in Nat /\ n + 1 >= i
      BY <1>1 DEF Blocks
    <2> HIDE DEF S
    <2>2. Max(S) = n + 1
      BY <2>1 DEF Max
    <2>3. S # {}
      BY <2>1
    <2> QED  BY <1>1, <2>2, <2>3 DEF Current, S
  <1>2. CASE ~IsBlock(events[n + 1])
    <2>1. Blocks(events, n + 1) = Blocks(events, n)
      <3>1. ASSUME NEW i \in 1..(n + 1), IsBlock(events[i]) PROVE i \in 1..n
        BY <1>2, <3>1
      <3>2. 1..n \subseteq 1..(n + 1)
        OBVIOUS
      <3> QED  BY <3>1, <3>2 DEF Blocks
    <2> QED  BY <1>2, <2>1 DEF Current
  <1> QED  BY <1>1, <1>2

\* No event, no block.
LEMMA CurrentStart ==
  ASSUME NEW events PROVE Current(events, 0) = 0
  <1>1. Blocks(events, 0) = {}
    BY DEF Blocks
  <1> QED  BY <1>1 DEF Current

\* An event either is data of the status or adds none.
LEMMA GotStep ==
  ASSUME NEW events, NEW n \in Nat, NEW status
  PROVE  /\ Got(events, n, status) \in Nat
         /\ Got(events, n + 1, status) =
              Got(events, n, status) + IF events[n + 1] = <<"data", status>> THEN 1 ELSE 0
  <1> DEFINE A == {i \in 1..n : events[i] = <<"data", status>>}
             B == {i \in 1..(n + 1) : events[i] = <<"data", status>>}
  <1>1. IsFiniteSet(A) /\ Cardinality(A) \in Nat
    <2>1. IsFiniteSet(1..n)
      BY FS_Interval
    <2>2. A \subseteq 1..n
      OBVIOUS
    <2> HIDE DEF A
    <2>3. IsFiniteSet(A)
      BY <2>1, <2>2, FS_Subset
    <2> QED  BY <2>3, FS_CardinalityType
  <1>2. CASE events[n + 1] = <<"data", status>>
    <2>1. B = A \cup {n + 1} /\ n + 1 \notin A
      <3>1. 1..(n + 1) = 1..n \cup {n + 1} /\ n + 1 \notin 1..n
        OBVIOUS
      <3> QED  BY <1>2, <3>1
    <2> HIDE DEF A, B
    <2>2. Cardinality(B) = Cardinality(A) + 1
      BY <1>1, <2>1, FS_AddElement
    <2> QED  BY <1>1, <1>2, <2>2 DEF Got, A, B
  <1>3. CASE events[n + 1] # <<"data", status>>
    <2>1. B = A
      <3>1. 1..(n + 1) = 1..n \cup {n + 1}
        OBVIOUS
      <3> QED  BY <1>3, <3>1
    <2> HIDE DEF A, B
    <2> QED  BY <1>1, <1>3, <2>1 DEF Got, A, B
  <1> QED  BY <1>2, <1>3

\* Nothing counted, nothing got.
LEMMA GotNone ==
  ASSUME NEW events, NEW n \in Nat, NEW status, \A i \in 1..n : events[i] # <<"data", status>>
  PROVE  Got(events, n, status) = 0
  <1>1. {i \in 1..n : events[i] = <<"data", status>>} = {}
    OBVIOUS
  <1> QED  BY <1>1, FS_EmptySet DEF Got

\* Copies are added one at a time.
LEMMA CopiesAppend ==
  ASSUME NEW k \in Nat, NEW status \in Nat
  PROVE  /\ Copies(k, status) \in Seq(Nat) /\ Len(Copies(k, status)) = k
         /\ Append(Copies(k, status), status) = Copies(k + 1, status)
         /\ Copies(0, status) = <<>>
  BY DEF Copies

\* Fewer copies are the start of more.
LEMMA CopiesPrefix ==
  ASSUME NEW k \in Nat, NEW m \in Nat, k <= m, NEW status \in Nat
  PROVE  IsPrefix(Copies(k, status), Copies(m, status))
  BY DEF Copies, IsPrefix

\* The whole script in these terms.
LEMMA ScriptAsCounted ==
  ASSUME NEW script, IsScript(script)
  PROVE  LET events == script.events
             final  == Current(events, Len(events))
         IN  /\ LastStatus(script) = final
             /\ FinalData(script) = Copies(Got(events, Len(events), final), final)
  <1> DEFINE events == script.events
             N == Len(events)
  <1>1. DOMAIN events = 1..N
    BY DEF IsScript
  <1>2. LastStatus(script) = Current(events, N)
    BY <1>1 DEF LastStatus, Current, Blocks, IsBlock
  <1>3. FinalData(script) = Copies(Got(events, N, LastStatus(script)), LastStatus(script))
    BY <1>1 DEF FinalData, Copies, Got
  <1> QED  BY <1>2, <1>3

\* The record the callbacks share.
Transfer == [response_code : Nat, header_status : Nat, response_started : BOOLEAN,
             response_handler_called : BOOLEAN, stopped : BOOLEAN, error : BOOLEAN,
             body : Seq(Nat), handled : Seq(Nat), content : Seq(Nat)]

\* Nothing but proxy answers, interim responses and redirects came so far, the last with status c.
Waiting(x, c) ==
    /\ x \in Transfer
    /\ ~x.response_started /\ ~x.response_handler_called /\ ~x.stopped /\ ~x.error
    /\ x.response_code = c /\ IsPreliminary(c)
    /\ x.body = <<>> /\ x.handled = <<>> /\ x.content = <<>>

\* The response with status c came, and d pieces of its data.
Receiving(x, get, c, d) ==
    /\ x \in Transfer
    /\ x.response_started /\ ~IsPreliminary(c)
    /\ x.response_code = c /\ x.header_status = c
    /\ KeepsBody(x, get) =>
          /\ ~x.response_handler_called /\ ~x.stopped /\ ~x.error
          /\ x.handled = <<>> /\ x.content = <<>> /\ x.body = Copies(d, c)
    /\ ~KeepsBody(x, get) =>
          /\ x.response_handler_called /\ x.handled = <<c>> /\ x.body = <<>>
          /\ \E k \in 0..d : x.content = Copies(k, c) /\ (~x.stopped /\ ~x.error => k = d)

\* A handler's answer is recorded, and nothing else changes.
LEMMA HeedsFields ==
  ASSUME NEW x \in Transfer, NEW answer
  PROVE  LET y == Heeds(x, answer)
         IN  /\ y \in Transfer
             /\ y.response_code = x.response_code /\ y.header_status = x.header_status
             /\ y.response_started = x.response_started
             /\ y.response_handler_called = x.response_handler_called
             /\ y.body = x.body /\ y.handled = x.handled /\ y.content = x.content
             /\ ~y.stopped /\ ~y.error => ~x.stopped /\ ~x.error
  BY DEF Heeds, Transfer

\* What a header block does to a transfer that waits for its response.
LEMMA WaitingHeaders ==
  ASSUME NEW x, NEW get, NEW c \in Nat, NEW s \in Nat, Waiting(x, c), get.stream_content \in BOOLEAN
  PROVE  LET y == HeaderCallback(x, get, s)
         IN  /\ s = PROXY => Waiting(y, c)
             /\ s # PROXY /\ IsPreliminary(s) => Waiting(y, s) /\ y.header_status = s
             /\ ~IsPreliminary(s) => Receiving(y, get, s, 0)
  <1> DEFINE seen  == [x EXCEPT !.header_status = s]
             coded == [seen EXCEPT !.response_code = s]
             begun == [coded EXCEPT !.response_started = TRUE]
             told  == [coded EXCEPT !.response_started = TRUE, !.response_handler_called = TRUE,
                                    !.handled = Append(@, s)]
             y == HeaderCallback(x, get, s)
  <1>1. /\ seen \in Transfer /\ seen.header_status = s
        /\ ~seen.response_started /\ ~seen.response_handler_called /\ ~seen.stopped /\ ~seen.error
        /\ seen.response_code = c
        /\ seen.body = <<>> /\ seen.handled = <<>> /\ seen.content = <<>>
    BY DEF Waiting, Transfer
  <1>2. y = IF s = PROXY THEN seen ELSE StartResponse(seen, get, s)
    BY DEF HeaderCallback, Waiting
  <1> HIDE DEF seen, y
  <1>3. /\ coded \in Transfer /\ coded.header_status = s
        /\ ~coded.response_started /\ ~coded.response_handler_called /\ ~coded.stopped /\ ~coded.error
        /\ coded.response_code = s
        /\ coded.body = <<>> /\ coded.handled = <<>> /\ coded.content = <<>>
    BY <1>1 DEF Transfer
  <1>4. StartResponse(seen, get, s) =
          IF IsPreliminary(s) THEN coded
          ELSE IF KeepsBody(coded, get) THEN begun
          ELSE Heeds(told, get.on_response)
    BY DEF StartResponse
  <1> HIDE DEF coded
  <1>5. s = PROXY => Waiting(y, c)
    BY <1>1, <1>2 DEF Waiting
  <1>6. s # PROXY /\ IsPreliminary(s) => Waiting(y, s) /\ y.header_status = s
    BY <1>2, <1>3, <1>4 DEF Waiting
  <1>7. ASSUME ~IsPreliminary(s) PROVE Receiving(y, get, s, 0)
    <2>1. s # PROXY
      BY <1>7 DEF IsPreliminary, PROXY
    <2>2. Copies(0, s) = <<>>
      BY CopiesAppend
    <2>3. CASE KeepsBody(coded, get)
      <3>1. y = begun
        BY <1>2, <1>4, <1>7, <2>1, <2>3
      <3>2. /\ begun \in Transfer /\ begun.header_status = s
            /\ begun.response_started /\ ~begun.response_handler_called
            /\ ~begun.stopped /\ ~begun.error
            /\ begun.response_code = s
            /\ begun.body = <<>> /\ begun.handled = <<>> /\ begun.content = <<>>
        BY <1>3 DEF Transfer
      <3> HIDE DEF begun
      <3>3. KeepsBody(begun, get)
        BY <1>3, <2>3, <3>2 DEF KeepsBody
      <3> QED  BY <1>7, <2>2, <3>1, <3>2, <3>3 DEF Receiving
    <2>4. CASE ~KeepsBody(coded, get)
      <3>1. y = Heeds(told, get.on_response)
        BY <1>2, <1>4, <1>7, <2>1, <2>4
      <3>2. /\ told \in Transfer /\ told.header_status = s
            /\ told.response_started /\ told.response_handler_called
            /\ told.response_code = s
            /\ told.body = <<>> /\ told.handled = <<s>> /\ told.content = <<>>
        <4> DEFINE handled == Append(coded.handled, s)
        <4>1. handled = <<s>> /\ handled \in Seq(Nat)
          BY <1>3
        <4>2. told = [begun EXCEPT !.response_handler_called = TRUE, !.handled = handled]
          BY <1>3 DEF Transfer
        <4>3. /\ begun \in Transfer /\ begun.header_status = s /\ begun.response_started
              /\ begun.response_code = s /\ begun.body = <<>> /\ begun.content = <<>>
          BY <1>3 DEF Transfer
        <4> HIDE DEF handled, told, begun
        <4> QED  BY <4>1, <4>2, <4>3 DEF Transfer
      <3> HIDE DEF told
      <3>3. /\ y \in Transfer /\ y.header_status = s /\ y.response_started
            /\ y.response_handler_called /\ y.response_code = s
            /\ y.body = <<>> /\ y.handled = <<s>> /\ y.content = <<>>
        BY <3>1, <3>2, HeedsFields
      <3>4. ~KeepsBody(y, get)
        BY <1>3, <2>4, <3>3 DEF KeepsBody
      <3>5. \E k \in 0..0 : y.content = Copies(k, s) /\ (~y.stopped /\ ~y.error => k = 0)
        BY <2>2, <3>3
      <3> QED  BY <1>7, <3>3, <3>4, <3>5 DEF Receiving
    <2> QED  BY <2>3, <2>4
  <1> QED  BY <1>5, <1>6, <1>7 DEF y

\* The body of a redirect is dropped.
LEMMA WaitingData ==
  ASSUME NEW x, NEW get, NEW c \in Nat, Waiting(x, c)
  PROVE  LET y == WriteCallback(x, get, c)
         IN  Waiting(y, c) /\ y.header_status = x.header_status
  <1> DEFINE coded == [x EXCEPT !.response_code = c]
  <1>1. WriteCallback(x, get, c) = coded
    <2>1. StartResponse(x, get, c) = coded
      BY DEF StartResponse, Waiting
    <2>2. ~coded.response_started
      BY DEF Waiting, Transfer
    <2> HIDE DEF coded
    <2> QED  BY <2>1, <2>2 DEF WriteCallback, Waiting
  <1>2. coded = x
    BY DEF Waiting, Transfer
  <1> QED  BY <1>1, <1>2

\* Data of the response is kept or handed on, unless a handler has ended the transfer.
LEMMA ReceivingData ==
  ASSUME NEW x, NEW get, NEW c \in Nat, NEW d \in Nat, Receiving(x, get, c, d)
  PROVE  Receiving(Callback(x, get, <<"data", c>>), get, c, d + 1)
  <1> DEFINE y == Callback(x, get, <<"data", c>>)
             kept == [x EXCEPT !.body = Append(@, c)]
             told == [x EXCEPT !.content = Append(@, c)]
  <1>1. y = IF x.stopped \/ x.error THEN x
            ELSE IF KeepsBody(x, get) THEN kept ELSE Heeds(told, get.on_content)
    BY DEF Callback, Aborted, WriteCallback, Receiving
  <1>2. x \in Transfer /\ x.response_code = c
    BY DEF Receiving
  <1>3. CASE x.stopped \/ x.error
    <2>1. ~KeepsBody(x, get)
      BY <1>3 DEF Receiving
    <2>2. PICK k \in 0..d : x.content = Copies(k, c)
      BY <2>1 DEF Receiving
    <2>3. k \in 0..d + 1
      OBVIOUS
    <2> QED  BY <1>1, <1>3, <2>1, <2>2, <2>3 DEF Receiving
  <1>4. CASE ~x.stopped /\ ~x.error /\ KeepsBody(x, get)
    <2>1. y = kept
      BY <1>1, <1>4
    <2>2. /\ kept \in Transfer /\ kept.header_status = x.header_status
          /\ kept.response_started = x.response_started
          /\ kept.response_handler_called = x.response_handler_called
          /\ kept.stopped = x.stopped /\ kept.error = x.error
          /\ kept.response_code = x.response_code
          /\ kept.handled = x.handled /\ kept.content = x.content
          /\ kept.body = Append(x.body, c)
      <3> DEFINE longer == Append(x.body, c)
      <3>1. longer \in Seq(Nat)
        BY <1>2 DEF Transfer
      <3>2. kept = [x EXCEPT !.body = longer]
        BY <1>2 DEF Transfer
      <3> HIDE DEF longer, kept
      <3>3. /\ kept \in Transfer /\ kept.header_status = x.header_status
            /\ kept.response_started = x.response_started
            /\ kept.response_handler_called = x.response_handler_called
            /\ kept.stopped = x.stopped /\ kept.error = x.error
            /\ kept.response_code = x.response_code
            /\ kept.handled = x.handled /\ kept.content = x.content
            /\ kept.body = longer
        BY <1>2, <3>1, <3>2 DEF Transfer
      <3> QED  BY <3>3 DEF longer
    <2> HIDE DEF kept
    <2>3. KeepsBody(kept, get)
      BY <1>4, <2>2 DEF KeepsBody
    <2>4. kept.body = Copies(d + 1, c)
      BY <1>4, <2>2, CopiesAppend DEF Receiving
    <2> QED  BY <1>4, <2>1, <2>2, <2>3, <2>4 DEF Receiving
  <1>5. CASE ~x.stopped /\ ~x.error /\ ~KeepsBody(x, get)
    <2>1. y = Heeds(told, get.on_content)
      BY <1>1, <1>5
    <2>2. /\ told \in Transfer /\ told.header_status = x.header_status
          /\ told.response_started = x.response_started
          /\ told.response_handler_called = x.response_handler_called
          /\ told.response_code = x.response_code
          /\ told.handled = x.handled /\ told.body = x.body
          /\ told.content = Append(x.content, c)
      <3> DEFINE longer == Append(x.content, c)
      <3>1. longer \in Seq(Nat)
        BY <1>2 DEF Transfer
      <3>2. told = [x EXCEPT !.content = longer]
        BY <1>2 DEF Transfer
      <3> HIDE DEF longer, told
      <3>3. /\ told \in Transfer /\ told.header_status = x.header_status
            /\ told.response_started = x.response_started
            /\ told.response_handler_called = x.response_handler_called
            /\ told.stopped = x.stopped /\ told.error = x.error
            /\ told.response_code = x.response_code
            /\ told.handled = x.handled /\ told.body = x.body
            /\ told.content = longer
        BY <1>2, <3>1, <3>2 DEF Transfer
      <3> QED  BY <3>3 DEF longer
    <2> HIDE DEF told
    <2>3. /\ y \in Transfer /\ y.header_status = x.header_status
          /\ y.response_started = x.response_started
          /\ y.response_handler_called = x.response_handler_called
          /\ y.response_code = x.response_code
          /\ y.handled = x.handled /\ y.body = x.body
          /\ y.content = Append(x.content, c)
      BY <2>1, <2>2, HeedsFields
    <2> HIDE DEF y
    <2>4. ~KeepsBody(y, get)
      BY <1>5, <2>3 DEF KeepsBody
    <2>5. x.content = Copies(d, c)
      BY <1>5 DEF Receiving
    <2>6. y.content = Copies(d + 1, c) /\ d + 1 \in 0..d + 1
      BY <2>3, <2>5, CopiesAppend
    <2>7. Receiving(y, get, c, d + 1)
      BY <1>5, <2>3, <2>4, <2>6 DEF Receiving
    <2> QED  BY <2>7 DEF y
  <1> QED  BY <1>3, <1>4, <1>5

\* Where a transfer is after n events.
ScriptInv(x, get, events, n) ==
    LET c == Current(events, n)
    IN  /\ c \in Nat
        /\ IsPreliminary(c) \/ \E i \in 1..n : events[i][2] = c
        /\ n > 0 /\ events[n][2] # PROXY => events[n][2] = c
        /\ \/ /\ Waiting(x, c)
              /\ n = 0 => x.header_status = 0
              /\ n > 0 /\ events[n][2] # PROXY => x.header_status = c
           \/ Receiving(x, get, c, Got(events, n, c))

\* The callbacks start with nothing.
LEMMA ScriptStart ==
  ASSUME NEW get, NEW events
  PROVE  ScriptInv(NewTransfer, get, events, 0)
  <1>1. Waiting(NewTransfer, 0) /\ NewTransfer.header_status = 0
    BY DEF Waiting, NewTransfer, Transfer, IsPreliminary
  <1>2. IsPreliminary(0)
    BY DEF IsPreliminary
  <1> QED  BY <1>1, <1>2, CurrentStart DEF ScriptInv

\* They keep up with the script: a header block comes only to a transfer that waits, data is
\* of the block before it.
LEMMA ScriptStep ==
  ASSUME NEW script, IsScript(script), NEW get, get.stream_content \in BOOLEAN,
         NEW n \in 0..Len(script.events), n < Len(script.events), NEW x,
         ScriptInv(x, get, script.events, n)
  PROVE  ScriptInv(Callback(x, get, script.events[n + 1]), get, script.events, n + 1)
  <1> DEFINE events == script.events
             N == Len(events)
             event == events[n + 1]
             s == event[2]
             c == Current(events, n)
             y == Callback(x, get, event)
  <1>1. /\ events \in Seq({"headers", "data"} \X Nat) /\ N \in Nat /\ n \in Nat
        /\ n + 1 \in DOMAIN events /\ n + 1 > 0 /\ (n + 1) - 1 = n /\ n + 1 \in 1..(n + 1)
        /\ 1..n \subseteq DOMAIN events /\ \A i \in 1..n : i < n + 1
    <2>1. events \in Seq({"headers", "data"} \X Nat)
      BY DEF IsScript
    <2>2. n \in 0..N /\ n < N
      OBVIOUS
    <2> HIDE DEF events
    <2>3. N \in Nat /\ DOMAIN events = 1..N
      BY <2>1
    <2> HIDE DEF N
    <2> QED  BY <2>1, <2>2, <2>3
  <1>s. /\ \A i \in DOMAIN events : events[i][1] = "data" =>
              i > 1 /\ events[i][2] = events[i - 1][2] /\ events[i][2] # PROXY
        /\ \A i, j \in DOMAIN events : i < j /\ events[j][1] = "headers" =>
              events[i][2] \in 0..199 \cup 300..399
    BY DEF IsScript
  <1>2. event \in {"headers", "data"} \X Nat
    BY <1>1
  <1>3. s \in Nat /\ event[1] \in {"headers", "data"} /\ event = <<event[1], s>>
    BY <1>2
  <1>4. /\ c \in Nat
        /\ IsPreliminary(c) \/ \E i \in 1..n : events[i][2] = c
        /\ n > 0 /\ events[n][2] # PROXY => events[n][2] = c
        /\ \/ /\ Waiting(x, c)
              /\ n = 0 => x.header_status = 0
              /\ n > 0 /\ events[n][2] # PROXY => x.header_status = c
           \/ Receiving(x, get, c, Got(events, n, c))
    BY DEF ScriptInv
  <1> HIDE DEF events, N
  <1>5. Current(events, n + 1) = IF IsBlock(event) THEN s ELSE c
    BY <1>1, CurrentStep
  <1>6. ASSUME event[1] = "headers" PROVE ScriptInv(y, get, events, n + 1)
    <2>1. \A i \in 1..n : events[i][2] \in 0..199 \cup 300..399
      BY <1>1, <1>6, <1>s
    <2>2. IsPreliminary(c)
      <3> HIDE DEF c
      <3>1. \A i \in 0..199 \cup 300..399 : IsPreliminary(i)
        BY DEF IsPreliminary
      <3>2. ASSUME NEW i \in 1..n, events[i][2] = c PROVE IsPreliminary(c)
        <4>1. events[i][2] \in 0..199 \cup 300..399
          BY <2>1
        <4>2. IsPreliminary(events[i][2])
          BY ONLY <3>1, <4>1
        <4> QED  BY <3>2, <4>2
      <3> QED  BY <1>4, <3>2
    <2>3. Waiting(x, c)
      BY <1>4, <2>2 DEF Receiving
    <2>4. y = HeaderCallback(x, get, s)
      BY <1>6, <2>3 DEF Callback, Aborted, Waiting
    <2>5. /\ s = PROXY => Waiting(y, c)
          /\ s # PROXY /\ IsPreliminary(s) => Waiting(y, s) /\ y.header_status = s
          /\ ~IsPreliminary(s) => Receiving(y, get, s, 0)
      <3> HIDE DEF y, s, c
      <3> QED  BY <1>3, <1>4, <2>3, <2>4, WaitingHeaders
    <2>6. CASE s = PROXY
      <3>1. Current(events, n + 1) = c
        BY <1>5, <2>6 DEF IsBlock
      <3>2. Waiting(y, c) /\ IsPreliminary(c) /\ c \in Nat /\ n + 1 # 0
        BY <1>1, <1>4, <2>2, <2>5, <2>6
      <3>3. events[n + 1][2] = PROXY
        BY <2>6
      <3> HIDE DEF y, c
      <3> QED  BY <3>1, <3>2, <3>3 DEF ScriptInv
    <2>7. CASE s # PROXY
      <3>1. Current(events, n + 1) = s
        BY <1>5, <1>6, <2>7 DEF IsBlock
      <3>2. \E i \in 1..(n + 1) : events[i][2] = s
        BY <1>1
      <3>3. ASSUME ~IsPreliminary(s) PROVE Got(events, n + 1, s) = 0
        <4>1. \A i \in 1..(n + 1) : events[i] # <<"data", s>>
          <5>1. ASSUME NEW i \in 1..(n + 1), events[i] = <<"data", s>> PROVE FALSE
            <6>1. i \in 1..n
              BY <1>1, <1>6, <5>1
            <6> HIDE DEF s
            <6>2. events[i][2] = s
              BY <5>1
            <6>3. s \in 0..199 \cup 300..399
              BY ONLY <2>1, <6>1, <6>2
            <6> QED  BY <3>3, <6>3 DEF IsPreliminary
          <5> QED  BY <5>1
        <4>2. n + 1 \in Nat
          BY <1>1
        <4> HIDE DEF s
        <4> QED  BY <4>1, <4>2, GotNone
      <3>4. \/ Waiting(y, s) /\ y.header_status = s
            \/ Receiving(y, get, s, Got(events, n + 1, s))
        BY <2>5, <2>7, <3>3
      <3>5. n + 1 # 0 /\ s \in Nat
        BY <1>1, <1>3
      <3>6. events[n + 1][2] = s
        OBVIOUS
      <3> HIDE DEF y, s
      <3> QED  BY <3>1, <3>2, <3>4, <3>5, <3>6 DEF ScriptInv
    <2> QED  BY <2>6, <2>7
  <1>7. ASSUME event[1] = "data" PROVE ScriptInv(y, get, events, n + 1)
    <2>1. n > 0 /\ s = events[n][2] /\ s # PROXY
      BY <1>1, <1>7, <1>s
    <2>2. s = c
      BY <1>4, <2>1
    <2>3. event = <<"data", c>>
      BY <1>3, <1>7, <2>2
    <2>4. Current(events, n + 1) = c
      BY <1>5, <1>7 DEF IsBlock
    <2>5. /\ Got(events, n, c) \in Nat
          /\ Got(events, n + 1, c) = Got(events, n, c) + 1
      <3> HIDE DEF c
      <3> QED  BY <1>1, <2>3, GotStep
    <2>6. \E i \in 1..(n + 1) : events[i][2] = c
      BY <1>1, <2>2
    <2>7. \/ Waiting(y, c) /\ y.header_status = c
          \/ Receiving(y, get, c, Got(events, n + 1, c))
      <3>1. CASE Waiting(x, c)
        <4>1. x.header_status = c
          <5>1. ~Receiving(x, get, c, Got(events, n, c))
            BY <3>1 DEF Waiting, Receiving
          <5> QED  BY <1>4, <2>1, <5>1
        <4>2. y = WriteCallback(x, get, c)
          BY <2>3, <3>1 DEF Callback, Aborted, Waiting
        <4> HIDE DEF y, c
        <4> QED  BY <1>4, <3>1, <4>1, <4>2, WaitingData
      <3>2. CASE Receiving(x, get, c, Got(events, n, c))
        <4>1. y = Callback(x, get, <<"data", c>>)
          BY <2>3
        <4> HIDE DEF y, c
        <4>2. Receiving(y, get, c, Got(events, n, c) + 1)
          BY <1>4, <2>5, <3>2, <4>1, ReceivingData
        <4> QED  BY <2>5, <4>2
      <3> QED  BY <1>4, <3>1, <3>2
    <2>8. events[n + 1][2] = c /\ n + 1 # 0 /\ c \in Nat
      BY <1>1, <1>4, <2>2
    <2> HIDE DEF y, c
    <2> QED  BY <2>4, <2>6, <2>7, <2>8 DEF ScriptInv
  <1> QED  BY <1>3, <1>6, <1>7 DEF events

\* So after the last event.
LEMMA ExecuteKeepsUp ==
  ASSUME NEW script, IsScript(script), NEW get, get.stream_content \in BOOLEAN
  PROVE  ScriptInv(Execute(get, script), get, script.events, Len(script.events))
  <1> DEFINE state == State(get, script)
             N == Len(script.events)
             T == {n \in 0..N : ScriptInv(state[n], get, script.events, n)}
  <1>1. N \in Nat
    BY DEF IsScript
  <1>2. /\ Execute(get, script) = state[N]
        /\ state[0] = NewTransfer
        /\ \A n \in 0..N : n < N => state[n + 1] = Callback(state[n], get, script.events[n + 1])
    BY <1>1, Executes
  <1> HIDE DEF state
  <1>3. 0 \in T
    BY <1>1, <1>2, ScriptStart
  <1>4. ASSUME NEW n \in 0..N, n < N, n \in T PROVE n + 1 \in T
    <2>1. ScriptInv(Callback(state[n], get, script.events[n + 1]), get, script.events, n + 1)
      BY <1>4, ScriptStep
    <2>2. n + 1 \in 0..N
      BY <1>1, <1>4
    <2> QED  BY <1>2, <1>4, <2>1, <2>2
  <1> HIDE DEF T
  <1>5. 0..N \subseteq T
    <2> HIDE DEF N
    <2> QED  BY <1>1, <1>3, <1>4, RangeInduction
  <1>6. N \in T
    BY <1>1, <1>5
  <1> QED  BY <1>2, <1>6 DEF T

\* What Get makes of it is faithful to the script.
LEMMA FinishFaithful ==
  ASSUME NEW script, IsScript(script), NEW get, get.stream_content \in BOOLEAN
  PROVE  TransferIsFaithful(get, script, GetTransfer(get, script))
  <1> DEFINE events == script.events
             N == Len(events)
             c == Current(events, N)
             d == Got(events, N, c)
             x == Execute(get, script)
             r == GetTransfer(get, script)
             calls == ~x.error /\ (x.stopped \/ script.result = "OK") /\ ~x.response_handler_called
  <1>1. /\ c \in Nat
        /\ N > 0 /\ events[N][2] # PROXY => events[N][2] = c
        /\ \/ /\ Waiting(x, c)
              /\ N = 0 => x.header_status = 0
              /\ N > 0 /\ events[N][2] # PROXY => x.header_status = c
           \/ Receiving(x, get, c, d)
    BY ExecuteKeepsUp DEF ScriptInv
  <1>2. N \in Nat /\ (N > 0 /\ script.result = "OK" => events[N][2] # PROXY)
        /\ (N = 0 => events = <<>>)
    BY DEF IsScript, Last
  <1>3. LastStatus(script) = c /\ FinalData(script) = Copies(d, c)
    BY ScriptAsCounted
  <1>4. d \in Nat
    <2> HIDE DEF c
    <2> QED  BY <1>2, GotStep
  <1>5. /\ r.outcome = "response" => ~x.error /\ (x.stopped \/ script.result = "OK")
        /\ r.status = x.response_code
        /\ r.headers = x.header_status
        /\ r.body = IF KeepsBody(x, get) THEN x.body ELSE <<>>
        /\ r.handled = IF calls THEN Append(x.handled, x.response_code) ELSE x.handled
        /\ r.content = x.content
        /\ r.stopped = x.stopped
    <2> HIDE DEF x
    <2> QED  BY DEF GetTransfer, Finish, x
  <1>6. N = 0 => c = 0
    <2>1. Current(events, 0) = 0
      BY CurrentStart
    <2> QED  BY <2>1
  <1> HIDE DEF x, r, c, d, N, events
  <1>7. CASE Waiting(x, c)
    <2>1. /\ x.response_code = c /\ x.handled = <<>> /\ x.content = <<>> /\ x.body = <<>>
          /\ ~x.stopped /\ ~x.response_handler_called /\ IsPreliminary(c)
      BY <1>7 DEF Waiting
    <2>2. script.result = "OK" => x.header_status = c
      <3>1. ~Receiving(x, get, c, d)
        BY <1>7 DEF Waiting, Receiving
      <3> QED  BY <1>1, <1>2, <1>6, <3>1
    <2>3. r.handled \in {<<>>, <<c>>} /\ (r.outcome = "response" => r.handled = <<c>>)
      BY <1>1, <1>5, <2>1
    <2>4. IsPrefix(r.content, Copies(d, c))
      <3>1. r.content = Copies(0, c) /\ 0 <= d /\ 0 \in Nat
        BY <1>1, <1>4, <1>5, <2>1, CopiesAppend
      <3> QED  BY <1>1, <1>4, <3>1, CopiesPrefix
    <2>5. Len(r.handled) <= 1 /\ \A i \in DOMAIN r.handled : r.handled[i] = c
      <3>1. CASE r.handled = <<>>
        BY <3>1
      <3>2. CASE r.handled = <<c>>
        BY <3>2
      <3> QED  BY <2>3, <3>1, <3>2
    <2>6. TransferIsFaithful(get, script, r)
      BY <1>3, <1>5, <2>1, <2>2, <2>3, <2>4, <2>5 DEF TransferIsFaithful
    <2> QED  BY <2>6 DEF r
  <1>8. CASE Receiving(x, get, c, d)
    <2>1. x.response_code = c /\ x.header_status = c
      BY <1>8 DEF Receiving
    <2>2. CASE KeepsBody(x, get)
      <3>1. /\ x.handled = <<>> /\ x.content = <<>> /\ x.body = Copies(d, c)
            /\ ~x.stopped /\ ~x.response_handler_called
        BY <1>8, <2>2 DEF Receiving
      <3>2. r.handled \in {<<>>, <<c>>} /\ (r.outcome = "response" => r.handled = <<c>>)
        BY <1>1, <1>5, <2>1, <3>1
      <3>3. IsPrefix(r.content, Copies(d, c))
        <4>1. r.content = Copies(0, c) /\ 0 <= d /\ 0 \in Nat
          BY <1>1, <1>4, <1>5, <3>1, CopiesAppend
        <4> QED  BY <1>1, <1>4, <4>1, CopiesPrefix
      <3>4. Len(r.handled) <= 1 /\ \A i \in DOMAIN r.handled : r.handled[i] = c
        <4>1. CASE r.handled = <<>>
          BY <4>1
        <4>2. CASE r.handled = <<c>>
          BY <4>2
        <4> QED  BY <3>2, <4>1, <4>2
      <3>5. r.content = <<>> /\ r.content \o r.body = Copies(d, c)
        BY <1>1, <1>4, <1>5, <2>2, <3>1, CopiesAppend
      <3>6. TransferIsFaithful(get, script, r)
        BY <1>3, <1>5, <2>1, <3>2, <3>3, <3>4, <3>5 DEF TransferIsFaithful
      <3> QED  BY <3>6 DEF r
    <2>3. CASE ~KeepsBody(x, get)
      <3>1. x.response_handler_called /\ x.handled = <<c>> /\ x.body = <<>>
        BY <1>8, <2>3 DEF Receiving
      <3>2. PICK k \in 0..d : x.content = Copies(k, c) /\ (~x.stopped /\ ~x.error => k = d)
        BY <1>8, <2>3 DEF Receiving
      <3>3. r.handled = <<c>>
        BY <1>5, <3>1
      <3>4. k \in Nat /\ k <= d
        BY <1>4
      <3>5. IsPrefix(r.content, Copies(d, c))
        BY <1>1, <1>4, <1>5, <3>2, <3>4, CopiesPrefix
      <3>6. Len(r.handled) <= 1 /\ \A i \in DOMAIN r.handled : r.handled[i] = c
        BY <3>3
      <3>7. get.stream_content /\ c \in 200..299
        <4>1. ~IsPreliminary(c)
          BY <1>8 DEF Receiving
        <4> QED  BY <1>1, <2>1, <2>3, <4>1 DEF KeepsBody, IsPreliminary
      <3>8. r.outcome = "response" /\ ~r.stopped => r.content \o r.body = Copies(d, c)
        <4>1. Copies(d, c) \in Seq(Nat)
          BY <1>1, <1>4, CopiesAppend
        <4>2. Copies(d, c) \o <<>> = Copies(d, c)
          BY <4>1
        <4> QED  BY <1>5, <2>3, <3>1, <3>2, <4>2
      <3>9. TransferIsFaithful(get, script, r)
        BY <1>3, <1>5, <2>1, <3>3, <3>5, <3>6, <3>7, <3>8 DEF TransferIsFaithful
      <3> QED  BY <3>9 DEF r
    <2> QED  BY <2>2, <2>3
  <1> QED  BY <1>1, <1>7, <1>8 DEF r

\* A GET hands its caller one response and the data of that response alone, whatever libcurl
\* reports before it and wherever a handler stops or throws (GetTransferState).
THEOREM TransfersAreFaithful == Spec => []TransfersFaithful
  <1>1. EveryTransferFaithful
    BY CurlAssumption, FinishFaithful DEF EveryTransferFaithful
  <1>2. TransfersFaithful
    BY <1>1 DEF TransfersFaithful
  <1> QED  BY <1>2, PTL
=============================================================================
