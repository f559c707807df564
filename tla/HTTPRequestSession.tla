--------------------------- MODULE HTTPRequestSession ---------------------------
(****************************************************************************)
(* HTTPRequestSession (src/http/http_request_session.cpp): the request       *)
(* settings a file handle's requests share, published by compare-and-swap,   *)
(* and the idle clients (connections) those requests take turns in using.    *)
(*                                                                          *)
(* A snapshot is known by its id, the model of its address; a thread that    *)
(* works with one has captured it together with the client generation.       *)
(****************************************************************************)
EXTENDS HTTPClients, Naturals, Sequences, FiniteSets, SequencesExt

CONSTANTS
    Configs,        \* what decides client reuse: records [type, http_util, reuse_mode]
    Urls,           \* proto_host_port values
    MaxSnapshots,   \* bound: snapshots made
    MaxGenerations  \* bound: explicit invalidations

ASSUME RequestSessionAssumption ==
    /\ None \notin Threads
    /\ \A c \in Configs : c.reuse_mode \in {"SESSION_LOCAL", "SHARED", "NONE"}
    /\ MaxClients \in Nat /\ MaxSnapshots \in Nat /\ MaxGenerations \in Nat

VARIABLES
    current_snapshot,       \* [id, config, ...]
    client_generation,
    idle_clients,           \* sequence of [client, http_util, url]
    captured,               \* per thread: None or [snapshot, client_generation]
    lease,                  \* per thread: None or HTTPClientLease
    clients_created,        \* how many so far
    snapshots,              \* snapshots made so far
    stale                   \* history: clients that existed at an invalidation

poolVars    == <<client_generation, idle_clients, stale>>
sessionVars == <<current_snapshot, poolVars, captured, lease, clients_created, snapshots>>

SessionInit(config) ==
    /\ current_snapshot = [id |-> 0, config |-> config]
    /\ client_generation = 0
    /\ idle_clients = <<>>
    /\ captured = [t \in Threads |-> None]
    /\ lease = [t \in Threads |-> None]
    /\ clients_created = 0
    /\ snapshots = 0
    /\ stale = {}

-----------------------------------------------------------------------------
\* The clients that threads hold, idle ones not counted.
Leased == {lease[t].client : t \in {u \in Threads : lease[u] # None}} \ {None}
Idle   == {idle_clients[i].client : i \in DOMAIN idle_clients}

CanReuseClientsWith(snapshot, other) == snapshot.config = other.config

\* The generation moves on and the idle clients are destroyed.
DropClients ==
    /\ client_generation' = client_generation + 1
    /\ idle_clients' = <<>>
    /\ stale' = stale \cup Leased \cup Idle

Capture(t) ==
    captured' = [captured EXCEPT ![t] = [snapshot |-> current_snapshot,
                                         client_generation |-> client_generation]]

\* TryPublish: the compare-and-swap and, if the clients do not fit the new
\* snapshot, their removal.  The caller learns from published whether it won.
TryPublish(expected, replacement, published) ==
    /\ published = (current_snapshot.id = expected.id)
    /\ current_snapshot' = IF published THEN replacement ELSE current_snapshot
    /\ IF published /\ ~CanReuseClientsWith(current_snapshot, replacement)
       THEN DropClients
       ELSE UNCHANGED poolVars

\* The positions of the idle clients a request may take over.
Reusable(capture, url) ==
    {i \in DOMAIN idle_clients :
        /\ capture.snapshot.config.reuse_mode = "SESSION_LOCAL"
        /\ capture.client_generation = client_generation
        /\ idle_clients[i].http_util = capture.snapshot.config.http_util
        /\ idle_clients[i].url = url}

NewLease(capture, url, client) ==
    [client |-> client, url |-> url, http_util |-> capture.snapshot.config.http_util,
     reuse_mode |-> capture.snapshot.config.reuse_mode,
     generation |-> capture.client_generation, reusable |-> TRUE]

\* Mutant: the client handed out stays in the idle list.
TakenKept(i) == idle_clients

Taken(i) == RemoveAt(idle_clients, i)

\* AcquireClient: the newest fitting idle client, else a new one, else none at all
\* when clients are not reused.
AcquireClient(t, url) ==
    LET capture == captured[t]
        fitting == Reusable(capture, url)
    IN  /\ lease[t] = None
        /\ \/ /\ fitting # {}
              /\ lease' = [lease EXCEPT ![t] =
                              NewLease(capture, url, idle_clients[Max(fitting)].client)]
              /\ idle_clients' = Taken(Max(fitting))
              /\ UNCHANGED clients_created
           \/ /\ fitting = {}
              /\ capture.snapshot.config.reuse_mode # "NONE"
              /\ clients_created < MaxClients
              /\ clients_created' = clients_created + 1
              /\ lease' = [lease EXCEPT ![t] = NewLease(capture, url, clients_created + 1)]
              /\ UNCHANGED idle_clients
           \/ /\ capture.snapshot.config.reuse_mode = "NONE"
              /\ lease' = [lease EXCEPT ![t] = NewLease(capture, url, None)]
              /\ UNCHANGED <<idle_clients, clients_created>>
        /\ UNCHANGED <<client_generation, stale>>

\* HTTPClientLease::Invalidate, and for a stalled connection InvalidateClients too.
InvalidateLease(t) == lease' = [lease EXCEPT ![t].reusable = FALSE]

InvalidateClients == DropClients

\* Mutant: a client is kept whatever happened since it was handed out.
KeepsAnyClient(l) == l.client # None /\ l.reusable /\ l.reuse_mode = "SESSION_LOCAL"

\* ReturnClient keeps a client that is still good in the session; a shared one goes
\* back to its util (outside this module), any other is destroyed.
KeepsClient(l) ==
    /\ l.client # None
    /\ l.reusable
    /\ l.reuse_mode = "SESSION_LOCAL"
    /\ l.generation = client_generation

\* ReturnClient once the lease is invalidated or not as reusable says.
ReturnLease(t, reusable) ==
    LET l == [lease[t] EXCEPT !.reusable = @ /\ reusable]
    IN  /\ idle_clients' = IF KeepsClient(l)
                           THEN Append(idle_clients, [client |-> l.client,
                                                      http_util |-> l.http_util, url |-> l.url])
                           ELSE idle_clients
        /\ lease' = [lease EXCEPT ![t] = None]
        /\ UNCHANGED <<client_generation, stale>>

-----------------------------------------------------------------------------
(* A session used by threads that send requests and publish new settings. *)

CaptureStep(t) ==
    /\ lease[t] = None
    /\ Capture(t)
    /\ UNCHANGED <<current_snapshot, poolVars, lease, clients_created, snapshots>>

PublishStep(t) ==
    /\ captured[t] # None
    /\ lease[t] = None
    /\ snapshots < MaxSnapshots
    /\ snapshots' = snapshots + 1
    /\ \E config \in Configs, published \in BOOLEAN :
          TryPublish(captured[t].snapshot, [id |-> snapshots + 1, config |-> config], published)
    /\ captured' = [captured EXCEPT ![t] = None]
    /\ UNCHANGED <<lease, clients_created>>

AcquireStep(t) ==
    /\ captured[t] # None
    /\ \E url \in Urls : AcquireClient(t, url)
    /\ UNCHANGED <<current_snapshot, captured, snapshots>>

\* A request error invalidates the lease alone.
RequestErrorStep(t) ==
    /\ lease[t] # None
    /\ lease[t].reusable
    /\ InvalidateLease(t)
    /\ UNCHANGED <<current_snapshot, poolVars, captured, clients_created, snapshots>>

\* A stalled connection condemns every client of the session.
RequestTimeoutStep(t) ==
    /\ lease[t] # None
    /\ lease[t].reusable
    /\ client_generation < MaxGenerations
    /\ InvalidateLease(t)
    /\ InvalidateClients
    /\ UNCHANGED <<current_snapshot, captured, clients_created, snapshots>>

ReleaseStep(t) ==
    /\ lease[t] # None
    /\ ReturnLease(t, TRUE)
    /\ captured' = [captured EXCEPT ![t] = None]
    /\ UNCHANGED <<current_snapshot, clients_created, snapshots>>

SessionNext == \E t \in Threads :
    \/ CaptureStep(t) \/ PublishStep(t) \/ AcquireStep(t)
    \/ RequestErrorStep(t) \/ RequestTimeoutStep(t) \/ ReleaseStep(t)

SessionSpec == (\E config \in Configs : SessionInit(config)) /\ [][SessionNext]_sessionVars

-----------------------------------------------------------------------------
(* Properties. *)

\* Only clients fit for the next request are idle: one that was idle or in use when the
\* session's clients were invalidated never becomes available again, however late its
\* request ends, nor does one that a request with an older snapshot created and returns
\* after another snapshot was published.
NoStaleClientReused ==
    /\ Idle \cap stale = {}
    /\ \A i \in DOMAIN idle_clients :
          /\ current_snapshot.config.reuse_mode = "SESSION_LOCAL"
          /\ idle_clients[i].http_util = current_snapshot.config.http_util

\* No client is idle twice, in two requests, or idle and in a request.
ClientOwnedOnce ==
    /\ Cardinality(Idle) = Len(idle_clients)
    /\ Idle \cap Leased = {}
    /\ \A t, u \in Threads :
          lease[t] # None /\ lease[u] # None /\ lease[t].client = lease[u].client =>
              t = u \/ lease[t].client = None
=============================================================================
