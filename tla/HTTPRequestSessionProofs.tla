----------------------- MODULE HTTPRequestSessionProofs -----------------------
(****************************************************************************)
(* The inductive invariant of HTTPRequestSession and what follows from it.    *)
(*                                                                          *)
(* The client generation stands for everything that may make a client unfit:  *)
(* a capture or a lease with the current generation has the current settings, *)
(* and its client was not there at any invalidation.                          *)
(****************************************************************************)
EXTENDS HTTPRequestSession, FiniteSetTheorems, SequenceTheorems, WellFoundedInduction, TLAPS

-----------------------------------------------------------------------------
(* Numbers and sequences. *)

\* A set of naturals has a least element.
LEMMA LeastNatural ==
  ASSUME NEW S \in SUBSET Nat, S # {}
  PROVE  \E n \in S : \A m \in S : n <= m
  <1>1. PICK n \in S : \A m \in S : ~(<<m, n>> \in OpToRel(<, Nat))
    BY NatLessThanWellFounded, WFMin
  <1>2. ASSUME NEW m \in S PROVE n <= m
    <2>1. m \in Nat /\ n \in Nat /\ ~(m < n)
      BY <1>1 DEF OpToRel
    <2> QED  BY <2>1
  <1> QED  BY <1>2

\* Max chooses a member of a bounded set of naturals.
LEMMA MaxMember ==
  ASSUME NEW b \in Nat, NEW S \in SUBSET (0..b), S # {}
  PROVE  Max(S) \in S
  <1> DEFINE T == {b - n : n \in S}
  <1>1. T \in SUBSET Nat /\ T # {}
    <2>1. ASSUME NEW n \in S PROVE b - n \in Nat
      BY <2>1
    <2>2. PICK n : n \in S
      OBVIOUS
    <2>3. b - n \in T
      BY <2>2
    <2> QED  BY <2>1, <2>3
  <1>2. PICK k \in T : \A m \in T : k <= m
    BY <1>1, LeastNatural
  <1>3. PICK x \in S : k = b - x
    OBVIOUS
  <1>4. \A y \in S : x >= y
    <2> TAKE y \in S
    <2>1. b - y \in T
      OBVIOUS
    <2> QED  BY <1>2, <1>3, <2>1
  <1> QED  BY <1>4 DEF Max

\* RemoveAt leaves out one element.
LEMMA RemoveAtProperties ==
  ASSUME NEW S, NEW s \in Seq(S), NEW i \in 1..Len(s)
  PROVE  /\ RemoveAt(s, i) \in Seq(S)
         /\ Len(RemoveAt(s, i)) = Len(s) - 1
         /\ \A j \in 1..Len(s) - 1 : RemoveAt(s, i)[j] = IF j < i THEN s[j] ELSE s[j + 1]
  <1> DEFINE a == SubSeq(s, 1, i - 1)
             b == SubSeq(s, i + 1, Len(s))
  <1>1. /\ Len(s) \in Nat /\ i \in Nat /\ i >= 1 /\ i <= Len(s)
        /\ \A j \in 1..Len(s) : s[j] \in S
    OBVIOUS
  <1>2. /\ a \in Seq(S) /\ Len(a) = i - 1
        /\ \A j \in 1..i - 1 : a[j] = s[j]
    <2>1. /\ a \in Seq(S) /\ Len(a) = IF 1 <= i - 1 THEN (i - 1) - 1 + 1 ELSE 0
          /\ \A j \in 1..(i - 1) - 1 + 1 : a[j] = s[1 + j - 1]
      BY <1>1, SubSeqProperties
    <2> HIDE DEF a
    <2> QED  BY <1>1, <2>1
  <1>3. /\ b \in Seq(S) /\ Len(b) = Len(s) - i
        /\ \A j \in 1..Len(s) - i : b[j] = s[i + j]
    <2>1. /\ b \in Seq(S) /\ Len(b) = IF i + 1 <= Len(s) THEN Len(s) - (i + 1) + 1 ELSE 0
          /\ \A j \in 1..Len(s) - (i + 1) + 1 : b[j] = s[(i + 1) + j - 1]
      BY <1>1, SubSeqProperties
    <2> HIDE DEF b
    <2> QED  BY <1>1, <2>1
  <1>4. RemoveAt(s, i) = a \o b
    BY DEF RemoveAt
  <1> HIDE DEF a, b
  <1>5. /\ a \o b \in Seq(S) /\ Len(a \o b) = (i - 1) + (Len(s) - i)
        /\ \A j \in 1..(i - 1) + (Len(s) - i) :
              (a \o b)[j] = IF j <= i - 1 THEN a[j] ELSE b[j - (i - 1)]
    <2>1. /\ a \o b \in Seq(S) /\ Len(a \o b) = Len(a) + Len(b)
          /\ \A j \in 1..Len(a) + Len(b) :
                (a \o b)[j] = IF j <= Len(a) THEN a[j] ELSE b[j - Len(a)]
      BY <1>2, <1>3, ConcatProperties
    <2> QED  BY <1>2, <1>3, <2>1
  <1>6. (i - 1) + (Len(s) - i) = Len(s) - 1
    BY <1>1
  <1>7. ASSUME NEW j \in 1..Len(s) - 1 PROVE (a \o b)[j] = IF j < i THEN s[j] ELSE s[j + 1]
    <2>1. CASE j < i
      BY <1>1, <1>2, <1>5, <1>6, <2>1
    <2>2. CASE ~(j < i)
      <3>1. (a \o b)[j] = b[j - (i - 1)] /\ j - (i - 1) \in 1..Len(s) - i
        BY <1>1, <1>5, <1>6, <2>2
      <3>2. i + (j - (i - 1)) = j + 1
        BY <1>1
      <3>3. b[j - (i - 1)] = s[i + (j - (i - 1))]
        BY <1>3, <3>1
      <3> QED  BY <2>2, <3>1, <3>2, <3>3
    <2> QED  BY <2>1, <2>2
  <1> QED  BY <1>4, <1>5, <1>6, <1>7

-----------------------------------------------------------------------------
(* The invariant. *)

Utils == {c.http_util : c \in Configs}
Modes == {"SESSION_LOCAL", "SHARED", "NONE"}

Snapshot   == [id : Nat, config : Configs]
CaptureSet == [snapshot : Snapshot, client_generation : Nat]
IdleClient == [client : Nat, http_util : Utils, url : Urls]
Lease      == [client : Nat \cup {None}, url : Urls, http_util : Utils, reuse_mode : Modes,
               generation : Nat, reusable : BOOLEAN]

TypeInv ==
    /\ current_snapshot \in Snapshot
    /\ client_generation \in Nat
    /\ idle_clients \in Seq(IdleClient)
    /\ captured \in [Threads -> CaptureSet \cup {None}]
    /\ lease \in [Threads -> Lease \cup {None}]
    /\ clients_created \in Nat
    /\ snapshots \in Nat
    /\ stale \subseteq 1..clients_created

\* The settings under which the clients of the session are kept.
Fits(util) == current_snapshot.config.reuse_mode = "SESSION_LOCAL" /\
              util = current_snapshot.config.http_util

\* A capture of the current generation has the current settings.
CaptureInv(t) ==
    captured[t] # None =>
        /\ captured[t].client_generation <= client_generation
        /\ captured[t].client_generation = client_generation =>
              captured[t].snapshot.config = current_snapshot.config

\* t holds the client c.
Holds(t, c) == lease[t] # None /\ lease[t].client = c /\ c # None

\* A client of the current generation is fit for the session.
LeaseInv(t) ==
    lease[t] # None =>
        /\ lease[t].generation <= client_generation
        /\ lease[t].client # None =>
              /\ lease[t].client \in 1..clients_created
              /\ lease[t].generation = client_generation /\ lease[t].reuse_mode = "SESSION_LOCAL" =>
                    Fits(lease[t].http_util) /\ lease[t].client \notin stale

\* So is an idle one, and nobody uses it.
IdleInv(i) ==
    /\ idle_clients[i].client \in 1..clients_created /\ idle_clients[i].client \notin stale
    /\ Fits(idle_clients[i].http_util)
    /\ \A t \in Threads : ~Holds(t, idle_clients[i].client)

RequestSessionInv ==
    /\ TypeInv
    /\ \A t \in Threads : CaptureInv(t) /\ LeaseInv(t)
    /\ \A i \in DOMAIN idle_clients : IdleInv(i)
    /\ \A i, j \in DOMAIN idle_clients : idle_clients[i].client = idle_clients[j].client => i = j
    /\ \A t, u \in Threads : \A c \in 1..clients_created : Holds(t, c) /\ Holds(u, c) => t = u

-----------------------------------------------------------------------------
(* The actions. *)

\* The positions of the idle clients.
LEMMA IdleDomain ==
  ASSUME TypeInv
  PROVE  /\ DOMAIN idle_clients = 1..Len(idle_clients) /\ Len(idle_clients) \in Nat
         /\ \A i \in DOMAIN idle_clients : idle_clients[i] \in IdleClient
  BY DEF TypeInv

\* Clients that exist at an invalidation are known.
LEMMA StaleType ==
  ASSUME RequestSessionInv
  PROVE  stale \cup Leased \cup Idle \subseteq 1..clients_created
  BY DEF RequestSessionInv, TypeInv, LeaseInv, IdleInv, Leased, Idle

\* A step that invalidates the clients and changes no lease but its reusable flag.
LEMMA DropPreserves ==
  ASSUME RequestSessionInv, DropClients, UNCHANGED clients_created,
         current_snapshot' \in Snapshot, snapshots' \in Nat,
         captured' \in [Threads -> CaptureSet \cup {None}],
         lease' \in [Threads -> Lease \cup {None}],
         \A t \in Threads : captured'[t] = captured[t] \/ captured'[t] = None,
         \A t \in Threads : lease[t] # None /\ lease'[t] # None =>
             lease'[t].client = lease[t].client /\ lease'[t].generation = lease[t].generation,
         \A t \in Threads : lease[t] = None => lease'[t] = None
  PROVE  RequestSessionInv'
  <1>1. TypeInv /\ client_generation \in Nat /\ client_generation' = client_generation + 1
    BY DEF RequestSessionInv, TypeInv, DropClients
  <1>2. idle_clients' = <<>> /\ DOMAIN idle_clients' = {} /\ idle_clients' \in Seq(IdleClient)
    BY DEF DropClients
  <1>3. TypeInv'
    BY <1>1, <1>2, StaleType DEF TypeInv, DropClients
  <1>4. ASSUME NEW t \in Threads PROVE CaptureInv(t)'
    <2>1. CASE captured'[t] = None
      BY <2>1 DEF CaptureInv
    <2>2. CASE captured'[t] # None
      <3>1. captured'[t] = captured[t] /\ captured[t].client_generation \in Nat
        BY <1>1, <2>2 DEF TypeInv, CaptureSet
      <3>2. captured[t].client_generation <= client_generation
        BY <2>2, <3>1 DEF RequestSessionInv, CaptureInv
      <3> QED  BY <1>1, <3>1, <3>2 DEF CaptureInv
    <2> QED  BY <2>1, <2>2
  <1>5. ASSUME NEW t \in Threads PROVE LeaseInv(t)'
    <2>1. CASE lease'[t] = None
      BY <2>1 DEF LeaseInv
    <2>2. CASE lease'[t] # None
      <3>1. /\ lease'[t].client = lease[t].client /\ lease'[t].generation = lease[t].generation
            /\ lease[t] \in Lease /\ LeaseInv(t) /\ lease[t] # None
        BY <1>1, <2>2 DEF RequestSessionInv, TypeInv
      <3>2. lease[t].generation \in Nat
        BY <3>1 DEF Lease
      <3> QED  BY <1>1, <3>1, <3>2 DEF LeaseInv
    <2> QED  BY <2>1, <2>2
  <1>6. \A t \in Threads : \A c : Holds(t, c)' => Holds(t, c)
    BY DEF Holds
  <1> QED  BY <1>2, <1>3, <1>4, <1>5, <1>6 DEF RequestSessionInv

\* A step that changes neither the pool nor the settings under which clients are kept.
LEMMA PoolKept ==
  ASSUME RequestSessionInv, UNCHANGED <<poolVars, clients_created>>, snapshots' \in Nat,
         current_snapshot' \in Snapshot, current_snapshot'.config = current_snapshot.config,
         captured' \in [Threads -> CaptureSet \cup {None}],
         lease' \in [Threads -> Lease \cup {None}],
         \A t \in Threads : CaptureInv(t)',
         \A t \in Threads : lease[t] # None /\ lease'[t] # None =>
             /\ lease'[t].client = lease[t].client /\ lease'[t].generation = lease[t].generation
             /\ lease'[t].reuse_mode = lease[t].reuse_mode
             /\ lease'[t].http_util = lease[t].http_util,
         \A t \in Threads : lease[t] = None => lease'[t] = None
  PROVE  RequestSessionInv'
  <1>1. TypeInv'
    BY DEF RequestSessionInv, TypeInv, poolVars
  <1>2. UNCHANGED <<client_generation, idle_clients, stale>>
    BY DEF poolVars
  <1>3. \A t \in Threads : \A c : Holds(t, c)' => Holds(t, c)
    BY DEF Holds
  <1>4. ASSUME NEW t \in Threads PROVE LeaseInv(t)'
    BY <1>2 DEF RequestSessionInv, LeaseInv, Fits
  <1>5. ASSUME NEW i \in DOMAIN idle_clients' PROVE IdleInv(i)'
    BY <1>2, <1>3 DEF RequestSessionInv, IdleInv, Fits
  <1> QED  BY <1>1, <1>2, <1>3, <1>4, <1>5 DEF RequestSessionInv

\* A request captures the settings and their generation.
LEMMA CapturePreserves ==
  ASSUME RequestSessionInv, NEW t \in Threads, CaptureStep(t)
  PROVE  RequestSessionInv'
  <1> DEFINE c == [snapshot |-> current_snapshot, client_generation |-> client_generation]
  <1>1. /\ TypeInv /\ captured' = [captured EXCEPT ![t] = c]
        /\ UNCHANGED <<current_snapshot, poolVars, lease, clients_created, snapshots>>
    BY DEF RequestSessionInv, CaptureStep, Capture
  <1>2. c \in CaptureSet /\ c.snapshot = current_snapshot /\ c.client_generation = client_generation
    BY <1>1 DEF TypeInv, CaptureSet
  <1> HIDE DEF c
  <1>3. captured' \in [Threads -> CaptureSet \cup {None}]
    BY <1>1, <1>2 DEF TypeInv
  <1>4. ASSUME NEW u \in Threads PROVE CaptureInv(u)'
    <2>1. client_generation \in Nat /\ UNCHANGED <<client_generation, current_snapshot>>
      BY <1>1 DEF TypeInv, poolVars
    <2>2. CaptureInv(u) /\ captured'[u] = IF u = t THEN c ELSE captured[u]
      BY <1>1 DEF RequestSessionInv, TypeInv
    <2> QED  BY <1>2, <2>1, <2>2 DEF CaptureInv
  <1> QED  BY <1>1, <1>3, <1>4, PoolKept DEF TypeInv

\* A snapshot whose clients do not fit the old settings drops them.
LEMMA PublishPreserves ==
  ASSUME RequestSessionInv, NEW t \in Threads, PublishStep(t)
  PROVE  RequestSessionInv'
  <1>1. TypeInv /\ UNCHANGED <<lease, clients_created>> /\ snapshots' \in Nat
    BY DEF RequestSessionInv, TypeInv, PublishStep
  <1>2. PICK config \in Configs, published \in BOOLEAN :
          TryPublish(captured[t].snapshot, [id |-> snapshots + 1, config |-> config], published)
    BY DEF PublishStep
  <1> DEFINE r == [id |-> snapshots + 1, config |-> config]
  <1>3. r \in Snapshot /\ r.config = config
    BY <1>1 DEF TypeInv, Snapshot
  <1>4. TryPublish(captured[t].snapshot, r, published)
    BY <1>2
  <1> HIDE DEF r
  <1>5. /\ captured' \in [Threads -> CaptureSet \cup {None}]
        /\ \A u \in Threads : captured'[u] = captured[u] \/ captured'[u] = None
    BY <1>1 DEF PublishStep, TypeInv
  <1>6. current_snapshot' \in Snapshot
    BY <1>1, <1>3, <1>4 DEF TryPublish, TypeInv
  <1>7. CASE DropClients
    BY <1>1, <1>5, <1>6, <1>7, DropPreserves DEF TypeInv
  <1>8. CASE UNCHANGED poolVars /\ ~(published /\ ~CanReuseClientsWith(current_snapshot, r))
    <2>1. current_snapshot'.config = current_snapshot.config
      BY <1>4, <1>8 DEF TryPublish, CanReuseClientsWith
    <2>2. ASSUME NEW u \in Threads PROVE CaptureInv(u)'
      BY <1>5, <1>8, <2>1 DEF RequestSessionInv, CaptureInv, poolVars
    <2> QED  BY <1>1, <1>5, <1>6, <1>8, <2>1, <2>2, PoolKept DEF TypeInv
  <1> QED  BY <1>4, <1>7, <1>8 DEF TryPublish

\* A lease loses its reusable flag, alone or with the clients of the session.
LEMMA InvalidateLeaseEffect ==
  ASSUME TypeInv, NEW t \in Threads, lease[t] # None, InvalidateLease(t)
  PROVE  /\ lease' \in [Threads -> Lease \cup {None}]
         /\ \A u \in Threads : lease[u] = None => lease'[u] = None
         /\ \A u \in Threads : lease[u] # None =>
               /\ lease'[u].client = lease[u].client /\ lease'[u].generation = lease[u].generation
               /\ lease'[u].reuse_mode = lease[u].reuse_mode
               /\ lease'[u].http_util = lease[u].http_util
  <1> DEFINE l == [lease[t] EXCEPT !.reusable = FALSE]
  <1>1. lease[t] \in Lease /\ lease' = [lease EXCEPT ![t] = l]
    BY DEF TypeInv, InvalidateLease
  <1>2. /\ l \in Lease /\ l.client = lease[t].client /\ l.generation = lease[t].generation
        /\ l.reuse_mode = lease[t].reuse_mode /\ l.http_util = lease[t].http_util
    BY <1>1 DEF Lease
  <1> HIDE DEF l
  <1>3. \A u \in Threads : lease'[u] = IF u = t THEN l ELSE lease[u]
    BY <1>1 DEF TypeInv
  <1>4. lease' \in [Threads -> Lease \cup {None}]
    BY <1>1, <1>2 DEF TypeInv
  <1> QED  BY <1>2, <1>3, <1>4

\* A failed request invalidates its lease alone.
LEMMA RequestErrorPreserves ==
  ASSUME RequestSessionInv, NEW t \in Threads, RequestErrorStep(t)
  PROVE  RequestSessionInv'
  <1>1. /\ TypeInv /\ lease[t] # None /\ InvalidateLease(t)
        /\ UNCHANGED <<current_snapshot, poolVars, captured, clients_created, snapshots>>
    BY DEF RequestSessionInv, RequestErrorStep
  <1>2. ASSUME NEW u \in Threads PROVE CaptureInv(u)'
    BY <1>1 DEF RequestSessionInv, CaptureInv, poolVars
  <1> QED  BY <1>1, <1>2, InvalidateLeaseEffect, PoolKept DEF TypeInv

\* A timed-out request drops every idle client too.
LEMMA RequestTimeoutPreserves ==
  ASSUME RequestSessionInv, NEW t \in Threads, RequestTimeoutStep(t)
  PROVE  RequestSessionInv'
  <1>1. /\ TypeInv /\ lease[t] # None /\ InvalidateLease(t) /\ DropClients
        /\ UNCHANGED <<current_snapshot, captured, clients_created, snapshots>>
    BY DEF RequestSessionInv, RequestTimeoutStep, InvalidateClients
  <1> QED  BY <1>1, InvalidateLeaseEffect, DropPreserves DEF TypeInv

\* A thread gets a lease on a client that nobody else has any more.
LEMMA LeasePreserves ==
  ASSUME RequestSessionInv, NEW t \in Threads, lease[t] = None, NEW l \in Lease,
         lease' = [lease EXCEPT ![t] = l], clients_created' \in Nat, clients_created <= clients_created',
         UNCHANGED <<current_snapshot, client_generation, captured, snapshots, stale>>,
         idle_clients' \in Seq(IdleClient),
         \A i \in DOMAIN idle_clients' : \E k \in DOMAIN idle_clients : idle_clients'[i] = idle_clients[k],
         \A i, j \in DOMAIN idle_clients' : idle_clients'[i].client = idle_clients'[j].client => i = j,
         LeaseInv(t)',
         l.client # None => \A u \in Threads : ~Holds(u, l.client),
         l.client # None => \A i \in DOMAIN idle_clients' : idle_clients'[i].client # l.client
  PROVE  RequestSessionInv'
  <1>1. TypeInv /\ clients_created \in Nat /\ stale \subseteq 1..clients_created
    BY DEF RequestSessionInv, TypeInv
  <1>2. 1..clients_created \subseteq 1..clients_created'
    BY <1>1
  <1>3. TypeInv'
    BY <1>1, <1>2 DEF TypeInv
  <1>4. \A u \in Threads : lease'[u] = IF u = t THEN l ELSE lease[u]
    BY <1>1 DEF TypeInv
  <1>5. \A u \in Threads : \A c : Holds(u, c)' <=> IF u = t THEN c = l.client /\ c # None /\ l # None
                                                  ELSE Holds(u, c)
    BY <1>4 DEF Holds
  <1>6. ASSUME NEW u \in Threads PROVE CaptureInv(u)' /\ LeaseInv(u)'
    <2>1. CaptureInv(u)'
      BY DEF RequestSessionInv, CaptureInv
    <2>2. CASE u # t
      BY <1>2, <1>4, <2>1, <2>2 DEF RequestSessionInv, LeaseInv, Fits
    <2> QED  BY <2>1, <2>2
  <1>7. ASSUME NEW i \in DOMAIN idle_clients' PROVE IdleInv(i)'
    <2>1. PICK k \in DOMAIN idle_clients : idle_clients'[i] = idle_clients[k]
      OBVIOUS
    <2>2. IdleInv(k)
      BY DEF RequestSessionInv
    <2> QED  BY <1>2, <1>5, <2>1, <2>2 DEF IdleInv, Fits
  <1>8. ASSUME NEW u \in Threads, NEW v \in Threads, NEW c, Holds(u, c)', Holds(v, c)' PROVE u = v
    <2>1. \A w \in Threads : \A d : Holds(w, d) => d \in 1..clients_created
      BY DEF RequestSessionInv, LeaseInv, Holds
    <2> QED  BY <1>5, <1>8, <2>1 DEF RequestSessionInv
  <1> QED  BY <1>3, <1>6, <1>7, <1>8 DEF RequestSessionInv

\* The newest fitting idle client, a new one, or none.
LEMMA AcquirePreserves ==
  ASSUME RequestSessionInv, NEW t \in Threads, AcquireStep(t)
  PROVE  RequestSessionInv'
  <1>1. PICK url \in Urls : AcquireClient(t, url)
    BY DEF AcquireStep
  <1> DEFINE capture == captured[t]
             fitting == Reusable(capture, url)
  <1>2. /\ TypeInv /\ lease[t] = None /\ capture \in CaptureSet /\ CaptureInv(t) /\ capture # None
        /\ UNCHANGED <<current_snapshot, client_generation, captured, snapshots, stale>>
        /\ clients_created \in Nat /\ client_generation \in Nat /\ stale \subseteq 1..clients_created
    BY <1>1 DEF RequestSessionInv, TypeInv, AcquireStep, AcquireClient
  <1>3. /\ capture.snapshot.config \in Configs /\ capture.client_generation \in Nat
        /\ capture.client_generation <= client_generation
        /\ capture.client_generation = client_generation =>
              capture.snapshot.config = current_snapshot.config
    BY <1>2 DEF CaptureSet, Snapshot, CaptureInv
  <1>4. capture.snapshot.config.http_util \in Utils /\ capture.snapshot.config.reuse_mode \in Modes
    BY <1>3, RequestSessionAssumption DEF RequestSessionAssumption, Utils, Modes
  <1>5. ASSUME NEW c \in Nat \cup {None}
        PROVE  LET l == NewLease(capture, url, c)
               IN  /\ l \in Lease /\ l.client = c /\ l.generation = capture.client_generation
                   /\ l.http_util = capture.snapshot.config.http_util
                   /\ l.reuse_mode = capture.snapshot.config.reuse_mode
    BY <1>3, <1>4 DEF NewLease, Lease
  <1>6. ASSUME NEW l \in Lease, NEW c \in Nat \cup {None}, l.client = c,
               l.generation = capture.client_generation,
               l.http_util = capture.snapshot.config.http_util,
               l.reuse_mode = capture.snapshot.config.reuse_mode,
               lease' = [lease EXCEPT ![t] = l], c # None => c \in 1..clients_created' /\ c \notin stale
        PROVE  LeaseInv(t)'
    <2>1. lease'[t] = l
      BY <1>2, <1>6 DEF TypeInv
    <2> QED  BY <1>2, <1>3, <1>6, <2>1 DEF LeaseInv, Fits
  <1>7. DOMAIN idle_clients = 1..Len(idle_clients) /\ Len(idle_clients) \in Nat
        /\ idle_clients \in Seq(IdleClient)
    BY <1>2 DEF TypeInv
  <1>8. CASE /\ fitting # {}
             /\ lease' = [lease EXCEPT ![t] =
                             NewLease(capture, url, idle_clients[Max(fitting)].client)]
             /\ idle_clients' = Taken(Max(fitting))
             /\ UNCHANGED clients_created
    <2> DEFINE m == Max(fitting)
               c == idle_clients[m].client
               l == NewLease(capture, url, c)
    <2>1. m \in DOMAIN idle_clients
      <3>1. fitting \in SUBSET (0..Len(idle_clients))
        BY <1>7 DEF Reusable
      <3>2. m \in fitting
        BY <1>7, <1>8, <3>1, MaxMember
      <3> QED  BY <3>2 DEF Reusable
    <2> HIDE DEF m
    <2>2. idle_clients[m] \in IdleClient /\ c \in Nat /\ IdleInv(m)
      BY <1>2, <2>1, IdleDomain DEF RequestSessionInv, IdleClient
    <2>3. /\ l \in Lease /\ l.client = c /\ l.generation = capture.client_generation
          /\ l.http_util = capture.snapshot.config.http_util
          /\ l.reuse_mode = capture.snapshot.config.reuse_mode
      BY <1>5, <2>2
    <2>4. lease' = [lease EXCEPT ![t] = l] /\ idle_clients' = RemoveAt(idle_clients, m)
      BY <1>8 DEF m, Taken
    <2> HIDE DEF l, c
    <2>5. /\ idle_clients' \in Seq(IdleClient) /\ Len(idle_clients') = Len(idle_clients) - 1
          /\ \A j \in 1..Len(idle_clients) - 1 :
                idle_clients'[j] = IF j < m THEN idle_clients[j] ELSE idle_clients[j + 1]
      BY <1>7, <2>1, <2>4, RemoveAtProperties
    <2>6. DOMAIN idle_clients' = 1..Len(idle_clients) - 1 /\ m \in 1..Len(idle_clients)
      BY <1>7, <2>1, <2>5
    <2>7. \A j \in DOMAIN idle_clients' :
             LET k == IF j < m THEN j ELSE j + 1
             IN  k \in DOMAIN idle_clients /\ k # m /\ idle_clients'[j] = idle_clients[k]
      BY <1>7, <2>5, <2>6
    <2>8. \A i, j \in DOMAIN idle_clients : idle_clients[i].client = idle_clients[j].client => i = j
      BY DEF RequestSessionInv
    <2>9. \A i, j \in DOMAIN idle_clients' : idle_clients'[i].client = idle_clients'[j].client => i = j
      BY <2>6, <2>7, <2>8
    <2>10. \A i \in DOMAIN idle_clients' : idle_clients'[i].client # c
      BY <2>1, <2>7, <2>8 DEF c
    <2>11. /\ c \in 1..clients_created' /\ c \notin stale
           /\ \A u \in Threads : ~Holds(u, c)
      BY <1>8, <2>2 DEF IdleInv, c
    <2>12. LeaseInv(t)'
      BY <1>6, <2>2, <2>3, <2>4, <2>11
    <2>13. \A i \in DOMAIN idle_clients' : \E k \in DOMAIN idle_clients : idle_clients'[i] = idle_clients[k]
      BY <2>7
    <2>14. clients_created' \in Nat /\ clients_created <= clients_created'
      BY <1>2, <1>8
    <2> QED  BY <1>2, <2>3, <2>4, <2>5, <2>9, <2>10, <2>11, <2>12, <2>13, <2>14, LeasePreserves
  <1>9. CASE /\ clients_created' = clients_created + 1
             /\ lease' = [lease EXCEPT ![t] = NewLease(capture, url, clients_created + 1)]
             /\ UNCHANGED idle_clients
    <2> DEFINE c == clients_created + 1
               l == NewLease(capture, url, c)
    <2>1. c \in Nat /\ clients_created' \in Nat /\ clients_created <= clients_created' /\ c \in 1..clients_created' /\ c \notin 1..clients_created
      BY <1>2, <1>9
    <2>2. /\ l \in Lease /\ l.client = c /\ l.generation = capture.client_generation
          /\ l.http_util = capture.snapshot.config.http_util
          /\ l.reuse_mode = capture.snapshot.config.reuse_mode
      BY <1>5, <2>1
    <2>3. lease' = [lease EXCEPT ![t] = l]
      BY <1>9
    <2> HIDE DEF l, c
    <2>4. \A u \in Threads : ~Holds(u, c)
      BY <2>1 DEF RequestSessionInv, LeaseInv, Holds
    <2>5. \A i \in DOMAIN idle_clients' : idle_clients'[i].client # c
      BY <1>9, <2>1 DEF RequestSessionInv, IdleInv
    <2>6. LeaseInv(t)'
      BY <1>2, <1>6, <2>1, <2>2, <2>3
    <2>7. /\ \A i \in DOMAIN idle_clients' : \E k \in DOMAIN idle_clients : idle_clients'[i] = idle_clients[k]
          /\ \A i, j \in DOMAIN idle_clients' : idle_clients'[i].client = idle_clients'[j].client => i = j
          /\ idle_clients' \in Seq(IdleClient)
      BY <1>7, <1>9 DEF RequestSessionInv
    <2> QED  BY <1>2, <2>1, <2>2, <2>3, <2>4, <2>5, <2>6, <2>7, LeasePreserves
  <1>10. CASE /\ lease' = [lease EXCEPT ![t] = NewLease(capture, url, None)]
              /\ UNCHANGED <<idle_clients, clients_created>>
    <2> DEFINE l == NewLease(capture, url, None)
    <2>1. /\ l \in Lease /\ l.client = None /\ l.generation = capture.client_generation
          /\ l.http_util = capture.snapshot.config.http_util
          /\ l.reuse_mode = capture.snapshot.config.reuse_mode
      BY <1>5
    <2>2. lease' = [lease EXCEPT ![t] = l]
      BY <1>10
    <2> HIDE DEF l
    <2>3. LeaseInv(t)'
      BY <1>6, <2>1, <2>2
    <2>4. /\ \A i \in DOMAIN idle_clients' : \E k \in DOMAIN idle_clients : idle_clients'[i] = idle_clients[k]
          /\ \A i, j \in DOMAIN idle_clients' : idle_clients'[i].client = idle_clients'[j].client => i = j
          /\ idle_clients' \in Seq(IdleClient) /\ clients_created' \in Nat /\ clients_created <= clients_created'
      BY <1>2, <1>7, <1>10 DEF RequestSessionInv
    <2> QED  BY <1>2, <2>1, <2>2, <2>3, <2>4, LeasePreserves
  <1> QED  BY <1>1, <1>8, <1>9, <1>10 DEF AcquireClient

\* A client that is still good joins the idle ones.
LEMMA ReleasePreserves ==
  ASSUME RequestSessionInv, NEW t \in Threads, ReleaseStep(t)
  PROVE  RequestSessionInv'
  <1> DEFINE l == [lease[t] EXCEPT !.reusable = @ /\ TRUE]
             e == [client |-> l.client, http_util |-> l.http_util, url |-> l.url]
  <1>1. /\ TypeInv /\ lease[t] \in Lease /\ lease[t] # None /\ LeaseInv(t)
        /\ UNCHANGED <<current_snapshot, client_generation, clients_created, snapshots, stale>>
        /\ captured' = [captured EXCEPT ![t] = None]
        /\ lease' = [lease EXCEPT ![t] = None]
        /\ idle_clients' = IF KeepsClient(l) THEN Append(idle_clients, e) ELSE idle_clients
    BY DEF RequestSessionInv, TypeInv, ReleaseStep, ReturnLease
  <1>2. /\ l.client = lease[t].client /\ l.http_util = lease[t].http_util /\ l.url = lease[t].url
        /\ l.reuse_mode = lease[t].reuse_mode /\ l.generation = lease[t].generation
    BY <1>1 DEF Lease
  <1> HIDE DEF l
  <1>3. /\ captured' \in [Threads -> CaptureSet \cup {None}]
        /\ lease' \in [Threads -> Lease \cup {None}]
        /\ \A u \in Threads : captured'[u] = IF u = t THEN None ELSE captured[u]
        /\ \A u \in Threads : lease'[u] = IF u = t THEN None ELSE lease[u]
    BY <1>1 DEF TypeInv
  <1>4. \A u \in Threads : \A c : Holds(u, c)' => Holds(u, c) /\ u # t
    BY <1>3 DEF Holds
  <1>5. ASSUME NEW u \in Threads PROVE CaptureInv(u)' /\ LeaseInv(u)'
    BY <1>1, <1>3 DEF RequestSessionInv, CaptureInv, LeaseInv, Fits
  <1>6. DOMAIN idle_clients = 1..Len(idle_clients) /\ Len(idle_clients) \in Nat
        /\ idle_clients \in Seq(IdleClient)
    BY <1>1 DEF TypeInv
  <1>7. CASE ~KeepsClient(l)
    <2>1. idle_clients' = idle_clients
      BY <1>1, <1>7
    <2>2. TypeInv'
      BY <1>1, <1>3, <2>1 DEF TypeInv
    <2>3. ASSUME NEW i \in DOMAIN idle_clients' PROVE IdleInv(i)'
      BY <1>1, <1>4, <2>1 DEF RequestSessionInv, IdleInv, Fits
    <2> QED  BY <1>1, <1>4, <1>5, <2>1, <2>2, <2>3 DEF RequestSessionInv
  <1>8. CASE KeepsClient(l)
    <2>1. /\ l.client # None /\ l.reuse_mode = "SESSION_LOCAL" /\ l.generation = client_generation
          /\ idle_clients' = Append(idle_clients, e)
      BY <1>1, <1>8 DEF KeepsClient
    <2>2. /\ l.client \in 1..clients_created /\ l.client \notin stale /\ Fits(l.http_util)
          /\ Holds(t, l.client)
      BY <1>1, <1>2, <2>1 DEF LeaseInv, Holds
    <2>3. e \in IdleClient /\ e.client = l.client /\ e.http_util = l.http_util
      BY <1>1, <1>2, <2>2 DEF IdleClient, Lease, TypeInv
    <2> HIDE DEF e
    <2>4. /\ idle_clients' \in Seq(IdleClient) /\ Len(idle_clients') = Len(idle_clients) + 1
          /\ \A i \in 1..Len(idle_clients) : idle_clients'[i] = idle_clients[i]
          /\ idle_clients'[Len(idle_clients) + 1] = e
          /\ DOMAIN idle_clients' = 1..Len(idle_clients) + 1
      BY <1>6, <2>1, <2>3, AppendProperties
    <2>5. TypeInv'
      BY <1>1, <1>3, <2>4 DEF TypeInv
    <2>6. \A i \in DOMAIN idle_clients : idle_clients[i].client # l.client
      BY <2>2 DEF RequestSessionInv, IdleInv
    <2>7. \A u \in Threads : u # t => ~Holds(u, l.client)
      BY <2>2 DEF RequestSessionInv
    <2>8. ASSUME NEW i \in DOMAIN idle_clients' PROVE IdleInv(i)'
      <3>1. CASE i \in DOMAIN idle_clients
        BY <1>1, <1>4, <1>6, <2>4, <3>1 DEF RequestSessionInv, IdleInv, Fits
      <3>2. CASE i = Len(idle_clients) + 1
        BY <1>1, <1>4, <2>2, <2>3, <2>4, <2>7, <3>2 DEF IdleInv, Fits
      <3> QED  BY <1>6, <2>4, <3>1, <3>2
    <2>9. ASSUME NEW i \in DOMAIN idle_clients', NEW j \in DOMAIN idle_clients',
                 idle_clients'[i].client = idle_clients'[j].client
          PROVE  i = j
      <3>1. \A k \in DOMAIN idle_clients' : k \in DOMAIN idle_clients \/ k = Len(idle_clients) + 1
        BY <1>6, <2>4
      <3>2. \A k, m \in DOMAIN idle_clients : idle_clients[k].client = idle_clients[m].client => k = m
        BY DEF RequestSessionInv
      <3> QED  BY <1>6, <2>3, <2>4, <2>6, <2>9, <3>1, <3>2
    <2> QED  BY <1>1, <1>4, <1>5, <2>5, <2>8, <2>9 DEF RequestSessionInv
  <1> QED  BY <1>7, <1>8

-----------------------------------------------------------------------------
(* The theorems. *)

\* The invariant holds at first,
LEMMA InitInv ==
  ASSUME NEW config \in Configs, SessionInit(config)
  PROVE  RequestSessionInv
  <1>1. current_snapshot \in Snapshot /\ idle_clients \in Seq(IdleClient) /\ DOMAIN idle_clients = {}
    BY DEF SessionInit, Snapshot
  <1>2. \A t \in Threads : captured[t] = None /\ lease[t] = None
    BY DEF SessionInit
  <1> QED  BY <1>1, <1>2 DEF SessionInit, RequestSessionInv, TypeInv, CaptureInv, LeaseInv, Holds

\* and every step of the session preserves it.
LEMMA NextInv == RequestSessionInv /\ [SessionNext]_sessionVars => RequestSessionInv'
  <1> SUFFICES ASSUME RequestSessionInv, [SessionNext]_sessionVars PROVE RequestSessionInv'
    OBVIOUS
  <1>1. CASE SessionNext
    BY <1>1, CapturePreserves, PublishPreserves, AcquirePreserves, RequestErrorPreserves,
       RequestTimeoutPreserves, ReleasePreserves DEF SessionNext
  <1>2. CASE UNCHANGED sessionVars
    <2>1. UNCHANGED <<current_snapshot, client_generation, idle_clients, stale, captured, lease,
                      clients_created, snapshots>>
      BY <1>2 DEF sessionVars, poolVars
    <2> QED  BY <2>1 DEF RequestSessionInv, TypeInv, CaptureInv, LeaseInv, IdleInv, Fits, Holds
  <1> QED  BY <1>1, <1>2

\* Captures, leases and idle clients of the current generation belong to the current
\* settings, for any number of threads, urls and settings.
THEOREM RequestSessionInvariant == SessionSpec => []RequestSessionInv
  <1>1. (\E config \in Configs : SessionInit(config)) => RequestSessionInv
    BY InitInv
  <1> QED  BY <1>1, NextInv, PTL DEF SessionSpec

\* No client that was there at an invalidation, or that was made for other settings, is
\* ever handed to another request.
THEOREM StaleClientsAreDropped == SessionSpec => []NoStaleClientReused
  <1>1. RequestSessionInv => NoStaleClientReused
    BY DEF RequestSessionInv, IdleInv, Fits, NoStaleClientReused, Idle
  <1> QED  BY <1>1, RequestSessionInvariant, PTL

\* A client is in the idle list once or in one request, never both: two requests do not
\* share a connection.
THEOREM ClientsHaveOneOwner == SessionSpec => []ClientOwnedOnce
  <1>1. ASSUME RequestSessionInv PROVE ClientOwnedOnce
    <2>1. /\ TypeInv /\ Len(idle_clients) \in Nat /\ DOMAIN idle_clients = 1..Len(idle_clients)
      BY <1>1, IdleDomain DEF RequestSessionInv
    <2>2. Cardinality(Idle) = Len(idle_clients)
      <3> DEFINE f == [i \in 1..Len(idle_clients) |-> idle_clients[i].client]
      <3>1. f \in [1..Len(idle_clients) -> Idle]
        BY <2>1 DEF Idle
      <3>2. \A i, j \in 1..Len(idle_clients) : f[i] = f[j] => i = j
        BY <1>1, <2>1 DEF RequestSessionInv
      <3>3. \A c \in Idle : \E i \in 1..Len(idle_clients) : f[i] = c
        BY <2>1 DEF Idle
      <3>4. f \in Bijection(1..Len(idle_clients), Idle)
        BY <3>1, <3>2, <3>3 DEF Bijection, Injection, Surjection, IsInjective
      <3> QED  BY <2>1, <3>4, FS_CountingElements DEF ExistsBijection
    <2>3. Idle \cap Leased = {}
      BY <1>1 DEF RequestSessionInv, IdleInv, Holds, Idle, Leased
    <2>4. ASSUME NEW t \in Threads, NEW u \in Threads, lease[t] # None, lease[u] # None,
                 lease[t].client = lease[u].client, lease[t].client # None
          PROVE  t = u
      <3>1. Holds(t, lease[t].client) /\ Holds(u, lease[t].client) /\ lease[t].client \in 1..clients_created
        BY <1>1, <2>4 DEF RequestSessionInv, LeaseInv, Holds
      <3> QED  BY <1>1, <3>1 DEF RequestSessionInv
    <2> QED  BY <2>2, <2>3, <2>4 DEF ClientOwnedOnce
  <1> QED  BY <1>1, RequestSessionInvariant, PTL
=============================================================================
