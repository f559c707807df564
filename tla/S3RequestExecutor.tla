--------------------------- MODULE S3RequestExecutor ---------------------------
(****************************************************************************)
(* S3RequestExecutor (src/s3/s3_request.cpp): requests of several threads     *)
(* over one HTTPRequestSession.  A request that fails for its credentials or  *)
(* its region publishes a corrected snapshot to the session and is repeated.  *)
(*                                                                          *)
(* A snapshot is signed with a key, a number that grows with every renewal of *)
(* the secret, which other connections may renew as well.  Each access to the *)
(* session, to the secret and to the store is an action of its own.           *)
(****************************************************************************)
EXTENDS HTTPRequestSession

CONSTANTS
    Methods,        \* records [request_type, post_request_mode]
    Regions,        \* regions a secret may name
    BucketRegion,   \* the region the store answers in
    Retries,        \* http_params.retries
    MaxRuns,        \* bound: requests made
    MaxKeys,        \* bound: the last key that can be issued
    MaxExpired,     \* bound: the keys below this one may expire
    MaxDenials      \* bound: 403 answers that have nothing to do with the key

ASSUME ExecutorAssumption ==
    /\ BucketRegion \in Regions
    /\ \A m \in Methods :
          /\ m.request_type \in {"GET", "HEAD", "PUT", "DELETE", "POST"}
          /\ m.post_request_mode \in {"DEFAULT", "RETRY_RECEIVED_RESPONSES"}
    /\ {Retries, MaxRuns, MaxKeys, MaxExpired, MaxDenials} \subseteq Nat

VARIABLES
    secret,                     \* the secret manager's entry: [key, region]
    expired,                    \* the keys the store no longer accepts
    credential_refresh_mutex,   \* None or the thread that holds it
    pc,
    run,                        \* the local variables of Run and of its callbacks
    applied,                    \* history: times the store applied a run's request
    issued,                     \* history: keys obtained from the provider, per key replaced
    withheld,                   \* history: the provider gave no new key
    denials,                    \* history: 403 answers for other reasons
    runs                        \* runs started

worldVars    == <<secret, expired, issued, withheld, denials, runs>>
idleVars     == <<poolVars, captured, lease, clients_created>>
publishVars  == <<current_snapshot, snapshots, idleVars>>
executorVars == <<publishVars, worldVars, credential_refresh_mutex, pc, run, applied>>

NoRun == [method |-> CHOOSE m \in Methods : TRUE, data |-> None, response |-> {},
          retried_auth_refresh |-> FALSE, retried_region |-> FALSE, transient_retries |-> 0,
          current |-> None, refreshed |-> None]

\* CreateSession, or the opening of a handle: the snapshot holds the secret's material.
ExecutorInit ==
    /\ \E config \in Configs, region \in Regions, enabled \in BOOLEAN :
          /\ secret = [key |-> 0, region |-> region]
          /\ current_snapshot = [id |-> 0, config |-> config, key |-> 0, region |-> region,
                                 region_redirected |-> FALSE, credential_generation |-> 0,
                                 credential_refresh_enabled |-> enabled]
    /\ client_generation = 0 /\ idle_clients = <<>> /\ stale = {}
    /\ captured = [t \in Threads |-> None] /\ lease = [t \in Threads |-> None]
    /\ clients_created = 0 /\ snapshots = 0
    /\ expired = {}
    /\ credential_refresh_mutex = None
    /\ pc = [t \in Threads |-> "Idle"]
    /\ run = [t \in Threads |-> NoRun]
    /\ applied = [t \in Threads |-> 0]
    /\ issued = [k \in 0..MaxKeys |-> 0]
    /\ withheld = FALSE
    /\ denials = 0
    /\ runs = 0

-----------------------------------------------------------------------------
(* The retry loop. *)

Goto(t, label) == pc' = [pc EXCEPT ![t] = label]

CallRun(t) ==
    /\ pc[t] = "Idle"
    /\ runs < MaxRuns
    /\ runs' = runs + 1
    /\ \E m \in Methods : run' = [run EXCEPT ![t] = [NoRun EXCEPT !.method = m]]
    /\ applied' = [applied EXCEPT ![t] = 0]
    /\ Goto(t, "CreateRequestData")
    /\ UNCHANGED <<publishVars, secret, expired, issued, withheld, denials,
                   credential_refresh_mutex>>

CreateRequestData(t) ==
    /\ pc[t] = "CreateRequestData"
    /\ run' = [run EXCEPT ![t].data = current_snapshot]
    /\ Goto(t, "Request")
    /\ UNCHANGED <<publishVars, worldVars, credential_refresh_mutex, applied>>

\* Mutant: a request without a response is repeated as well.
RetriesUnanswered(method, response) ==
    \/ method.request_type # "POST" /\ "RequestTimeout" \in response
    \/ response \cap {"Lost", "Retryable"} # {}

\* Statuses that are repeated as they are: never without a response, and a POST only
\* where the caller asked for it.
ShouldRetryReceivedResponse(method, response) ==
    \/ method.request_type # "POST" /\ "RequestTimeout" \in response
    \/ /\ method.post_request_mode = "RETRY_RECEIVED_RESPONSES"
       /\ response \cap {"RequestTimeout", "Retryable"} # {}

\* Mutant: repeated requests are not counted.
TransientUncounted(r) == r

Transient(r) == [r EXCEPT !.transient_retries = @ + 1]

\* What Run does with a response that needs no new credentials, or gets none.
Proceed(t, r) ==
    \/ /\ "Redirect" \in r.response /\ ~r.retried_region
       /\ run' = [run EXCEPT ![t] = r]
       /\ Goto(t, "SetSessionRegion")
    \/ /\ "Redirect" \in r.response => r.retried_region
       /\ r.transient_retries < Retries
       /\ ShouldRetryReceivedResponse(r.method, r.response)
       /\ run' = [run EXCEPT ![t] = Transient(r)]
       /\ Goto(t, "CreateRequestData")
    \/ /\ "Redirect" \in r.response => r.retried_region
       /\ r.transient_retries < Retries => ~ShouldRetryReceivedResponse(r.method, r.response)
       /\ run' = [run EXCEPT ![t] = [NoRun EXCEPT !.method = r.method, !.response = r.response]]
       /\ Goto(t, "Idle")

\* The store's answers to a request made with a snapshot.  One for an expired key may
\* name the right region as well; a lost one and a 5xx may or may not be applied.
Refusals(snapshot) ==
    (IF snapshot.key \in expired THEN {"Auth"} ELSE {}) \cup
    (IF snapshot.region # BucketRegion THEN {"Redirect"} ELSE {})

Answers(snapshot) ==
    {{"RequestTimeout"}, {"Lost"}} \cup
    (IF Refusals(snapshot) # {}
     THEN SUBSET Refusals(snapshot) \ {{}}
     ELSE {{"OK"}, {"Retryable"}, {"Error"}})

Effects(response) ==
    CASE response = {"OK"} -> {1}
      [] response \in {{"Lost"}, {"Retryable"}} -> {0, 1}
      [] OTHER -> {0}

Request(t) ==
    /\ pc[t] = "Request"
    /\ \/ \E response \in Answers(run[t].data) : \E effect \in Effects(response) :
             /\ effect = 1 => Refusals(run[t].data) = {}
             /\ applied' = [applied EXCEPT ![t] = @ + effect]
             /\ LET r == [run[t] EXCEPT !.response = response]
                IN  IF "Auth" \in response /\ ~r.retried_auth_refresh
                    THEN run' = [run EXCEPT ![t] = r] /\ Goto(t, "TryRefreshSession")
                    ELSE Proceed(t, r)
             /\ UNCHANGED denials
       \/ /\ denials < MaxDenials           \* 403 for want of permission
          /\ denials' = denials + 1
          /\ LET r == [run[t] EXCEPT !.response = {"Auth"}]
             IN  IF ~r.retried_auth_refresh
                 THEN run' = [run EXCEPT ![t] = r] /\ Goto(t, "TryRefreshSession")
                 ELSE Proceed(t, r)
          /\ UNCHANGED applied
    /\ UNCHANGED <<publishVars, secret, expired, issued, withheld, runs,
                   credential_refresh_mutex>>

-----------------------------------------------------------------------------
(* TryRefreshSession. *)

NewerCredentials(t) ==
    current_snapshot.credential_generation # run[t].data.credential_generation

\* refresh_auth_params returned true: the one refresh of this run is used up.
Refreshed(t) ==
    /\ run' = [run EXCEPT ![t] = [@ EXCEPT !.retried_auth_refresh = TRUE,
                                           !.current = None, !.refreshed = None]]
    /\ Goto(t, "CreateRequestData")

NotRefreshed(t) == Proceed(t, [run[t] EXCEPT !.current = None])

TryRefreshSession(t) ==
    /\ pc[t] = "TryRefreshSession"
    /\ \/ NewerCredentials(t) /\ Refreshed(t)
       \/ /\ ~NewerCredentials(t)
          /\ ~current_snapshot.credential_refresh_enabled
          /\ NotRefreshed(t)
       \/ /\ ~NewerCredentials(t)
          /\ current_snapshot.credential_refresh_enabled
          /\ run' = [run EXCEPT ![t].current = current_snapshot]
          /\ Goto(t, "ReloadS3AuthMaterial")
    /\ UNCHANGED <<publishVars, worldVars, credential_refresh_mutex, applied>>

\* The material of a secret as ReloadS3AuthMaterial reads it for a snapshot.
Reloaded(snapshot, s) ==
    [key |-> s.key, region |-> IF snapshot.region_redirected THEN snapshot.region ELSE s.region]

Changed(snapshot, material) ==
    material # [key |-> snapshot.key, region |-> snapshot.region]

\* The material is taken over and published next.
TakeOver(t, material) ==
    /\ run' = [run EXCEPT ![t].refreshed = material]
    /\ Goto(t, "CaptureLatest")

ReloadS3AuthMaterial(t) ==
    LET material == Reloaded(run[t].current, secret)
    IN  /\ pc[t] = "ReloadS3AuthMaterial"
        /\ \/ Changed(run[t].current, material) /\ TakeOver(t, material)
           \/ /\ ~Changed(run[t].current, material)
              /\ Goto(t, "RunCredentialRefresh")
              /\ UNCHANGED run
        /\ UNCHANGED <<publishVars, worldVars, credential_refresh_mutex, applied>>

\* Mutant: the secret is not looked at again after the wait for the mutex.
NothingReloaded(snapshot) == [key |-> snapshot.key, region |-> snapshot.region]

\* The first thing done under the mutex.
ReloadedUnderMutex(snapshot) == Reloaded(snapshot, secret)

RunCredentialRefresh(t) ==
    LET material == ReloadedUnderMutex(run[t].current)
    IN  /\ pc[t] = "RunCredentialRefresh"
        /\ credential_refresh_mutex = None
        /\ \/ /\ Changed(run[t].current, material)
              /\ TakeOver(t, material)
              /\ UNCHANGED credential_refresh_mutex
           \/ /\ ~Changed(run[t].current, material)
              /\ credential_refresh_mutex' = t
              /\ Goto(t, "TryRefreshS3Secret")
              /\ UNCHANGED run
        /\ UNCHANGED <<publishVars, worldVars, applied>>

\* The provider issues a new key; it renews the secret without one; the secret has no
\* refresh_info; or the provider throws, and so does Run.
TryRefreshS3Secret(t) ==
    LET current == run[t].current
    IN  /\ pc[t] = "TryRefreshS3Secret"
        /\ credential_refresh_mutex' = None
        /\ \/ /\ secret.key < MaxKeys
              /\ secret' = [secret EXCEPT !.key = @ + 1]
              /\ issued' = [issued EXCEPT ![current.key] = @ + 1]
              /\ TakeOver(t, Reloaded(current, secret'))
              /\ UNCHANGED withheld
           \/ /\ Changed(current, Reloaded(current, secret))
              /\ TakeOver(t, Reloaded(current, secret))
              /\ UNCHANGED <<secret, issued, withheld>>
           \/ /\ withheld' = TRUE
              /\ Goto(t, "CaptureUnchanged")
              /\ UNCHANGED <<run, secret, issued>>
           \/ /\ withheld' = TRUE
              /\ run' = [run EXCEPT ![t] = [NoRun EXCEPT !.method = run[t].method,
                                                         !.response = {"Thrown"}]]
              /\ Goto(t, "Idle")
              /\ UNCHANGED <<secret, issued>>
        /\ UNCHANGED <<publishVars, expired, denials, runs, applied>>

\* No new material: another thread may have published some meanwhile.
CaptureUnchanged(t) ==
    /\ pc[t] = "CaptureUnchanged"
    /\ IF NewerCredentials(t) THEN Refreshed(t) ELSE NotRefreshed(t)
    /\ UNCHANGED <<publishVars, worldVars, credential_refresh_mutex, applied>>

\* Mutant: the material is published whatever others have published meanwhile.
NeverSuperseded(t) == FALSE

Superseded(t) == NewerCredentials(t)

CaptureLatest(t) ==
    /\ pc[t] = "CaptureLatest"
    /\ \/ Superseded(t) /\ Refreshed(t)
       \/ /\ ~Superseded(t)
          /\ run' = [run EXCEPT ![t].current = current_snapshot]
          /\ Goto(t, "PublishCredentials")
    /\ UNCHANGED <<publishVars, worldVars, credential_refresh_mutex, applied>>

\* TryPublish of a replacement for the snapshot last captured.
Publish(t, replacement, published) ==
    /\ TryPublish(run[t].current, [replacement EXCEPT !.id = snapshots + 1], published)
    /\ snapshots' = IF published THEN snapshots + 1 ELSE snapshots
    /\ UNCHANGED <<captured, lease, clients_created>>

\* Mutant: the reloaded region replaces one the store redirected to.
MergedForgetsRedirect(latest, material) ==
    [latest EXCEPT !.key = material.key, !.region = material.region,
                   !.credential_generation = @ + 1]

MergedCredentials(latest, material) ==
    [latest EXCEPT !.key = material.key,
                   !.region = IF latest.region_redirected THEN @ ELSE material.region,
                   !.credential_generation = @ + 1]

PublishCredentials(t) ==
    /\ pc[t] = "PublishCredentials"
    /\ \E published \in BOOLEAN :
          /\ Publish(t, MergedCredentials(run[t].current, run[t].refreshed), published)
          /\ IF published THEN Refreshed(t) ELSE Goto(t, "CaptureLatest") /\ UNCHANGED run
    /\ UNCHANGED <<worldVars, credential_refresh_mutex, applied>>

-----------------------------------------------------------------------------
(* SetSessionRegion. *)

Redirected(t) ==
    /\ run' = [run EXCEPT ![t] = [@ EXCEPT !.retried_region = TRUE, !.current = None]]
    /\ Goto(t, "CreateRequestData")

SetSessionRegion(t) ==
    /\ pc[t] = "SetSessionRegion"
    /\ \/ current_snapshot.region = BucketRegion /\ Redirected(t)
       \/ /\ current_snapshot.region # BucketRegion
          /\ run' = [run EXCEPT ![t].current = current_snapshot]
          /\ Goto(t, "PublishRegion")
    /\ UNCHANGED <<publishVars, worldVars, credential_refresh_mutex, applied>>

PublishRegion(t) ==
    /\ pc[t] = "PublishRegion"
    /\ \E published \in BOOLEAN :
          /\ Publish(t, [run[t].current EXCEPT !.region = BucketRegion,
                                               !.region_redirected = TRUE], published)
          /\ IF published THEN Redirected(t)
             ELSE Goto(t, "SetSessionRegion") /\ UNCHANGED run
    /\ UNCHANGED <<worldVars, credential_refresh_mutex, applied>>

-----------------------------------------------------------------------------
(* The rest of the world. *)

\* The store stops accepting the keys issued so far.
Expire ==
    /\ secret.key < MaxExpired
    /\ secret.key \notin expired
    /\ expired' = 0..secret.key
    /\ UNCHANGED <<publishVars, secret, issued, withheld, denials, runs,
                   credential_refresh_mutex, pc, run, applied>>

\* Another connection renews the secret, under its own mutex.
RenewElsewhere ==
    /\ secret.key < MaxKeys
    /\ secret' = [secret EXCEPT !.key = @ + 1]
    /\ UNCHANGED <<publishVars, expired, issued, withheld, denials, runs,
                   credential_refresh_mutex, pc, run, applied>>

ExecutorStep(t) ==
    \/ CreateRequestData(t) \/ Request(t)
    \/ TryRefreshSession(t) \/ ReloadS3AuthMaterial(t) \/ RunCredentialRefresh(t)
    \/ TryRefreshS3Secret(t) \/ CaptureUnchanged(t) \/ CaptureLatest(t)
    \/ PublishCredentials(t) \/ SetSessionRegion(t) \/ PublishRegion(t)

ExecutorNext ==
    \/ \E t \in Threads : CallRun(t) \/ ExecutorStep(t)
    \/ Expire \/ RenewElsewhere

ExecutorSpec == ExecutorInit /\ [][ExecutorNext]_executorVars

\* Threads that can run do run and requests are answered or time out.
ExecutorFairSpec == ExecutorSpec /\ \A t \in Threads : WF_executorVars(ExecutorStep(t))

-----------------------------------------------------------------------------
(* Properties. *)

\* A region the store redirected to is not lost to a refresh that started before the
\* redirect and publishes after it, nor to the secret's own region.
RedirectSurvivesRefresh ==
    current_snapshot.region_redirected => current_snapshot.region = BucketRegion

\* However many threads fail with one key, the provider issues one key in its place.
RefreshedOncePerKey == \A k \in DOMAIN issued : issued[k] <= 1

\* A POST in the default mode (initiation of an upload, bulk delete) is not repeated
\* once the store may have applied it.
PostAppliedOnce == \A t \in Threads :
    run[t].method = [request_type |-> "POST", post_request_mode |-> "DEFAULT"] => applied[t] <= 1

\* A caller never sees the error of a wrong region, and that of an expired key only if
\* refreshing is off, gave no key, was used up by a 403 of another kind, or a second
\* key expired as well: one refresh and one redirect, in either order, are enough.
OneRetryIsEnough == \A t \in Threads :
    pc[t] = "Idle" =>
        /\ "Redirect" \notin run[t].response
        /\ "Auth" \in run[t].response =>
              \/ ~current_snapshot.credential_refresh_enabled
              \/ withheld
              \/ denials > 0
              \/ \E k \in expired : k > 0

\* The session's credentials are never replaced by older ones.
CredentialsNeverGoBack == [][current_snapshot'.key >= current_snapshot.key]_executorVars

\* Every request ends: the mutex is free again, the publication loops win or find
\* their work done, and retries are bounded.
RunReturns == \A t \in Threads : pc[t] # "Idle" ~> pc[t] = "Idle"
=============================================================================
