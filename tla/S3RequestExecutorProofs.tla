------------------------ MODULE S3RequestExecutorProofs ------------------------
(****************************************************************************)
(* The inductive invariant of S3RequestExecutor and what follows from it.     *)
(*                                                                          *)
(* Two histories hold everything together: the snapshots a session publishes  *)
(* form a sequence in which generation and key only grow and a redirect is    *)
(* never taken back (Earlier), and the material a thread is about to publish  *)
(* is newer than the snapshot its request failed with (NewMaterial).          *)
(****************************************************************************)
EXTENDS S3RequestExecutor, TLAPS

Snapshot == [id : Nat, config : Configs, key : Nat, region : Regions,
             region_redirected : BOOLEAN, credential_generation : Nat,
             credential_refresh_enabled : BOOLEAN]

Material == [key : Nat, region : Regions]

Responses == {"OK", "Lost", "RequestTimeout", "Retryable", "Error", "Auth", "Redirect", "Thrown"}

\* data, current and refreshed are what they should be where they are used.
Run == [method : Methods \cup {NoRun.method}, data : Snapshot \cup {None},
        response : SUBSET Responses, retried_auth_refresh : BOOLEAN,
        retried_region : BOOLEAN, transient_retries : Nat,
        current : Snapshot \cup {None}, refreshed : Material \cup {None}]

\* Places where material waits to be published, where a snapshot is worked on, where a
\* response is dealt with, and all.
PublishLabels  == {"CaptureLatest", "PublishCredentials"}
CurrentLabels  == PublishLabels \cup {"ReloadS3AuthMaterial", "RunCredentialRefresh",
                                      "TryRefreshS3Secret", "CaptureUnchanged", "PublishRegion"}
ResponseLabels == CurrentLabels \cup {"TryRefreshSession", "SetSessionRegion"}
Labels         == ResponseLabels \cup {"Idle", "CreateRequestData", "Request"}

TypeInv ==
    /\ secret \in Material /\ secret.key <= MaxKeys
    /\ expired \subseteq 0..secret.key
    /\ current_snapshot \in Snapshot
    /\ snapshots \in Nat
    /\ pc \in [Threads -> Labels]
    /\ run \in [Threads -> Run]
    /\ applied \in [Threads -> Nat]
    /\ issued \in [0..MaxKeys -> Nat]
    /\ withheld \in BOOLEAN
    /\ denials \in Nat

\* s is a snapshot that is or was the session's.
Earlier(s) ==
    /\ s \in Snapshot
    /\ s.id <= snapshots
    /\ s.id = current_snapshot.id => s = current_snapshot
    /\ s.credential_generation <= current_snapshot.credential_generation
    /\ s.credential_generation = current_snapshot.credential_generation =>
          s.key = current_snapshot.key
    /\ s.key <= current_snapshot.key
    /\ s.credential_refresh_enabled = current_snapshot.credential_refresh_enabled
    /\ s.region_redirected => current_snapshot.region_redirected
    /\ s.region = IF s.region_redirected THEN BucketRegion ELSE secret.region

\* The material m is newer than the snapshot s and as good as the secret's.
NewMaterial(m, s) ==
    /\ m \in Material
    /\ s.key < m.key /\ m.key <= secret.key
    /\ m.region = secret.region \/ current_snapshot.region_redirected

SessionInv ==
    /\ Earlier(current_snapshot)
    /\ current_snapshot.key <= secret.key
    /\ current_snapshot.credential_generation > 0 => current_snapshot.key > 0

\* A key that was replaced at a thread's request is not the secret's any more.
IssuedInv == \A k \in 0..MaxKeys : issued[k] <= 1 /\ (issued[k] > 0 => k < secret.key)

\* The snapshots a thread works with, and the material it is about to publish.
HeldInv(t) ==
    /\ pc[t] \in ResponseLabels \cup {"Request"} => Earlier(run[t].data)
    /\ pc[t] \in CurrentLabels => Earlier(run[t].current)
    /\ pc[t] \in {"ReloadS3AuthMaterial", "RunCredentialRefresh", "TryRefreshS3Secret"} =>
          run[t].data.key <= run[t].current.key
    /\ pc[t] \in PublishLabels => NewMaterial(run[t].refreshed, run[t].data)
    /\ pc[t] = "PublishCredentials" =>
          run[t].current.credential_generation = run[t].data.credential_generation

\* Only the holder of the mutex talks to the provider, about a key not yet replaced.
MutexInv(t) ==
    pc[t] = "TryRefreshS3Secret" =>
        /\ credential_refresh_mutex = t
        /\ issued[run[t].current.key] = 0

\* What a repeated request has gained, and what is left for a second attempt to fix.
RetryInv(t) ==
    /\ run[t].retried_region => current_snapshot.region = BucketRegion
    /\ run[t].retried_auth_refresh => current_snapshot.credential_generation > 0
    /\ pc[t] = "Request" /\ run[t].retried_region => run[t].data.region = BucketRegion
    /\ pc[t] = "Request" /\ run[t].retried_auth_refresh => run[t].data.key > 0
    /\ pc[t] \in ResponseLabels /\ "Redirect" \in run[t].response => ~run[t].retried_region
    /\ pc[t] = "CaptureUnchanged" => withheld

\* Why the error of an expired key may reach the caller.
AuthErrorExplained ==
    \/ ~current_snapshot.credential_refresh_enabled
    \/ withheld
    \/ denials > 0
    \/ \E k \in expired : k > 0

ResultInv(t) ==
    pc[t] = "Idle" => /\ "Redirect" \notin run[t].response
                      /\ "Auth" \in run[t].response => AuthErrorExplained

DefaultPost == [request_type |-> "POST", post_request_mode |-> "DEFAULT"]

PostInv(t) ==
    run[t].method = DefaultPost => applied[t] = 0 \/ (applied[t] = 1 /\ pc[t] = "Idle")

ThreadInv(t) == HeldInv(t) /\ MutexInv(t) /\ RetryInv(t) /\ ResultInv(t) /\ PostInv(t)

ExecutorInv ==
    /\ TypeInv
    /\ SessionInv
    /\ IssuedInv
    /\ \A t \in Threads : ThreadInv(t)

-----------------------------------------------------------------------------
(* What a step of one thread leaves to the others. *)

\* The session, the secret and the store only move forward.
Forward ==
    /\ secret'.key >= secret.key /\ secret'.region = secret.region
    /\ \A k \in expired : k > 0 => \E l \in expired' : l > 0
    /\ withheld => withheld'
    /\ denials' >= denials
    /\ snapshots' >= snapshots
    /\ \/ current_snapshot' = current_snapshot
       \/ /\ snapshots < current_snapshot'.id
          /\ \/ /\ current_snapshot.credential_generation <
                      current_snapshot'.credential_generation
                /\ current_snapshot.key <= current_snapshot'.key
             \/ /\ current_snapshot.credential_generation =
                      current_snapshot'.credential_generation
                /\ current_snapshot.key = current_snapshot'.key
          /\ current_snapshot.credential_refresh_enabled =
                current_snapshot'.credential_refresh_enabled
          /\ current_snapshot.region_redirected => current_snapshot'.region_redirected
          /\ current_snapshot.region = BucketRegion => current_snapshot'.region = BucketRegion

\* A snapshot that was the session's stays one that was.
LEMMA EarlierForward ==
  ASSUME TypeInv, TypeInv', Forward, NEW s, Earlier(s)
  PROVE  Earlier(s)'
  BY SMTT(40) DEF TypeInv, Forward, Earlier, Snapshot, Material

\* Material that was worth publishing stays so.
LEMMA MaterialForward ==
  ASSUME TypeInv, TypeInv', Forward, NEW m, NEW s, s.key \in Nat, NewMaterial(m, s)
  PROVE  NewMaterial(m, s)'
  BY SMTT(40) DEF TypeInv, Forward, NewMaterial, Snapshot, Material

\* The invariant of a thread that does nothing holds after a step of another one.
LEMMA OthersKeep ==
  ASSUME TypeInv, TypeInv', Forward, NEW u \in Threads, ThreadInv(u),
         pc'[u] = pc[u], run'[u] = run[u], applied'[u] = applied[u],
         pc[u] = "TryRefreshS3Secret" =>
             /\ credential_refresh_mutex' = credential_refresh_mutex
             /\ issued'[run[u].current.key] = issued[run[u].current.key]
  PROVE  ThreadInv(u)'
  <1>1. \A s : Earlier(s) => Earlier(s)'
    BY EarlierForward
  <1>2. \A s : Earlier(s) => s.key \in Nat
    BY DEF Earlier, Snapshot
  <1>3. HeldInv(u)'
    <2>1. /\ pc[u] \in ResponseLabels \cup {"Request"} => Earlier(run[u].data)'
          /\ pc[u] \in CurrentLabels => Earlier(run[u].current)'
      BY <1>1 DEF ThreadInv, HeldInv
    <2>2. pc[u] \in PublishLabels => NewMaterial(run[u].refreshed, run[u].data)'
      BY <1>2, MaterialForward DEF ThreadInv, HeldInv, PublishLabels, CurrentLabels, ResponseLabels
    <2> QED  BY <2>1, <2>2 DEF ThreadInv, HeldInv
  <1>4. MutexInv(u)'
    <2>1. pc[u] = "TryRefreshS3Secret" => run[u].current.key \in Nat
      BY <1>2 DEF ThreadInv, HeldInv, CurrentLabels
    <2>2. secret.key \in Nat /\ secret'.key \in Nat /\ secret'.key >= secret.key
      BY DEF TypeInv, Material, Forward
    <2> QED  BY <2>1, <2>2 DEF ThreadInv, MutexInv
  <1>5. RetryInv(u)'
    BY DEF ThreadInv, RetryInv, Forward, TypeInv, Snapshot
  <1>6. ResultInv(u)'
    BY DEF ThreadInv, ResultInv, AuthErrorExplained, Forward, TypeInv, Snapshot
  <1>7. PostInv(u)'
    BY DEF ThreadInv, PostInv
  <1> QED  BY <1>3, <1>4, <1>5, <1>6, <1>7 DEF ThreadInv

\* A step of t: what it does to the session and to t, and what it leaves alone.
LEMMA StepPreserves ==
  ASSUME ExecutorInv, NEW t \in Threads,
         TypeInv', SessionInv', IssuedInv', Forward, ThreadInv(t)',
         \A u \in Threads \ {t} :
             pc'[u] = pc[u] /\ run'[u] = run[u] /\ applied'[u] = applied[u],
         \A u \in Threads \ {t} : pc[u] = "TryRefreshS3Secret" =>
             /\ credential_refresh_mutex' = credential_refresh_mutex
             /\ issued'[run[u].current.key] = issued[run[u].current.key]
  PROVE  ExecutorInv'
  <1>1. ASSUME NEW u \in Threads, u # t
        PROVE  ThreadInv(u)'
    BY <1>1, OthersKeep DEF ExecutorInv
  <1> QED  BY <1>1 DEF ExecutorInv

\* The session, the secret and the store as a step of one thread leaves them.
WorldKept ==
    /\ UNCHANGED <<current_snapshot, snapshots, secret, expired, issued>>
    /\ withheld' \in BOOLEAN /\ (withheld => withheld')
    /\ denials' \in Nat /\ denials' >= denials

\* The mutex is left alone, or its holder lets it go.
MutexKept(t) ==
    credential_refresh_mutex' = credential_refresh_mutex \/ pc[t] = "TryRefreshS3Secret"

\* A step that touches nothing but the local variables of t.
LEMMA LocalStepPreserves ==
  ASSUME ExecutorInv, NEW t \in Threads, NEW l \in Labels, NEW r \in Run, NEW n \in Nat,
         WorldKept, MutexKept(t),
         Goto(t, l), run' = [run EXCEPT ![t] = r], applied' = [applied EXCEPT ![t] = n],
         ThreadInv(t)'
  PROVE  ExecutorInv'
  <1>1. TypeInv'
    BY DEF ExecutorInv, TypeInv, WorldKept, Goto
  <1>2. SessionInv' /\ IssuedInv'
    BY DEF ExecutorInv, SessionInv, IssuedInv, Earlier, WorldKept
  <1>3. Forward
    BY DEF ExecutorInv, TypeInv, Forward, WorldKept, Material, Snapshot
  <1>4. \A u \in Threads \ {t} :
             pc'[u] = pc[u] /\ run'[u] = run[u] /\ applied'[u] = applied[u]
    BY DEF ExecutorInv, TypeInv, Goto
  <1>5. pc[t] = "TryRefreshS3Secret" => \A u \in Threads \ {t} : pc[u] # "TryRefreshS3Secret"
    BY DEF ExecutorInv, ThreadInv, MutexInv
  <1> QED  BY <1>1, <1>2, <1>3, <1>4, <1>5, StepPreserves DEF WorldKept, MutexKept

\* The local variables of a run that has ended.
LEMMA EndedRun ==
  ASSUME NEW m \in Methods \cup {NoRun.method}, NEW response \in SUBSET Responses
  PROVE  LET r == [NoRun EXCEPT !.method = m, !.response = response]
         IN  /\ r \in Run
             /\ r.method = m /\ r.response = response
             /\ ~r.retried_auth_refresh /\ ~r.retried_region
  BY DEF NoRun, Run

\* Every way in which Run deals with a response: r holds the local variables with the
\* response, n says how often the store has applied the request.
LEMMA ProceedPreserves ==
  ASSUME ExecutorInv, NEW t \in Threads, NEW r \in Run, NEW n \in Nat,
         WorldKept, credential_refresh_mutex' = credential_refresh_mutex,
         applied' = [applied EXCEPT ![t] = n], Proceed(t, r),
         Earlier(r.data),
         r.retried_region => current_snapshot.region = BucketRegion,
         r.retried_auth_refresh => current_snapshot.credential_generation > 0,
         "Redirect" \in r.response => ~r.retried_region,
         "Auth" \in r.response => AuthErrorExplained',
         r.method = DefaultPost => n = 0 \/ (n = 1 /\ "Redirect" \notin r.response)
  PROVE  ExecutorInv'
  <1>1. CASE /\ "Redirect" \in r.response /\ ~r.retried_region
             /\ run' = [run EXCEPT ![t] = r]
             /\ Goto(t, "SetSessionRegion")
    <2>1. pc'[t] = "SetSessionRegion" /\ run'[t] = r /\ applied'[t] = n
      BY <1>1 DEF ExecutorInv, TypeInv, Goto
    <2>2. Earlier(run[t].data)'
      BY <2>1 DEF Earlier, WorldKept
    <2>3. ThreadInv(t)'
      BY <1>1, <2>1, <2>2 DEF ThreadInv, HeldInv, MutexInv, RetryInv, ResultInv, PostInv,
             WorldKept, PublishLabels, CurrentLabels, ResponseLabels
    <2>4. "SetSessionRegion" \in Labels
      BY DEF Labels, ResponseLabels
    <2> QED  BY <1>1, <2>3, <2>4, LocalStepPreserves DEF MutexKept
  <1>2. CASE /\ "Redirect" \in r.response => r.retried_region
             /\ ShouldRetryReceivedResponse(r.method, r.response)
             /\ run' = [run EXCEPT ![t] = Transient(r)]
             /\ Goto(t, "CreateRequestData")
    <2>1. Transient(r) \in Run
      BY DEF Transient, Run
    <2>2. /\ pc'[t] = "CreateRequestData" /\ run'[t] = Transient(r) /\ applied'[t] = n
          /\ run'[t].method = r.method
          /\ run'[t].retried_region = r.retried_region
          /\ run'[t].retried_auth_refresh = r.retried_auth_refresh
      BY <1>2 DEF ExecutorInv, TypeInv, Goto, Transient, Run
    <2>3. r.method = DefaultPost => FALSE
      BY <1>2 DEF ShouldRetryReceivedResponse, DefaultPost
    <2>4. ThreadInv(t)'
      BY <2>2, <2>3 DEF ThreadInv, HeldInv, MutexInv, RetryInv, ResultInv, PostInv,
             WorldKept, PublishLabels, CurrentLabels, ResponseLabels
    <2>5. "CreateRequestData" \in Labels
      BY DEF Labels
    <2> QED  BY <1>2, <2>1, <2>4, <2>5, LocalStepPreserves DEF MutexKept
  <1>3. CASE /\ "Redirect" \in r.response => r.retried_region
             /\ run' = [run EXCEPT ![t] = [NoRun EXCEPT !.method = r.method,
                                                       !.response = r.response]]
             /\ Goto(t, "Idle")
    <2> DEFINE ended == [NoRun EXCEPT !.method = r.method, !.response = r.response]
    <2>1. /\ ended \in Run /\ ended.method = r.method /\ ended.response = r.response
          /\ ~ended.retried_auth_refresh /\ ~ended.retried_region
      <3>1. r.method \in Methods \cup {NoRun.method} /\ r.response \in SUBSET Responses
        BY DEF Run
      <3> QED  BY <3>1, EndedRun
    <2>2. pc'[t] = "Idle" /\ run'[t] = ended /\ applied'[t] = n
      BY <1>3 DEF ExecutorInv, TypeInv, Goto
    <2> HIDE DEF ended
    <2>3. ThreadInv(t)'
      BY <1>3, <2>1, <2>2 DEF ThreadInv, HeldInv, MutexInv, RetryInv, ResultInv, PostInv,
             PublishLabels, CurrentLabels, ResponseLabels
    <2>4. "Idle" \in Labels
      BY DEF Labels
    <2>5. run' = [run EXCEPT ![t] = ended]
      BY <1>3 DEF ended
    <2> QED  BY <1>3, <2>1, <2>3, <2>4, <2>5, LocalStepPreserves DEF MutexKept
  <1> QED  BY <1>1, <1>2, <1>3 DEF Proceed

-----------------------------------------------------------------------------
(* The actions. *)

\* A run begins with nothing applied and nothing retried.
LEMMA CallRunPreserves ==
  ASSUME ExecutorInv, NEW t \in Threads, CallRun(t)
  PROVE  ExecutorInv'
  <1>1. PICK m \in Methods : run' = [run EXCEPT ![t] = [NoRun EXCEPT !.method = m]]
    BY DEF CallRun
  <1> DEFINE r == [NoRun EXCEPT !.method = m]
  <1>2. r \in Run /\ ~r.retried_auth_refresh /\ ~r.retried_region
    BY DEF NoRun, Run
  <1>3. pc'[t] = "CreateRequestData" /\ run'[t] = r /\ applied'[t] = 0
    BY <1>1 DEF ExecutorInv, TypeInv, CallRun, Goto
  <1>4. WorldKept
    BY DEF CallRun, publishVars, idleVars, WorldKept, ExecutorInv, TypeInv
  <1> HIDE DEF r
  <1>5. ThreadInv(t)'
    BY <1>2, <1>3 DEF ThreadInv, HeldInv, MutexInv, RetryInv, ResultInv, PostInv,
           PublishLabels, CurrentLabels, ResponseLabels
  <1>6. "CreateRequestData" \in Labels /\ 0 \in Nat
    BY DEF Labels
  <1>7. run' = [run EXCEPT ![t] = r]
    BY <1>1 DEF r
  <1> QED  BY <1>2, <1>4, <1>5, <1>6, <1>7, LocalStepPreserves DEF CallRun, MutexKept

\* A request is made with the session's present snapshot.
LEMMA CreateRequestDataPreserves ==
  ASSUME ExecutorInv, NEW t \in Threads, CreateRequestData(t)
  PROVE  ExecutorInv'
  <1> DEFINE r == [run[t] EXCEPT !.data = current_snapshot]
  <1>1. run[t] \in Run /\ current_snapshot \in Snapshot /\ applied[t] \in Nat
    BY DEF ExecutorInv, TypeInv
  <1>2. /\ r \in Run /\ r.data = current_snapshot /\ r.method = run[t].method
        /\ r.retried_region = run[t].retried_region
        /\ r.retried_auth_refresh = run[t].retried_auth_refresh
    BY <1>1 DEF Run
  <1>3. run' = [run EXCEPT ![t] = r] /\ applied' = [applied EXCEPT ![t] = applied[t]]
    BY DEF CreateRequestData, ExecutorInv, TypeInv
  <1> HIDE DEF r
  <1>4. pc'[t] = "Request" /\ run'[t] = r /\ applied'[t] = applied[t]
    BY <1>3 DEF ExecutorInv, TypeInv, CreateRequestData, Goto
  <1>5. WorldKept
    BY DEF CreateRequestData, publishVars, idleVars, worldVars, WorldKept, ExecutorInv, TypeInv
  <1>6. Earlier(run[t].data)'
    BY <1>2, <1>4, <1>5 DEF ExecutorInv, SessionInv, Earlier, WorldKept
  <1>7. ThreadInv(t)'
    <2>1. HeldInv(t)' /\ MutexInv(t)' /\ ResultInv(t)'
      BY <1>4, <1>6 DEF HeldInv, MutexInv, ResultInv,
             PublishLabels, CurrentLabels, ResponseLabels
    <2>2. RetryInv(t)'
      BY <1>2, <1>4, <1>5 DEF ExecutorInv, ThreadInv, SessionInv, RetryInv, WorldKept,
             PublishLabels, CurrentLabels, ResponseLabels
    <2>3. PostInv(t)'
      BY <1>2, <1>4 DEF ExecutorInv, ThreadInv, PostInv, CreateRequestData
    <2> QED  BY <2>1, <2>2, <2>3 DEF ThreadInv
  <1>8. "Request" \in Labels
    BY DEF Labels
  <1> QED  BY <1>1, <1>2, <1>3, <1>5, <1>7, <1>8, LocalStepPreserves DEF CreateRequestData, MutexKept

\* What the store's answers say of the snapshot a request was made with.
LEMMA AnswerMeaning ==
  ASSUME NEW s, NEW response \in Answers(s), NEW effect \in Effects(response),
         effect = 1 => Refusals(s) = {}
  PROVE  /\ response \in SUBSET Responses
         /\ "Auth" \in response => s.key \in expired
         /\ "Redirect" \in response => s.region # BucketRegion
         /\ effect \in {0, 1}
         /\ effect = 1 => "Auth" \notin response /\ "Redirect" \notin response
  <1>1. Refusals(s) \subseteq {"Auth", "Redirect"}
    BY DEF Refusals
  <1>2. \/ response \in {{"RequestTimeout"}, {"Lost"}, {"OK"}, {"Retryable"}, {"Error"}}
        \/ response \subseteq Refusals(s) /\ Refusals(s) # {}
    BY DEF Answers
  <1>3. /\ "Auth" \in response => s.key \in expired
        /\ "Redirect" \in response => s.region # BucketRegion
    BY <1>2 DEF Refusals
  <1>4. response \in SUBSET Responses
    BY <1>1, <1>2 DEF Responses
  <1>5. effect \in {0, 1}
    BY DEF Effects
  <1> QED  BY <1>2, <1>3, <1>4, <1>5 DEF Refusals

\* A response sends the run to a refresh, a redirect, a repetition or its end.
LEMMA RequestPreserves ==
  ASSUME ExecutorInv, NEW t \in Threads, Request(t)
  PROVE  ExecutorInv'
  <1>1. /\ run[t] \in Run /\ run[t].data \in Snapshot /\ Earlier(run[t].data)
        /\ applied[t] \in Nat /\ pc[t] = "Request" /\ ThreadInv(t)
        /\ denials \in Nat
    BY DEF ExecutorInv, TypeInv, ThreadInv, HeldInv, Earlier, Request
  <1>2. WorldKept /\ credential_refresh_mutex' = credential_refresh_mutex
    <2>1. denials' = denials \/ denials' = denials + 1
      BY DEF Request
    <2>2. denials' \in Nat /\ denials' >= denials
      BY <1>1, <2>1
    <2> QED  BY <2>2 DEF Request, publishVars, idleVars, WorldKept, ExecutorInv, TypeInv
  <1>3. ASSUME NEW response \in SUBSET Responses, NEW n \in Nat,
               applied' = [applied EXCEPT ![t] = n],
               "Redirect" \in response => ~run[t].retried_region,
               "Auth" \in response /\ run[t].retried_auth_refresh => AuthErrorExplained',
               run[t].method = DefaultPost =>
                   n = 0 \/ (n = 1 /\ "Redirect" \notin response /\ "Auth" \notin response),
               LET r == [run[t] EXCEPT !.response = response]
               IN  IF "Auth" \in response /\ ~r.retried_auth_refresh
                   THEN run' = [run EXCEPT ![t] = r] /\ Goto(t, "TryRefreshSession")
                   ELSE Proceed(t, r)
        PROVE  ExecutorInv'
    <2> DEFINE r == [run[t] EXCEPT !.response = response]
    <2>1. /\ r \in Run /\ r.response = response /\ r.method = run[t].method
          /\ r.data = run[t].data /\ r.retried_region = run[t].retried_region
          /\ r.retried_auth_refresh = run[t].retried_auth_refresh
      BY <1>1, <1>3 DEF Run
    <2>2. IF "Auth" \in response /\ ~r.retried_auth_refresh
          THEN run' = [run EXCEPT ![t] = r] /\ Goto(t, "TryRefreshSession")
          ELSE Proceed(t, r)
      BY <1>3
    <2> HIDE DEF r
    <2>3. /\ r.retried_region => current_snapshot.region = BucketRegion
          /\ r.retried_auth_refresh => current_snapshot.credential_generation > 0
      BY <1>1, <2>1 DEF ThreadInv, RetryInv
    <2>4. CASE "Auth" \in response /\ ~r.retried_auth_refresh
      <3>1. pc'[t] = "TryRefreshSession" /\ run'[t] = r /\ applied'[t] = n
        BY <1>3, <2>2, <2>4 DEF ExecutorInv, TypeInv, Goto
      <3>2. Earlier(run[t].data)'
        BY <1>1, <1>2, <2>1, <3>1 DEF Earlier, WorldKept
      <3>3. ThreadInv(t)'
        BY <1>2, <1>3, <2>1, <2>3, <2>4, <3>1, <3>2 DEF ThreadInv, HeldInv, MutexInv, RetryInv,
               ResultInv, PostInv, WorldKept, PublishLabels, CurrentLabels, ResponseLabels
      <3>4. "TryRefreshSession" \in Labels
        BY DEF Labels, ResponseLabels
      <3> QED  BY <1>2, <1>3, <2>1, <2>2, <2>4, <3>3, <3>4, LocalStepPreserves DEF MutexKept
    <2>5. CASE ~("Auth" \in response /\ ~r.retried_auth_refresh)
      BY <1>1, <1>2, <1>3, <2>1, <2>2, <2>3, <2>5, ProceedPreserves
    <2> QED  BY <2>4, <2>5
  <1>4. CASE \E response \in Answers(run[t].data) : \E effect \in Effects(response) :
                /\ effect = 1 => Refusals(run[t].data) = {}
                /\ applied' = [applied EXCEPT ![t] = @ + effect]
                /\ LET r == [run[t] EXCEPT !.response = response]
                   IN  IF "Auth" \in response /\ ~r.retried_auth_refresh
                       THEN run' = [run EXCEPT ![t] = r] /\ Goto(t, "TryRefreshSession")
                       ELSE Proceed(t, r)
    <2> PICK response \in Answers(run[t].data) : \E effect \in Effects(response) :
            /\ effect = 1 => Refusals(run[t].data) = {}
            /\ applied' = [applied EXCEPT ![t] = @ + effect]
            /\ LET r == [run[t] EXCEPT !.response = response]
               IN  IF "Auth" \in response /\ ~r.retried_auth_refresh
                   THEN run' = [run EXCEPT ![t] = r] /\ Goto(t, "TryRefreshSession")
                   ELSE Proceed(t, r)
      BY <1>4
    <2>1. PICK effect \in Effects(response) :
             /\ effect = 1 => Refusals(run[t].data) = {}
             /\ applied' = [applied EXCEPT ![t] = @ + effect]
             /\ LET r == [run[t] EXCEPT !.response = response]
                IN  IF "Auth" \in response /\ ~r.retried_auth_refresh
                    THEN run' = [run EXCEPT ![t] = r] /\ Goto(t, "TryRefreshSession")
                    ELSE Proceed(t, r)
      OBVIOUS
    <2>2. /\ response \in SUBSET Responses
          /\ "Auth" \in response => run[t].data.key \in expired
          /\ "Redirect" \in response => run[t].data.region # BucketRegion
          /\ effect \in {0, 1}
          /\ effect = 1 => "Auth" \notin response /\ "Redirect" \notin response
      BY <2>1, AnswerMeaning
    <2>3. "Redirect" \in response => ~run[t].retried_region
      BY <1>1, <2>2 DEF ThreadInv, RetryInv
    <2>4. "Auth" \in response /\ run[t].retried_auth_refresh => AuthErrorExplained'
      BY <1>1, <1>2, <2>2 DEF ThreadInv, RetryInv, AuthErrorExplained, WorldKept
    <2>5. run[t].method = DefaultPost => applied[t] = 0
      BY <1>1 DEF ThreadInv, PostInv
    <2>6. /\ applied[t] + effect \in Nat
          /\ run[t].method = DefaultPost =>
                \/ applied[t] + effect = 0
                \/ applied[t] + effect = 1 /\ "Redirect" \notin response /\ "Auth" \notin response
      BY <1>1, <2>2, <2>5
    <2>7. applied' = [applied EXCEPT ![t] = applied[t] + effect]
      BY <2>1
    <2> QED  BY <1>3, <2>1, <2>2, <2>3, <2>4, <2>6, <2>7
  <1>5. CASE /\ denials' = denials + 1
             /\ LET r == [run[t] EXCEPT !.response = {"Auth"}]
                IN  IF ~r.retried_auth_refresh
                    THEN run' = [run EXCEPT ![t] = r] /\ Goto(t, "TryRefreshSession")
                    ELSE Proceed(t, r)
             /\ UNCHANGED applied
    <2>1. {"Auth"} \in SUBSET Responses /\ "Redirect" \notin {"Auth"} /\ "Auth" \in {"Auth"}
      BY DEF Responses
    <2>2. applied' = [applied EXCEPT ![t] = applied[t]]
      BY <1>5 DEF ExecutorInv, TypeInv
    <2>3. AuthErrorExplained'
      BY <1>1, <1>5 DEF AuthErrorExplained
    <2>4. run[t].method = DefaultPost => applied[t] = 0
      BY <1>1 DEF ThreadInv, PostInv
    <2> QED  BY <1>1, <1>3, <1>5, <2>1, <2>2, <2>3, <2>4
  <1> QED  BY <1>4, <1>5 DEF Request

\* One refresh is used up, with newer credentials in the session.
LEMMA RefreshedPreserves ==
  ASSUME ExecutorInv, NEW t \in Threads, Refreshed(t), pc[t] # "Idle",
         WorldKept, UNCHANGED <<credential_refresh_mutex, applied>>,
         current_snapshot.credential_generation > 0
  PROVE  ExecutorInv'
  <1> DEFINE r == [run[t] EXCEPT !.retried_auth_refresh = TRUE,
                                 !.current = None, !.refreshed = None]
  <1>1. run[t] \in Run /\ applied[t] \in Nat /\ ThreadInv(t)
    BY DEF ExecutorInv, TypeInv
  <1>2. r \in Run /\ r.retried_region = run[t].retried_region /\ r.method = run[t].method
    BY <1>1 DEF Run
  <1>3. run' = [run EXCEPT ![t] = r] /\ applied' = [applied EXCEPT ![t] = applied[t]]
    BY DEF Refreshed, ExecutorInv, TypeInv
  <1> HIDE DEF r
  <1>4. pc'[t] = "CreateRequestData" /\ run'[t] = r /\ applied'[t] = applied[t]
    BY <1>3 DEF Refreshed, ExecutorInv, TypeInv, Goto
  <1>5. ThreadInv(t)'
    BY <1>1, <1>2, <1>4 DEF ThreadInv, HeldInv, MutexInv, RetryInv, ResultInv, PostInv,
           WorldKept, PublishLabels, CurrentLabels, ResponseLabels
  <1>6. "CreateRequestData" \in Labels
    BY DEF Labels
  <1> QED  BY <1>1, <1>2, <1>3, <1>5, <1>6, LocalStepPreserves DEF Refreshed, MutexKept

\* A session with other credentials than the failed request's has had some published.
LEMMA NewerIsLater ==
  ASSUME ExecutorInv, NEW t \in Threads, pc[t] \in ResponseLabels, NewerCredentials(t)
  PROVE  current_snapshot.credential_generation > 0
  BY DEF ExecutorInv, TypeInv, ThreadInv, HeldInv, Earlier, NewerCredentials, Snapshot

\* A refresh that brought nothing.
LEMMA NotRefreshedPreserves ==
  ASSUME ExecutorInv, NEW t \in Threads, NotRefreshed(t), pc[t] \in ResponseLabels,
         WorldKept, UNCHANGED <<credential_refresh_mutex, applied>>,
         ~current_snapshot.credential_refresh_enabled \/ withheld
  PROVE  ExecutorInv'
  <1> DEFINE r == [run[t] EXCEPT !.current = None]
  <1>1. run[t] \in Run /\ applied[t] \in Nat /\ ThreadInv(t)
    BY DEF ExecutorInv, TypeInv
  <1>2. /\ r \in Run /\ r.data = run[t].data /\ r.response = run[t].response
        /\ r.retried_region = run[t].retried_region /\ r.method = run[t].method
        /\ r.retried_auth_refresh = run[t].retried_auth_refresh
    BY <1>1 DEF Run
  <1>3. Proceed(t, r) /\ applied' = [applied EXCEPT ![t] = applied[t]]
    BY DEF NotRefreshed, ExecutorInv, TypeInv
  <1> HIDE DEF r
  <1>4. AuthErrorExplained'
    BY DEF AuthErrorExplained, WorldKept
  <1>5. /\ Earlier(r.data)
        /\ r.retried_region => current_snapshot.region = BucketRegion
        /\ r.retried_auth_refresh => current_snapshot.credential_generation > 0
        /\ "Redirect" \in r.response => ~r.retried_region
    BY <1>1, <1>2 DEF ThreadInv, HeldInv, RetryInv
  <1>6. r.method = DefaultPost => applied[t] = 0
    BY <1>1, <1>2 DEF ThreadInv, PostInv, PublishLabels, CurrentLabels, ResponseLabels
  <1> QED  BY <1>1, <1>2, <1>3, <1>4, <1>5, <1>6, ProceedPreserves

\* A step of t that only takes a snapshot or material along to the next place.
LEMMA CarryPreserves ==
  ASSUME ExecutorInv, NEW t \in Threads, NEW l \in ResponseLabels, NEW r \in Run,
         pc[t] \in ResponseLabels, WorldKept, MutexKept(t),
         Goto(t, l), run' = [run EXCEPT ![t] = r], UNCHANGED applied,
         r = [run[t] EXCEPT !.current = r.current, !.refreshed = r.refreshed],
         HeldInv(t)', MutexInv(t)', l = "CaptureUnchanged" => withheld'
  PROVE  ExecutorInv'
  <1>1. run[t] \in Run /\ applied[t] \in Nat /\ ThreadInv(t)
    BY DEF ExecutorInv, TypeInv
  <1>2. /\ r.response = run[t].response /\ r.method = run[t].method
        /\ r.retried_region = run[t].retried_region
        /\ r.retried_auth_refresh = run[t].retried_auth_refresh
    BY <1>1 DEF Run
  <1>3. pc'[t] = l /\ run'[t] = r /\ applied'[t] = applied[t]
    BY DEF ExecutorInv, TypeInv, Goto
  <1>4. "Idle" \notin ResponseLabels /\ "Request" \notin ResponseLabels
    BY DEF PublishLabels, CurrentLabels, ResponseLabels
  <1>5. RetryInv(t)' /\ ResultInv(t)' /\ PostInv(t)'
    BY <1>1, <1>2, <1>3, <1>4 DEF ThreadInv, RetryInv, ResultInv, PostInv, WorldKept
  <1>6. ThreadInv(t)'
    BY <1>5 DEF ThreadInv
  <1>7. applied' = [applied EXCEPT ![t] = applied[t]] /\ l \in Labels
    BY DEF ExecutorInv, TypeInv, Labels
  <1> QED  BY <1>1, <1>6, <1>7, LocalStepPreserves

\* The region of a snapshot is never a reason to publish: reloaded material differs
\* from a snapshot of the session by its key, and then it is newer.
LEMMA ReloadedMaterial ==
  ASSUME ExecutorInv, NEW s, Earlier(s)
  PROVE  LET m == Reloaded(s, secret)
         IN  /\ m \in Material /\ m.key = secret.key
             /\ m.region = secret.region \/ current_snapshot.region_redirected
             /\ Changed(s, m) => s.key < secret.key
             /\ ~Changed(s, m) => s.key = secret.key
             /\ s.key <= secret.key
  <1>1. /\ s.key \in Nat /\ secret.key \in Nat /\ s.region \in Regions /\ secret.region \in Regions
        /\ s.key <= current_snapshot.key /\ current_snapshot.key <= secret.key
        /\ current_snapshot.key \in Nat
    BY DEF ExecutorInv, TypeInv, SessionInv, Earlier, Snapshot, Material
  <1>2. Reloaded(s, secret) = [key |-> secret.key, region |-> s.region]
    BY DEF Earlier, Reloaded
  <1>3. s.region = secret.region \/ current_snapshot.region_redirected
    BY DEF Earlier
  <1>4. Changed(s, [key |-> secret.key, region |-> s.region]) <=> s.key # secret.key
    BY DEF Changed
  <1>5. s.key <= secret.key
    BY <1>1
  <1> QED  BY <1>1, <1>2, <1>3, <1>4, <1>5 DEF Material

\* Material newer than the snapshot a thread works with is taken over.
LEMMA TakeOverPreserves ==
  ASSUME ExecutorInv, NEW t \in Threads, TakeOver(t, Reloaded(run[t].current, secret)),
         pc[t] \in {"ReloadS3AuthMaterial", "RunCredentialRefresh", "TryRefreshS3Secret"},
         Changed(run[t].current, Reloaded(run[t].current, secret)),
         WorldKept, MutexKept(t), UNCHANGED applied
  PROVE  ExecutorInv'
  <1> DEFINE m == Reloaded(run[t].current, secret)
             r == [run[t] EXCEPT !.refreshed = m]
  <1>1. run[t] \in Run /\ ThreadInv(t)
    BY DEF ExecutorInv, TypeInv
  <1>2. /\ Earlier(run[t].current) /\ Earlier(run[t].data)
        /\ run[t].data.key <= run[t].current.key
    BY <1>1 DEF ThreadInv, HeldInv, PublishLabels, CurrentLabels, ResponseLabels
  <1>3. /\ m \in Material /\ m.key = secret.key /\ run[t].current.key < secret.key
        /\ m.region = secret.region \/ current_snapshot.region_redirected
    BY <1>2, ReloadedMaterial
  <1>4. TakeOver(t, m)
    OBVIOUS
  <1> HIDE DEF m
  <1>5. /\ r \in Run /\ r.data = run[t].data /\ r.current = run[t].current /\ r.refreshed = m
        /\ r = [run[t] EXCEPT !.current = r.current, !.refreshed = r.refreshed]
    BY <1>1, <1>3 DEF Run
  <1>6. run' = [run EXCEPT ![t] = r]
    BY <1>4 DEF TakeOver
  <1> HIDE DEF r
  <1>7. pc'[t] = "CaptureLatest" /\ run'[t] = r
    BY <1>4, <1>6 DEF TakeOver, ExecutorInv, TypeInv, Goto
  <1>8. NewMaterial(m, run[t].data)
    <2>1. /\ run[t].data.key \in Nat /\ run[t].current.key \in Nat /\ secret.key \in Nat
      BY <1>2 DEF ExecutorInv, TypeInv, Earlier, Snapshot, Material
    <2> QED  BY <1>2, <1>3, <2>1 DEF NewMaterial
  <1>9. HeldInv(t)' /\ MutexInv(t)'
    BY <1>2, <1>5, <1>7, <1>8 DEF HeldInv, MutexInv, Earlier, NewMaterial, WorldKept,
           PublishLabels, CurrentLabels
  <1>10. pc[t] \in ResponseLabels /\ "CaptureLatest" \in ResponseLabels
    BY DEF PublishLabels, CurrentLabels, ResponseLabels
  <1> QED  BY <1>4, <1>5, <1>6, <1>9, <1>10, CarryPreserves DEF TakeOver

\* A snapshot is captured to be worked on; l is where that happens.
LEMMA CapturePreserves ==
  ASSUME ExecutorInv, NEW t \in Threads, pc[t] \in ResponseLabels,
         run' = [run EXCEPT ![t].current = current_snapshot],
         WorldKept, UNCHANGED <<credential_refresh_mutex, applied>>,
         \/ Goto(t, "ReloadS3AuthMaterial") /\ ~NewerCredentials(t)
         \/ Goto(t, "PublishCredentials") /\ ~NewerCredentials(t) /\ pc[t] = "CaptureLatest"
         \/ Goto(t, "PublishRegion")
  PROVE  ExecutorInv'
  <1> DEFINE r == [run[t] EXCEPT !.current = current_snapshot]
  <1>1. run[t] \in Run /\ ThreadInv(t) /\ current_snapshot \in Snapshot
    BY DEF ExecutorInv, TypeInv
  <1>2. Earlier(current_snapshot) /\ Earlier(run[t].data)
    BY <1>1 DEF ExecutorInv, SessionInv, ThreadInv, HeldInv
  <1>3. /\ r \in Run /\ r.data = run[t].data /\ r.refreshed = run[t].refreshed
        /\ r.current = current_snapshot
        /\ r = [run[t] EXCEPT !.current = r.current, !.refreshed = r.refreshed]
    BY <1>1 DEF Run
  <1>4. run' = [run EXCEPT ![t] = r]
    OBVIOUS
  <1> HIDE DEF r
  <1>5. /\ run'[t] = r
        /\ pc'[t] \in {"ReloadS3AuthMaterial", "PublishCredentials", "PublishRegion"}
        /\ Goto(t, pc'[t])
        /\ pc'[t] # "PublishRegion" => ~NewerCredentials(t)
        /\ pc'[t] = "PublishCredentials" => pc[t] = "CaptureLatest"
    BY <1>4 DEF ExecutorInv, TypeInv, Goto
  <1>6. Earlier(run[t].data)' /\ Earlier(run[t].current)'
    BY <1>2, <1>3, <1>5 DEF Earlier, WorldKept
  <1>7. pc'[t] # "PublishRegion" => /\ r.current.credential_generation = r.data.credential_generation
                                    /\ r.data.key <= r.current.key
    BY <1>2, <1>3, <1>5 DEF NewerCredentials, Earlier
  <1>8. pc'[t] = "PublishCredentials" => NewMaterial(r.refreshed, r.data)
    BY <1>1, <1>3, <1>5 DEF ThreadInv, HeldInv, PublishLabels
  <1>9. HeldInv(t)' /\ MutexInv(t)'
    <2>1. pc'[t] \in PublishLabels => NewMaterial(run[t].refreshed, run[t].data)'
      BY <1>5, <1>8 DEF NewMaterial, PublishLabels, WorldKept
    <2>2. /\ pc'[t] # "TryRefreshS3Secret" /\ pc'[t] # "RunCredentialRefresh"
          /\ pc'[t] = "ReloadS3AuthMaterial" => run'[t].data.key <= run'[t].current.key
          /\ pc'[t] = "PublishCredentials" =>
                run'[t].current.credential_generation = run'[t].data.credential_generation
      BY <1>5, <1>7
    <2> QED  BY <1>6, <2>1, <2>2 DEF HeldInv, MutexInv
  <1>10. pc'[t] \in ResponseLabels /\ pc'[t] # "CaptureUnchanged"
    BY <1>5 DEF PublishLabels, CurrentLabels, ResponseLabels
  <1> QED  BY <1>3, <1>4, <1>5, <1>9, <1>10, CarryPreserves DEF MutexKept

\* TryRefreshSession finds newer credentials, has none to expect, or starts a refresh.
LEMMA TryRefreshSessionPreserves ==
  ASSUME ExecutorInv, NEW t \in Threads, TryRefreshSession(t)
  PROVE  ExecutorInv'
  <1>1. WorldKept /\ pc[t] \in ResponseLabels /\ pc[t] # "Idle"
    BY DEF TryRefreshSession, publishVars, idleVars, worldVars, WorldKept, ExecutorInv, TypeInv,
           ResponseLabels
  <1>2. CASE NewerCredentials(t) /\ Refreshed(t)
    BY <1>1, <1>2, NewerIsLater, RefreshedPreserves DEF TryRefreshSession
  <1>3. CASE ~current_snapshot.credential_refresh_enabled /\ NotRefreshed(t)
    BY <1>1, <1>3, NotRefreshedPreserves DEF TryRefreshSession
  <1>4. CASE /\ ~NewerCredentials(t)
             /\ run' = [run EXCEPT ![t].current = current_snapshot]
             /\ Goto(t, "ReloadS3AuthMaterial")
    BY <1>1, <1>4, CapturePreserves DEF TryRefreshSession
  <1> QED  BY <1>2, <1>3, <1>4 DEF TryRefreshSession

\* ReloadS3AuthMaterial finds the secret renewed, or goes on to the mutex.
LEMMA ReloadS3AuthMaterialPreserves ==
  ASSUME ExecutorInv, NEW t \in Threads, ReloadS3AuthMaterial(t)
  PROVE  ExecutorInv'
  <1>1. /\ WorldKept /\ pc[t] = "ReloadS3AuthMaterial"
        /\ UNCHANGED <<credential_refresh_mutex, applied>>
    BY DEF ReloadS3AuthMaterial, publishVars, idleVars, worldVars, WorldKept, ExecutorInv, TypeInv
  <1>2. CASE /\ Changed(run[t].current, Reloaded(run[t].current, secret))
             /\ TakeOver(t, Reloaded(run[t].current, secret))
    BY <1>1, <1>2, TakeOverPreserves DEF MutexKept
  <1>3. CASE Goto(t, "RunCredentialRefresh") /\ UNCHANGED run
    <2>1. run[t] \in Run /\ ThreadInv(t)
      BY DEF ExecutorInv, TypeInv
    <2>2. /\ run' = [run EXCEPT ![t] = run[t]] /\ run'[t] = run[t]
          /\ pc'[t] = "RunCredentialRefresh"
          /\ run[t] = [run[t] EXCEPT !.current = run[t].current, !.refreshed = run[t].refreshed]
      BY <1>3, <2>1 DEF ExecutorInv, TypeInv, Goto, Run
    <2>3. HeldInv(t)' /\ MutexInv(t)'
      BY <1>1, <2>1, <2>2 DEF ThreadInv, HeldInv, MutexInv, Earlier, WorldKept,
             PublishLabels, CurrentLabels, ResponseLabels
    <2>4. "RunCredentialRefresh" \in ResponseLabels /\ pc[t] \in ResponseLabels
      BY <1>1 DEF PublishLabels, CurrentLabels, ResponseLabels
    <2> QED  BY <1>1, <1>3, <2>1, <2>2, <2>3, <2>4, CarryPreserves DEF MutexKept
  <1> QED  BY <1>2, <1>3 DEF ReloadS3AuthMaterial

\* Under the mutex the secret is looked at again; if it is still the one of the
\* snapshot, its key was not replaced yet.
LEMMA RunCredentialRefreshPreserves ==
  ASSUME ExecutorInv, NEW t \in Threads, RunCredentialRefresh(t)
  PROVE  ExecutorInv'
  <1>1. /\ WorldKept /\ pc[t] = "RunCredentialRefresh" /\ credential_refresh_mutex = None
        /\ UNCHANGED applied
    BY DEF RunCredentialRefresh, publishVars, idleVars, worldVars, WorldKept, ExecutorInv, TypeInv
  <1>2. CASE /\ Changed(run[t].current, Reloaded(run[t].current, secret))
             /\ TakeOver(t, Reloaded(run[t].current, secret))
             /\ UNCHANGED credential_refresh_mutex
    BY <1>1, <1>2, TakeOverPreserves DEF MutexKept
  <1>3. CASE /\ ~Changed(run[t].current, Reloaded(run[t].current, secret))
             /\ credential_refresh_mutex' = t
             /\ Goto(t, "TryRefreshS3Secret")
             /\ UNCHANGED run
    <2>1. run[t] \in Run /\ ThreadInv(t)
      BY DEF ExecutorInv, TypeInv
    <2>2. Earlier(run[t].current)
      BY <1>1, <2>1 DEF ThreadInv, HeldInv, CurrentLabels
    <2>3. run[t].current.key = secret.key
      BY <1>3, <2>2, ReloadedMaterial
    <2>4. issued[run[t].current.key] = 0
      <3>1. secret.key \in 0..MaxKeys /\ issued[secret.key] \in Nat /\ secret.key \in Nat
        BY ExecutorAssumption DEF ExecutorInv, TypeInv, Material, ExecutorAssumption
      <3> QED  BY <2>3, <3>1 DEF ExecutorInv, IssuedInv
    <2>5. pc'[t] = "TryRefreshS3Secret" /\ run'[t] = run[t] /\ applied'[t] = applied[t]
      BY <1>1, <1>3 DEF ExecutorInv, TypeInv, Goto
    <2>6. ThreadInv(t)'
      <3>1. HeldInv(t)'
        BY <1>1, <2>1, <2>5 DEF ThreadInv, HeldInv, Earlier, WorldKept,
               PublishLabels, CurrentLabels, ResponseLabels
      <3>2. MutexInv(t)'
        BY <1>1, <1>3, <2>4, <2>5 DEF MutexInv, WorldKept
      <3>3. RetryInv(t)' /\ ResultInv(t)' /\ PostInv(t)'
        BY <1>1, <2>1, <2>5 DEF ThreadInv, RetryInv, ResultInv, PostInv, WorldKept,
               PublishLabels, CurrentLabels, ResponseLabels
      <3> QED  BY <3>1, <3>2, <3>3 DEF ThreadInv
    <2>7. TypeInv' /\ SessionInv' /\ IssuedInv' /\ Forward
      <3>1. "TryRefreshS3Secret" \in Labels
        BY DEF CurrentLabels, ResponseLabels, Labels
      <3>2. TypeInv'
        BY <1>1, <1>3, <3>1 DEF ExecutorInv, TypeInv, WorldKept, Goto
      <3>3. SessionInv' /\ IssuedInv'
        BY <1>1 DEF ExecutorInv, SessionInv, IssuedInv, Earlier, WorldKept
      <3>4. Forward
        BY <1>1 DEF ExecutorInv, TypeInv, Forward, WorldKept, Material, Snapshot
      <3> QED  BY <3>2, <3>3, <3>4
    <2>8. \A u \in Threads \ {t} :
             pc'[u] = pc[u] /\ run'[u] = run[u] /\ applied'[u] = applied[u]
      BY <1>1, <1>3 DEF ExecutorInv, TypeInv, Goto
    <2>9. \A u \in Threads : pc[u] # "TryRefreshS3Secret"
      BY <1>1, RequestSessionAssumption
         DEF ExecutorInv, ThreadInv, MutexInv, RequestSessionAssumption
    <2> QED  BY <2>6, <2>7, <2>8, <2>9, StepPreserves
  <1> QED  BY <1>2, <1>3 DEF RunCredentialRefresh, ReloadedUnderMutex

\* The provider's answers: a new key, the one of the snapshot replaced for the first
\* time; one that another connection has obtained; none; an exception.
LEMMA TryRefreshS3SecretPreserves ==
  ASSUME ExecutorInv, NEW t \in Threads, TryRefreshS3Secret(t)
  PROVE  ExecutorInv'
  <1> DEFINE current == run[t].current
  <1>1. /\ run[t] \in Run /\ ThreadInv(t) /\ pc[t] = "TryRefreshS3Secret"
        /\ UNCHANGED <<current_snapshot, snapshots, expired, denials, applied>>
    BY DEF ExecutorInv, TypeInv, TryRefreshS3Secret, publishVars
  <1>2. /\ Earlier(current) /\ Earlier(run[t].data) /\ run[t].data.key <= current.key
        /\ issued[current.key] = 0
    BY <1>1 DEF ThreadInv, HeldInv, MutexInv, CurrentLabels, ResponseLabels
  <1>3. \A u \in Threads \ {t} : pc[u] # "TryRefreshS3Secret"
    BY <1>1 DEF ExecutorInv, ThreadInv, MutexInv
  <1>4. CASE /\ secret.key < MaxKeys
             /\ secret' = [secret EXCEPT !.key = @ + 1]
             /\ issued' = [issued EXCEPT ![current.key] = @ + 1]
             /\ TakeOver(t, Reloaded(current, secret'))
             /\ UNCHANGED withheld
    <2> DEFINE m == Reloaded(current, secret')
               r == [run[t] EXCEPT !.refreshed = m]
    <2>1. /\ secret.key \in Nat /\ MaxKeys \in Nat /\ secret.region \in Regions
          /\ secret' \in Material /\ secret'.key = secret.key + 1 /\ secret'.region = secret.region
      <3>1. MaxKeys \in Nat
        BY ExecutorAssumption DEF ExecutorAssumption
      <3>2. secret \in Material
        BY DEF ExecutorInv, TypeInv
      <3> QED  BY <1>4, <3>1, <3>2 DEF Material
    <2>2. /\ current.key \in Nat /\ run[t].data.key \in Nat /\ current.region \in Regions
          /\ current.key <= secret.key
      BY <1>2, ReloadedMaterial DEF Earlier, Snapshot
    <2>3. m = [key |-> secret.key + 1, region |-> current.region]
      BY <1>2, <2>1 DEF Reloaded, Earlier
    <2>4. m \in Material /\ m.key = secret.key + 1 /\ m.region = current.region
      BY <2>1, <2>2, <2>3 DEF Material
    <2>5. TakeOver(t, m)
      BY <1>4
    <2> HIDE DEF m
    <2>6. /\ r \in Run /\ r.data = run[t].data /\ r.current = current /\ r.refreshed = m
          /\ r.method = run[t].method /\ r.response = run[t].response
          /\ r.retried_region = run[t].retried_region
          /\ r.retried_auth_refresh = run[t].retried_auth_refresh
      BY <1>1, <2>4 DEF Run
    <2>7. run' = [run EXCEPT ![t] = r]
      BY <2>5 DEF TakeOver
    <2> HIDE DEF r
    <2>8. /\ pc'[t] = "CaptureLatest" /\ run'[t] = r /\ applied'[t] = applied[t]
          /\ \A u \in Threads \ {t} :
                pc'[u] = pc[u] /\ run'[u] = run[u] /\ applied'[u] = applied[u]
      BY <1>1, <2>5, <2>7 DEF TakeOver, ExecutorInv, TypeInv, Goto
    <2>9. TypeInv'
      <3>1. secret'.key <= MaxKeys /\ expired' \subseteq 0..secret'.key
        BY <1>1, <1>4, <2>1 DEF ExecutorInv, TypeInv
      <3>2. issued' \in [0..MaxKeys -> Nat]
        <4>1. issued \in [0..MaxKeys -> Nat]
          BY DEF ExecutorInv, TypeInv
        <4>2. issued' = [issued EXCEPT ![current.key] = 1]
          BY <1>2, <1>4
        <4> QED  BY <4>1, <4>2
      <3>3. "CaptureLatest" \in Labels
        BY DEF PublishLabels, CurrentLabels, ResponseLabels, Labels
      <3>4. run' \in [Threads -> Run] /\ pc' \in [Threads -> Labels]
        BY <2>5, <2>6, <2>7, <3>3 DEF ExecutorInv, TypeInv, TakeOver, Goto
      <3> QED  BY <1>1, <1>4, <2>1, <3>1, <3>2, <3>4 DEF ExecutorInv, TypeInv
    <2>10. SessionInv'
      BY <1>1, <2>1 DEF ExecutorInv, TypeInv, SessionInv, Earlier, Snapshot
    <2>11. IssuedInv'
      <3> SUFFICES ASSUME NEW k \in 0..MaxKeys
                   PROVE  issued'[k] <= 1 /\ (issued'[k] > 0 => k < secret'.key)
        BY DEF IssuedInv
      <3>1. issued[k] \in Nat /\ issued[k] <= 1 /\ (issued[k] > 0 => k < secret.key)
        BY DEF ExecutorInv, TypeInv, IssuedInv
      <3>2. CASE k = current.key
        BY <1>2, <1>4, <2>1, <2>2, <3>2 DEF ExecutorInv, TypeInv
      <3>3. CASE k # current.key
        BY <1>4, <2>1, <3>1, <3>3 DEF ExecutorInv, TypeInv
      <3> QED  BY <3>2, <3>3
    <2>12. Forward
      BY <1>1, <1>4, <2>1 DEF ExecutorInv, TypeInv, Forward, Snapshot
    <2>13. ThreadInv(t)'
      <3>1. Earlier(run[t].data)' /\ Earlier(run[t].current)'
        BY <1>1, <1>2, <2>1, <2>6, <2>8 DEF Earlier
      <3>2. NewMaterial(run[t].refreshed, run[t].data)'
        <4>1. m.region = secret.region \/ current_snapshot.region_redirected
          BY <1>2, <2>4 DEF Earlier
        <4> QED  BY <1>1, <1>2, <2>1, <2>2, <2>4, <2>6, <2>8, <4>1 DEF NewMaterial
      <3>3. HeldInv(t)' /\ MutexInv(t)'
        BY <2>8, <3>1, <3>2 DEF HeldInv, MutexInv
      <3>4. RetryInv(t)' /\ ResultInv(t)' /\ PostInv(t)'
        BY <1>1, <2>6, <2>8 DEF ThreadInv, RetryInv, ResultInv, PostInv,
               PublishLabels, CurrentLabels, ResponseLabels
      <3> QED  BY <3>3, <3>4 DEF ThreadInv
    <2> QED  BY <1>3, <2>8, <2>9, <2>10, <2>11, <2>12, <2>13, StepPreserves
  <1>5. CASE /\ Changed(current, Reloaded(current, secret))
             /\ TakeOver(t, Reloaded(current, secret))
             /\ UNCHANGED <<secret, issued, withheld>>
    <2>1. WorldKept /\ MutexKept(t)
      BY <1>1, <1>5 DEF WorldKept, MutexKept, ExecutorInv, TypeInv
    <2> QED  BY <1>1, <1>5, <2>1, TakeOverPreserves
  <1>6. CASE /\ withheld' = TRUE
             /\ Goto(t, "CaptureUnchanged")
             /\ UNCHANGED <<run, secret, issued>>
    <2>1. WorldKept /\ MutexKept(t)
      BY <1>1, <1>6 DEF WorldKept, MutexKept, ExecutorInv, TypeInv
    <2>2. /\ run' = [run EXCEPT ![t] = run[t]] /\ run'[t] = run[t]
          /\ pc'[t] = "CaptureUnchanged"
          /\ run[t] = [run[t] EXCEPT !.current = run[t].current, !.refreshed = run[t].refreshed]
      BY <1>1, <1>6 DEF ExecutorInv, TypeInv, Goto, Run
    <2>3. HeldInv(t)' /\ MutexInv(t)'
      BY <1>1, <1>6, <1>2, <2>2 DEF HeldInv, MutexInv, Earlier,
             PublishLabels, CurrentLabels, ResponseLabels
    <2>4. "CaptureUnchanged" \in ResponseLabels /\ pc[t] \in ResponseLabels
      BY <1>1 DEF CurrentLabels, ResponseLabels
    <2> QED  BY <1>1, <1>6, <2>1, <2>2, <2>3, <2>4, CarryPreserves
  <1>7. CASE /\ withheld' = TRUE
             /\ run' = [run EXCEPT ![t] = [NoRun EXCEPT !.method = run[t].method,
                                                       !.response = {"Thrown"}]]
             /\ Goto(t, "Idle")
             /\ UNCHANGED <<secret, issued>>
    <2> DEFINE ended == [NoRun EXCEPT !.method = run[t].method, !.response = {"Thrown"}]
    <2>1. WorldKept /\ MutexKept(t)
      BY <1>1, <1>7 DEF WorldKept, MutexKept, ExecutorInv, TypeInv
    <2>2. /\ ended \in Run /\ ended.method = run[t].method /\ ended.response = {"Thrown"}
          /\ ~ended.retried_auth_refresh /\ ~ended.retried_region
      <3>1. run[t].method \in Methods \cup {NoRun.method} /\ {"Thrown"} \in SUBSET Responses
        BY <1>1 DEF Run, Responses
      <3> QED  BY <3>1, EndedRun
    <2>3. run' = [run EXCEPT ![t] = ended]
      BY <1>7
    <2> HIDE DEF ended
    <2>4. pc'[t] = "Idle" /\ run'[t] = ended /\ applied'[t] = applied[t]
      BY <1>1, <1>7, <2>3 DEF ExecutorInv, TypeInv, Goto
    <2>5. ThreadInv(t)'
      BY <1>1, <2>2, <2>4 DEF ThreadInv, HeldInv, MutexInv, RetryInv, ResultInv, PostInv,
             PublishLabels, CurrentLabels, ResponseLabels
    <2>6. /\ "Idle" \in Labels /\ applied[t] \in Nat
          /\ applied' = [applied EXCEPT ![t] = applied[t]]
      BY <1>1 DEF Labels, ExecutorInv, TypeInv
    <2> QED  BY <1>7, <2>1, <2>2, <2>3, <2>5, <2>6, LocalStepPreserves
  <1> QED  BY <1>4, <1>5, <1>6, <1>7 DEF TryRefreshS3Secret

\* No new material, but perhaps somebody else's.
LEMMA CaptureUnchangedPreserves ==
  ASSUME ExecutorInv, NEW t \in Threads, CaptureUnchanged(t)
  PROVE  ExecutorInv'
  <1>1. /\ WorldKept /\ pc[t] \in ResponseLabels /\ pc[t] # "Idle" /\ withheld
        /\ UNCHANGED <<credential_refresh_mutex, applied>>
    BY DEF CaptureUnchanged, publishVars, idleVars, worldVars, WorldKept, ExecutorInv, TypeInv,
           ThreadInv, RetryInv, CurrentLabels, ResponseLabels
  <1>2. CASE NewerCredentials(t) /\ Refreshed(t)
    BY <1>1, <1>2, NewerIsLater, RefreshedPreserves
  <1>3. CASE NotRefreshed(t)
    BY <1>1, <1>3, NotRefreshedPreserves
  <1> QED  BY <1>2, <1>3 DEF CaptureUnchanged

\* The material is superseded, or its publication begins with the present snapshot.
LEMMA CaptureLatestPreserves ==
  ASSUME ExecutorInv, NEW t \in Threads, CaptureLatest(t)
  PROVE  ExecutorInv'
  <1>1. /\ WorldKept /\ pc[t] \in ResponseLabels /\ pc[t] = "CaptureLatest"
        /\ UNCHANGED <<credential_refresh_mutex, applied>>
    BY DEF CaptureLatest, publishVars, idleVars, worldVars, WorldKept, ExecutorInv, TypeInv,
           PublishLabels, CurrentLabels, ResponseLabels
  <1>2. CASE NewerCredentials(t) /\ Refreshed(t)
    BY <1>1, <1>2, NewerIsLater, RefreshedPreserves
  <1>3. CASE /\ ~NewerCredentials(t)
             /\ run' = [run EXCEPT ![t].current = current_snapshot]
             /\ Goto(t, "PublishCredentials")
    BY <1>1, <1>3, CapturePreserves
  <1> QED  BY <1>2, <1>3 DEF CaptureLatest, Superseded

\* s may follow the session's snapshot.
Succeeds(s) ==
    /\ s \in Snapshot
    /\ s.id = snapshots + 1
    /\ \/ /\ current_snapshot.credential_generation < s.credential_generation
          /\ current_snapshot.key < s.key /\ s.key <= secret.key
       \/ /\ s.credential_generation = current_snapshot.credential_generation
          /\ s.key = current_snapshot.key
    /\ s.credential_refresh_enabled = current_snapshot.credential_refresh_enabled
    /\ current_snapshot.region_redirected => s.region_redirected
    /\ s.region = IF s.region_redirected THEN BucketRegion ELSE secret.region

\* The world as a publication leaves it.
RestKept == UNCHANGED <<secret, expired, issued, withheld, denials, applied>>

\* A publication that fails goes back to its beginning, and one that succeeds has used
\* the snapshot it replaced as a whole.
LEMMA PublishResult ==
  ASSUME ExecutorInv, NEW t \in Threads, pc[t] \in CurrentLabels,
         NEW s, NEW published \in BOOLEAN, Publish(t, s, published)
  PROVE  \/ /\ ~published /\ UNCHANGED <<current_snapshot, snapshots>>
         \/ /\ published /\ run[t].current = current_snapshot
            /\ snapshots' = snapshots + 1
            /\ current_snapshot' = [s EXCEPT !.id = snapshots + 1]
  BY DEF ExecutorInv, ThreadInv, HeldInv, Earlier, Publish, TryPublish

\* A new snapshot is published by t, whose run goes on with r.
LEMMA PublishedPreserves ==
  ASSUME ExecutorInv, NEW t \in Threads, NEW r \in Run, pc[t] \in ResponseLabels,
         Succeeds(current_snapshot'), snapshots' = snapshots + 1, RestKept,
         UNCHANGED credential_refresh_mutex,
         Goto(t, "CreateRequestData"), run' = [run EXCEPT ![t] = r],
         r.method = run[t].method,
         r.retried_region => \/ run[t].retried_region
                             \/ current_snapshot'.region = BucketRegion,
         r.retried_auth_refresh => \/ run[t].retried_auth_refresh
                                   \/ current_snapshot'.credential_generation > 0
  PROVE  ExecutorInv'
  <1>1. /\ run[t] \in Run /\ ThreadInv(t) /\ current_snapshot \in Snapshot
        /\ snapshots \in Nat /\ secret \in Material /\ denials \in Nat
    BY DEF ExecutorInv, TypeInv
  <1>2. /\ pc'[t] = "CreateRequestData" /\ run'[t] = r /\ applied'[t] = applied[t]
        /\ \A u \in Threads \ {t} :
              pc'[u] = pc[u] /\ run'[u] = run[u] /\ applied'[u] = applied[u]
    BY DEF RestKept, ExecutorInv, TypeInv, Goto
  <1>3. TypeInv'
    <2>1. run' \in [Threads -> Run] /\ pc' \in [Threads -> Labels]
      BY DEF ExecutorInv, TypeInv, Goto, Labels
    <2> QED  BY <2>1 DEF ExecutorInv, TypeInv, RestKept, Succeeds
  <1>4. /\ current_snapshot.region = IF current_snapshot.region_redirected
                                     THEN BucketRegion ELSE secret.region
        /\ current_snapshot.key <= secret.key
        /\ current_snapshot.credential_generation > 0 => current_snapshot.key > 0
        /\ current_snapshot.id <= snapshots
    BY DEF ExecutorInv, SessionInv, Earlier
  <1>5. Forward
    BY <1>1, <1>4 DEF Forward, RestKept, Succeeds, Snapshot, Material
  <1>6. SessionInv'
    BY <1>1, <1>4 DEF SessionInv, Earlier, RestKept, Succeeds, Snapshot, Material
  <1>7. IssuedInv'
    BY DEF ExecutorInv, IssuedInv, RestKept
  <1>8. ThreadInv(t)'
    <2>1. HeldInv(t)' /\ MutexInv(t)' /\ ResultInv(t)'
      BY <1>2 DEF HeldInv, MutexInv, ResultInv, PublishLabels, CurrentLabels, ResponseLabels
    <2>2. RetryInv(t)'
      <3>1. run[t].retried_region => current_snapshot'.region = BucketRegion
        BY <1>1, <1>5 DEF ThreadInv, RetryInv, Forward
      <3>2. run[t].retried_auth_refresh => current_snapshot'.credential_generation > 0
        BY <1>1 DEF ThreadInv, RetryInv, Succeeds, Snapshot
      <3> QED  BY <1>2, <3>1, <3>2 DEF RetryInv, PublishLabels, CurrentLabels, ResponseLabels
    <2>3. PostInv(t)'
      BY <1>1, <1>2 DEF ThreadInv, PostInv, PublishLabels, CurrentLabels, ResponseLabels
    <2> QED  BY <2>1, <2>2, <2>3 DEF ThreadInv
  <1> QED  BY <1>2, <1>3, <1>5, <1>6, <1>7, <1>8, StepPreserves DEF RestKept

\* The snapshot PublishCredentials makes of the present one.
LEMMA MergedSucceeds ==
  ASSUME ExecutorInv, NEW t \in Threads, pc[t] = "PublishCredentials",
         run[t].current = current_snapshot
  PROVE  LET s == [MergedCredentials(run[t].current, run[t].refreshed) EXCEPT !.id = snapshots + 1]
         IN  Succeeds(s) /\ s.credential_generation > 0
  <1> DEFINE m == run[t].refreshed
             c == current_snapshot
             s == [MergedCredentials(c, m) EXCEPT !.id = snapshots + 1]
  <1>1. /\ Earlier(run[t].data) /\ NewMaterial(m, run[t].data)
        /\ c.credential_generation = run[t].data.credential_generation
        /\ c \in Snapshot /\ snapshots \in Nat /\ secret \in Material
        /\ c.region = IF c.region_redirected THEN BucketRegion ELSE secret.region
    BY DEF ExecutorInv, TypeInv, ThreadInv, HeldInv, SessionInv, Earlier,
           PublishLabels, CurrentLabels, ResponseLabels
  <1>2. c.key < m.key /\ m.key <= secret.key /\ m \in Material
    BY <1>1 DEF Earlier, NewMaterial
  <1>3. m.region = secret.region \/ c.region_redirected
    BY <1>1 DEF NewMaterial
  <1> HIDE DEF m, c
  <1>4. s = [c EXCEPT !.id = snapshots + 1, !.key = m.key,
                      !.region = IF c.region_redirected THEN c.region ELSE m.region,
                      !.credential_generation = c.credential_generation + 1]
    BY <1>1 DEF MergedCredentials, Snapshot
  <1> HIDE DEF s
  <1>5. /\ s \in Snapshot /\ s.id = snapshots + 1 /\ s.key = m.key
        /\ s.credential_generation = c.credential_generation + 1
        /\ s.credential_refresh_enabled = c.credential_refresh_enabled
        /\ s.region_redirected = c.region_redirected
        /\ s.region = IF c.region_redirected THEN c.region ELSE m.region
    <2> DEFINE g == IF c.region_redirected THEN c.region ELSE m.region
               n == c.credential_generation + 1
               i == snapshots + 1
    <2>1. g \in Regions /\ n \in Nat /\ i \in Nat /\ m.key \in Nat
      BY <1>1, <1>2 DEF Snapshot, Material
    <2>2. s = [c EXCEPT !.id = i, !.key = m.key, !.region = g, !.credential_generation = n]
      BY <1>4
    <2> HIDE DEF g, n, i
    <2>3. /\ s \in Snapshot /\ s.id = i /\ s.key = m.key /\ s.credential_generation = n
          /\ s.credential_refresh_enabled = c.credential_refresh_enabled
          /\ s.region_redirected = c.region_redirected /\ s.region = g
      BY <1>1, <2>1, <2>2 DEF Snapshot
    <2> QED  BY <2>3 DEF g, n, i
  <1>6. c.credential_generation \in Nat
    BY <1>1 DEF Snapshot
  <1>7. Succeeds(s) /\ s.credential_generation > 0
    BY <1>1, <1>2, <1>3, <1>5, <1>6 DEF Succeeds, c
  <1> QED  BY <1>7 DEF s, c, m

\* Credentials are published, or others were quicker.
LEMMA PublishCredentialsPreserves ==
  ASSUME ExecutorInv, NEW t \in Threads, PublishCredentials(t)
  PROVE  ExecutorInv'
  <1>1. /\ pc[t] = "PublishCredentials" /\ pc[t] \in CurrentLabels /\ pc[t] \in ResponseLabels
        /\ run[t] \in Run /\ ThreadInv(t) /\ RestKept /\ UNCHANGED credential_refresh_mutex
    BY DEF PublishCredentials, RestKept, worldVars, ExecutorInv, TypeInv,
           PublishLabels, CurrentLabels, ResponseLabels
  <1>2. PICK published \in BOOLEAN :
           /\ Publish(t, MergedCredentials(run[t].current, run[t].refreshed), published)
           /\ IF published THEN Refreshed(t) ELSE Goto(t, "CaptureLatest") /\ UNCHANGED run
    BY DEF PublishCredentials
  <1>3. CASE published
    <2> DEFINE r == [run[t] EXCEPT !.retried_auth_refresh = TRUE,
                                   !.current = None, !.refreshed = None]
    <2>1. Succeeds(current_snapshot') /\ current_snapshot'.credential_generation > 0
      BY <1>1, <1>2, <1>3, PublishResult, MergedSucceeds
    <2>2. r \in Run /\ r.retried_region = run[t].retried_region /\ r.method = run[t].method
      BY <1>1 DEF Run
    <2>3. snapshots' = snapshots + 1
      BY <1>1, <1>2, <1>3, PublishResult
    <2>4. run' = [run EXCEPT ![t] = r] /\ Goto(t, "CreateRequestData")
      BY <1>2, <1>3 DEF Refreshed
    <2> HIDE DEF r
    <2> QED  BY <1>1, <2>1, <2>2, <2>3, <2>4, PublishedPreserves
  <1>4. CASE ~published
    <2>1. WorldKept
      BY <1>1, <1>2, <1>4, PublishResult DEF WorldKept, RestKept, ExecutorInv, TypeInv
    <2>2. /\ run' = [run EXCEPT ![t] = run[t]] /\ run'[t] = run[t] /\ pc'[t] = "CaptureLatest"
          /\ Goto(t, "CaptureLatest")
          /\ run[t] = [run[t] EXCEPT !.current = run[t].current, !.refreshed = run[t].refreshed]
      BY <1>1, <1>2, <1>4 DEF ExecutorInv, TypeInv, Goto, Run
    <2>3. HeldInv(t)' /\ MutexInv(t)'
      BY <1>1, <2>1, <2>2 DEF ThreadInv, HeldInv, MutexInv, Earlier, NewMaterial, WorldKept,
             PublishLabels, CurrentLabels, ResponseLabels
    <2>4. "CaptureLatest" \in ResponseLabels
      BY DEF PublishLabels, CurrentLabels, ResponseLabels
    <2> QED  BY <1>1, <2>1, <2>2, <2>3, <2>4, CarryPreserves DEF MutexKept, RestKept
  <1> QED  BY <1>3, <1>4

\* The redirect is known to the session already, or its publication begins.
LEMMA SetSessionRegionPreserves ==
  ASSUME ExecutorInv, NEW t \in Threads, SetSessionRegion(t)
  PROVE  ExecutorInv'
  <1>1. /\ WorldKept /\ pc[t] \in ResponseLabels /\ run[t] \in Run /\ ThreadInv(t)
        /\ UNCHANGED <<credential_refresh_mutex, applied>>
    BY DEF SetSessionRegion, publishVars, idleVars, worldVars, WorldKept, ExecutorInv, TypeInv,
           ResponseLabels
  <1>2. CASE current_snapshot.region = BucketRegion /\ Redirected(t)
    <2> DEFINE r == [run[t] EXCEPT !.retried_region = TRUE, !.current = None]
    <2>1. /\ r \in Run /\ r.method = run[t].method
          /\ r.retried_auth_refresh = run[t].retried_auth_refresh
      BY <1>1 DEF Run
    <2>2. /\ run' = [run EXCEPT ![t] = r] /\ applied[t] \in Nat
          /\ applied' = [applied EXCEPT ![t] = applied[t]] /\ Goto(t, "CreateRequestData")
      BY <1>1, <1>2 DEF Redirected, ExecutorInv, TypeInv
    <2> HIDE DEF r
    <2>3. pc'[t] = "CreateRequestData" /\ run'[t] = r /\ applied'[t] = applied[t]
      BY <2>2 DEF ExecutorInv, TypeInv, Goto
    <2>4. ThreadInv(t)'
      BY <1>1, <1>2, <2>1, <2>3 DEF ThreadInv, HeldInv, MutexInv, RetryInv, ResultInv, PostInv,
             WorldKept, PublishLabels, CurrentLabels, ResponseLabels
    <2>5. "CreateRequestData" \in Labels
      BY DEF Labels
    <2> QED  BY <1>1, <2>1, <2>2, <2>4, <2>5, LocalStepPreserves DEF MutexKept
  <1>3. CASE /\ run' = [run EXCEPT ![t].current = current_snapshot]
             /\ Goto(t, "PublishRegion")
    BY <1>1, <1>3, CapturePreserves
  <1> QED  BY <1>2, <1>3 DEF SetSessionRegion

\* A redirect is published, or others were quicker.
LEMMA PublishRegionPreserves ==
  ASSUME ExecutorInv, NEW t \in Threads, PublishRegion(t)
  PROVE  ExecutorInv' /\ (\/ UNCHANGED current_snapshot
                          \/ current_snapshot'.key = current_snapshot.key)
  <1>1. /\ pc[t] = "PublishRegion" /\ pc[t] \in CurrentLabels /\ pc[t] \in ResponseLabels
        /\ run[t] \in Run /\ ThreadInv(t) /\ RestKept /\ UNCHANGED credential_refresh_mutex
    BY DEF PublishRegion, RestKept, worldVars, ExecutorInv, TypeInv,
           CurrentLabels, ResponseLabels
  <1>2. PICK published \in BOOLEAN :
           /\ Publish(t, [run[t].current EXCEPT !.region = BucketRegion,
                                                !.region_redirected = TRUE], published)
           /\ IF published THEN Redirected(t)
              ELSE Goto(t, "SetSessionRegion") /\ UNCHANGED run
    BY DEF PublishRegion
  <1>3. CASE published
    <2> DEFINE r == [run[t] EXCEPT !.retried_region = TRUE, !.current = None]
               s == [[current_snapshot EXCEPT !.region = BucketRegion, !.region_redirected = TRUE]
                        EXCEPT !.id = snapshots + 1]
    <2>1. current_snapshot' = s /\ snapshots' = snapshots + 1
      BY <1>1, <1>2, <1>3, PublishResult
    <2>2. current_snapshot \in Snapshot /\ snapshots \in Nat /\ BucketRegion \in Regions
      BY ExecutorAssumption DEF ExecutorInv, TypeInv, ExecutorAssumption
    <2>3. /\ s \in Snapshot /\ s.id = snapshots + 1 /\ s.key = current_snapshot.key
          /\ s.credential_generation = current_snapshot.credential_generation
          /\ s.credential_refresh_enabled = current_snapshot.credential_refresh_enabled
          /\ s.region_redirected /\ s.region = BucketRegion
      <3> DEFINE i == snapshots + 1
                 c == [current_snapshot EXCEPT !.region = BucketRegion, !.region_redirected = TRUE]
      <3>1. i \in Nat /\ s = [c EXCEPT !.id = i]
        BY <2>2
      <3>2. /\ c \in Snapshot /\ c.key = current_snapshot.key
            /\ c.credential_generation = current_snapshot.credential_generation
            /\ c.credential_refresh_enabled = current_snapshot.credential_refresh_enabled
            /\ c.region_redirected = TRUE /\ c.region = BucketRegion
        BY <2>2 DEF Snapshot
      <3> HIDE DEF s, c, i
      <3>3. /\ s \in Snapshot /\ s.id = i /\ s.key = c.key
            /\ s.credential_generation = c.credential_generation
            /\ s.credential_refresh_enabled = c.credential_refresh_enabled
            /\ s.region_redirected = c.region_redirected /\ s.region = c.region
        BY <3>1, <3>2 DEF Snapshot
      <3> QED  BY <3>2, <3>3 DEF i
    <2> HIDE DEF s
    <2>4. Succeeds(current_snapshot')
      BY <2>1, <2>3 DEF Succeeds
    <2>5. /\ r \in Run /\ r.method = run[t].method
          /\ r.retried_auth_refresh = run[t].retried_auth_refresh
      BY <1>1 DEF Run
    <2>6. run' = [run EXCEPT ![t] = r] /\ Goto(t, "CreateRequestData")
      BY <1>2, <1>3 DEF Redirected
    <2> HIDE DEF r
    <2> QED  BY <1>1, <2>1, <2>3, <2>4, <2>5, <2>6, PublishedPreserves
  <1>4. CASE ~published
    <2>1. WorldKept /\ UNCHANGED current_snapshot
      BY <1>1, <1>2, <1>4, PublishResult DEF WorldKept, RestKept, ExecutorInv, TypeInv
    <2>2. /\ run' = [run EXCEPT ![t] = run[t]] /\ run'[t] = run[t] /\ pc'[t] = "SetSessionRegion"
          /\ Goto(t, "SetSessionRegion")
          /\ run[t] = [run[t] EXCEPT !.current = run[t].current, !.refreshed = run[t].refreshed]
      BY <1>1, <1>2, <1>4 DEF ExecutorInv, TypeInv, Goto, Run
    <2>3. HeldInv(t)' /\ MutexInv(t)'
      BY <1>1, <2>1, <2>2 DEF ThreadInv, HeldInv, MutexInv, Earlier, WorldKept,
             PublishLabels, CurrentLabels, ResponseLabels
    <2>4. "SetSessionRegion" \in ResponseLabels
      BY DEF ResponseLabels
    <2> QED  BY <1>1, <2>1, <2>2, <2>3, <2>4, CarryPreserves DEF MutexKept, RestKept
  <1> QED  BY <1>3, <1>4

\* Keys expire, or another connection renews the secret.
LEMMA WorldPreserves ==
  ASSUME ExecutorInv, Expire \/ RenewElsewhere
  PROVE  ExecutorInv'
  <1>1. /\ secret.key \in Nat /\ secret \in Material /\ MaxKeys \in Nat /\ expired \subseteq 0..secret.key
        /\ current_snapshot \in Snapshot
    BY ExecutorAssumption DEF ExecutorInv, TypeInv, Material, ExecutorAssumption
  <1>2. /\ UNCHANGED <<current_snapshot, snapshots, issued, withheld, denials, pc, run, applied,
                       credential_refresh_mutex>>
        /\ \/ UNCHANGED secret /\ expired' = 0..secret.key
           \/ UNCHANGED expired /\ secret' = [secret EXCEPT !.key = @ + 1] /\ secret.key < MaxKeys
    BY DEF Expire, RenewElsewhere, publishVars
  <1>3. /\ secret' \in Material /\ secret'.region = secret.region
        /\ secret'.key >= secret.key /\ secret'.key \in Nat
        /\ secret'.key = secret.key \/ secret'.key <= MaxKeys
    BY <1>1, <1>2 DEF Material
  <1>4. /\ expired' \subseteq 0..secret'.key
        /\ \A k \in expired : k > 0 => \E l \in expired' : l > 0
    BY <1>1, <1>2, <1>3
  <1>5. TypeInv'
    BY <1>2, <1>3, <1>4 DEF ExecutorInv, TypeInv
  <1>6. Forward
    BY <1>1, <1>2, <1>3, <1>4 DEF Forward, ExecutorInv, TypeInv
  <1>7. SessionInv' /\ IssuedInv'
    BY <1>1, <1>2, <1>3 DEF ExecutorInv, TypeInv, SessionInv, IssuedInv, Earlier, Snapshot
  <1>8. ASSUME NEW u \in Threads PROVE ThreadInv(u)'
    BY <1>2, <1>5, <1>6, OthersKeep DEF ExecutorInv
  <1> QED  BY <1>5, <1>7, <1>8 DEF ExecutorInv

-----------------------------------------------------------------------------
(* The theorems. *)

\* The invariant holds when the session is created.
LEMMA InitInv == ExecutorInit => ExecutorInv
  <1> SUFFICES ASSUME ExecutorInit PROVE ExecutorInv
    OBVIOUS
  <1>1. PICK config \in Configs, region \in Regions, enabled \in BOOLEAN :
           /\ secret = [key |-> 0, region |-> region]
           /\ current_snapshot = [id |-> 0, config |-> config, key |-> 0, region |-> region,
                                  region_redirected |-> FALSE, credential_generation |-> 0,
                                  credential_refresh_enabled |-> enabled]
    BY DEF ExecutorInit
  <1>2. NoRun \in Run /\ NoRun.response = {} /\ ~NoRun.retried_region /\ ~NoRun.retried_auth_refresh
    BY DEF NoRun, Run
  <1>3. /\ \A t \in Threads : run[t] = NoRun /\ pc[t] = "Idle" /\ applied[t] = 0
        /\ run \in [Threads -> Run] /\ applied \in [Threads -> Nat]
        /\ pc \in [Threads -> Labels]
    BY <1>2 DEF ExecutorInit, Labels
  <1>4. MaxKeys \in Nat
    BY ExecutorAssumption DEF ExecutorAssumption
  <1>5. TypeInv
    <2>1. secret \in Material /\ secret.key <= MaxKeys /\ current_snapshot \in Snapshot
      BY <1>1, <1>4 DEF Material, Snapshot
    <2>2. expired \subseteq 0..secret.key /\ issued \in [0..MaxKeys -> Nat]
      BY DEF ExecutorInit
    <2> QED  BY <1>3, <2>1, <2>2 DEF ExecutorInit, TypeInv
  <1>6. SessionInv /\ IssuedInv
    BY <1>1, <1>4 DEF ExecutorInit, SessionInv, IssuedInv, Earlier, Snapshot
  <1>7. ASSUME NEW t \in Threads PROVE ThreadInv(t)
    BY <1>2, <1>3 DEF ThreadInv, HeldInv, MutexInv, RetryInv, ResultInv, PostInv,
           PublishLabels, CurrentLabels, ResponseLabels
  <1> QED  BY <1>5, <1>6, <1>7 DEF ExecutorInv

\* Every step keeps it.
LEMMA NextInv == ExecutorInv /\ [ExecutorNext]_executorVars => ExecutorInv'
  <1> SUFFICES ASSUME ExecutorInv, [ExecutorNext]_executorVars PROVE ExecutorInv'
    OBVIOUS
  <1>1. ASSUME NEW t \in Threads, CallRun(t) \/ ExecutorStep(t)
        PROVE  ExecutorInv'
    BY <1>1, CallRunPreserves, CreateRequestDataPreserves, RequestPreserves,
       TryRefreshSessionPreserves, ReloadS3AuthMaterialPreserves, RunCredentialRefreshPreserves,
       TryRefreshS3SecretPreserves, CaptureUnchangedPreserves, CaptureLatestPreserves,
       PublishCredentialsPreserves, SetSessionRegionPreserves, PublishRegionPreserves
       DEF ExecutorStep
  <1>2. CASE UNCHANGED executorVars
    BY <1>2 DEF executorVars, publishVars, worldVars, ExecutorInv, TypeInv, SessionInv, IssuedInv,
           ThreadInv, HeldInv, MutexInv, RetryInv, ResultInv, PostInv, Earlier, NewMaterial,
           AuthErrorExplained
  <1> QED  BY <1>1, <1>2, WorldPreserves DEF ExecutorNext

\* The invariant above holds of every behaviour of the executor, for any number of
\* threads, retries, keys and requests.
THEOREM ExecutorInvariant == ExecutorSpec => []ExecutorInv
  BY InitInv, NextInv, PTL DEF ExecutorSpec

\* PublishCredentials and SetSessionRegion never lose a region the store redirected to,
\* whichever of them captured its snapshot first.
THEOREM RedirectKept == ExecutorSpec => []RedirectSurvivesRefresh
  <1>1. ExecutorInv => RedirectSurvivesRefresh
    BY DEF ExecutorInv, SessionInv, Earlier, RedirectSurvivesRefresh
  <1> QED  BY <1>1, ExecutorInvariant, PTL

\* The second look at the secret under credential_refresh_mutex makes the threads that
\* fail with one key ask the provider once.
THEOREM OneRefreshPerKey == ExecutorSpec => []RefreshedOncePerKey
  <1>1. ExecutorInv => RefreshedOncePerKey
    BY DEF ExecutorInv, TypeInv, IssuedInv, RefreshedOncePerKey
  <1> QED  BY <1>1, ExecutorInvariant, PTL

\* ShouldRetryReceivedResponse never has a POST repeated that the store may have applied,
\* nor do refresh and redirect, whose responses say that it was not.
THEOREM PostsAppliedOnce == ExecutorSpec => []PostAppliedOnce
  <1>1. ExecutorInv => PostAppliedOnce
    BY DEF ExecutorInv, TypeInv, ThreadInv, PostInv, DefaultPost, PostAppliedOnce
  <1> QED  BY <1>1, ExecutorInvariant, PTL

\* One refresh and one redirect per run, in either order, are enough.
THEOREM RetriesSuffice == ExecutorSpec => []OneRetryIsEnough
  <1>1. ExecutorInv => OneRetryIsEnough
    BY DEF ExecutorInv, ThreadInv, ResultInv, AuthErrorExplained, OneRetryIsEnough
  <1> QED  BY <1>1, ExecutorInvariant, PTL

\* TryPublish never replaces the session's credentials by older ones.
THEOREM CredentialsGrow == ExecutorSpec => CredentialsNeverGoBack
  <1>1. ExecutorInv /\ [ExecutorNext]_executorVars =>
          [current_snapshot'.key >= current_snapshot.key]_executorVars
    <2> SUFFICES ASSUME ExecutorInv, ExecutorNext
                 PROVE  current_snapshot'.key >= current_snapshot.key
      OBVIOUS
    <2>1. current_snapshot.key \in Nat
      BY DEF ExecutorInv, TypeInv, Snapshot
    <2>2. CASE UNCHANGED current_snapshot
      BY <2>1, <2>2
    <2>3. ASSUME NEW t \in Threads, PublishCredentials(t)
          PROVE  current_snapshot'.key >= current_snapshot.key
      <3>1. pc[t] = "PublishCredentials" /\ pc[t] \in CurrentLabels
        BY <2>3 DEF PublishCredentials, PublishLabels, CurrentLabels
      <3>2. PICK published \in BOOLEAN :
               Publish(t, MergedCredentials(run[t].current, run[t].refreshed), published)
        BY <2>3 DEF PublishCredentials
      <3>3. UNCHANGED current_snapshot \/ Succeeds(current_snapshot')
        BY <3>1, <3>2, PublishResult, MergedSucceeds
      <3> QED  BY <2>1, <3>3 DEF Succeeds, Snapshot
    <2>4. ASSUME NEW t \in Threads, PublishRegion(t)
          PROVE  current_snapshot'.key >= current_snapshot.key
      BY <2>1, <2>4, PublishRegionPreserves
    <2>5. ASSUME NEW t \in Threads, CallRun(t) \/ ExecutorStep(t),
                 ~PublishCredentials(t), ~PublishRegion(t)
          PROVE  UNCHANGED current_snapshot
      BY <2>5 DEF CallRun, ExecutorStep, CreateRequestData, Request, TryRefreshSession,
             ReloadS3AuthMaterial, RunCredentialRefresh, TryRefreshS3Secret, CaptureUnchanged,
             CaptureLatest, SetSessionRegion, publishVars
    <2>6. CASE Expire \/ RenewElsewhere
      BY <2>2, <2>6 DEF Expire, RenewElsewhere, publishVars
    <2> QED  BY <2>2, <2>3, <2>4, <2>5, <2>6 DEF ExecutorNext
  <1> QED  BY <1>1, ExecutorInvariant, PTL DEF ExecutorSpec, CredentialsNeverGoBack
=============================================================================
