------------------------------ MODULE S3FileHandle ------------------------------
(****************************************************************************)
(* S3FileHandle's upload side (src/s3/s3fs.cpp) around its S3UploadSession:  *)
(* every write or finalize holds a claim on the session for as long as it is *)
(* inside it, and AbortUpload destroys the session once no claim is left.    *)
(*                                                                          *)
(* The session's own steps are those of S3UploadSession; its calls are made  *)
(* by the handle only.  Every section under upload_lock is one action.       *)
(****************************************************************************)
EXTENDS S3UploadSession

VARIABLES
    upload_state,           \* UploadState
    active_upload_calls,    \* claims held
    upload_session,         \* whether the handle still owns a session
    at                      \* where each thread is in the handle's code: InSession holds
                            \* a claim, Aborting is inside session->Abort()

handleVars == <<upload_state, active_upload_calls, upload_session, at>>
allVars    == <<vars, handleVars>>

HandleInit ==
    /\ Init
    /\ upload_state = "ACTIVE"
    /\ active_upload_calls = 0
    /\ upload_session = TRUE
    /\ at = [t \in Threads |-> "Outside"]

MoveTo(t, place) == at' = [at EXCEPT ![t] = place]

Claimed == active_upload_calls + 1

\* Mutant: a claim is never given back.
ReleasedNever == active_upload_calls

Released == active_upload_calls - 1

\* ClaimUpload, then the session's Write or Finalize.  A claim on a handle that is
\* not ACTIVE throws and changes nothing.
ClaimUpload(t) ==
    /\ at[t] = "Outside"
    /\ upload_state = "ACTIVE"
    /\ upload_session
    /\ active_upload_calls' = Claimed
    /\ CallWrite(t) \/ CallFinalize(t)
    /\ MoveTo(t, "InSession")
    /\ UNCHANGED <<upload_state, upload_session>>

\* The session's call has returned or thrown: ~UploadClaim.
ReleaseUpload(t) ==
    /\ at[t] = "InSession"
    /\ pc[t] = "Idle"
    /\ active_upload_calls' = Released
    /\ MoveTo(t, "Outside")
    /\ UNCHANGED <<upload_state, upload_session, vars>>

CallAbortUpload(t) ==
    /\ at[t] = "Outside"
    /\ Budget
    /\ MoveTo(t, "AbortUpload")
    /\ UNCHANGED <<upload_state, active_upload_calls, upload_session, controlVars, dataVars,
                   initVars, failureVars, pc, inputVars, localVars, s3Vars, initiates, aborts,
                   reports>>

AbortMayStart == upload_state # "ABORTING"

AbortUpload(t) ==
    /\ at[t] = "AbortUpload"
    /\ AbortMayStart
    /\ \/ /\ upload_state = "ABORTED"
          /\ MoveTo(t, "Outside")
          /\ UNCHANGED <<upload_state, vars>>
       \/ /\ upload_state # "ABORTED"
          /\ upload_state' = "ABORTING"
          /\ MoveTo(t, "Aborting")
          /\ Enter(t, "Abort", "Abort")
          /\ UNCHANGED <<arg, calls>>
    /\ UNCHANGED <<active_upload_calls, upload_session>>

\* Mutant: the session is destroyed although claims on it are still held.
MayDetachEarly == TRUE

MayDetach == active_upload_calls = 0

\* The handle lets go of the session, which is destroyed.
Detach(t) ==
    /\ upload_session' = FALSE
    /\ upload_state' = "ABORTED"
    /\ MoveTo(t, "Outside")

\* Mutant: the answer of session->Abort() is taken for an abort.
NotAbortedIgnored == FALSE

\* session->Abort() returned false; FINALIZED is final, so it can be read here.
NotAborted == lifecycle_state = "FINALIZED"

\* session->Abort() has returned or thrown.
AbortReturned(t) ==
    /\ at[t] = "Aborting"
    /\ pc[t] = "Idle"
    /\ \/ /\ NotAborted
          /\ upload_state' = "ACTIVE"
          /\ MoveTo(t, "Outside")
          /\ UNCHANGED upload_session
       \/ /\ ~NotAborted
          /\ MayDetach
          /\ Detach(t)
       \/ /\ ~NotAborted
          /\ ~MayDetach
          /\ MoveTo(t, "AbortDetach")
          /\ UNCHANGED <<upload_state, upload_session>>
    /\ UNCHANGED <<active_upload_calls, vars>>

AbortDetach(t) ==
    /\ at[t] = "AbortDetach"
    /\ MayDetach
    /\ Detach(t)
    /\ UNCHANGED <<active_upload_calls, vars>>

SessionStep(t) == Step(t) /\ UNCHANGED handleVars

HandleStep(t) ==
    \/ SessionStep(t) \/ ReleaseUpload(t)
    \/ AbortUpload(t) \/ AbortReturned(t) \/ AbortDetach(t)

HandleNext == \E t \in Threads : ClaimUpload(t) \/ CallAbortUpload(t) \/ HandleStep(t)

HandleSpec == HandleInit /\ [][HandleNext]_allVars

\* Threads that can run do run and a request is answered or times out; nobody is
\* obliged to call.
HandleFairSpec == HandleSpec /\ \A t \in Threads : WF_allVars(HandleStep(t))

-----------------------------------------------------------------------------
(* Properties. *)

\* No thread is inside a session that has been destroyed: not one that runs an
\* operation, waits for admission, or waits to be told a failure.
NoUseAfterDestroy == ~upload_session => \A t \in Threads : pc[t] = "Idle"

\* The handle is aborted only if its session is: a session that was finalized
\* before the abort keeps the handle usable.
AbortAgreesWithSession ==
    /\ upload_state = "ABORTED" => lifecycle_state = "ABORTED"
    /\ ~upload_session => upload_state = "ABORTED"

\* AbortUpload returns, unless a writer waits for a gap in the input.
AbortUploadReturns ==
    \A t \in Threads : at[t] = "AbortUpload" ~>
        (at[t] = "Outside" \/ \E u \in Threads : WaitsForGap(u))
=============================================================================
