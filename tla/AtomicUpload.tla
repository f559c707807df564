------------------------------ MODULE AtomicUpload ------------------------------
(****************************************************************************)
(* What an upload session promises its callers, whatever they do at the same *)
(* time: input is accepted in order until the upload ends, it ends once, and *)
(* the object appears in one step with all of the accepted input or never.   *)
(****************************************************************************)
EXTENDS Naturals, Sequences

CONSTANTS
    Callers,        \* who may be the one that made the upload fail
    None            \* no object, no caller

VARIABLES
    outcome,        \* "Open", "Published", "Aborted" or "Failed"
    cause,          \* the caller that made it fail, None before
    accepted,       \* the length of the accepted input
    object          \* the published bytes, None before

uploadVars == <<outcome, cause, accepted, object>>

UploadInit == outcome = "Open" /\ cause = None /\ accepted = 0 /\ object = None

Accept ==
    /\ outcome = "Open" /\ object = None
    /\ accepted' \in Nat /\ accepted' > accepted
    /\ UNCHANGED <<outcome, cause, object>>

\* The byte at offset k is the number k.
Publish ==
    /\ outcome = "Open" /\ object = None
    /\ object' = [i \in 1..accepted |-> i - 1]
    /\ UNCHANGED <<outcome, cause, accepted>>

\* The upload ends: the publication is known to have happened, or nothing was
\* published, or a caller fails and the outcome at the store stays what it is.
Finish ==
    /\ outcome = "Open" /\ object # None
    /\ outcome' = "Published"
    /\ UNCHANGED <<cause, accepted, object>>

Abort ==
    /\ outcome = "Open" /\ object = None
    /\ outcome' = "Aborted"
    /\ UNCHANGED <<cause, accepted, object>>

Fail(caller) ==
    /\ outcome = "Open"
    /\ outcome' = "Failed" /\ cause' = caller
    /\ UNCHANGED <<accepted, object>>

UploadNext == Accept \/ Publish \/ Finish \/ Abort \/ \E caller \in Callers : Fail(caller)

UploadSpec == UploadInit /\ [][UploadNext]_uploadVars
=============================================================================
