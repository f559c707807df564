------------------------- MODULE S3UploadSessionProofs -------------------------
(* The control invariant of S3UploadSession and what follows from it; then the      *)
(* invariant of the file handle around the session: claims keep the session alive,  *)
(* and one thread at a time tears it down.                                          *)
EXTENDS S3FileHandle, FiniteSetTheorems, TLAPS

\* The labels of an Abort that has closed the session.
AbortOwners == {"AbortDrain", "AbortFailureWait", "AbortCleanup"}

\* A Finalize runs alone and, until it fails, in FINALIZING.
OperationInv ==
    \A t \in Threads :
        /\ pc[t] \in OperationLabels => op[t] \in {"Write", "Finalize"}
        /\ pc[t] \in WriterLabels \cup {"BeginWriteOperation"} => op[t] = "Write"
        /\ pc[t] \in FinalizeLabels \cup {"BeginFinalize"} => op[t] = "Finalize"
        /\ pc[t] \in OperationLabels /\ op[t] = "Finalize" =>
              /\ Operating = {t}
              /\ ~failed => lifecycle_state = "FINALIZING"
              /\ pc[t] \notin FailureLabels => ~failed

\* Whoever cleans up does so alone, after the last operation.
CleanupInv ==
    /\ cleanup_state # "NONE" =>
          Operating = {} /\ (failed \/ lifecycle_state \in {"ABORTING", "ABORTED"})
    /\ lifecycle_state = "FINALIZED" => Operating = {} /\ ~failed
    /\ lifecycle_state = "ABORTED" => Operating = {}
    /\ cleanup_state = "NONE" => aborts = 0
    /\ cleanup_state = "IN_PROGRESS" => aborts = 1
    /\ aborts <= 1
    /\ \A t \in Threads :
          /\ pc[t] \in AbortRequests => cleanup_state = "IN_PROGRESS"
          /\ pc[t] \in {"ReleaseWait", "AbortFailureWait", "ReleaseCleanup"} => failed
          /\ pc[t] = "AbortCleanup" => ~failed
          /\ pc[t] = "AbortDrain" /\ ~failed => cleanup_state = "NONE"
          /\ pc[t] \in AbortOwners => lifecycle_state = "ABORTING"
    /\ \A t, u \in Threads :
          /\ pc[t] \in AbortRequests /\ pc[u] \in AbortRequests => t = u
          /\ pc[t] \in AbortOwners /\ pc[u] \in AbortOwners => t = u

\* One thread initializes the upload, once.
InitializationInv ==
    /\ initiates = IF initialization_state = "NOT_STARTED" THEN 0 ELSE 1
    /\ multipart_upload_id => initialization_state = "SUCCEEDED"
    /\ \A t \in Threads :
          pc[t] = "InitializeMultipartUpload" => initialization_state = "IN_PROGRESS"
    /\ \A t, u \in Threads :
          pc[t] = "InitializeMultipartUpload" /\ pc[u] = "InitializeMultipartUpload" => t = u

\* What the store holds, as far as the session can know.
StoreInv ==
    /\ object # None /\ ~failed => lifecycle_state \in {"FINALIZING", "FINALIZED"}
    /\ upload = "Open" => multipart_upload_id \/ abort_suppressed
    /\ failure_disposition = "AMBIGUOUS" => abort_suppressed
    /\ upload = "Completed" =>
          /\ aborts = 0
          /\ \/ abort_suppressed
             \/ lifecycle_state = "FINALIZED"
             \/ \E t \in Threads : \/ pc[t] = "FinishFinalize"
                                   \/ pc[t] = "LatchFailure" /\ thrown[t] = "AMBIGUOUS"
    /\ cleanup_state = "COMPLETE" /\ upload = "Open" => aborts = 1 \/ abort_suppressed

\* Callers are told of a failure when nothing about it can change any more.
ReportInv ==
    /\ reports \subseteq {<<primary_error, abort_error>>}
    /\ reports # {} => failed /\ cleanup_state = "COMPLETE"

ControlInv ==
    /\ ControlTypeOK
    /\ ActiveOperationsCounted
    /\ OperationInv
    /\ CleanupInv
    /\ InitializationInv
    /\ StoreInv
    /\ ReportInv

-----------------------------------------------------------------------------
(* Lemmas about the operations in progress. *)

\* There are finitely many operations in progress.
LEMMA OperatingFinite == IsFiniteSet(Operating) /\ Cardinality(Operating) \in Nat
  <1>1. Operating \subseteq Threads
    BY DEF Operating
  <1>2. IsFiniteSet(Operating)
    BY <1>1, SessionAssumption, FS_Subset DEF SessionAssumption
  <1> QED  BY <1>2, FS_CardinalityType

\* No operation is counted exactly when none is in progress.
LEMMA NoneOperating ==
  ASSUME ActiveOperationsCounted
  PROVE  active_operations = 0 <=> Operating = {}
  BY OperatingFinite, FS_EmptySet DEF ActiveOperationsCounted

\* The only operation counted is the one of a thread known to operate.
LEMMA OnlyOperating ==
  ASSUME ActiveOperationsCounted, active_operations = 1, NEW t \in Threads,
         pc[t] \in OperationLabels
  PROVE  Operating = {t}
  <1>1. PICK x : Operating = {x}
    BY OperatingFinite, FS_Singleton DEF ActiveOperationsCounted
  <1>2. t \in Operating
    BY DEF Operating
  <1> QED  BY <1>1, <1>2

\* A thread is admitted.
LEMMA Admitted ==
  ASSUME ControlTypeOK, ActiveOperationsCounted, NEW t \in Threads, NEW l \in OperationLabels,
         Goto(t, l), pc[t] \notin OperationLabels
  PROVE  /\ Operating' = Operating \cup {t}
         /\ Cardinality(Operating') = active_operations + 1
  <1>1. Operating' = Operating \cup {t}
    BY DEF ControlTypeOK, Operating, Goto
  <1>2. t \notin Operating
    BY DEF Operating
  <1> QED  BY <1>1, <1>2, OperatingFinite, FS_AddElement DEF ActiveOperationsCounted

\* A thread gives its operation back.
LEMMA OperationReleased ==
  ASSUME ControlTypeOK, ActiveOperationsCounted, NEW t \in Threads, NEW l \in Labels,
         Goto(t, l), pc[t] \in OperationLabels, l \notin OperationLabels
  PROVE  /\ Operating' = Operating \ {t}
         /\ Cardinality(Operating') = active_operations - 1
         /\ active_operations - 1 \in Nat
  <1>1. Operating' = Operating \ {t}
    BY DEF ControlTypeOK, Operating, Goto
  <1>2. t \in Operating
    BY DEF Operating
  <1>3. Cardinality(Operating') = active_operations - 1
    BY <1>1, <1>2, OperatingFinite, FS_RemoveElement DEF ActiveOperationsCounted
  <1>4. IsFiniteSet(Operating')
    BY <1>1, OperatingFinite, FS_RemoveElement
  <1>5. Cardinality(Operating') \in Nat
    BY <1>4, FS_CardinalityType
  <1> QED  BY <1>1, <1>3, <1>5

\* A thread moves on within or outside its operation.
LEMMA Kept ==
  ASSUME ControlTypeOK, NEW t \in Threads, NEW l \in Labels, Goto(t, l),
         pc[t] \in OperationLabels <=> l \in OperationLabels
  PROVE  Operating' = Operating
  BY DEF ControlTypeOK, Operating, Goto

\* A failure reported to a caller names a thread.
LEMMA ReportTyped ==
  ASSUME ControlTypeOK, failed, NEW abort \in BOOLEAN, Report(abort)
  PROVE  reports' \subseteq (Threads \X BOOLEAN)
  BY DEF ControlTypeOK, failed, Report

-----------------------------------------------------------------------------
(* Every action preserves the control invariant. *)

USE SessionAssumption DEF
    SessionAssumption, ControlInv, Goto, failed,
    controlVars, dataVars, initVars, failureVars, inputVars, localVars, s3Vars, histVars,
    OperationLabels, WriterLabels, UploadLabels, FinalizeLabels, FailureLabels, AbortRequests,
    WaitLabels, Labels,
    LifecycleState, InitializationState, CleanupState, FailureDisposition, UploadState

\* A public method is entered.
LEMMA EnterPreserves ==
  ASSUME ControlInv, NEW t \in Threads, NEW m, NEW l, Enter(t, m, l), calls' \in Nat,
         <<m, l>> \in {<<"Write", "BeginWriteOperation">>, <<"Finalize", "BeginFinalize">>,
                       <<"Abort", "Abort">>}
  PROVE  ControlInv'
  <1>1. ControlTypeOK'
    BY DEF Enter, ControlTypeOK
  <1>2. Operating' = Operating
    BY DEF Enter, ControlTypeOK, Operating
  <1>3. ActiveOperationsCounted'
    BY <1>2 DEF Enter, ActiveOperationsCounted
  <1>4. OperationInv'
    BY <1>2 DEF Enter, OperationInv, Operating, ControlTypeOK
  <1>5. CleanupInv'
    BY <1>2 DEF Enter, CleanupInv, AbortOwners, ControlTypeOK
  <1>6. InitializationInv'
    BY DEF Enter, InitializationInv, ControlTypeOK
  <1>7. StoreInv'
    BY DEF Enter, StoreInv, ControlTypeOK
  <1>8. ReportInv'
    BY DEF Enter, ReportInv, ControlTypeOK
  <1> QED  BY <1>1, <1>3, <1>4, <1>5, <1>6, <1>7, <1>8

\* Write, Finalize or Abort is called.
LEMMA CallsPreserve ==
  ASSUME ControlInv, NEW t \in Threads, Calls(t)
  PROVE  ControlInv'
  <1>1. calls' \in Nat
    BY DEF Calls, CallWrite, CallFinalize, CallAbort, Budget, ControlTypeOK
  <1>2. \/ Enter(t, "Write", "BeginWriteOperation")
        \/ Enter(t, "Finalize", "BeginFinalize")
        \/ Enter(t, "Abort", "Abort")
    BY DEF Calls, CallWrite, CallFinalize, CallAbort
  <1> QED  BY ONLY ControlInv, t \in Threads, <1>1, <1>2, EnterPreserves

\* Admission of a write.
LEMMA BeginWriteOperationPreserves ==
  ASSUME ControlInv, NEW t \in Threads, BeginWriteOperation(t)
  PROVE  ControlInv'
  <1>1. ControlTypeOK'
    <2>1. pc' \in [Threads -> Labels]
      BY DEF BeginWriteOperation, ControlTypeOK
    <2>3. active_operations' \in Nat
      BY DEF BeginWriteOperation, ControlTypeOK
    <2>2. reports' \subseteq (Threads \X BOOLEAN)
      BY ReportTyped DEF BeginWriteOperation, Settled, ControlTypeOK
    <2> QED
      BY <2>1, <2>2, <2>3 DEF BeginWriteOperation, Settled, ControlTypeOK
  <1>3. ActiveOperationsCounted'
    BY Admitted, OperationReleased, Kept DEF BeginWriteOperation, Settled, Report, ActiveOperationsCounted
  <1>4. OperationInv'
    <2>1. CASE pc'[t] = "PrepareWrite"
      <3>1. ~failed /\ lifecycle_state = "ACTIVE"
        BY <2>1 DEF BeginWriteOperation, ControlTypeOK
      <3>2. \A u \in Threads : pc[u] \in OperationLabels => op[u] # "Finalize"
        BY <3>1 DEF OperationInv
      <3> QED
        BY <2>1, <3>1, <3>2 DEF BeginWriteOperation, OperationInv, ControlTypeOK
    <2>2. CASE pc'[t] # "PrepareWrite"
      <3>1. Goto(t, "Idle")
        BY <2>2 DEF BeginWriteOperation, ControlTypeOK
      <3>2. Operating' = Operating
        BY <3>1, Kept DEF BeginWriteOperation
      <3> QED
        BY <3>1, <3>2 DEF BeginWriteOperation, OperationInv, ControlTypeOK
    <2> QED  BY <2>1, <2>2
  <1>5. CleanupInv'
    <2>1. CASE pc'[t] = "PrepareWrite"
      <3>1. ~failed /\ lifecycle_state = "ACTIVE"
        BY <2>1 DEF BeginWriteOperation, ControlTypeOK
      <3> QED
        BY <2>1, <3>1 DEF BeginWriteOperation, CleanupInv, AbortOwners, Operating, ControlTypeOK
    <2>2. CASE pc'[t] # "PrepareWrite"
      <3>1. Goto(t, "Idle")
        BY <2>2 DEF BeginWriteOperation, ControlTypeOK
      <3>2. Operating' = Operating
        BY <3>1, Kept DEF BeginWriteOperation
      <3> QED
        BY <3>1, <3>2 DEF BeginWriteOperation, CleanupInv, AbortOwners, ControlTypeOK
    <2> QED  BY <2>1, <2>2
  <1>6. InitializationInv'
    BY DEF BeginWriteOperation, Settled, Report, InitializationInv, ControlTypeOK
  <1>7. StoreInv'
    BY NoneOperating, OnlyOperating
       DEF BeginWriteOperation, Settled, Report, StoreInv, OperationInv, CleanupInv, Operating,
           ControlTypeOK
  <1>8. ReportInv'
    BY NoneOperating, OnlyOperating
       DEF BeginWriteOperation, Settled, Report, ReportInv, CleanupInv, ControlTypeOK
  <1> QED  BY <1>1, <1>3, <1>4, <1>5, <1>6, <1>7, <1>8

\* Admission of a finalize.
LEMMA BeginFinalizePreserves ==
  ASSUME ControlInv, NEW t \in Threads, BeginFinalize(t)
  PROVE  ControlInv'
  <1>1. ControlTypeOK'
    <2>1. pc' \in [Threads -> Labels]
      BY DEF BeginFinalize, ControlTypeOK
    <2>3. active_operations' \in Nat
      BY DEF BeginFinalize, ControlTypeOK
    <2>2. reports' \subseteq (Threads \X BOOLEAN)
      BY ReportTyped DEF BeginFinalize, Settled, FinalizeRefused, ControlTypeOK
    <2> QED
      BY <2>1, <2>2, <2>3 DEF BeginFinalize, Settled, FinalizeRefused, ControlTypeOK
  <1>3. ActiveOperationsCounted'
    BY Admitted, OperationReleased, Kept
       DEF BeginFinalize, Settled, Report, FinalizeRefused, ActiveOperationsCounted
  <1>4. OperationInv'
    <2>1. CASE pc'[t] = "Finalize"
      <3>1. /\ ~failed
            /\ active_operations = 0
            /\ Goto(t, "Finalize")
            /\ lifecycle_state' = "FINALIZING"
        BY <2>1 DEF BeginFinalize, FinalizeRefused, ControlTypeOK
      <3>2. Operating = {} /\ Operating' = {t}
        BY <3>1, NoneOperating, Admitted DEF BeginFinalize
      <3>3. \A u \in Threads : pc'[u] \in OperationLabels => u = t
        BY <3>2 DEF Operating
      <3> QED
        BY <3>1, <3>2, <3>3 DEF BeginFinalize, OperationInv, ControlTypeOK
    <2>2. CASE pc'[t] # "Finalize"
      <3>1. Goto(t, "Idle") /\ UNCHANGED lifecycle_state
        BY <2>2 DEF BeginFinalize, ControlTypeOK
      <3>2. Operating' = Operating
        BY <3>1, Kept DEF BeginFinalize
      <3> QED
        BY <3>1, <3>2 DEF BeginFinalize, OperationInv, ControlTypeOK
    <2> QED  BY <2>1, <2>2
  <1>5. CleanupInv'
    BY NoneOperating, OnlyOperating
       DEF BeginFinalize, Settled, Report, FinalizeRefused, CleanupInv, OperationInv,
           AbortOwners, Operating, ControlTypeOK
  <1>6. InitializationInv'
    BY DEF BeginFinalize, Settled, Report, FinalizeRefused, InitializationInv, ControlTypeOK
  <1>7. StoreInv'
    BY NoneOperating, OnlyOperating
       DEF BeginFinalize, Settled, Report, FinalizeRefused, StoreInv, OperationInv, CleanupInv,
           Operating, ControlTypeOK
  <1>8. ReportInv'
    BY NoneOperating, OnlyOperating
       DEF BeginFinalize, Settled, Report, FinalizeRefused, ReportInv, CleanupInv,
           ControlTypeOK
  <1> QED  BY <1>1, <1>3, <1>4, <1>5, <1>6, <1>7, <1>8

\* An operation latches its failure.
LEMMA LatchFailurePreserves ==
  ASSUME ControlInv, NEW t \in Threads, LatchFailure(t)
  PROVE  ControlInv'
  <1>1. ControlTypeOK'
    BY DEF LatchFailure, LatchFailureLocked, ControlTypeOK
  <1>2. Operating' = Operating
    BY DEF LatchFailure, LatchFailureLocked, ControlTypeOK, Operating
  <1>3. ActiveOperationsCounted'
    BY <1>2 DEF LatchFailure, LatchFailureLocked, ActiveOperationsCounted
  <1>4. OperationInv'
    BY <1>2, NoneOperating, OnlyOperating
       DEF LatchFailure, LatchFailureLocked, OperationInv, Operating, ControlTypeOK
  <1>5. CleanupInv'
    BY <1>2, NoneOperating, OnlyOperating
       DEF LatchFailure, LatchFailureLocked, CleanupInv, OperationInv, AbortOwners, Operating,
           ControlTypeOK
  <1>6. InitializationInv'
    BY DEF LatchFailure, LatchFailureLocked, InitializationInv, ControlTypeOK
  <1>7. StoreInv'
    BY ZenonT(40), <1>2, NoneOperating, OnlyOperating
       DEF LatchFailure, LatchFailureLocked, StoreInv, OperationInv, CleanupInv, Operating,
           ControlTypeOK
  <1>8. ReportInv'
    BY <1>2, NoneOperating, OnlyOperating
       DEF LatchFailure, LatchFailureLocked, ReportInv, CleanupInv, ControlTypeOK
  <1> QED  BY <1>1, <1>3, <1>4, <1>5, <1>6, <1>7, <1>8

\* An operation is released; the last one out of a failed session starts the cleanup.
LEMMA ReleaseOperationPreserves ==
  ASSUME ControlInv, NEW t \in Threads, ReleaseOperation(t)
  PROVE  ControlInv'
  <1>1. ControlTypeOK'
    <2>1. pc' \in [Threads -> Labels]
      BY DEF ReleaseOperation, ControlTypeOK
    <2>2. active_operations' \in Nat
      BY OperationReleased DEF ReleaseOperation
    <2>3. reports' \subseteq (Threads \X BOOLEAN)
      BY ReportTyped DEF ReleaseOperation, ControlTypeOK
    <2> QED
      BY <2>1, <2>2, <2>3 DEF ReleaseOperation, ControlTypeOK
  <1>3. ActiveOperationsCounted'
    BY Admitted, OperationReleased, Kept
       DEF ReleaseOperation, LastRelease, MustAbort, Report, ActiveOperationsCounted
  <1>4. OperationInv'
    BY NoneOperating, OnlyOperating
       DEF ReleaseOperation, LastRelease, MustAbort, Report, OperationInv, Operating,
           ControlTypeOK
  <1>5. CleanupInv'
    BY NoneOperating, OnlyOperating
       DEF ReleaseOperation, LastRelease, MustAbort, Report, CleanupInv, OperationInv,
           AbortOwners, Operating, ControlTypeOK
  <1>6. InitializationInv'
    BY DEF ReleaseOperation, LastRelease, MustAbort, Report, InitializationInv, ControlTypeOK
  <1>7. StoreInv'
    BY NoneOperating, OnlyOperating
       DEF ReleaseOperation, LastRelease, MustAbort, Report, StoreInv, OperationInv,
           CleanupInv, Operating, ControlTypeOK
  <1>8. ReportInv'
    BY NoneOperating, OnlyOperating
       DEF ReleaseOperation, LastRelease, MustAbort, Report, ReportInv, CleanupInv,
           ControlTypeOK
  <1> QED  BY <1>1, <1>3, <1>4, <1>5, <1>6, <1>7, <1>8

\* A failed operation is told the failure.
LEMMA ReleaseWaitPreserves ==
  ASSUME ControlInv, NEW t \in Threads, ReleaseWait(t)
  PROVE  ControlInv'
  <1>1. ControlTypeOK'
    <2>1. failed
      BY DEF ReleaseWait, CleanupInv
    <2>2. reports' \subseteq (Threads \X BOOLEAN)
      BY <2>1, ReportTyped DEF ReleaseWait, ControlTypeOK
    <2> QED
      BY <2>2 DEF ReleaseWait, ControlTypeOK
  <1>2. Operating' = Operating
    BY DEF ReleaseWait, Report, ControlTypeOK, Operating
  <1>3. ActiveOperationsCounted'
    BY <1>2 DEF ReleaseWait, Report, ActiveOperationsCounted
  <1>4. OperationInv'
    BY <1>2, NoneOperating, OnlyOperating
       DEF ReleaseWait, Report, OperationInv, Operating, ControlTypeOK
  <1>5. CleanupInv'
    BY <1>2, NoneOperating, OnlyOperating
       DEF ReleaseWait, Report, CleanupInv, OperationInv, AbortOwners, Operating, ControlTypeOK
  <1>6. InitializationInv'
    BY DEF ReleaseWait, Report, InitializationInv, ControlTypeOK
  <1>7. StoreInv'
    BY <1>2, NoneOperating, OnlyOperating
       DEF ReleaseWait, Report, StoreInv, OperationInv, CleanupInv, Operating, ControlTypeOK
  <1>8. ReportInv'
    BY <1>2, NoneOperating, OnlyOperating
       DEF ReleaseWait, Report, ReportInv, CleanupInv, ControlTypeOK
  <1> QED  BY <1>1, <1>3, <1>4, <1>5, <1>6, <1>7, <1>8

\* The cleanup of a failed session ends.
LEMMA ReleaseCleanupPreserves ==
  ASSUME ControlInv, NEW t \in Threads, ReleaseCleanup(t)
  PROVE  ControlInv'
  <1>1. ControlTypeOK'
    <2>1. failed
      BY DEF ReleaseCleanup, CleanupInv
    <2>2. PICK error \in BOOLEAN : /\ AbortMultipartUpload(error)
                                  /\ abort_error' = (abort_error \/ error)
                                  /\ Report(abort_error \/ error)
      BY DEF ReleaseCleanup
    <2>3. reports' \subseteq (Threads \X BOOLEAN)
      BY <2>1, <2>2, ReportTyped
    <2>4. abort_error' \in BOOLEAN
      BY <2>2
    <2>5. upload' \in UploadState
      BY <2>2 DEF AbortMultipartUpload, ControlTypeOK
    <2> QED
      BY <2>3, <2>4, <2>5 DEF ReleaseCleanup, ControlTypeOK
  <1>2. Operating' = Operating
    BY DEF ReleaseCleanup, AbortMultipartUpload, Report, ControlTypeOK, Operating
  <1>3. ActiveOperationsCounted'
    BY <1>2 DEF ReleaseCleanup, AbortMultipartUpload, Report, ActiveOperationsCounted
  <1>4. OperationInv'
    BY <1>2, NoneOperating, OnlyOperating
       DEF ReleaseCleanup, AbortMultipartUpload, Report, OperationInv, Operating, ControlTypeOK
  <1>5. CleanupInv'
    BY <1>2, NoneOperating, OnlyOperating
       DEF ReleaseCleanup, AbortMultipartUpload, Report, CleanupInv, OperationInv, AbortOwners,
           Operating, ControlTypeOK
  <1>6. InitializationInv'
    BY DEF ReleaseCleanup, AbortMultipartUpload, Report, InitializationInv, ControlTypeOK
  <1>7. StoreInv'
    BY <1>2, NoneOperating, OnlyOperating
       DEF ReleaseCleanup, AbortMultipartUpload, Report, StoreInv, OperationInv, CleanupInv,
           Operating, ControlTypeOK
  <1>8. ReportInv'
    BY <1>2, NoneOperating, OnlyOperating
       DEF ReleaseCleanup, AbortMultipartUpload, Report, ReportInv, CleanupInv, ControlTypeOK
  <1> QED  BY <1>1, <1>3, <1>4, <1>5, <1>6, <1>7, <1>8

\* A write is cut into parts.
LEMMA PrepareWritePreserves ==
  ASSUME ControlInv, NEW t \in Threads, PrepareWrite(t)
  PROVE  ControlInv'
  <1>1. ControlTypeOK'
    <2>1. \A parts : NextPart(t, parts) \in Labels
      BY DEF NextPart, AfterParts
    <2>2. \E label \in Labels : Goto(t, label)
      <3>1. \/ Throw(t, "DEFINITIVE")
            \/ \E parts : Goto(t, NextPart(t, parts))
        BY DEF PrepareWrite
      <3> QED
        BY <2>1, <3>1 DEF Throw
    <2>3. pc' \in [Threads -> Labels]
      BY <2>2 DEF Goto, ControlTypeOK
    <2>4. thrown' \in [Threads -> FailureDisposition]
      BY DEF PrepareWrite, Throw, ControlTypeOK
    <2> QED
      BY <2>3, <2>4 DEF PrepareWrite, Throw, ControlTypeOK
  <1>2. Operating' = Operating
    BY DEF PrepareWrite, Throw, NextPart, AfterParts, ControlTypeOK, Operating
  <1>3. ActiveOperationsCounted'
    BY <1>2 DEF PrepareWrite, Throw, NextPart, AfterParts, ActiveOperationsCounted
  <1>4. OperationInv'
    BY <1>2, NoneOperating, OnlyOperating
       DEF PrepareWrite, Throw, NextPart, AfterParts, OperationInv, Operating, ControlTypeOK
  <1>5. CleanupInv'
    BY <1>2, NoneOperating, OnlyOperating
       DEF PrepareWrite, Throw, NextPart, AfterParts, CleanupInv, OperationInv, AbortOwners,
           Operating, ControlTypeOK
  <1>6. InitializationInv'
    BY DEF PrepareWrite, Throw, NextPart, AfterParts, InitializationInv, ControlTypeOK
  <1>7. StoreInv'
    BY <1>2, NoneOperating, OnlyOperating
       DEF PrepareWrite, Throw, NextPart, AfterParts, StoreInv, OperationInv, CleanupInv,
           Operating, ControlTypeOK
  <1>8. ReportInv'
    BY <1>2, NoneOperating, OnlyOperating
       DEF PrepareWrite, Throw, NextPart, AfterParts, ReportInv, CleanupInv, ControlTypeOK
  <1> QED  BY <1>1, <1>3, <1>4, <1>5, <1>6, <1>7, <1>8

\* An operation needs the upload ID.
LEMMA EnsureMultipartUploadPreserves ==
  ASSUME ControlInv, NEW t \in Threads, EnsureMultipartUpload(t)
  PROVE  ControlInv'
  <1>1. ControlTypeOK'
    <2>1. pc' \in [Threads -> Labels]
      BY DEF EnsureMultipartUpload, Throw, ControlTypeOK
    <2>2. thrown' \in [Threads -> FailureDisposition]
      BY DEF EnsureMultipartUpload, Throw, ControlTypeOK
    <2> QED
      BY <2>1, <2>2 DEF EnsureMultipartUpload, Throw, ControlTypeOK
  <1>2. Operating' = Operating
    BY DEF EnsureMultipartUpload, Throw, ControlTypeOK, Operating
  <1>3. ActiveOperationsCounted'
    BY <1>2 DEF EnsureMultipartUpload, Throw, ActiveOperationsCounted
  <1>4. OperationInv'
    BY <1>2, NoneOperating, OnlyOperating
       DEF EnsureMultipartUpload, Throw, OperationInv, Operating, ControlTypeOK
  <1>5. CleanupInv'
    BY <1>2 DEF EnsureMultipartUpload, Throw, CleanupInv, AbortOwners, Operating, ControlTypeOK
  <1>6. InitializationInv'
    BY DEF EnsureMultipartUpload, Throw, InitializationInv, ControlTypeOK
  <1>7. StoreInv'
    BY <1>2, NoneOperating, OnlyOperating
       DEF EnsureMultipartUpload, Throw, StoreInv, OperationInv, CleanupInv, Operating,
           ControlTypeOK
  <1>8. ReportInv'
    BY <1>2, NoneOperating, OnlyOperating
       DEF EnsureMultipartUpload, Throw, ReportInv, CleanupInv, ControlTypeOK
  <1> QED  BY <1>1, <1>3, <1>4, <1>5, <1>6, <1>7, <1>8

\* The initiation is answered.
LEMMA InitializeMultipartUploadPreserves ==
  ASSUME ControlInv, NEW t \in Threads, InitializeMultipartUpload(t)
  PROVE  ControlInv'
  <1>1. ControlTypeOK'
    <2>1. pc' \in [Threads -> Labels]
      <3>1. \E l \in Labels : pc' = [pc EXCEPT ![t] = l]
        BY DEF InitializeMultipartUpload, Throw
      <3> QED  BY <3>1 DEF ControlTypeOK
    <2>2. thrown' \in [Threads -> FailureDisposition]
      BY DEF InitializeMultipartUpload, Throw, LatchFailureLocked, ControlTypeOK
    <2> QED
      BY ZenonT(40), <2>1, <2>2 DEF InitializeMultipartUpload, Throw, LatchFailureLocked, ControlTypeOK
  <1>2. Operating' = Operating
    BY DEF InitializeMultipartUpload, Throw, LatchFailureLocked, ControlTypeOK, Operating
  <1>3. ActiveOperationsCounted'
    BY <1>2 DEF InitializeMultipartUpload, Throw, LatchFailureLocked, ActiveOperationsCounted
  <1>4. OperationInv'
    BY <1>2, NoneOperating, OnlyOperating
       DEF InitializeMultipartUpload, Throw, LatchFailureLocked, OperationInv, Operating,
           ControlTypeOK
  <1>5. CleanupInv'
    BY <1>2, NoneOperating, OnlyOperating
       DEF InitializeMultipartUpload, Throw, LatchFailureLocked, CleanupInv, OperationInv,
           AbortOwners, Operating, ControlTypeOK
  <1>6. InitializationInv'
    <2>1. /\ pc'[t] # "InitializeMultipartUpload"
          /\ \A u \in Threads : u # t => pc'[u] = pc[u]
      BY DEF InitializeMultipartUpload, Throw, ControlTypeOK
    <2> QED  BY <2>1 DEF InitializeMultipartUpload, InitializationInv
  <1>7. StoreInv'
    <2>1. cleanup_state = "NONE" /\ aborts = 0
      BY DEF InitializeMultipartUpload, CleanupInv, ControlTypeOK, Operating
    <2>2. object # None /\ ~failed' => lifecycle_state' \in {"FINALIZING", "FINALIZED"}
      BY DEF InitializeMultipartUpload, LatchFailureLocked, StoreInv
    <2>3. upload' = "Open" => multipart_upload_id' \/ abort_suppressed'
      BY DEF InitializeMultipartUpload, LatchFailureLocked
    <2>4. failure_disposition' = "AMBIGUOUS" => abort_suppressed'
      BY DEF InitializeMultipartUpload, LatchFailureLocked, StoreInv
    <2>5. upload' # "Completed"
      BY DEF InitializeMultipartUpload
    <2> QED
      BY <2>1, <2>2, <2>3, <2>4, <2>5 DEF InitializeMultipartUpload, StoreInv
  <1>8. ReportInv'
    BY <1>2, NoneOperating, OnlyOperating
       DEF InitializeMultipartUpload, Throw, LatchFailureLocked, ReportInv, CleanupInv,
           ControlTypeOK
  <1> QED  BY <1>1, <1>3, <1>4, <1>5, <1>6, <1>7, <1>8

\* An operation looks for a failure before its next request.
LEMMA ThrowIfFailedPreserves ==
  ASSUME ControlInv, NEW t \in Threads, ThrowIfFailed(t)
  PROVE  ControlInv'
  <1>1. ControlTypeOK'
    <2>1. pc' \in [Threads -> Labels]
      BY DEF ThrowIfFailed, Throw, ControlTypeOK
    <2>2. thrown' \in [Threads -> FailureDisposition]
      BY DEF ThrowIfFailed, Throw, ControlTypeOK
    <2> QED
      BY <2>1, <2>2 DEF ThrowIfFailed, Throw, ControlTypeOK
  <1>2. Operating' = Operating
    BY DEF ThrowIfFailed, Throw, ControlTypeOK, Operating
  <1>3. ActiveOperationsCounted'
    BY <1>2 DEF ThrowIfFailed, Throw, ActiveOperationsCounted
  <1>4. OperationInv'
    BY <1>2, NoneOperating, OnlyOperating
       DEF ThrowIfFailed, Throw, OperationInv, Operating, ControlTypeOK
  <1>5. CleanupInv'
    BY <1>2, NoneOperating, OnlyOperating
       DEF ThrowIfFailed, Throw, CleanupInv, OperationInv, AbortOwners, Operating,
           ControlTypeOK
  <1>6. InitializationInv'
    BY DEF ThrowIfFailed, Throw, InitializationInv, ControlTypeOK
  <1>7. StoreInv'
    BY <1>2, NoneOperating, OnlyOperating
       DEF ThrowIfFailed, Throw, StoreInv, OperationInv, CleanupInv, Operating, ControlTypeOK
  <1>8. ReportInv'
    BY <1>2, NoneOperating, OnlyOperating
       DEF ThrowIfFailed, Throw, ReportInv, CleanupInv, ControlTypeOK
  <1> QED  BY <1>1, <1>3, <1>4, <1>5, <1>6, <1>7, <1>8

\* A part is uploaded.
LEMMA UploadPartPreserves ==
  ASSUME ControlInv, NEW t \in Threads, UploadPart(t)
  PROVE  ControlInv'
  <1>1. ControlTypeOK'
    <2>1. pc' \in [Threads -> Labels]
      BY DEF UploadPart, Throw, NextPart, AfterParts, PutPart, ControlTypeOK
    <2>2. thrown' \in [Threads -> FailureDisposition]
      BY DEF UploadPart, Throw, NextPart, AfterParts, PutPart, ControlTypeOK
    <2> QED
      BY <2>1, <2>2 DEF UploadPart, Throw, NextPart, AfterParts, PutPart, ControlTypeOK
  <1>2. Operating' = Operating
    BY DEF UploadPart, Throw, NextPart, AfterParts, PutPart, ControlTypeOK, Operating
  <1>3. ActiveOperationsCounted'
    BY <1>2 DEF UploadPart, Throw, NextPart, AfterParts, PutPart, ActiveOperationsCounted
  <1>4. OperationInv'
    BY <1>2, NoneOperating, OnlyOperating
       DEF UploadPart, Throw, NextPart, AfterParts, PutPart, OperationInv, Operating,
           ControlTypeOK
  <1>5. CleanupInv'
    BY <1>2, NoneOperating, OnlyOperating
       DEF UploadPart, Throw, NextPart, AfterParts, PutPart, CleanupInv, OperationInv,
           AbortOwners, Operating, ControlTypeOK
  <1>6. InitializationInv'
    <2>1. /\ pc'[t] # "InitializeMultipartUpload"
          /\ \A u \in Threads : u # t => pc'[u] = pc[u]
      BY DEF UploadPart, Throw, NextPart, AfterParts, ControlTypeOK
    <2> QED  BY <2>1 DEF UploadPart, InitializationInv
  <1>7. StoreInv'
    BY <1>2, NoneOperating, OnlyOperating
       DEF UploadPart, Throw, NextPart, AfterParts, PutPart, StoreInv, OperationInv,
           CleanupInv, Operating, ControlTypeOK
  <1>8. ReportInv'
    BY <1>2, NoneOperating, OnlyOperating
       DEF UploadPart, Throw, NextPart, AfterParts, PutPart, ReportInv, CleanupInv,
           ControlTypeOK
  <1> QED  BY <1>1, <1>3, <1>4, <1>5, <1>6, <1>7, <1>8

\* A write moves the cursor.
LEMMA UpdateCursorPreserves ==
  ASSUME ControlInv, NEW t \in Threads, UpdateCursor(t)
  PROVE  ControlInv'
  <1>1. ControlTypeOK'
    BY DEF UpdateCursor, ControlTypeOK
  <1>2. Operating' = Operating
    BY DEF UpdateCursor, ControlTypeOK, Operating
  <1>3. ActiveOperationsCounted'
    BY <1>2 DEF UpdateCursor, ActiveOperationsCounted
  <1>4. OperationInv'
    BY <1>2, NoneOperating, OnlyOperating DEF UpdateCursor, OperationInv, Operating, ControlTypeOK
  <1>5. CleanupInv'
    BY <1>2, NoneOperating, OnlyOperating
       DEF UpdateCursor, CleanupInv, OperationInv, AbortOwners, Operating, ControlTypeOK
  <1>6. InitializationInv'
    BY DEF UpdateCursor, InitializationInv, ControlTypeOK
  <1>7. StoreInv'
    BY <1>2, NoneOperating, OnlyOperating
       DEF UpdateCursor, StoreInv, OperationInv, CleanupInv, Operating, ControlTypeOK
  <1>8. ReportInv'
    BY <1>2, NoneOperating, OnlyOperating DEF UpdateCursor, ReportInv, CleanupInv, ControlTypeOK
  <1> QED  BY <1>1, <1>3, <1>4, <1>5, <1>6, <1>7, <1>8

\* A finalize chooses its way.
LEMMA FinalizePreserves ==
  ASSUME ControlInv, NEW t \in Threads, Finalize(t)
  PROVE  ControlInv'
  <1>1. ControlTypeOK'
    <2>1. pc' \in [Threads -> Labels]
      BY SMTT(40) DEF Finalize, Throw, ControlTypeOK
    <2>2. thrown' \in [Threads -> FailureDisposition]
      BY DEF Finalize, Throw, ControlTypeOK
    <2> QED
      BY <2>1, <2>2 DEF Finalize, Throw, ControlTypeOK
  <1>2. Operating' = Operating
    BY DEF Finalize, Throw, ControlTypeOK, Operating
  <1>3. ActiveOperationsCounted'
    BY <1>2 DEF Finalize, Throw, ActiveOperationsCounted
  <1>4. OperationInv'
    BY <1>2, NoneOperating, OnlyOperating
       DEF Finalize, Throw, OperationInv, Operating, ControlTypeOK
  <1>5. CleanupInv'
    BY <1>2, NoneOperating, OnlyOperating
       DEF Finalize, Throw, CleanupInv, OperationInv, AbortOwners, Operating, ControlTypeOK
  <1>6. InitializationInv'
    BY DEF Finalize, Throw, InitializationInv, ControlTypeOK
  <1>7. StoreInv'
    BY <1>2, NoneOperating, OnlyOperating
       DEF Finalize, Throw, StoreInv, OperationInv, CleanupInv, Operating, ControlTypeOK
  <1>8. ReportInv'
    BY <1>2, NoneOperating, OnlyOperating DEF Finalize, Throw, ReportInv, CleanupInv, ControlTypeOK
  <1> QED  BY <1>1, <1>3, <1>4, <1>5, <1>6, <1>7, <1>8

\* The object is uploaded in one request.
LEMMA UploadSinglePreserves ==
  ASSUME ControlInv, NEW t \in Threads, UploadSingle(t)
  PROVE  ControlInv'
  <1>1. ControlTypeOK'
    <2>1. pc' \in [Threads -> Labels]
      BY DEF UploadSingle, Throw, PutObject, ControlTypeOK
    <2>2. thrown' \in [Threads -> FailureDisposition]
      BY DEF UploadSingle, Throw, PutObject, ControlTypeOK
    <2> QED
      BY <2>1, <2>2 DEF UploadSingle, Throw, PutObject, ControlTypeOK
  <1>2. Operating' = Operating
    BY DEF UploadSingle, Throw, PutObject, ControlTypeOK, Operating
  <1>3. ActiveOperationsCounted'
    BY <1>2 DEF UploadSingle, Throw, PutObject, ActiveOperationsCounted
  <1>4. OperationInv'
    BY <1>2, NoneOperating, OnlyOperating
       DEF UploadSingle, Throw, PutObject, OperationInv, Operating, ControlTypeOK
  <1>5. CleanupInv'
    BY <1>2, NoneOperating, OnlyOperating
       DEF UploadSingle, Throw, PutObject, CleanupInv, OperationInv, AbortOwners, Operating,
           ControlTypeOK
  <1>6. InitializationInv'
    BY DEF UploadSingle, Throw, PutObject, InitializationInv, ControlTypeOK
  <1>7. StoreInv'
    BY <1>2, NoneOperating, OnlyOperating
       DEF UploadSingle, Throw, PutObject, StoreInv, OperationInv, CleanupInv, Operating,
           ControlTypeOK
  <1>8. ReportInv'
    BY <1>2, NoneOperating, OnlyOperating
       DEF UploadSingle, Throw, PutObject, ReportInv, CleanupInv, ControlTypeOK
  <1> QED  BY <1>1, <1>3, <1>4, <1>5, <1>6, <1>7, <1>8

\* The completion request is prepared.
LEMMA CompleteMultipartUploadPreserves ==
  ASSUME ControlInv, NEW t \in Threads, CompleteMultipartUpload(t)
  PROVE  ControlInv'
  <1>1. ControlTypeOK'
    <2>1. pc' \in [Threads -> Labels]
      BY DEF CompleteMultipartUpload, Throw, ControlTypeOK
    <2>2. thrown' \in [Threads -> FailureDisposition]
      BY DEF CompleteMultipartUpload, Throw, ControlTypeOK
    <2> QED
      BY <2>1, <2>2 DEF CompleteMultipartUpload, Throw, ControlTypeOK
  <1>2. Operating' = Operating
    BY DEF CompleteMultipartUpload, Throw, ControlTypeOK, Operating
  <1>3. ActiveOperationsCounted'
    BY <1>2 DEF CompleteMultipartUpload, Throw, ActiveOperationsCounted
  <1>4. OperationInv'
    BY <1>2, NoneOperating, OnlyOperating
       DEF CompleteMultipartUpload, Throw, OperationInv, Operating, ControlTypeOK
  <1>5. CleanupInv'
    BY <1>2, NoneOperating, OnlyOperating
       DEF CompleteMultipartUpload, Throw, CleanupInv, OperationInv, AbortOwners, Operating,
           ControlTypeOK
  <1>6. InitializationInv'
    BY DEF CompleteMultipartUpload, Throw, InitializationInv, ControlTypeOK
  <1>7. StoreInv'
    BY <1>2, NoneOperating, OnlyOperating
       DEF CompleteMultipartUpload, Throw, StoreInv, OperationInv, CleanupInv, Operating,
           ControlTypeOK
  <1>8. ReportInv'
    BY <1>2, NoneOperating, OnlyOperating
       DEF CompleteMultipartUpload, Throw, ReportInv, CleanupInv, ControlTypeOK
  <1> QED  BY <1>1, <1>3, <1>4, <1>5, <1>6, <1>7, <1>8

\* The completion is answered.
LEMMA ReceiveCompletionPreserves ==
  ASSUME ControlInv, NEW t \in Threads, ReceiveCompletion(t)
  PROVE  ControlInv'
  <1>1. ControlTypeOK'
    <2>1. pc' \in [Threads -> Labels]
      BY ZenonT(40) DEF ReceiveCompletion, Throw, PublishParts, ControlTypeOK
    <2>2. thrown' \in [Threads -> FailureDisposition]
      BY DEF ReceiveCompletion, Throw, PublishParts, ControlTypeOK
    <2> QED
      BY <2>1, <2>2 DEF ReceiveCompletion, Throw, PublishParts, ControlTypeOK
  <1>2. Operating' = Operating
    BY DEF ReceiveCompletion, Throw, PublishParts, ControlTypeOK, Operating
  <1>3. ActiveOperationsCounted'
    BY <1>2 DEF ReceiveCompletion, Throw, PublishParts, ActiveOperationsCounted
  <1>4. OperationInv'
    BY <1>2, NoneOperating, OnlyOperating
       DEF ReceiveCompletion, Throw, PublishParts, OperationInv, Operating, ControlTypeOK
  <1>5. CleanupInv'
    BY <1>2, NoneOperating, OnlyOperating
       DEF ReceiveCompletion, Throw, PublishParts, CleanupInv, OperationInv, AbortOwners,
           Operating, ControlTypeOK
  <1>6. InitializationInv'
    BY DEF ReceiveCompletion, Throw, PublishParts, InitializationInv, ControlTypeOK
  <1>7. StoreInv'
    BY <1>2, NoneOperating, OnlyOperating
       DEF ReceiveCompletion, Throw, PublishParts, StoreInv, OperationInv, CleanupInv,
           Operating, ControlTypeOK
  <1>8. ReportInv'
    BY <1>2, NoneOperating, OnlyOperating
       DEF ReceiveCompletion, Throw, PublishParts, ReportInv, CleanupInv, ControlTypeOK
  <1> QED  BY <1>1, <1>3, <1>4, <1>5, <1>6, <1>7, <1>8

\* A finalize ends.
LEMMA FinishFinalizePreserves ==
  ASSUME ControlInv, NEW t \in Threads, FinishFinalize(t)
  PROVE  ControlInv'
  <1>1. ControlTypeOK'
    <2>1. active_operations' \in Nat
      BY OperationReleased DEF FinishFinalize
    <2> QED
      BY <2>1 DEF FinishFinalize, ControlTypeOK
  <1>3. ActiveOperationsCounted'
    BY Admitted, OperationReleased, Kept DEF FinishFinalize, ActiveOperationsCounted
  <1>4. OperationInv'
    BY NoneOperating, OnlyOperating DEF FinishFinalize, OperationInv, Operating, ControlTypeOK
  <1>5. CleanupInv'
    BY NoneOperating, OnlyOperating
       DEF FinishFinalize, CleanupInv, OperationInv, AbortOwners, Operating, ControlTypeOK
  <1>6. InitializationInv'
    BY DEF FinishFinalize, InitializationInv, ControlTypeOK
  <1>7. StoreInv'
    BY NoneOperating, OnlyOperating
       DEF FinishFinalize, StoreInv, OperationInv, CleanupInv, Operating, ControlTypeOK
  <1>8. ReportInv'
    BY NoneOperating, OnlyOperating DEF FinishFinalize, ReportInv, CleanupInv, ControlTypeOK
  <1> QED  BY <1>1, <1>3, <1>4, <1>5, <1>6, <1>7, <1>8

\* An abort closes the session.
LEMMA AbortPreserves ==
  ASSUME ControlInv, NEW t \in Threads, Abort(t)
  PROVE  ControlInv'
  <1>1. ControlTypeOK'
    <2>1. pc' \in [Threads -> Labels]
      <3>1. \E l \in Labels : pc' = [pc EXCEPT ![t] = l]
        BY DEF Abort, AbortDrained
      <3> QED  BY <3>1 DEF ControlTypeOK
    <2>2. reports' \subseteq (Threads \X BOOLEAN)
      BY ReportTyped DEF Abort, AbortDrained, ControlTypeOK
    <2> QED
      BY <2>1, <2>2 DEF Abort, AbortDrained, ControlTypeOK
  <1>2. Operating' = Operating
    BY DEF Abort, AbortDrained, Report, ControlTypeOK, Operating
  <1>3. ActiveOperationsCounted'
    BY <1>2 DEF Abort, AbortDrained, Report, ActiveOperationsCounted
  <1>4. OperationInv'
    BY <1>2, NoneOperating, OnlyOperating
       DEF Abort, AbortDrained, Report, OperationInv, Operating, ControlTypeOK
  <1>5. CleanupInv'
    BY <1>2, NoneOperating, OnlyOperating
       DEF Abort, AbortDrained, Report, CleanupInv, OperationInv, AbortOwners, Operating,
           ControlTypeOK
  <1>6. InitializationInv'
    BY DEF Abort, AbortDrained, Report, InitializationInv, ControlTypeOK
  <1>7. StoreInv'
    BY <1>2, NoneOperating, OnlyOperating
       DEF Abort, AbortDrained, Report, StoreInv, OperationInv, CleanupInv, Operating,
           ControlTypeOK
  <1>8. ReportInv'
    BY <1>2, NoneOperating, OnlyOperating
       DEF Abort, AbortDrained, Report, ReportInv, CleanupInv, ControlTypeOK
  <1> QED  BY <1>1, <1>3, <1>4, <1>5, <1>6, <1>7, <1>8

\* An abort has waited for the operations in progress.
LEMMA AbortDrainPreserves ==
  ASSUME ControlInv, NEW t \in Threads, AbortDrain(t)
  PROVE  ControlInv'
  <1>1. ControlTypeOK'
    <2>1. pc' \in [Threads -> Labels]
      BY SMTT(40) DEF AbortDrain, AbortDrained, ControlTypeOK
    <2>2. reports' \subseteq (Threads \X BOOLEAN)
      BY ReportTyped DEF AbortDrain, AbortDrained, ControlTypeOK
    <2> QED
      BY <2>1, <2>2 DEF AbortDrain, AbortDrained, ControlTypeOK
  <1>2. Operating' = Operating
    BY DEF AbortDrain, AbortDrained, Report, ControlTypeOK, Operating
  <1>3. ActiveOperationsCounted'
    BY <1>2 DEF AbortDrain, AbortDrained, Report, ActiveOperationsCounted
  <1>4. OperationInv'
    BY <1>2, NoneOperating, OnlyOperating
       DEF AbortDrain, AbortDrained, Report, OperationInv, Operating, ControlTypeOK
  <1>5. CleanupInv'
    BY <1>2, NoneOperating, OnlyOperating
       DEF AbortDrain, AbortDrained, Report, CleanupInv, OperationInv, AbortOwners, Operating,
           ControlTypeOK
  <1>6. InitializationInv'
    BY DEF AbortDrain, AbortDrained, Report, InitializationInv, ControlTypeOK
  <1>7. StoreInv'
    <2>1. lifecycle_state = "ABORTING" /\ Operating = {}
      BY NoneOperating DEF AbortDrain, CleanupInv, AbortOwners
    <2>2. upload = "Completed" => abort_suppressed
      BY <2>1 DEF StoreInv, Operating
    <2>3. object # None => failed
      BY <2>1 DEF StoreInv
    <2> QED
      BY <2>1, <2>2, <2>3 DEF AbortDrain, AbortDrained, StoreInv, CleanupInv, ControlTypeOK
  <1>8. ReportInv'
    BY <1>2, NoneOperating, OnlyOperating
       DEF AbortDrain, AbortDrained, Report, ReportInv, CleanupInv, ControlTypeOK
  <1> QED  BY <1>1, <1>3, <1>4, <1>5, <1>6, <1>7, <1>8

\* An abort has waited for the cleanup of a failure.
LEMMA AbortFailureWaitPreserves ==
  ASSUME ControlInv, NEW t \in Threads, AbortFailureWait(t)
  PROVE  ControlInv'
  <1>1. ControlTypeOK'
    <2>1. failed
      BY DEF AbortFailureWait, CleanupInv
    <2>2. reports' \subseteq (Threads \X BOOLEAN)
      BY <2>1, ReportTyped DEF AbortFailureWait, ControlTypeOK
    <2> QED
      BY <2>2 DEF AbortFailureWait, ControlTypeOK
  <1>2. Operating' = Operating
    BY DEF AbortFailureWait, Report, ControlTypeOK, Operating
  <1>3. ActiveOperationsCounted'
    BY <1>2 DEF AbortFailureWait, Report, ActiveOperationsCounted
  <1>4. OperationInv'
    BY <1>2 DEF AbortFailureWait, OperationInv, CleanupInv, ControlTypeOK
  <1>5. CleanupInv'
    BY <1>2, NoneOperating, OnlyOperating
       DEF AbortFailureWait, Report, CleanupInv, OperationInv, AbortOwners, Operating,
           ControlTypeOK
  <1>6. InitializationInv'
    BY DEF AbortFailureWait, Report, InitializationInv, ControlTypeOK
  <1>7. StoreInv'
    BY <1>2, NoneOperating, OnlyOperating
       DEF AbortFailureWait, Report, StoreInv, OperationInv, CleanupInv, Operating,
           ControlTypeOK
  <1>8. ReportInv'
    BY <1>2, NoneOperating, OnlyOperating
       DEF AbortFailureWait, Report, ReportInv, CleanupInv, ControlTypeOK
  <1> QED  BY <1>1, <1>3, <1>4, <1>5, <1>6, <1>7, <1>8

\* The cleanup of an abort ends.
LEMMA AbortCleanupPreserves ==
  ASSUME ControlInv, NEW t \in Threads, AbortCleanup(t)
  PROVE  ControlInv'
  <1>1. ControlTypeOK'
    BY DEF AbortCleanup, AbortMultipartUpload, ControlTypeOK
  <1>2. Operating' = Operating
    BY DEF AbortCleanup, AbortMultipartUpload, ControlTypeOK, Operating
  <1>3. ActiveOperationsCounted'
    BY <1>2 DEF AbortCleanup, AbortMultipartUpload, ActiveOperationsCounted
  <1>4. OperationInv'
    BY <1>2 DEF AbortCleanup, OperationInv, CleanupInv, Operating, ControlTypeOK
  <1>5. CleanupInv'
    BY <1>2, NoneOperating, OnlyOperating
       DEF AbortCleanup, AbortMultipartUpload, CleanupInv, OperationInv, AbortOwners,
           Operating, ControlTypeOK
  <1>6. InitializationInv'
    BY DEF AbortCleanup, AbortMultipartUpload, InitializationInv, ControlTypeOK
  <1>7. StoreInv'
    BY <1>2, NoneOperating, OnlyOperating
       DEF AbortCleanup, AbortMultipartUpload, StoreInv, OperationInv, CleanupInv, Operating,
           ControlTypeOK
  <1>8. ReportInv'
    BY <1>2, NoneOperating, OnlyOperating
       DEF AbortCleanup, AbortMultipartUpload, ReportInv, CleanupInv, ControlTypeOK
  <1> QED  BY <1>1, <1>3, <1>4, <1>5, <1>6, <1>7, <1>8

\* A step of any thread, or of none, preserves the control invariant.
LEMMA NextPreserves ==
  ASSUME ControlInv, [Next]_vars
  PROVE  ControlInv'
  <1>1. CASE UNCHANGED vars
    BY <1>1 DEF vars, ControlTypeOK, ActiveOperationsCounted, Operating, OperationInv, CleanupInv,
                AbortOwners, InitializationInv, StoreInv, ReportInv
  <1>2. ASSUME NEW t \in Threads, Calls(t)
        PROVE  ControlInv'
    BY <1>2, CallsPreserve
  <1>3. ASSUME NEW t \in Threads, Step(t)
        PROVE  ControlInv'
    <2>1. CASE BeginWriteOperation(t)
      BY <2>1, BeginWriteOperationPreserves
    <2>2. CASE BeginFinalize(t)
      BY <2>2, BeginFinalizePreserves
    <2>3. CASE LatchFailure(t)
      BY <2>3, LatchFailurePreserves
    <2>4. CASE ReleaseOperation(t)
      BY <2>4, ReleaseOperationPreserves
    <2>5. CASE ReleaseWait(t)
      BY <2>5, ReleaseWaitPreserves
    <2>6. CASE ReleaseCleanup(t)
      BY <2>6, ReleaseCleanupPreserves
    <2>7. CASE PrepareWrite(t)
      BY <2>7, PrepareWritePreserves
    <2>8. CASE EnsureMultipartUpload(t)
      BY <2>8, EnsureMultipartUploadPreserves
    <2>9. CASE InitializeMultipartUpload(t)
      BY <2>9, InitializeMultipartUploadPreserves
    <2>10. CASE ThrowIfFailed(t)
      BY <2>10, ThrowIfFailedPreserves
    <2>11. CASE UploadPart(t)
      BY <2>11, UploadPartPreserves
    <2>12. CASE UpdateCursor(t)
      BY <2>12, UpdateCursorPreserves
    <2>13. CASE Finalize(t)
      BY <2>13, FinalizePreserves
    <2>14. CASE UploadSingle(t)
      BY <2>14, UploadSinglePreserves
    <2>15. CASE CompleteMultipartUpload(t)
      BY <2>15, CompleteMultipartUploadPreserves
    <2>16. CASE ReceiveCompletion(t)
      BY <2>16, ReceiveCompletionPreserves
    <2>17. CASE FinishFinalize(t)
      BY <2>17, FinishFinalizePreserves
    <2>18. CASE Abort(t)
      BY <2>18, AbortPreserves
    <2>19. CASE AbortDrain(t)
      BY <2>19, AbortDrainPreserves
    <2>20. CASE AbortFailureWait(t)
      BY <2>20, AbortFailureWaitPreserves
    <2>21. CASE AbortCleanup(t)
      BY <2>21, AbortCleanupPreserves
    <2> QED
      BY <1>3, <2>1, <2>2, <2>3, <2>4, <2>5, <2>6, <2>7, <2>8, <2>9, <2>10, <2>11,
         <2>12, <2>13, <2>14, <2>15, <2>16, <2>17, <2>18, <2>19, <2>20, <2>21 DEF Step
  <1> QED  BY <1>1, <1>2, <1>3 DEF Next

\* The session starts within the control invariant.
LEMMA InitControl ==
  ASSUME Init
  PROVE  ControlInv
  <1>1. Operating = {}
    BY DEF Init, Operating
  <1>2. ActiveOperationsCounted
    BY <1>1, FS_EmptySet DEF Init, ActiveOperationsCounted
  <1>3. ControlTypeOK
    BY DEF Init, ControlTypeOK
  <1>4. OperationInv /\ CleanupInv /\ InitializationInv /\ StoreInv /\ ReportInv
    BY DEF Init, OperationInv, CleanupInv, AbortOwners, InitializationInv, StoreInv, ReportInv
  <1> QED  BY <1>2, <1>3, <1>4

-----------------------------------------------------------------------------
(* What holds of every session, for all constants. *)

\* The control invariant holds in every reachable state of a session, with any
\* number of threads, writes and parts.
THEOREM ControlInvariant == Spec => []ControlInv
  <1>1. Init => ControlInv
    BY InitControl
  <1>2. ControlInv /\ [Next]_vars => ControlInv'
    BY NextPreserves
  <1> QED  BY <1>1, <1>2, PTL DEF Spec

\* active_operations counts the operations between admission and release.
THEOREM OperationsCounted == Spec => []ActiveOperationsCounted
  <1>1. ControlInv => ActiveOperationsCounted
    OBVIOUS
  <1> QED  BY <1>1, ControlInvariant, PTL

\* Once an abort request is sent, no other request for the upload is outstanding.
THEOREM AbortRequestLast == Spec => []AbortRequestIsLast
  <1>1. ControlInv => AbortRequestIsLast
    BY DEF CleanupInv, ControlTypeOK, AbortRequestIsLast, UploadRequests, Operating
  <1> QED  BY <1>1, ControlInvariant, PTL

\* At most one initiation and one abort are sent.
THEOREM SentOnce == Spec => []RequestsSentOnce
  <1>1. ControlInv => RequestsSentOnce
    BY DEF CleanupInv, InitializationInv, RequestsSentOnce
  <1> QED  BY <1>1, ControlInvariant, PTL

\* No abort request is sent for an upload that the store has completed.
THEOREM NeverAbortsCompleted == Spec => []CompletedNotAborted
  <1>1. ControlInv => CompletedNotAborted
    BY DEF StoreInv, CompletedNotAborted
  <1> QED  BY <1>1, ControlInvariant, PTL

\* The cleanup leaves no upload open unless its abort failed or is forbidden.
THEOREM UploadNotLeaked == Spec => []NoLeakedUpload
  <1>1. ControlInv => NoLeakedUpload
    BY DEF StoreInv, NoLeakedUpload
  <1> QED  BY <1>1, ControlInvariant, PTL

\* All callers are told the same failure.
THEOREM ErrorStable == Spec => []StableError
  <1>1. ASSUME ControlInv
        PROVE  StableError
    <2>1. reports \in SUBSET {<<primary_error, abort_error>>}
      BY <1>1 DEF ReportInv
    <2>2. /\ IsFiniteSet({<<primary_error, abort_error>>})
          /\ Cardinality({<<primary_error, abort_error>>}) = 1
      BY FS_Singleton
    <2>3. Cardinality(reports) <= Cardinality({<<primary_error, abort_error>>})
      BY <2>1, <2>2, FS_Subset
    <2> QED  BY <2>2, <2>3 DEF StableError
  <1> QED  BY <1>1, ControlInvariant, PTL

\* A session aborted without a failure has published nothing.
THEOREM AbortPublishesNothing == Spec => []AbortedNotPublished
  <1>1. ControlInv => AbortedNotPublished
    BY DEF StoreInv, AbortedNotPublished
  <1> QED  BY <1>1, ControlInvariant, PTL

\* A step that changes neither the control, the failure, the upload nor the accepted
\* bytes keeps all that is final.
LEMMA QuietKeeps ==
  ASSUME UNCHANGED <<lifecycle_state, cleanup_state, primary_error, failure_disposition,
                     abort_error, next_offset, upload>>
  PROVE  FailureKept
  BY DEF FailureKept

\* A step of the session keeps a failure, an end and a completed cleanup.
LEMMA StepKeeps ==
  ASSUME ControlInv, NEW t \in Threads, Step(t)
  PROVE  FailureKept
  <1>1. CASE BeginWriteOperation(t)
    BY <1>1, QuietKeeps DEF BeginWriteOperation, Settled, Report
  <1>2. CASE BeginFinalize(t)
    BY <1>2
       DEF BeginFinalize, Settled, Report, FinalizeRefused, FailureKept, OperationInv,
           CleanupInv, AbortOwners, Operating
  <1>3. CASE LatchFailure(t)
    BY <1>3
       DEF LatchFailure, LatchFailureLocked, FailureKept, OperationInv, CleanupInv,
           AbortOwners, Operating
  <1>4. CASE ReleaseOperation(t)
    BY <1>4
       DEF ReleaseOperation, LastRelease, MustAbort, Report, FailureKept, OperationInv,
           CleanupInv, AbortOwners, Operating
  <1>5. CASE ReleaseWait(t)
    BY <1>5, QuietKeeps DEF ReleaseWait, Report
  <1>6. CASE ReleaseCleanup(t)
    BY <1>6
       DEF ReleaseCleanup, AbortMultipartUpload, Report, FailureKept, OperationInv,
           CleanupInv, AbortOwners, Operating
  <1>7. CASE PrepareWrite(t)
    BY <1>7, QuietKeeps DEF PrepareWrite, Rejects, FailureKept
  <1>8. CASE EnsureMultipartUpload(t)
    BY <1>8, QuietKeeps DEF EnsureMultipartUpload, Throw
  <1>9. CASE InitializeMultipartUpload(t)
    BY <1>9
       DEF InitializeMultipartUpload, Throw, LatchFailureLocked, FailureKept, OperationInv,
           CleanupInv, AbortOwners, Operating
  <1>10. CASE ThrowIfFailed(t)
    BY <1>10, QuietKeeps DEF ThrowIfFailed, Throw
  <1>11. CASE UploadPart(t)
    BY <1>11, QuietKeeps DEF UploadPart, Throw, NextPart, AfterParts, PutPart
  <1>12. CASE UpdateCursor(t)
    BY <1>12, QuietKeeps DEF UpdateCursor
  <1>13. CASE Finalize(t)
    BY <1>13, QuietKeeps DEF Finalize, Throw
  <1>14. CASE UploadSingle(t)
    BY <1>14, QuietKeeps DEF UploadSingle, Throw, PutObject
  <1>15. CASE CompleteMultipartUpload(t)
    BY <1>15, QuietKeeps DEF CompleteMultipartUpload, Throw
  <1>16. CASE ReceiveCompletion(t)
    BY <1>16
       DEF ReceiveCompletion, Throw, PublishParts, FailureKept, OperationInv, CleanupInv,
           AbortOwners, Operating
  <1>17. CASE FinishFinalize(t)
    BY <1>17
       DEF FinishFinalize, FailureKept, OperationInv, CleanupInv, AbortOwners, Operating
  <1>18. CASE Abort(t)
    BY <1>18
       DEF Abort, AbortDrained, Report, FailureKept, OperationInv, CleanupInv, AbortOwners,
           Operating
  <1>19. CASE AbortDrain(t)
    BY <1>19
       DEF AbortDrain, AbortDrained, Report, FailureKept, OperationInv, CleanupInv,
           AbortOwners, Operating
  <1>20. CASE AbortFailureWait(t)
    BY <1>20
       DEF AbortFailureWait, Report, FailureKept, OperationInv, CleanupInv, AbortOwners,
           Operating
  <1>21. CASE AbortCleanup(t)
    BY <1>21
       DEF AbortCleanup, AbortMultipartUpload, FailureKept, OperationInv, CleanupInv,
           AbortOwners, Operating
  <1> QED
    BY <1>1, <1>2, <1>3, <1>4, <1>5, <1>6, <1>7, <1>8, <1>9, <1>10, <1>11,
       <1>12, <1>13, <1>14, <1>15, <1>16, <1>17, <1>18, <1>19, <1>20, <1>21 DEF Step

\* A failure, an ended session and a completed cleanup stay what they are.
THEOREM FailureStaysFinal == Spec => FailureIsFinal
  <1>1. ASSUME ControlInv, Next
        PROVE  FailureKept
    <2>1. ASSUME NEW t \in Threads, Calls(t)
          PROVE  FailureKept
      BY <2>1, QuietKeeps DEF Calls, CallWrite, CallFinalize, CallAbort, Enter
    <2> QED  BY <1>1, <2>1, StepKeeps DEF Next
  <1>2. ControlInv /\ [Next]_vars => [FailureKept]_vars
    BY <1>1
  <1> QED  BY <1>2, ControlInvariant, PTL DEF Spec, FailureIsFinal

-----------------------------------------------------------------------------
(* S3FileHandle: the session as the handle uses it. *)

HIDE DEF ControlInv, InitializationState, CleanupState, FailureDisposition, UploadState

UploadStates == {"ACTIVE", "ABORTING", "ABORTED"}
Places       == {"Outside", "InSession", "AbortUpload", "Aborting", "AbortDetach"}

\* Where a thread can be inside session->Abort().
AbortLabels == {"Abort"} \cup AbortOwners

HandleTypeOK ==
    /\ upload_state \in UploadStates
    /\ upload_session \in BOOLEAN
    /\ at \in [Threads -> Places]

Claims == {t \in Threads : at[t] = "InSession"}

\* A claim is counted from before the session is entered until after it is left.
ClaimInv ==
    /\ active_upload_calls = Cardinality(Claims)
    /\ \A t \in Threads : at[t] \in {"Outside", "AbortUpload", "AbortDetach"} => pc[t] = "Idle"

\* One thread aborts; it leaves session->Abort() only when the session has ended, and
\* waits for the claims only when the session is aborted.
AborterInv ==
    /\ \A t \in Threads :
          /\ at[t] \in {"Aborting", "AbortDetach"} => upload_state = "ABORTING"
          /\ at[t] = "Aborting" /\ pc[t] # "Idle" => pc[t] \in AbortLabels
          /\ at[t] = "Aborting" /\ pc[t] = "Idle" => lifecycle_state \in {"FINALIZED", "ABORTED"}
          /\ at[t] = "AbortDetach" => lifecycle_state = "ABORTED"
    /\ \A t, u \in Threads :
          at[t] \in {"Aborting", "AbortDetach"} /\ at[u] \in {"Aborting", "AbortDetach"} => t = u

\* The session is gone exactly when the handle is aborted; then nobody holds a claim.
DestroyInv ==
    /\ upload_session <=> upload_state # "ABORTED"
    /\ upload_state = "ABORTED" => lifecycle_state = "ABORTED" /\ Claims = {}

HandleInv ==
    /\ ControlInv
    /\ HandleTypeOK
    /\ ClaimInv
    /\ AborterInv
    /\ DestroyInv

-----------------------------------------------------------------------------
(* The session's steps, seen from the handle. *)

USE SessionAssumption DEF
    SessionAssumption, Goto, failed, AbortOwners,
    vars, controlVars, dataVars, initVars, failureVars, inputVars, localVars, s3Vars, histVars,
    OperationLabels, WriterLabels, UploadLabels, FinalizeLabels, FailureLabels, AbortRequests,
    WaitLabels, Labels, LifecycleState,
    handleVars, allVars, UploadStates, Places, AbortLabels, Claimed, Released, MoveTo

\* A step moves its own thread only, which is inside the session; an Abort leaves it
\* only when the session has ended.
LEMMA StepMoves ==
  ASSUME ControlInv, NEW t \in Threads, Step(t)
  PROVE  /\ pc[t] # "Idle"
         /\ \A u \in Threads : u # t => pc'[u] = pc[u]
         /\ pc[t] \in AbortLabels =>
               \/ pc'[t] \in AbortLabels
               \/ pc'[t] = "Idle" /\ lifecycle_state' \in {"FINALIZED", "ABORTED"}
  <1>1. pc \in [Threads -> Labels]
    BY DEF ControlInv, ControlTypeOK
  <1>2. CASE BeginWriteOperation(t)
    BY <1>1, <1>2 DEF BeginWriteOperation
  <1>3. CASE BeginFinalize(t)
    BY <1>1, <1>3 DEF BeginFinalize
  <1>4. CASE LatchFailure(t)
    BY <1>1, <1>4 DEF LatchFailure
  <1>5. CASE ReleaseOperation(t)
    BY <1>1, <1>5 DEF ReleaseOperation
  <1>6. CASE ReleaseWait(t)
    BY <1>1, <1>6 DEF ReleaseWait
  <1>7. CASE ReleaseCleanup(t)
    BY <1>1, <1>7 DEF ReleaseCleanup
  <1>8. CASE PrepareWrite(t)
    BY <1>1, <1>8 DEF PrepareWrite, Throw
  <1>9. CASE EnsureMultipartUpload(t)
    BY <1>1, <1>9 DEF EnsureMultipartUpload, Throw
  <1>10. CASE InitializeMultipartUpload(t)
    BY <1>1, <1>10 DEF InitializeMultipartUpload, Throw
  <1>11. CASE ThrowIfFailed(t)
    BY <1>1, <1>11 DEF ThrowIfFailed, Throw
  <1>12. CASE UploadPart(t)
    BY <1>1, <1>12 DEF UploadPart, Throw
  <1>13. CASE UpdateCursor(t)
    BY <1>1, <1>13 DEF UpdateCursor
  <1>14. CASE Finalize(t)
    BY <1>1, <1>14 DEF Finalize, Throw
  <1>15. CASE UploadSingle(t)
    BY <1>1, <1>15 DEF UploadSingle, Throw
  <1>16. CASE CompleteMultipartUpload(t)
    BY <1>1, <1>16 DEF CompleteMultipartUpload, Throw
  <1>17. CASE ReceiveCompletion(t)
    BY <1>1, <1>17 DEF ReceiveCompletion, Throw
  <1>18. CASE FinishFinalize(t)
    BY <1>1, <1>18 DEF FinishFinalize
  <1>19. CASE Abort(t)
    BY <1>1, <1>19 DEF Abort, AbortDrained
  <1>20. CASE AbortDrain(t)
    BY <1>1, <1>20 DEF AbortDrain, AbortDrained
  <1>21. CASE AbortFailureWait(t)
    BY <1>1, <1>21 DEF AbortFailureWait
  <1>22. CASE AbortCleanup(t)
    BY <1>1, <1>22 DEF AbortCleanup
  <1> QED
    BY <1>2, <1>3, <1>4, <1>5, <1>6, <1>7, <1>8, <1>9, <1>10, <1>11, <1>12, <1>13, <1>14,
       <1>15, <1>16, <1>17, <1>18, <1>19, <1>20, <1>21, <1>22 DEF Step

\* A step that leaves the session's variables alone, but for the calls made.
LEMMA QuietControl ==
  ASSUME ControlInv, calls' \in Nat,
         UNCHANGED <<controlVars, dataVars, initVars, failureVars, pc, inputVars, localVars,
                     s3Vars, initiates, aborts, reports>>
  PROVE  ControlInv'
  BY DEF ControlInv, ControlTypeOK, ActiveOperationsCounted, Operating, OperationInv, CleanupInv,
         InitializationInv, StoreInv, ReportInv

-----------------------------------------------------------------------------
(* Lemmas about the claims. *)

\* There are finitely many claims, and none is counted when nobody holds one.
LEMMA ClaimsFinite ==
  /\ IsFiniteSet(Claims)
  /\ Cardinality(Claims) \in Nat
  /\ Cardinality(Claims) = 0 <=> Claims = {}
  <1>1. Claims \subseteq Threads
    BY DEF Claims
  <1>2. IsFiniteSet(Claims)
    BY <1>1, FS_Subset
  <1> QED  BY <1>2, FS_CardinalityType, FS_EmptySet

\* A thread claims the session.
LEMMA ClaimAdded ==
  ASSUME HandleTypeOK, NEW t \in Threads, at[t] # "InSession", MoveTo(t, "InSession")
  PROVE  Cardinality(Claims') = Cardinality(Claims) + 1
  <1>1. Claims' = Claims \cup {t}
    BY DEF HandleTypeOK, Claims
  <1>2. t \notin Claims
    BY DEF Claims
  <1> QED  BY <1>1, <1>2, ClaimsFinite, FS_AddElement

\* A thread gives its claim back.
LEMMA ClaimRemoved ==
  ASSUME HandleTypeOK, NEW t \in Threads, at[t] = "InSession", MoveTo(t, "Outside")
  PROVE  Cardinality(Claims') = Cardinality(Claims) - 1
  <1>1. Claims' = Claims \ {t}
    BY DEF HandleTypeOK, Claims
  <1>2. t \in Claims
    BY DEF Claims
  <1> QED  BY <1>1, <1>2, ClaimsFinite, FS_RemoveElement

\* A thread without a claim moves and takes none.
LEMMA ClaimsKept ==
  ASSUME HandleTypeOK, NEW t \in Threads, NEW p \in Places, at[t] # "InSession",
         p # "InSession", MoveTo(t, p)
  PROVE  Claims' = Claims
  BY DEF HandleTypeOK, Claims
-----------------------------------------------------------------------------
(* Every action preserves the invariant. *)

USE DEF HandleInv

\* A Write or a Finalize claims the session and enters it.
LEMMA ClaimUploadPreserves ==
  ASSUME HandleInv, NEW t \in Threads, ClaimUpload(t)
  PROVE  HandleInv'
  <1>1. ControlInv'
    BY CallsPreserve DEF ClaimUpload, Calls
  <1>2. /\ UNCHANGED <<lifecycle_state, upload_state, upload_session>>
        /\ at[t] = "Outside" /\ at' = [at EXCEPT ![t] = "InSession"]
        /\ \A u \in Threads : u # t => pc'[u] = pc[u]
        /\ upload_state = "ACTIVE"
        /\ active_upload_calls' = active_upload_calls + 1
    BY DEF ClaimUpload, CallWrite, CallFinalize, Enter, ControlInv, ControlTypeOK
  <1>3. HandleTypeOK'
    BY <1>2 DEF HandleTypeOK
  <1>4. ClaimInv'
    BY <1>2, ClaimAdded DEF HandleTypeOK, ClaimInv
  <1>5. AborterInv'
    BY <1>2 DEF HandleTypeOK, AborterInv
  <1>6. DestroyInv'
    BY <1>2 DEF DestroyInv
  <1> QED  BY <1>1, <1>3, <1>4, <1>5, <1>6

\* The call is over and its claim released.
LEMMA ReleaseUploadPreserves ==
  ASSUME HandleInv, NEW t \in Threads, ReleaseUpload(t)
  PROVE  HandleInv'
  <1>1. ControlInv'
    BY NextPreserves DEF ReleaseUpload
  <1>2. /\ UNCHANGED <<lifecycle_state, upload_state, upload_session, pc>>
        /\ at[t] = "InSession" /\ at' = [at EXCEPT ![t] = "Outside"] /\ pc[t] = "Idle"
        /\ active_upload_calls' = active_upload_calls - 1
    BY DEF ReleaseUpload
  <1>3. HandleTypeOK'
    BY <1>2 DEF HandleTypeOK
  <1>4. ClaimInv'
    BY <1>2, ClaimRemoved DEF HandleTypeOK, ClaimInv
  <1>5. AborterInv'
    BY <1>2 DEF HandleTypeOK, AborterInv
  <1>6. DestroyInv'
    BY <1>2 DEF DestroyInv, Claims
  <1> QED  BY <1>1, <1>3, <1>4, <1>5, <1>6

\* AbortUpload is called.
LEMMA CallAbortUploadPreserves ==
  ASSUME HandleInv, NEW t \in Threads, CallAbortUpload(t)
  PROVE  HandleInv'
  <1>1. ControlInv'
    BY QuietControl DEF CallAbortUpload, Budget, ControlInv, ControlTypeOK
  <1>2. /\ UNCHANGED <<lifecycle_state, upload_state, upload_session, pc, active_upload_calls>>
        /\ at[t] = "Outside" /\ at' = [at EXCEPT ![t] = "AbortUpload"]
    BY DEF CallAbortUpload
  <1>3. HandleTypeOK'
    BY <1>2 DEF HandleTypeOK
  <1>4. Claims' = Claims
    BY <1>2, ClaimsKept
  <1>5. ClaimInv' /\ DestroyInv'
    BY <1>2, <1>4 DEF HandleTypeOK, ClaimInv, DestroyInv
  <1>6. AborterInv'
    BY <1>2 DEF HandleTypeOK, AborterInv
  <1> QED  BY <1>1, <1>3, <1>5, <1>6

\* AbortUpload finds the handle aborted, or becomes its one aborter.
LEMMA AbortUploadPreserves ==
  ASSUME HandleInv, NEW t \in Threads, AbortUpload(t)
  PROVE  HandleInv'
  <1>1. CASE upload_state = "ABORTED"
    <2>1. /\ UNCHANGED <<vars, upload_state, upload_session, active_upload_calls>>
          /\ at[t] = "AbortUpload" /\ at' = [at EXCEPT ![t] = "Outside"]
      BY <1>1 DEF AbortUpload
    <2>2. ControlInv'
      BY <2>1, NextPreserves
    <2>3. HandleTypeOK'
      BY <2>1 DEF HandleTypeOK
    <2>4. Claims' = Claims
      BY <2>1, ClaimsKept
    <2>5. ClaimInv' /\ DestroyInv'
      BY <2>1, <2>4 DEF HandleTypeOK, ClaimInv, DestroyInv
    <2>6. AborterInv'
      BY <2>1 DEF HandleTypeOK, AborterInv
    <2> QED  BY <2>2, <2>3, <2>5, <2>6
  <1>2. CASE upload_state # "ABORTED"
    <2>1. /\ UNCHANGED <<lifecycle_state, upload_session, active_upload_calls, calls>>
          /\ at[t] = "AbortUpload" /\ at' = [at EXCEPT ![t] = "Aborting"]
          /\ pc' = [pc EXCEPT ![t] = "Abort"]
          /\ upload_state = "ACTIVE" /\ upload_state' = "ABORTING"
          /\ Enter(t, "Abort", "Abort")
      BY <1>2 DEF AbortUpload, AbortMayStart, Enter, HandleTypeOK
    <2>2. ControlInv'
      BY <2>1, EnterPreserves DEF ControlInv, ControlTypeOK
    <2>3. HandleTypeOK'
      BY <2>1 DEF HandleTypeOK
    <2>4. Claims' = Claims
      BY <2>1, ClaimsKept
    <2>5. ClaimInv' /\ DestroyInv'
      BY <2>1, <2>4 DEF HandleTypeOK, ClaimInv, DestroyInv, ControlInv, ControlTypeOK
    <2>6. AborterInv'
      BY <2>1 DEF HandleTypeOK, AborterInv, ControlInv, ControlTypeOK
    <2> QED  BY <2>2, <2>3, <2>5, <2>6
  <1> QED  BY <1>1, <1>2

\* The aborter lets go of the aborted session when nobody holds a claim.
LEMMA DetachPreserves ==
  ASSUME HandleInv, NEW t \in Threads, at[t] \in {"Aborting", "AbortDetach"}, pc[t] = "Idle",
         lifecycle_state = "ABORTED", MayDetach, Detach(t),
         UNCHANGED <<active_upload_calls, vars>>
  PROVE  HandleInv'
  <1>1. ControlInv'
    BY NextPreserves
  <1>2. HandleTypeOK'
    BY DEF HandleTypeOK, Detach
  <1>3. Claims' = Claims
    BY ClaimsKept DEF Detach
  <1>4. Claims = {}
    BY ClaimsFinite DEF ClaimInv, MayDetach
  <1>5. ClaimInv' /\ DestroyInv'
    BY <1>3, <1>4 DEF Detach, HandleTypeOK, ClaimInv, DestroyInv
  <1>6. AborterInv'
    BY DEF Detach, HandleTypeOK, AborterInv
  <1> QED  BY <1>1, <1>2, <1>5, <1>6

\* session->Abort() is over: the session was finalized, or is aborted.
LEMMA AbortReturnedPreserves ==
  ASSUME HandleInv, NEW t \in Threads, AbortReturned(t)
  PROVE  HandleInv'
  <1>1. /\ at[t] = "Aborting" /\ pc[t] = "Idle"
        /\ UNCHANGED <<active_upload_calls, vars>>
        /\ upload_state = "ABORTING"
        /\ lifecycle_state \in {"FINALIZED", "ABORTED"}
    BY DEF AbortReturned, AborterInv
  <1>2. CASE MayDetach /\ ~NotAborted /\ Detach(t)
    BY <1>1, <1>2, DetachPreserves DEF NotAborted
  <1>3. ASSUME NEW p \in {"Outside", "AbortDetach"}, at' = [at EXCEPT ![t] = p],
               UNCHANGED upload_session,
               \/ p = "Outside" /\ upload_state' = "ACTIVE"
               \/ p = "AbortDetach" /\ UNCHANGED upload_state /\ ~NotAborted
        PROVE  HandleInv'
    <2>1. ControlInv'
      BY <1>1, NextPreserves
    <2>2. HandleTypeOK'
      BY <1>3 DEF HandleTypeOK
    <2>3. Claims' = Claims
      BY <1>1, <1>3, ClaimsKept
    <2>4. ClaimInv' /\ DestroyInv'
      BY <1>1, <1>3, <2>3 DEF HandleTypeOK, ClaimInv, DestroyInv
    <2>5. AborterInv'
      BY <1>1, <1>3 DEF HandleTypeOK, AborterInv, NotAborted
    <2> QED  BY <2>1, <2>2, <2>4, <2>5
  <1> QED  BY <1>2, <1>3 DEF AbortReturned

\* A thread inside the session moves on.
LEMMA SessionStepPreserves ==
  ASSUME HandleInv, NEW t \in Threads, SessionStep(t)
  PROVE  HandleInv'
  <1>1. Step(t) /\ UNCHANGED handleVars
    BY DEF SessionStep
  <1>2. ControlInv'
    BY <1>1, NextPreserves DEF Next
  <1>3. lifecycle_state \in {"FINALIZED", "ABORTED"} => lifecycle_state' = lifecycle_state
    BY <1>1, StepKeeps DEF FailureKept
  <1>4. /\ pc[t] # "Idle"
        /\ \A u \in Threads : u # t => pc'[u] = pc[u]
        /\ pc[t] \in AbortLabels =>
              \/ pc'[t] \in AbortLabels
              \/ pc'[t] = "Idle" /\ lifecycle_state' \in {"FINALIZED", "ABORTED"}
    BY <1>1, StepMoves
  <1>5. HandleTypeOK' /\ Claims' = Claims
    BY <1>1 DEF HandleTypeOK, Claims
  <1>6. ClaimInv'
    BY <1>1, <1>4, <1>5 DEF ClaimInv
  <1>7. AborterInv'
    BY <1>1, <1>3, <1>4 DEF AborterInv
  <1>8. DestroyInv'
    BY <1>1, <1>3, <1>5 DEF DestroyInv
  <1> QED  BY <1>2, <1>5, <1>6, <1>7, <1>8

\* A step of the handle, or of none, preserves its invariant.
LEMMA HandleNextPreserves ==
  ASSUME HandleInv, [HandleNext]_allVars
  PROVE  HandleInv'
  <1>1. CASE UNCHANGED allVars
    <2>1. ControlInv'
      BY <1>1, NextPreserves
    <2> QED
      BY <1>1, <2>1 DEF HandleTypeOK, ClaimInv, Claims, AborterInv, DestroyInv
  <1>2. ASSUME NEW t \in Threads, AbortDetach(t)
        PROVE  HandleInv'
    BY <1>2, DetachPreserves DEF AbortDetach, AborterInv, ClaimInv
  <1>3. ASSUME NEW t \in Threads, ClaimUpload(t) \/ CallAbortUpload(t) \/ HandleStep(t)
        PROVE  HandleInv'
    BY <1>2, <1>3, ClaimUploadPreserves, CallAbortUploadPreserves, SessionStepPreserves,
       ReleaseUploadPreserves, AbortUploadPreserves, AbortReturnedPreserves DEF HandleStep
  <1> QED  BY <1>1, <1>3 DEF HandleNext

\* A new handle.
LEMMA InitHandle ==
  ASSUME HandleInit
  PROVE  HandleInv
  <1>1. ControlInv
    BY InitControl DEF HandleInit
  <1>2. Claims = {}
    BY DEF HandleInit, Claims
  <1>3. active_upload_calls = Cardinality(Claims)
    BY <1>2, FS_EmptySet DEF HandleInit
  <1> QED
    BY <1>1, <1>2, <1>3
       DEF HandleInit, Init, HandleTypeOK, ClaimInv, AborterInv, DestroyInv

-----------------------------------------------------------------------------
(* What holds of every handle. *)

\* The claims are counted, one thread aborts, and the session outlives its users.
THEOREM HandleInvariant == HandleSpec => []HandleInv
  <1>1. HandleInit => HandleInv
    BY InitHandle
  <1>2. HandleInv /\ [HandleNext]_allVars => HandleInv'
    BY HandleNextPreserves
  <1> QED  BY <1>1, <1>2, PTL DEF HandleSpec

\* AbortUpload destroys the session only when no thread is inside it, whatever
\* number of writes, finalizes and aborts run at the same time.
THEOREM SessionOutlivesUsers == HandleSpec => []NoUseAfterDestroy
  <1>1. ASSUME HandleInv
        PROVE  NoUseAfterDestroy
    <2>1. SUFFICES ASSUME ~upload_session, NEW t \in Threads
                   PROVE  pc[t] = "Idle"
      BY DEF NoUseAfterDestroy
    <2>2. upload_state = "ABORTED" /\ Claims = {}
      BY <1>1, <2>1 DEF DestroyInv, HandleTypeOK
    <2>3. at[t] \in {"Outside", "AbortUpload"}
      BY <1>1, <2>2 DEF HandleTypeOK, AborterInv, Claims
    <2> QED  BY <1>1, <2>3 DEF ClaimInv
  <1> QED  BY <1>1, HandleInvariant, PTL

\* A handle reports itself aborted only when its session is, and only then has lost it.
THEOREM AbortAgrees == HandleSpec => []AbortAgreesWithSession
  <1>1. HandleInv => AbortAgreesWithSession
    BY DEF DestroyInv, HandleTypeOK, AbortAgreesWithSession
  <1> QED  BY <1>1, HandleInvariant, PTL
=============================================================================
