-------------------------- MODULE MCS3RequestExecutor --------------------------
(* A small instance of S3RequestExecutor for TLC. *)
EXTENDS S3RequestExecutor, TLC

CONSTANTS t1, t2, u1

MCConfigs == {[type |-> "S3", http_util |-> u1, reuse_mode |-> "NONE"]}

M(type, mode) == [request_type |-> type, post_request_mode |-> mode]

\* A read, the initiation of an upload and its completion.
MCMethods == {M("GET", "DEFAULT"), M("POST", "DEFAULT"), M("POST", "RETRY_RECEIVED_RESPONSES")}

\* The method that has most reasons to be repeated.
RetriedMethods == {M("POST", "RETRY_RECEIVED_RESPONSES")}

Symmetry == Permutations(Threads)
=============================================================================
