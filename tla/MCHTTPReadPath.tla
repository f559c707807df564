---------------------------- MODULE MCHTTPReadPath ----------------------------
(* Instances of HTTPReadPath for TLC. *)
EXTENDS HTTPReadPath, TLC

CONSTANTS t1, t2, t3

Symmetry == Permutations(Threads)

\* A file of two bytes that is replaced by a longer one and then by a shorter one.
MCLengths == <<2, 3, 1>>
OneVersion == <<2>>

\* A server that has ranges when it likes, and the default settings with a global cache.
Default == [ranges |-> "mixed", etags |-> TRUE, head |-> "exact", cache |-> "GLOBAL",
            auto_fallback_to_full_download |-> TRUE, force_download |-> FALSE,
            force_download_threshold |-> 0]

\* The default and what differs from it in one or two respects.
MCSetups == {
    Default,
    [Default EXCEPT !.ranges = "yes"],
    [Default EXCEPT !.ranges = "no", !.cache = "QUERY_LOCAL"],
    [Default EXCEPT !.head = "larger", !.cache = "NONE"],
    [Default EXCEPT !.head = "absent"],
    [Default EXCEPT !.head = "refused", !.etags = FALSE],
    [Default EXCEPT !.head = "refused", !.cache = "QUERY_LOCAL"],
    [Default EXCEPT !.head = "refused", !.auto_fallback_to_full_download = FALSE],
    [Default EXCEPT !.auto_fallback_to_full_download = FALSE],
    [Default EXCEPT !.force_download = TRUE],
    [Default EXCEPT !.force_download_threshold = 3, !.cache = "QUERY_LOCAL"]}

\* With one version the cache makes no difference to who waits for whom.
LivenessSetups == {s \in MCSetups : s.head # "refused" \/ s.cache = "GLOBAL"}
=============================================================================
