--------------------------- MODULE MCS3UploadSession ---------------------------
(* Small instances of S3UploadSession for TLC. *)
EXTENDS S3UploadSession, TLC

CONSTANTS t1, t2, t3

\* Part sizes double with every reserved part, as with a growth interval of one.
MCPartSize == [n \in 0..MaxParts |-> Min({2 ^ n, MaxPartSize})]

W(location, size) == [location |-> location, size |-> size]

\* Writes that are buffered, uploaded directly, or fill a buffer and flush it, an
\* empty one; any two of them may leave a gap or overlap.
RacingWrites == {W(0, 1), W(0, 2), W(1, 0), W(1, 1), W(2, 1), W(3, 2)}

Symmetry == Permutations(Threads)
=============================================================================
