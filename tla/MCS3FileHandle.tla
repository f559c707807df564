---------------------------- MODULE MCS3FileHandle ----------------------------
(* Small instances of S3FileHandle for TLC. *)
EXTENDS S3FileHandle

CONSTANTS t1, t2, t3

MCPartSize == [n \in 0..MaxParts |-> 1]

\* A write that starts the multipart upload, and one that follows it.
MCWrites == {[location |-> 0, size |-> 2], [location |-> 2, size |-> 1]}
=============================================================================
