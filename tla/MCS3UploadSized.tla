---------------------------- MODULE MCS3UploadSized ----------------------------
(* A small instance of S3UploadSized for TLC. *)
EXTENDS S3UploadSized

CONSTANT t1

\* Every size up to one byte more than the parts can hold, zero included.
MCFileSizes == 0..MAX_MULTIPART_PART_SIZE * MAX_MULTIPART_PARTS + 1

MCPartCounts == 0..MAX_MULTIPART_PARTS + 1

\* Writes of several sizes, smaller and larger than the parts they meet.
MCWrites == [location : 0..MaxFileSize, size : {1, 3, 5}]
=============================================================================
