------------------------------ MODULE S3UploadSized ------------------------------
(****************************************************************************)
(* S3UploadSession with the part sizes that S3UploadConfig computes for it:   *)
(* the schedule is made for parts of exactly the scheduled sizes, the session *)
(* reserves parts of the sizes its callers' writes happen to give.            *)
(*                                                                          *)
(* Files are opened, each with the settings of that moment, until one is      *)
(* opened with the limits of the session.                                    *)
(****************************************************************************)
EXTENDS S3UploadSession, S3UploadConfig

sizedVars == <<vars, config>>

\* The session's PartSize: config.PartSize of the configuration made of its limits.
ConfiguredPartSize ==
    LET growth_interval   == GrowthInterval(MaxParts)
        initial_part_size == InitialPartSize(MaxFileSize, MaxParts, growth_interval)
    IN  [n \in 0..MaxParts |-> ScheduledPartSize(initial_part_size, growth_interval, n)]

ASSUME SizedAssumption ==
    /\ MaxPartSize = MAX_MULTIPART_PART_SIZE
    /\ Accepts(MaxFileSize, MaxParts)
    /\ PartSize = ConfiguredPartSize

SizedInit == Init /\ ConfigInit

ConfiguredFor(max_file_size, max_parts) ==
    /\ config # NoConfig
    /\ config.max_file_size = max_file_size
    /\ config.max_parts = max_parts

SizedNext ==
    \/ calls = 0 /\ ReadFrom /\ UNCHANGED vars
    \/ ConfiguredFor(MaxFileSize, MaxParts) /\ Next /\ UNCHANGED config

SizedSpec == SizedInit /\ [][SizedNext]_sizedVars

-----------------------------------------------------------------------------
(* Properties. *)

\* No upload within the size limit runs out of part numbers, however its bytes are cut
\* into writes: neither the next write, of any size, nor the Finalize that turns the
\* buffer into the last part.  (A write that has thrown ends the upload.)
PartsSuffice ==
    ~failed /\ (\A t \in Threads : pc[t] # "LatchFailure") =>
        /\ \A size \in 1..(MaxFileSize - next_offset) : PreparedWrite(next_offset, size).fits
        /\ buffered_part # None => HasPartCapacity(Len(part_etags))
=============================================================================
