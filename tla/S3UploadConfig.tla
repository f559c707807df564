----------------------------- MODULE S3UploadConfig -----------------------------
(****************************************************************************)
(* S3UploadConfig (src/s3/s3_settings.cpp): the sizes of an upload's parts,   *)
(* derived from the largest file and the number of parts the user allows.    *)
(* The size doubles after every growth interval; the initial size is the     *)
(* least that lets the schedule cover the largest file.                       *)
(****************************************************************************)
EXTENDS Naturals, FiniteSetsExt

CONSTANTS
    FileSizes,              \* inputs: values of s3_uploader_max_filesize
    PartCounts,             \* inputs: values of s3_uploader_max_parts_per_file
    MAX_MULTIPART_PARTS,
    MIN_MULTIPART_PART_SIZE,
    MAX_MULTIPART_PART_SIZE,
    PART_SIZE_TIERS,
    BlockSize,              \* DEFAULT_BLOCK_SIZE + DEFAULT_BLOCK_HEADER_SIZE
    NoConfig                \* before the first Create

ASSUME ConfigAssumption ==
    /\ FileSizes \subseteq Nat /\ PartCounts \subseteq Nat
    /\ MAX_MULTIPART_PARTS \in Nat \ {0}
    /\ PART_SIZE_TIERS \in Nat \ {0}
    /\ BlockSize \in Nat \ {0}
    /\ MIN_MULTIPART_PART_SIZE % BlockSize = 0 /\ MAX_MULTIPART_PART_SIZE % BlockSize = 0
    /\ MIN_MULTIPART_PART_SIZE \in Nat \ {0} /\ MAX_MULTIPART_PART_SIZE \in Nat
    /\ MIN_MULTIPART_PART_SIZE <= MAX_MULTIPART_PART_SIZE

VARIABLE config             \* NoConfig or the S3UploadConfig last created

-----------------------------------------------------------------------------
\* S3UploadSizing::PartSize: doubled once per completed interval, up to the maximum.
ScheduledPartSize(initial_part_size, growth_interval, completed_parts) ==
    LET result[doubling_count \in Nat] ==
            IF doubling_count = 0 THEN initial_part_size
            ELSE Min({2 * result[doubling_count - 1], MAX_MULTIPART_PART_SIZE})
    IN  result[completed_parts \div growth_interval]

\* Mutant: the last tier is taken for a full one.
PartsAtSizeFull(growth_interval, max_parts, completed_parts) == growth_interval

PartsAtSize(growth_interval, max_parts, completed_parts) ==
    Min({growth_interval, max_parts - completed_parts})

\* The two early returns of the loop; the comparison by division comes first so that
\* the sum cannot overflow.
TierReachesEnd(part_size, parts_at_size, capacity, max_file_size) ==
    \/ part_size > (max_file_size - Min({capacity, max_file_size})) \div parts_at_size
    \/ capacity + part_size * parts_at_size >= max_file_size

\* S3UploadSizing::ScheduleCovers: whether the loop over the tiers returns from one of them;
\* capacity is what the tiers before it hold.
ScheduleCovers(initial_part_size, max_file_size, max_parts, growth_interval) ==
    LET part_size(tier) ==
            ScheduledPartSize(initial_part_size, growth_interval, tier * growth_interval)
        parts_at_size(tier) == PartsAtSize(growth_interval, max_parts, tier * growth_interval)
        capacity[tier \in Nat] ==
            IF tier = 0 THEN 0
            ELSE capacity[tier - 1] + part_size(tier - 1) * parts_at_size(tier - 1)
    IN  \E tier \in 0..(max_parts - 1) \div growth_interval :
            TierReachesEnd(part_size(tier), parts_at_size(tier), capacity[tier], max_file_size)

\* S3UploadSizing::InitialPartSize: a binary search over the multiples of a block.
InitialPartSize(max_file_size, max_parts, growth_interval) ==
    LET first == MIN_MULTIPART_PART_SIZE \div BlockSize
        last  == MAX_MULTIPART_PART_SIZE \div BlockSize
        search[range \in (first..last) \X (first..last)] ==
            LET lower  == range[1]
                upper  == range[2]
                middle == lower + (upper - lower) \div 2
            IN  IF lower >= upper THEN lower
                ELSE IF ScheduleCovers(middle * BlockSize, max_file_size, max_parts,
                                       growth_interval)
                     THEN search[<<lower, middle>>]
                     ELSE search[<<middle + 1, upper>>]
    IN  search[<<first, last>>] * BlockSize

GrowthInterval(max_parts) == (max_parts + PART_SIZE_TIERS - 1) \div PART_SIZE_TIERS

\* The inputs Create does not throw for.
Accepts(max_file_size, max_parts) ==
    /\ max_file_size > 0
    /\ max_parts \in 1..MAX_MULTIPART_PARTS
    /\ max_file_size <= MAX_MULTIPART_PART_SIZE * max_parts

Create(max_file_size, max_parts) ==
    LET growth_interval == GrowthInterval(max_parts)
    IN  /\ Accepts(max_file_size, max_parts)
        /\ config' = [max_file_size     |-> max_file_size,
                      max_parts         |-> max_parts,
                      growth_interval   |-> growth_interval,
                      initial_part_size |-> InitialPartSize(max_file_size, max_parts,
                                                            growth_interval)]

ConfigInit == config = NoConfig

\* ReadFrom, called for every file opened with the settings of that moment.
ReadFrom == \E max_file_size \in FileSizes, max_parts \in PartCounts :
    Create(max_file_size, max_parts)

ConfigSpec == ConfigInit /\ [][ReadFrom]_config

-----------------------------------------------------------------------------
(* Properties. *)

\* What all parts hold together when every one has its scheduled size.
Capacity(initial_part_size, growth_interval, max_parts) ==
    LET held[n \in Nat] ==
            IF n = 0 THEN 0
            ELSE held[n - 1] + ScheduledPartSize(initial_part_size, growth_interval, n - 1)
    IN  held[max_parts]

ConfigCapacity(initial_part_size) ==
    Capacity(initial_part_size, config.growth_interval, config.max_parts)

\* The initial size of every accepted configuration is the least one whose schedule has
\* room for the largest file: the sum over single parts, which the code never forms,
\* reaches it, and with one block less (so that small files are not buffered in large
\* parts) it would not.
ScheduleIsTight ==
    config # NoConfig =>
        /\ ConfigCapacity(config.initial_part_size) >= config.max_file_size
        /\ config.initial_part_size > MIN_MULTIPART_PART_SIZE =>
              ConfigCapacity(config.initial_part_size - BlockSize) < config.max_file_size
=============================================================================
