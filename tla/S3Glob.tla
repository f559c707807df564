-------------------------------- MODULE S3Glob --------------------------------
(****************************************************************************)
(* S3GlobResult: a glob is expanded page by page, by listing everything below *)
(* the literal part of the pattern, or directory by directory where the first *)
(* page shows directories with many files.                                    *)
(*                                                                            *)
(* The bucket is external: a listing returns the keys after a position, in    *)
(* the store's order, grouped at the delimiter, at most PageSize entries of    *)
(* it.  A continuation token is the position of the last entry, 0 is none.     *)
(* Keys come and go while the glob runs.                                       *)
(****************************************************************************)
EXTENDS GlobPattern, FiniteSets, FiniteSetsExt, SequencesExt

CONSTANTS
    Universe,       \* every key that may exist, in the order of the store
    Encoded,        \* name -> its URL encoding
    Decoded,        \* text -> what S3Url::Decode makes of it
    Globs,          \* [pattern, s3_allow_recursive_globbing, s3_url_compatibility_mode]
    Buckets,        \* sets of keys the bucket may hold at first
    PageSize,       \* entries of a page
    DenseRatio,     \* 100 in the code: files per directory that make a directory dense
    MaxChanges      \* bound on the changes of the bucket

VARIABLES
    glob, bucket,
    always, ever,                       \* keys the bucket held all the time, at some time
    changes,
    pc,                                 \* the next step of ExpandNextPath
    finished,
    main_continuation_token,
    current_common_prefix,              \* <<>>: none
    common_prefix_continuation_token,
    common_prefixes,
    glob_type,
    expanded_files

storeVars == <<bucket, always, ever, changes>>
prefixVars == <<current_common_prefix, common_prefix_continuation_token, common_prefixes>>
globVars == <<finished, main_continuation_token, prefixVars, glob_type, expanded_files>>
vars == <<glob, storeVars, pc, globVars>>

Keys == {Universe[i] : i \in DOMAIN Universe}

ASSUME GlobAssumption ==
    /\ PageSize \in Nat \ {0}
    /\ DenseRatio \in Nat \ {0}
    /\ \A i, j \in DOMAIN Universe : Universe[i] = Universe[j] => i = j
    /\ \A name \in Names : Decoded[Encoded[name]] = name

----------------------------------------------------------------------------
\* The bucket.

\* The keys below a directory whose next name begins in a certain way.
Prefix(directory, stem) == [directory |-> directory, stem |-> stem]
Below(prefix, key) ==
    /\ Len(key) > Len(prefix.directory)
    /\ SubSeq(key, 1, Len(prefix.directory)) = prefix.directory
    /\ key[Len(prefix.directory) + 1] \in prefix.stem

\* The position of the entry a key is listed under: its own, or the last one of its
\* directory where the delimiter groups it.
IsGrouped(prefix, mode, key) == mode = "HIERARCHICAL" /\ Len(key) > Len(prefix.directory) + 1
CommonPrefix(prefix, key) == SubSeq(key, 1, Len(prefix.directory) + 1)
EntryPosition(prefix, mode, i) ==
    IF IsGrouped(prefix, mode, Universe[i])
    THEN Max({j \in DOMAIN Universe :
                 /\ Below(prefix, Universe[j])
                 /\ IsGrouped(prefix, mode, Universe[j])
                 /\ CommonPrefix(prefix, Universe[j]) = CommonPrefix(prefix, Universe[i])})
    ELSE i

EncodedKey(key) == [i \in DOMAIN key |-> Encoded[key[i]]]
DecodedKey(text) == [i \in DOMAIN text |-> Decoded[text[i]]]

\* ListObjectsV2 with encoding-type=url.
ListObjectsV2(prefix, continuation_token, mode) ==
    LET entries == {EntryPosition(prefix, mode, i) :
                       i \in {j \in (continuation_token + 1)..Len(Universe) :
                                 Universe[j] \in bucket /\ Below(prefix, Universe[j])}}
        page    == {e \in entries : Cardinality({d \in entries : d < e}) < PageSize}
        sorted  == SetToSortSeq(page, LAMBDA a, b : a < b)
        Groups(e) == IsGrouped(prefix, mode, Universe[e])
        objects == SelectSeq(sorted, LAMBDA e : ~Groups(e))
        groups  == SelectSeq(sorted, Groups)
    IN  [objects            |-> [i \in DOMAIN objects |-> EncodedKey(Universe[objects[i]])],
         common_prefixes    |-> [i \in DOMAIN groups |->
                                    EncodedKey(CommonPrefix(prefix, Universe[groups[i]]))],
         continuation_token |-> IF page = entries THEN 0 ELSE Max(page)]

\* Somebody else writes or removes an object.
ChangeBucket ==
    /\ changes < MaxChanges
    /\ changes' = changes + 1
    /\ \E key \in Keys :
          /\ bucket' = IF key \in bucket THEN bucket \ {key} ELSE bucket \cup {key}
          /\ always' = always \ {key}
          /\ ever' = ever \cup {key}
    /\ UNCHANGED <<glob, pc, globVars>>

----------------------------------------------------------------------------
\* Matching.

\* Mutant: "**" takes at least one directory.
MatchSomeDepth(key, pattern, mode) ==
    LET n == Len(key)
        p == Len(pattern)
        match[i \in 1..(n + 1), j \in 1..(p + 1)] ==
            IF i > n THEN mode = "PREFIX" \/ j > p
            ELSE IF j > p THEN FALSE
            ELSE IF pattern[j] = AnyDepth
            THEN j = p \/ mode = "PREFIX" \/ \E k \in (i + 1)..n : match[k, j + 1]
            ELSE key[i] \in pattern[j].names /\ match[i + 1, j + 1]
    IN  match[1, 1]

\* match[i, j]: the recursive call with the key at segment i and the pattern at segment j.
Match(key, pattern, mode) ==
    LET n == Len(key)
        p == Len(pattern)
        match[i \in 1..(n + 1), j \in 1..(p + 1)] ==
            IF i > n THEN mode = "PREFIX" \/ j > p
            ELSE IF j > p THEN FALSE
            ELSE IF pattern[j] = AnyDepth
            THEN j = p \/ mode = "PREFIX" \/ \E k \in i..n : match[k, j + 1]
            ELSE key[i] \in pattern[j].names /\ match[i + 1, j + 1]
    IN  match[1, 1]

\* Directory markers are not files.
AppendFileList(response) ==
    SelectSeq([i \in DOMAIN response.objects |-> DecodedKey(response.objects[i])],
              LAMBDA key : Last(key) # "")

ContainsDenseDirectories(s3_keys) ==
    LET directories == {Front(s3_keys[i]) : i \in DOMAIN s3_keys}
    IN  Cardinality(directories) * DenseRatio < Len(s3_keys)

----------------------------------------------------------------------------
\* The glob.

\* Neither compatibility mode nor a pattern without wildcards lists anything.
Lists(g) == ~g.s3_url_compatibility_mode /\ HasWildcard(g.pattern)
PatternItself == <<"glob_pattern">>

Init ==
    /\ glob \in Globs
    /\ bucket \in Buckets
    /\ always = bucket
    /\ ever = bucket
    /\ changes = 0
    /\ pc = "ExpandNextPath"
    /\ finished = ~Lists(glob)
    /\ main_continuation_token = 0
    /\ current_common_prefix = <<>>
    /\ common_prefix_continuation_token = 0
    /\ common_prefixes = <<>>
    /\ glob_type = "UNKNOWN"
    /\ expanded_files = IF Lists(glob) THEN <<>> ELSE <<PatternItself>>

SharedPath ==
    Prefix(LiteralDirectories(glob.pattern), glob.pattern[FirstWildcard(glob.pattern)].stem)

ShouldInvestigateRecursiveGlob ==
    /\ glob_type = "UNKNOWN"
    /\ ~IsRecursive(glob.pattern)
    /\ glob.s3_allow_recursive_globbing

\* The deepest directory found last comes next.
SelectNextCommonPrefix(prefixes) ==
    /\ current_common_prefix' = IF prefixes = <<>> THEN <<>> ELSE Last(prefixes)
    /\ common_prefixes' = IF prefixes = <<>> THEN <<>> ELSE Front(prefixes)

AppendMatchingFiles(s3_keys) ==
    expanded_files' = expanded_files \o
        SelectSeq(s3_keys, LAMBDA key : Match(key, glob.pattern, "COMPLETE"))

\* The end of ExpandNextPath.
Finish == finished' = (main_continuation_token' = 0 /\ current_common_prefix' = <<>>)

\* A page of the top level is used.
UseTopLevelPage(response) ==
    /\ main_continuation_token' = response.continuation_token
    /\ SelectNextCommonPrefix(response.common_prefixes)
    /\ UNCHANGED common_prefix_continuation_token
    /\ AppendMatchingFiles(AppendFileList(response))
    /\ Finish
    /\ pc' = "ExpandNextPath"

\* A listing failed, or its response is malformed: the exception ends the glob.
Throw == pc' = "Failed" /\ UNCHANGED <<glob, storeVars, globVars>>

\* The InternalException of ScanTopLevel.
ThrowsInternally == current_common_prefix = <<>> /\ common_prefixes # <<>>

ScanTopLevel ==
    LET list_mode == IF glob_type = "HIERARCHICAL" THEN "HIERARCHICAL" ELSE "FLAT"
        response  == ListObjectsV2(SharedPath, main_continuation_token, list_mode)
        investigates == ShouldInvestigateRecursiveGlob /\ response.continuation_token # 0
        dense     == ContainsDenseDirectories(AppendFileList(response))
    IN  /\ pc = "ExpandNextPath"
        /\ ~finished
        /\ current_common_prefix = <<>>
        /\ \/ Throw
           \/ /\ ~ThrowsInternally
              /\ investigates /\ dense
              /\ pc' = "SelectGlobType"
              /\ UNCHANGED <<glob, storeVars, globVars>>
           \/ /\ ~ThrowsInternally
              /\ ~(investigates /\ dense)
              /\ glob_type' = IF investigates THEN "LISTING" ELSE glob_type
              /\ UseTopLevelPage(response)
              /\ UNCHANGED <<glob, storeVars>>

\* The first page is asked for again, by directories.
SelectGlobType ==
    /\ pc = "SelectGlobType"
    /\ \/ Throw
       \/ /\ glob_type' = "HIERARCHICAL"
          /\ UseTopLevelPage(ListObjectsV2(SharedPath, main_continuation_token, "HIERARCHICAL"))
          /\ UNCHANGED <<glob, storeVars>>

\* Mutant: the next directory is taken only after one that was listed.
LeavesListed(listed, token) == listed /\ token = 0

LeavesPrefix(listed, token) == token = 0

\* A directory that cannot hold a match is not listed.  The prefix is kept decoded, and
\* decoded again for its next page.
ScanCurrentCommonPrefix ==
    LET directory == DecodedKey(current_common_prefix)
        listed    == Match(directory, glob.pattern, "PREFIX")
        response  == ListObjectsV2(Prefix(directory, Names), common_prefix_continuation_token,
                                   "HIERARCHICAL")
        prefixes  == IF listed THEN common_prefixes \o response.common_prefixes
                     ELSE common_prefixes
        token     == IF listed THEN response.continuation_token ELSE common_prefix_continuation_token
    IN  /\ pc = "ExpandNextPath"
        /\ ~finished
        /\ current_common_prefix # <<>>
        /\ \/ listed /\ Throw
           \/ /\ common_prefix_continuation_token' = token
              /\ IF LeavesPrefix(listed, token)
                 THEN SelectNextCommonPrefix(prefixes)
                 ELSE current_common_prefix' = directory /\ common_prefixes' = prefixes
              /\ AppendMatchingFiles(IF listed THEN AppendFileList(response) ELSE <<>>)
              /\ UNCHANGED <<glob, storeVars, pc, main_continuation_token, glob_type>>
              /\ Finish

ExpandNextPath == ScanTopLevel \/ SelectGlobType \/ ScanCurrentCommonPrefix

Next == ExpandNextPath \/ ChangeBucket

Spec == Init /\ [][Next]_vars

\* Every request is answered or fails, and the caller asks for files until there are none.
FairSpec == Spec /\ WF_vars(ExpandNextPath)

----------------------------------------------------------------------------
\* Files of the bucket that the pattern selects.
Selected(keys) == {key \in keys : Last(key) # "" /\ Matches(key, glob.pattern)}

\* A glob that ends without an error returns each file once, all that match and were there
\* all the time and none that does not match or never was: whichever of the strategies it
\* chose, however the pages fall and whatever directories Match skipped (ExpandNextPath).
\* Directories left over never meet a top-level request: the InternalException of
\* ScanTopLevel cannot be thrown.
GlobIsExact ==
    /\ finished /\ Lists(glob) =>
          /\ Selected(always) \subseteq ToSet(expanded_files)
          /\ ToSet(expanded_files) \subseteq Selected(ever)
          /\ Cardinality(ToSet(expanded_files)) = Len(expanded_files)
    /\ ~ThrowsInternally

\* ExpandNextPath returns false after finitely many calls, or throws.  That is so only if a
\* directory of several pages has a name that S3Url::Decode leaves alone: one that no longer
\* matches when its prefix is decoded again is neither listed nor left.
GlobEnds == <>(finished \/ pc = "Failed")
=============================================================================
