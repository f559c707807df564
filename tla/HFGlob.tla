-------------------------------- MODULE HFGlob --------------------------------
(****************************************************************************)
(* HuggingFaceFileSystem::Glob (src/hffs.cpp): every directory below the       *)
(* literal part of the pattern is listed, page by page, and the files found    *)
(* are matched in the end.                                                     *)
(*                                                                            *)
(* The repository is external: the listing of a directory has its files and    *)
(* directories in a fixed order and comes in pages; the Link header names the  *)
(* next one.  Files come and go while the glob runs, directories with them.    *)
(****************************************************************************)
EXTENDS GlobPattern, FiniteSets, FiniteSetsExt, SequencesExt

CONSTANTS
    Tree,           \* every file that may exist, in the order of the listings
    HFPatterns,
    Repositories,   \* sets of files the repository may hold at first
    HFPageSize,     \* hf_max_per_page
    MaxCommits      \* bound on the changes of the repository

VARIABLES
    hf_pattern, repository,
    kept, known,    \* files the repository held all the time, at some time
    commits,
    curr_hf_path, files, dirs,
    next_page_url,  \* the position after which the next page begins; NoPage is ""
    hf_result,
    hf_pc

repositoryVars == <<repository, kept, known, commits>>
listVars == <<curr_hf_path, files, dirs, next_page_url>>
hfVars == <<hf_pattern, repositoryVars, listVars, hf_result, hf_pc>>

NoPage == -1

HFInit ==
    /\ hf_pattern \in HFPatterns
    /\ repository \in Repositories
    /\ kept = repository
    /\ known = repository
    /\ commits = 0
    /\ curr_hf_path = <<>>
    /\ files = <<>>
    /\ dirs = IF HasWildcard(hf_pattern) THEN <<LiteralDirectories(hf_pattern)>> ELSE <<>>
    /\ next_page_url = NoPage
    /\ hf_result = <<>>
    /\ hf_pc = IF HasWildcard(hf_pattern) THEN "Glob" ELSE "PatternItself"

----------------------------------------------------------------------------
\* The repository.

Inside(directory, file) ==
    Len(file) > Len(directory) /\ SubSeq(file, 1, Len(directory)) = directory

\* An entry of a listing is known by the position of the last file it may stand for.
Entry(directory, file) == SubSeq(file, 1, Len(directory) + 1)
Position(directory, file) ==
    Max({i \in DOMAIN Tree : Inside(directory, Tree[i]) /\ Entry(directory, Tree[i]) = Entry(directory, file)})

ListPage(directory, after) ==
    LET entries == {p \in {Position(directory, f) : f \in {g \in repository : Inside(directory, g)}} :
                       p > after}
        page    == {e \in entries : Cardinality({d \in entries : d < e}) < HFPageSize}
        sorted  == SetToSortSeq(page, LAMBDA a, b : a < b)
        names   == [i \in DOMAIN sorted |-> Entry(directory, Tree[sorted[i]])]
    IN  [files       |-> SelectSeq(names, LAMBDA name : name \in repository),
         directories |-> SelectSeq(names, LAMBDA name : name \notin repository),
         next        |-> IF page = entries THEN NoPage ELSE Max(page)]

Commit ==
    /\ commits < MaxCommits
    /\ hf_pc = "Glob"
    /\ commits' = commits + 1
    /\ \E file \in ToSet(Tree) :
          /\ repository' = IF file \in repository THEN repository \ {file} ELSE repository \cup {file}
          /\ kept' = kept \ {file}
          /\ known' = known \cup {file}
    /\ UNCHANGED <<hf_pattern, listVars, hf_result, hf_pc>>

----------------------------------------------------------------------------
\* The glob.

HFMatch(key, pattern) ==
    LET n == Len(key)
        p == Len(pattern)
        match[i \in 1..(n + 1), j \in 1..(p + 1)] ==
            IF i > n \/ j > p THEN i > n /\ j > p
            ELSE IF pattern[j] = AnyDepth THEN j = p \/ \E k \in i..n : match[k, j + 1]
            ELSE key[i] \in pattern[j].names /\ match[i + 1, j + 1]
    IN  match[1, 1]

\* Mutant: the directories of a page replace the ones still to be listed.
ForgetsDirectories(remaining, directories) == directories

\* ParseListResult appends to the directories still to be listed.
AppendDirectories(remaining, directories) == remaining \o directories

\* Done with a directory, the last one found is next; otherwise the current one goes on.
NextDirectory == IF next_page_url = NoPage THEN Last(dirs) ELSE curr_hf_path
Remaining == IF next_page_url = NoPage THEN Front(dirs) ELSE dirs
After == IF next_page_url = NoPage THEN 0 ELSE next_page_url

\* A request error, a status other than 200 (the directory is gone), an unusable Link
\* header or an entry without a type ends the glob.
ListHFRequest ==
    /\ hf_pc = "Glob"
    /\ next_page_url # NoPage \/ dirs # <<>>
    /\ \/ /\ hf_pc' = "Failed"
          /\ UNCHANGED listVars
       \/ /\ \E file \in repository : Inside(NextDirectory, file)
          /\ LET page == ListPage(NextDirectory, After)
             IN  /\ files' = files \o page.files
                 /\ dirs' = AppendDirectories(Remaining, page.directories)
                 /\ next_page_url' = page.next
          /\ curr_hf_path' = NextDirectory
          /\ UNCHANGED hf_pc
    /\ UNCHANGED <<hf_pattern, repositoryVars, hf_result>>

\* No more pages and no more directories.
PruneFiles ==
    /\ hf_pc = "Glob"
    /\ next_page_url = NoPage /\ dirs = <<>>
    /\ hf_result' = SelectSeq(files, LAMBDA file : HFMatch(file, hf_pattern))
    /\ hf_pc' = "Returned"
    /\ UNCHANGED <<hf_pattern, repositoryVars, listVars>>

HFNext == ListHFRequest \/ PruneFiles \/ Commit

HFSpec == HFInit /\ [][HFNext]_hfVars

----------------------------------------------------------------------------
(* Properties. *)

\* A glob that returns names each file once, all that match and were there all the time
\* and none that does not match or never was, whichever pages and directories were listed
\* before a commit (HuggingFaceFileSystem::Glob).
HFGlobIsExact ==
    hf_pc = "Returned" =>
        /\ {file \in kept : Matches(file, hf_pattern)} \subseteq ToSet(hf_result)
        /\ ToSet(hf_result) \subseteq {file \in known : Matches(file, hf_pattern)}
        /\ Cardinality(ToSet(hf_result)) = Len(hf_result)
=============================================================================
