------------------------------ MODULE GlobPattern ------------------------------
(****************************************************************************)
(* Keys, patterns, and what it means that a key matches a pattern.            *)
(*                                                                            *)
(* A key is the sequence of its path segments.  A pattern is a sequence of    *)
(* segments too: "**", or the set of names the segment matches (a literal     *)
(* segment is a singleton), with the names that begin like it up to its first *)
(* wildcard character.                                                        *)
(****************************************************************************)
EXTENDS Integers, Sequences

CONSTANT Names      \* every name of a segment; "" ends the key of a directory marker

\* The pattern segment that spans any number of directories.
AnyDepth == [literal |-> FALSE, names |-> {"**"}, stem |-> Names]
Literal(name) == [literal |-> TRUE, names |-> {name}, stem |-> {name}]
Wildcard(names, stem) == [literal |-> FALSE, names |-> names, stem |-> stem]

HasWildcard(pattern) == \E j \in DOMAIN pattern : ~pattern[j].literal
IsRecursive(pattern) == \E j \in DOMAIN pattern : pattern[j] = AnyDepth

\* The first segment with a wildcard, the directories above it.
FirstWildcard(pattern) ==
    CHOOSE j \in DOMAIN pattern :
        ~pattern[j].literal /\ \A i \in 1..(j - 1) : pattern[i].literal
LiteralDirectories(pattern) ==
    [j \in 1..(FirstWildcard(pattern) - 1) |-> CHOOSE name \in pattern[j].names : TRUE]

\* Declaratively: cuts[j] segments of the key are used up by the first j segments of the
\* pattern.  "**" takes any number of them, at the end of a pattern at least one.
Matches(key, pattern) ==
    \E cuts \in [0..Len(pattern) -> 0..Len(key)] :
        /\ cuts[0] = 0
        /\ cuts[Len(pattern)] = Len(key)
        /\ \A j \in DOMAIN pattern :
              IF pattern[j] = AnyDepth
              THEN cuts[j] >= cuts[j - 1] + (IF j = Len(pattern) THEN 1 ELSE 0)
              ELSE cuts[j] = cuts[j - 1] + 1 /\ key[cuts[j]] \in pattern[j].names
=============================================================================
