------------------------------- MODULE MCS3Glob -------------------------------
(* Instances of S3Glob for TLC. *)
EXTENDS S3Glob

\* A blank is encoded as %20, a plus as %2B; a plus that is decoded becomes a blank.
MCNames == {"", "a", "b", "c", "d e", "f", "p+q", "p q"}
MCEncoded == [name \in Names |-> CASE name = "d e" -> "d%20e" [] name = "p+q" -> "p%2Bq"
                                    [] name = "p q" -> "p%20q" [] OTHER -> name]
MCDecoded == [text \in Names \cup {"d%20e", "p%2Bq", "p%20q"} |->
                 CASE text = "d%20e" -> "d e" [] text = "p%2Bq" -> "p+q"
                   [] text \in {"p+q", "p%20q"} -> "p q" [] OTHER -> text]

\* Files beside directories, directories in directories, a marker, a name to encode with
\* more files than a page holds, a name that decoding twice changes with fewer.
MCUniverse == << <<"a", "a">>, <<"a", "b">>, <<"a", "c", "a">>, <<"a", "c", "b">>,
                 <<"b", "">>, <<"b", "a">>, <<"d e", "a">>, <<"d e", "b">>, <<"d e", "c">>,
                 <<"f">>, <<"p+q", "a">> >>

MCBuckets == {Keys, Keys \ {<<"a", "b">>}, Keys \ {<<"f">>, <<"a", "c", "b">>}}

AnyName == Wildcard(Names, Names)
Glob(pattern, recursive) ==
    [pattern |-> pattern, s3_allow_recursive_globbing |-> recursive,
     s3_url_compatibility_mode |-> FALSE]

\* Wildcards at the top, below a literal directory, for a part of a name, for any depth.
Patterns == {<<AnyName, AnyName>>, <<AnyName, Wildcard({"a", "b"}, Names)>>,
             <<AnyName, AnyName, Literal("a")>>, <<AnyName>>, <<Literal("a"), AnyName, AnyName>>,
             <<AnyDepth, Literal("a")>>, <<AnyDepth>>, <<Literal("a"), AnyDepth, AnyName>>,
             <<Wildcard({"d e"}, {"d e"}), AnyName>>, <<Literal("f")>>}

MCGlobs == {Glob(p, r) : p \in Patterns, r \in BOOLEAN}
           \cup {[Glob(<<AnyName>>, TRUE) EXCEPT !.s3_url_compatibility_mode = TRUE]}

\* A directory with a plus in its name and more files than a page holds.
PlusNames == {"", "a", "b", "c", "p+q", "p q"}
PlusUniverse == << <<"p+q", "a">>, <<"p+q", "b">>, <<"p+q", "c">> >>
PlusGlobs == {Glob(<<AnyName, AnyName>>, r) : r \in BOOLEAN}
PlusBuckets == {Keys}

\* The pattern p+*/*: it matches the directory and not what decoding twice makes of it.
EndlessGlobs == {Glob(<<Wildcard({"p+q"}, {"p+q"}), AnyName>>, TRUE)}
=============================================================================
