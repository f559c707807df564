-------------------------------- MODULE MCGlob --------------------------------
(* Globs of both file systems for TLC.  They share nothing, so every behaviour *)
(* explores one of them while the other has a pattern without wildcards.       *)
EXTENDS MCS3Glob, HFGlob

MCTree == << <<"a", "a">>, <<"a", "b">>, <<"a", "c", "a">>, <<"b", "a">>, <<"b", "c", "a">>, <<"f">> >>
MCRepositories == {ToSet(MCTree), ToSet(MCTree) \ {<<"a", "a">>, <<"f">>}}
MCHFPatterns == {<<AnyName, AnyName>>, <<AnyName>>, <<Literal("a"), AnyName, AnyName>>,
                 <<AnyDepth, Literal("a")>>, <<Literal("a"), AnyDepth>>, <<Literal("f")>>}

Listing == hf_pc # "PatternItself"

MCInit == Init /\ HFInit /\ Lists(glob) # Listing

MCNext == (Lists(glob) /\ Next /\ UNCHANGED hfVars) \/ (Listing /\ HFNext /\ UNCHANGED vars)

MCSpec ==
    /\ MCInit /\ [][MCNext]_<<vars, hfVars>>
    /\ WF_<<vars, hfVars>>(ExpandNextPath /\ UNCHANGED hfVars)

=============================================================================
