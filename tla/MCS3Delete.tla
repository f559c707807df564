------------------------------ MODULE MCS3Delete ------------------------------
(* A small instance of S3Delete for TLC. *)
EXTENDS S3Delete

At(bucket, key, secret, directory) ==
    [absolute |-> TRUE, bucket |-> bucket, key |-> key, secret |-> secret, http_params |-> "h",
     directory |-> directory]

A == At("x", "a", "s1", "d1")
B == At("x", "b", "s1", "d1")
C == At("x", "c", "s1", "d1")
D == At("x", "d", "s2", "d2")
E == At("y", "e", "s1", "d2")
Relative == [A EXCEPT !.absolute = FALSE]

Op(name, paths) == [name |-> name, paths |-> paths]

\* Several requests for one batch, several batches, a path twice, a path that is none.
MCOperations == {Op("RemoveFiles", <<A, B, C>>), Op("RemoveFiles", <<A, D, B, E>>),
                 Op("RemoveFiles", <<A, A>>), Op("RemoveFiles", <<A, Relative>>),
                 Op("RemoveFiles", <<B>>), Op("RemoveFiles", <<>>), Op("RemoveFile", <<A>>),
                 Op("RemoveFile", <<Relative>>), Op("RemoveDirectory", <<A, B>>)}
MCAnswersAnything(o) == o.paths = <<B>>

S3 == "http://s3"
MCNamespaces == {"", S3}
MCDeleteNames == {[prefix |-> "", attributes |-> <<Attribute("", "xmlns", S3)>>],
                  [prefix |-> "p", attributes |-> <<Attribute("xmlns", "p", S3)>>]}

\* Tags of two names with and without a prefix, with declarations that shadow each other.
Default(uri) == Attribute("", "xmlns", uri)
Prefixed(uri) == Attribute("xmlns", "p", uri)
AttributeLists == {<<>>, <<Default(S3)>>, <<Default("")>>, <<Prefixed(S3)>>,
                   <<Prefixed(S3), Attribute("p", "k", "v")>>, <<Prefixed("xml")>>}
TagNames == {Name("", "DeleteResult"), Name("p", "DeleteResult"), Name("", "Error"),
             Name("p", "Error")}
MCTokens == {Start(n, a) : n \in TagNames, a \in AttributeLists}
            \cup {Empty(n, a) : n \in TagNames, a \in {<<>>, <<Default("")>>, <<Prefixed(S3)>>}}
            \cup {End(n) : n \in TagNames}
            \cup {Text(" "), Text("k"), CData("k"), Comment, Declaration, Invalid}

\* The answers to other requests, with a child twice, one too many, or one in its own
\* namespace; and nothing at all, which any tokens may follow.
Parent(name, attributes, content) ==
    <<Start(Name("", name), attributes)>> \o content \o <<End(Name("", name))>>
Child(name) == Parent(name, <<>>, <<Text(name)>>)
Foreign(name) == Parent(name, <<Default("")>>, <<Text(name)>>)
Bodies(name, child) ==
    {Parent(name, <<Default(S3)>>, content) :
        content \in {Child(child), Child(child) \o Child(child), Foreign(child) \o Child(child),
                     Parent(child, <<>>, Child(child)), <<>>}}
MCDocuments ==
    {<<>>} \cup Bodies("InitiateMultipartUploadResult", "UploadId")
    \cup Bodies("CompleteMultipartUploadResult", "ETag") \cup Bodies("Error", "Code")
    \cup Bodies("ListBucketResult", "NextContinuationToken")
    \cup {Parent("ListBucketResult", <<Default(S3)>>,
                 Parent("Contents", <<>>, a) \o Parent("Contents", <<>>, b)
                     \o Parent("CommonPrefixes", <<>>, c)) :
             a \in {Child("Key"), Child("Key") \o Child("Size")},
             b \in {Child("Key"), Child("Key") \o Child("Size") \o Child("Size"), <<>>},
             c \in {Child("Prefix"), <<>>, Foreign("Prefix")}}
    \cup {Parent("DeleteResult", <<Default(S3)>>,
                 Parent("Error", <<>>, a) \o Parent("Error", <<>>, b)) :
             a \in {Child("Key") \o Child("Code"), Child("Key") \o Child("Key")},
             b \in {Child("Key") \o Child("Code") \o Child("Message"), Child("Key")}}
=============================================================================
