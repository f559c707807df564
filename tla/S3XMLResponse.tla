----------------------------- MODULE S3XMLResponse -----------------------------
(****************************************************************************)
(* S3XMLReader (src/s3/s3_xml_response.cpp) reads the responses of S3: a      *)
(* stack of open elements, a stack of namespace bindings, and the tree of the *)
(* root, which is interpreted when the document ends.                         *)
(*                                                                            *)
(* A document is a sequence of tokens: "start" and "end" tags, "text",        *)
(* "cdata", "comment", "declaration", and "invalid" for whatever the lexical  *)
(* rules reject (characters, references, names, quotes, <! and <?).  The text *)
(* of a token is what its references and quotes stand for.                    *)
(****************************************************************************)
EXTENDS Naturals, Sequences, FiniteSets, FiniteSetsExt, SequencesExt

CONSTANTS
    MAX_NESTING_DEPTH,
    SupportedNamespaces     \* "" and the names S3 and GCS use; "xml" and "xmlns" are reserved

Name(prefix, local_name) == [prefix |-> prefix, local_name |-> local_name]
Attribute(prefix, local_name, value) == [name |-> Name(prefix, local_name), value |-> value]
Attributes == [name : [prefix : STRING, local_name : STRING], value : STRING]
Start(name, attributes) ==
    [type |-> "start", name |-> name, attributes |-> attributes, self_closing |-> FALSE]
Empty(name, attributes) == [Start(name, attributes) EXCEPT !.self_closing = TRUE]
End(name) == [type |-> "end", name |-> name]
Text(text) == [type |-> "text", text |-> text]          \* " " is white space
CData(text) == [type |-> "cdata", text |-> text]
Comment == [type |-> "comment"]
Declaration == [type |-> "declaration"]
Invalid == [type |-> "invalid"]

NoNode == [local_name |-> "", namespace_uri |-> "", text |-> <<>>, children |-> <<>>]

NewReader ==
    [elements |-> <<>>, namespaces |-> <<[prefix |-> "xml", uri |-> "xml"]>>,
     root_seen |-> FALSE, root_closed |-> FALSE, root |-> NoNode, started |-> FALSE,
     rejected |-> FALSE]

Reject(r) == [r EXCEPT !.rejected = TRUE]

\* The elements of a sequence that pass a test, in their order.
Filter(seq, Test(_)) == FlattenSeq([i \in DOMAIN seq |-> IF Test(seq[i]) THEN <<seq[i]>> ELSE <<>>])

-----------------------------------------------------------------------------
\* Namespaces.

IsDeclaration(attribute) ==
    \/ attribute.name = Name("", "xmlns")
    \/ attribute.name.prefix = "xmlns"
DeclaredPrefix(attribute) ==
    IF attribute.name.prefix = "xmlns" THEN attribute.name.local_name ELSE ""

\* ApplyNamespaceDeclarations throws these out.
BadDeclaration(attribute) ==
    LET prefix == DeclaredPrefix(attribute)
    IN  \/ prefix = "xmlns"
        \/ attribute.value = "xmlns"
        \/ (prefix = "xml") # (attribute.value = "xml")
        \/ prefix # "" /\ attribute.value = ""

Declarations(attributes) == Filter(attributes, IsDeclaration)
ApplyNamespaceDeclarations(namespaces, attributes) ==
    LET declared == Declarations(attributes)
    IN  namespaces \o [i \in DOMAIN declared |->
                          [prefix |-> DeclaredPrefix(declared[i]), uri |-> declared[i].value]]

Binds(namespaces, prefix) == {i \in DOMAIN namespaces : namespaces[i].prefix = prefix}

\* The innermost binding; no prefix and no binding is no namespace.
CanResolve(namespaces, prefix) ==
    prefix # "xmlns" /\ (prefix = "" \/ Binds(namespaces, prefix) # {})
ResolveNamespace(namespaces, prefix) ==
    IF Binds(namespaces, prefix) = {} THEN ""
    ELSE namespaces[Max(Binds(namespaces, prefix))].uri

\* Attributes without a prefix have no namespace; no two have one expanded name.
AttributeNamespace(namespaces, attribute) ==
    IF attribute.name.prefix = "" THEN "" ELSE ResolveNamespace(namespaces, attribute.name.prefix)
ValidateAttributes(namespaces, attributes) ==
    LET plain == Filter(attributes, LAMBDA a : ~IsDeclaration(a))
        expanded(i) == <<AttributeNamespace(namespaces, plain[i]), plain[i].name.local_name>>
    IN  /\ \A i \in DOMAIN plain : CanResolve(namespaces, plain[i].name.prefix)
        /\ \A i, j \in DOMAIN plain : expanded(i) = expanded(j) => i = j

SameNameTwice(attributes) ==
    \E i, j \in DOMAIN attributes : i # j /\ attributes[i].name = attributes[j].name

-----------------------------------------------------------------------------
\* The reader.

\* Mutant: the bindings of an element outlive it.
BindingsKept(namespaces, namespace_count) == namespaces

BindingsLeft(namespaces, namespace_count) == SubSeq(namespaces, 1, namespace_count)

CloseElement(r) ==
    LET frame == Last(r.elements)
        node  == [local_name |-> frame.name.local_name, namespace_uri |-> frame.namespace_uri,
                  text |-> frame.text, children |-> frame.children]
        open  == Front(r.elements)
        left  == [r EXCEPT !.elements = open,
                           !.namespaces = BindingsLeft(@, frame.namespace_count)]
    IN  IF open = <<>> THEN [left EXCEPT !.root = node, !.root_closed = TRUE]
        ELSE [left EXCEPT !.elements[Len(open)].children = Append(@, node)]

ParseStartElement(r, token) ==
    LET namespaces == ApplyNamespaceDeclarations(r.namespaces, token.attributes)
        declared   == Declarations(token.attributes)
        frame      == [name |-> token.name, text |-> <<>>, children |-> <<>>,
                       namespace_uri |-> ResolveNamespace(namespaces, token.name.prefix),
                       namespace_count |-> Len(r.namespaces)]
        opened     == [r EXCEPT !.elements = Append(@, frame), !.namespaces = namespaces,
                                !.root_seen = TRUE]
    IN  IF \/ r.root_closed
           \/ Len(r.elements) >= MAX_NESTING_DEPTH
           \/ SameNameTwice(token.attributes)
           \/ \E i \in DOMAIN declared : BadDeclaration(declared[i])
           \/ ~CanResolve(namespaces, token.name.prefix)
           \/ ~ValidateAttributes(namespaces, token.attributes)
           \/ r.elements = <<>> /\ r.root_seen
        THEN Reject(r)
        ELSE IF token.self_closing THEN CloseElement(opened) ELSE opened

Closes(r, name) == r.elements # <<>> /\ Last(r.elements).name = name

ParseEndElement(r, token) == IF Closes(r, token.name) THEN CloseElement(r) ELSE Reject(r)

AppendText(r, text) == [r EXCEPT !.elements[Len(r.elements)].text = Append(@, text)]

ParseText(r, token) ==
    IF r.elements # <<>> THEN AppendText(r, token.text)
    ELSE IF token.text = " " THEN r ELSE Reject(r)

ParseCDATA(r, token) ==
    IF r.elements = <<>> THEN Reject(r) ELSE AppendText(r, token.text)

\* A declaration comes first or not at all.
ParseXMLDeclaration(r, token) == IF r.started THEN Reject(r) ELSE r

Read(r, token) ==
    LET next == CASE token.type = "start"       -> ParseStartElement(r, token)
                  [] token.type = "end"         -> ParseEndElement(r, token)
                  [] token.type = "text"        -> ParseText(r, token)
                  [] token.type = "cdata"       -> ParseCDATA(r, token)
                  [] token.type = "comment"     -> r
                  [] token.type = "declaration" -> ParseXMLDeclaration(r, token)
                  [] token.type = "invalid"     -> Reject(r)
    IN  IF r.rejected THEN r ELSE [next EXCEPT !.started = TRUE]

\* The end of the input.
ParseDocument(r) == ~r.rejected /\ r.root_seen /\ r.root_closed /\ r.elements = <<>>

-----------------------------------------------------------------------------
\* Interpretation.

HasSupportedNamespace(root) == root.namespace_uri \in SupportedNamespaces

Children(parent, namespace_uri, local_name) ==
    Filter(parent.children,
           LAMBDA c : c.local_name = local_name /\ c.namespace_uri = namespace_uri)

\* Mutant: the first of several children is taken.
TakeFirstChild(parent, namespace_uri, local_name) ==
    LET matches == Children(parent, namespace_uri, local_name)
    IN  IF matches = <<>> THEN [result |-> "MISSING", text |-> <<>>]
        ELSE [result |-> "FOUND", text |-> matches[1].text]

GetChildText(parent, namespace_uri, local_name) ==
    LET matches == Children(parent, namespace_uri, local_name)
    IN  IF matches = <<>> THEN [result |-> "MISSING", text |-> <<>>]
        ELSE IF Len(matches) > 1 \/ matches[1].children # <<>>
             THEN [result |-> "INVALID", text |-> <<>>]
        ELSE [result |-> "FOUND", text |-> matches[1].text]

IsFound(child) == child.result = "FOUND"
IsNonEmpty(child) == IsFound(child) /\ child.text # <<>>
IsOptional(child) == child.result # "INVALID"
TextIfFound(child) == IF IsFound(child) THEN child.text ELSE <<>>

\* InterpretResponse: the answers to the requests of a multipart upload, and errors.
InterpretResponse(root) ==
    LET Child(name) == GetChildText(root, root.namespace_uri, name)
    IN  CASE ~HasSupportedNamespace(root) -> [type |-> "UNKNOWN"]
          [] root.local_name = "InitiateMultipartUploadResult" /\ IsNonEmpty(Child("UploadId")) ->
                [type |-> "MULTIPART_INITIALIZATION", upload_id |-> Child("UploadId").text]
          [] root.local_name = "CompleteMultipartUploadResult" /\ IsNonEmpty(Child("ETag")) ->
                [type |-> "MULTIPART_COMPLETION", etag |-> Child("ETag").text]
          [] root.local_name = "Error" ->
                [type |-> "ERROR", error_code |-> TextIfFound(Child("Code")),
                 error_message |-> TextIfFound(Child("Message")),
                 error_access_key_id |-> TextIfFound(Child("AWSAccessKeyId"))]
          [] OTHER -> [type |-> "UNKNOWN"]

\* TryParse and TryParseError.
TryParse(r) == IF ParseDocument(r) THEN InterpretResponse(r.root) ELSE [type |-> "UNKNOWN"]

InterpretListObjectsV2(root) ==
    LET token    == GetChildText(root, root.namespace_uri, "NextContinuationToken")
        contents == Children(root, root.namespace_uri, "Contents")
        prefixes == Children(root, root.namespace_uri, "CommonPrefixes")
        Field(node, name) == GetChildText(node, root.namespace_uri, name)
        named    == Filter(prefixes, LAMBDA p : IsNonEmpty(Field(p, "Prefix")))
    IN  [accepted |->
            /\ HasSupportedNamespace(root)
            /\ root.local_name = "ListBucketResult"
            /\ IsOptional(token)
            /\ \A i \in DOMAIN contents :
                  /\ IsNonEmpty(Field(contents[i], "Key"))
                  /\ \A name \in {"LastModified", "ETag", "Size"} :
                        IsOptional(Field(contents[i], name))
            /\ \A i \in DOMAIN prefixes : IsOptional(Field(prefixes[i], "Prefix")),
         continuation_token |-> TextIfFound(token),
         objects |-> [i \in DOMAIN contents |-> TextIfFound(Field(contents[i], "Key"))],
         common_prefixes |-> [i \in DOMAIN named |-> TextIfFound(Field(named[i], "Prefix"))]]

InterpretDeleteObjects(root) ==
    LET errors == Children(root, root.namespace_uri, "Error")
        Field(node, name) == GetChildText(node, root.namespace_uri, name)
    IN  [accepted |->
            /\ HasSupportedNamespace(root)
            /\ root.local_name = "DeleteResult"
            /\ \A i \in DOMAIN errors :
                  /\ IsNonEmpty(Field(errors[i], "Key"))
                  /\ IsNonEmpty(Field(errors[i], "Code"))
                  /\ IsOptional(Field(errors[i], "Message")),
         errors |-> [i \in DOMAIN errors |-> TextIfFound(Field(errors[i], "Key"))]]

-----------------------------------------------------------------------------
\* What a document says, by the positions of its tokens and without a stack.

Opens(token) == token.type = "start" /\ ~token.self_closing

\* Elements open before and after the token at a position.
DepthAfter(document, i) ==
    LET upto == SubSeq(document, 1, i)
    IN  Len(SelectSeq(upto, Opens)) - Len(SelectSeq(upto, LAMBDA token : token.type = "end"))
Balanced(document, i) ==
    \A j \in 0..i : Len(SelectSeq(SubSeq(document, 1, j), Opens))
                        >= Len(SelectSeq(SubSeq(document, 1, j), LAMBDA t : t.type = "end"))
DepthBefore(document, i) == DepthAfter(document, i - 1)

Starts(document) == {i \in DOMAIN document : document[i].type = "start"}

\* The start tag an end tag at position i belongs to.
Partner(document, i) ==
    Max({j \in 1..(i - 1) : Opens(document[j]) /\ DepthBefore(document, j) = DepthAfter(document, i)})

\* The start tags whose elements enclose position i.
Enclosing(document, i) ==
    {j \in 1..(i - 1) : Opens(document[j]) /\
        \A k \in j..(i - 1) : DepthAfter(document, k) > DepthBefore(document, j)}

\* The namespace of a prefix at a start tag: declared by the nearest tag that declares it.
Declares(token, prefix) ==
    {a \in DOMAIN token.attributes :
        IsDeclaration(token.attributes[a]) /\ DeclaredPrefix(token.attributes[a]) = prefix}
ScopeOf(document, i, prefix) ==
    {j \in Enclosing(document, i) \cup {i} : Declares(document[j], prefix) # {}}
ScopedNamespace(document, i, prefix) ==
    LET scope == ScopeOf(document, i, prefix)
        token == document[Max(scope)]
    IN  IF prefix = "xml" THEN "xml" ELSE IF scope = {} THEN ""
        ELSE token.attributes[Max(Declares(token, prefix))].value

GoodTag(document, i) ==
    LET attributes == document[i].attributes
        plain == {a \in DOMAIN attributes : ~IsDeclaration(attributes[a])}
        Bound(prefix) == prefix \in {"", "xml"} \/ ScopeOf(document, i, prefix) # {}
        Expanded(a) == <<IF attributes[a].name.prefix = "" THEN ""
                         ELSE ScopedNamespace(document, i, attributes[a].name.prefix),
                         attributes[a].name.local_name>>
    IN  /\ Bound(document[i].name.prefix)
        /\ \A a \in plain : Bound(attributes[a].name.prefix)
        /\ \A a, b \in plain : a # b => Expanded(a) # Expanded(b)
        /\ \A a, b \in DOMAIN attributes : a # b => attributes[a].name # attributes[b].name
        /\ \A a \in DOMAIN attributes \ plain : ~BadDeclaration(attributes[a])

\* A well-formed document.
WellFormed(document) ==
    /\ Balanced(document, Len(document))
    /\ DepthAfter(document, Len(document)) = 0
    /\ Cardinality({i \in Starts(document) : DepthBefore(document, i) = 0}) = 1
    /\ \A i \in Starts(document) : GoodTag(document, i) /\ DepthBefore(document, i) < MAX_NESTING_DEPTH
    /\ \A i \in DOMAIN document :
          /\ document[i].type # "invalid"
          /\ document[i].type = "declaration" => i = 1
          /\ document[i].type = "end" => document[Partner(document, i)].name = document[i].name
          /\ document[i].type = "cdata" \/ (document[i].type = "text" /\ document[i].text # " ") =>
                DepthBefore(document, i) > 0

\* The children of the root with a name, in its namespace.
RootChildren(document, local_name) ==
    LET root == Min(Starts(document))
        Uri(i) == ScopedNamespace(document, i, document[i].name.prefix)
    IN  {i \in Starts(document) : DepthBefore(document, i) = 1
                                  /\ document[i].name.local_name = local_name
                                  /\ Uri(i) = Uri(root)}
=============================================================================
