---------------------------- MODULE MCSpecFiles -----------------------------
EXTENDS SpecFiles

MCCategory == [f \in {"email", "iban"} |-> IF f = "email" THEN "pii" ELSE "financial"]
MCFolders == [f \in Files |-> IF f = "two" THEN {"services"} ELSE {}]

Op(method, security, named, deprecated, schemas) ==
  [method |-> method, path |-> "/a", security |-> security, summary |-> named,
   operationId |-> FALSE, deprecated |-> deprecated, request |-> {}, responses |-> schemas]

Object(properties) == [ref |-> Absent, items |-> Absent, properties |-> properties]
Ref(name) == [ref |-> name, items |-> Absent, properties |-> <<>>]
ListOf(name) == [ref |-> Absent, items |-> name, properties |-> <<>>]

\* Lists and objects below each other.  Below "0", "email" is on level 4, the last
\* that counts, and "iban" on level 5; the ref between 2 and 3 is on neither.
Down(n) ==
  CASE n = "0" -> ListOf("1")
    [] n = "1" -> Object([f \in {"next"} |-> "2"])
    [] n = "2" -> ListOf("2 to 3")
    [] n = "2 to 3" -> Ref("3")
    [] n = "3" -> Object([f \in {"next", "back"} |-> IF f = "next" THEN "4" ELSE "1"])
    [] n = "4" -> Object([f \in {"email", "next"} |-> IF f = "next" THEN "5" ELSE "Lost"])
    [] n = "5" -> Object([f \in {"iban"} |-> "Lost"])

\* A list of trees whose children are trees again, with a field at the end, a
\* ref to nowhere and two refs to each other.
Schema(n) ==
  CASE n = "Trees"  -> ListOf("ToTree")
    [] n = "Tree"   -> Object([f \in {"next", "leaf", "lost", "round"} |->
                         CASE f = "next" -> "Trees" [] f = "leaf" -> "Leaf"
                           [] f = "lost" -> "Lost"  [] f = "round" -> "Round"])
    [] n = "ToTree" -> Ref("Tree")
    [] n = "Leaf"   -> Object([f \in {"iban"} |-> "Lost"])
    [] n = "Lost"   -> Ref("Nowhere")
    [] n = "Round"  -> Ref("Robin")
    [] n = "Robin"  -> Ref("Round")
    [] OTHER        -> Down(n)

OpenApi(operations, names) ==
  [kind |-> "openapi", operations |-> operations, security |-> Absent,
   schemes |-> <<"key">>, schemas |-> [n \in names |-> Schema(n)]]

It(folder, auth, request, header) ==
  [folder |-> folder, auth |-> auth, request |-> request, header |-> header,
   method |-> "GET", path |-> "/a", named |-> TRUE, keys |-> {"email"}]

Plain(named, deprecated) ==
  OpenApi(<<Op("GET", Absent, named, deprecated, {})>>, {})

MCContent(d) ==
  CASE d = "bare"       -> Plain(FALSE, FALSE)
    [] d = "named"      -> Plain(TRUE, FALSE)
    [] d = "deprecated" -> Plain(TRUE, TRUE)
    [] d = "trees"      ->
         OpenApi(<<Op("GET", <<<<"other">>>>, TRUE, FALSE, {"Trees"}),
                   Op("POST", <<>>, FALSE, TRUE, {"Trees"})>>,
                 {"Trees", "Tree", "ToTree", "Leaf", "Lost", "Round", "Robin"})
    [] d = "deep"       ->
         OpenApi(<<Op("GET", <<<<"key">>>>, TRUE, FALSE, {"0"})>>,
                 {"0", "1", "2", "2 to 3", "3", "4", "5", "Lost"})
    [] d = "collection" ->
         [kind |-> "postman", auth |-> Absent, schemes |-> <<>>,
          items |-> <<It(0, "bearer", FALSE, FALSE), It(1, Absent, FALSE, FALSE),
                      It(2, Absent, TRUE, FALSE), It(2, "noauth", TRUE, TRUE),
                      It(1, "untyped", TRUE, FALSE), It(0, Absent, TRUE, TRUE)>>]
    [] d = "notes"      -> Unparsable
=============================================================================
