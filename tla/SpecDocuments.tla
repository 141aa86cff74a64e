--------------------------- MODULE SpecDocuments ----------------------------
(***************************************************************************)
(* What core/src makes of a specification that has been parsed: the        *)
(* endpoints with their authentication and sensitive fields (openapi.rs,   *)
(* postman.rs, classify.rs), their risk (risk.rs), the summary (model.rs), *)
(* the drift between two of them (drift.rs) and the fixes remediate        *)
(* proposes (remediate.rs).                                                *)
(*                                                                         *)
(* An OpenAPI document is a record of its operations (in the order of the  *)
(* inventory: path, then method), its security (a sequence of requirements,*)
(* each a sequence of scheme names, or Absent), the schemes it declares    *)
(* and its schemas.  Schemas are named, inline ones too: a function from   *)
(* names to records with a ref, an items schema and the schemas of         *)
(* properties.                                                             *)
(* A Postman collection is a record of its items in document order, each   *)
(* with the place of the folder it is in, and of its auth, and declares no *)
(* schemes.  Of names, summaries and tags only what a risk factor asks is  *)
(* kept, of a confidence nothing.                                          *)
(*                                                                         *)
(* Faulty variants of definitions stand before the definition they vary    *)
(* and are named after what is wrong with them; nothing else refers to     *)
(* them.                                                                   *)
(***************************************************************************)
EXTENDS Integers, SequencesExt

CONSTANTS Absent,     \* in place of a field that a document lacks
          Category,   \* classify_field: sensitive field names, their category
          MaxDepth    \* MAX_SCHEMA_DEPTH

ASSUME SpecDocumentsAssumption == MaxDepth \in Nat

----------------------------------------------------------------------------
(* openapi.rs.                                                             *)

\* extract_security: the schemes the requirements name, in the order of first
\* mention.  An empty list, and a requirement that names none, count for nothing.
ExtractSecurity(security) ==
  LET Add(schemes, name) == IF Contains(schemes, name) THEN schemes ELSE Append(schemes, name)
  IN IF security = Absent THEN <<>> ELSE FoldLeft(Add, <<>>, FlattenSeq(security))

\* The operation's own security counts, and the document's only if it has none.
EffectiveSecurity(op, doc) == IF op.security # Absent THEN op.security ELSE doc.security

\* Where a chain of refs ends: a schema that is none, or Absent if the chain
\* dangles or comes back to a ref it has followed.
ResolveRef(schemas, name) ==
  LET follow[visited \in SUBSET DOMAIN schemas] ==
        [n \in DOMAIN schemas |->
           LET r == schemas[n].ref
           IN IF r = Absent THEN n
              ELSE IF r \in DOMAIN schemas \ visited THEN follow[visited \cup {r}][r]
              ELSE Absent]
  IN follow[{}][name]

ForgetsTheItems(schemas, name) ==
  LET collect[depth \in 0..(MaxDepth + 1)] ==
        [n \in DOMAIN schemas |->
           LET resolved == ResolveRef(schemas, n)
               properties == schemas[resolved].properties
               nested == {ResolveRef(schemas, properties[f]) : f \in DOMAIN properties} \ {Absent}
           IN IF depth > MaxDepth \/ resolved = Absent THEN {}
              ELSE (DOMAIN properties \cap DOMAIN Category)
                   \cup UNION {collect[depth + 1][q] : q \in nested}]
  IN collect[0][name]

\* The classified field names below a schema.  Of an array only the items are
\* looked at, and nothing deeper than MaxDepth.
CollectFields(schemas, name) ==
  LET collect[depth \in 0..(MaxDepth + 1)] ==
        [n \in DOMAIN schemas |->
           LET resolved == ResolveRef(schemas, n)
               properties == schemas[resolved].properties
               nested == {ResolveRef(schemas, properties[f]) : f \in DOMAIN properties} \ {Absent}
           IN IF depth > MaxDepth \/ resolved = Absent THEN {}
              ELSE IF schemas[resolved].items # Absent
                   THEN collect[depth + 1][schemas[resolved].items]
              ELSE (DOMAIN properties \cap DOMAIN Category)
                   \cup UNION {collect[depth + 1][q] : q \in nested}]
  IN collect[0][name]

SensitiveFields(names, location) ==
  {[name |-> f, category |-> Category[f], location |-> location] : f \in names}

OpenApiDraft(op, doc) ==
  LET schemes == ExtractSecurity(EffectiveSecurity(op, doc))
      Below(roots, location) ==
        SensitiveFields(UNION {CollectFields(doc.schemas, n) : n \in roots}, location)
  IN [method |-> op.method, path |-> op.path,
      named |-> op.summary \/ op.operationId,
      deprecated |-> op.deprecated,
      authenticated |-> schemes # <<>>,
      auth_schemes |-> schemes,
      sensitive_fields |-> Below(op.request, "request") \cup Below(op.responses, "response")]

----------------------------------------------------------------------------
(* postman.rs.                                                             *)

IgnoresFolders(items, i, collection) ==
  IF items[i].auth # Absent THEN items[i].auth ELSE collection

\* An item's own auth, or else that of the nearest folder around it that has
\* one, or else the collection's.
EffectiveAuth(items, i, collection) ==
  LET auth[j \in 0..Len(items)] ==
        IF j = 0 THEN collection
        ELSE IF items[j].auth # Absent THEN items[j].auth
        ELSE auth[items[j].folder]
  IN auth[i]

\* The type of an auth: "noauth" switches inherited auth off, and an auth
\* without a type counts for nothing but hides what is inherited.
PostmanDraft(item, type) ==
  [method |-> item.method, path |-> item.path,
   named |-> item.named,
   deprecated |-> FALSE,
   authenticated |-> type # "noauth" /\ (type \notin {Absent, "untyped"} \/ item.header),
   auth_schemes |-> CASE type = "noauth" -> <<>>
                      [] type \notin {Absent, "untyped", "noauth"} -> <<type>>
                      [] OTHER -> IF item.header THEN <<"header:authorization">> ELSE <<>>,
   sensitive_fields |-> SensitiveFields(item.keys \cap DOMAIN Category, "request")]

\* The requests among the items, in the order of the document.
Requests(items) ==
  LET leaves == {i \in DOMAIN items : items[i].request}
  IN [k \in 1..Cardinality(leaves) |->
        CHOOSE i \in leaves : Cardinality({j \in leaves : j <= i}) = k]

----------------------------------------------------------------------------
(* risk.rs and model.rs.                                                   *)

Sum(factors) == factors.no_auth + factors.sensitive_data + factors.unauthenticated_sensitive_data
                + factors.deprecated_still_live + factors.missing_metadata

\* The weight of each factor, 0 when it is not there.
Factors(ep) ==
  [no_auth |-> IF ep.authenticated THEN 0
               ELSE IF ep.method \in {"POST", "PUT", "PATCH", "DELETE"} THEN 40 ELSE 30,
   sensitive_data |->
     IF ep.sensitive_fields = {} THEN 0
     ELSE IF \E f \in ep.sensitive_fields : f.category \in {"financial", "credential", "health"}
          THEN 30 ELSE 15,
   unauthenticated_sensitive_data |->
     IF ~ep.authenticated /\ ep.sensitive_fields # {} THEN 20 ELSE 0,
   deprecated_still_live |-> IF ep.deprecated THEN 10 ELSE 0,
   missing_metadata |-> IF ep.named THEN 0 ELSE 5]

ScoreEndpoint(ep) == IF Sum(Factors(ep)) > 100 THEN 100 ELSE Sum(Factors(ep))

LevelFor(score) == CASE score \in 0..14 -> "LOW"
                     [] score \in 15..39 -> "MEDIUM"
                     [] score \in 40..69 -> "HIGH"
                     [] OTHER -> "CRITICAL"

HighOrCritical(ep) == LevelFor(ScoreEndpoint(ep)) \in {"HIGH", "CRITICAL"}

Summarize(endpoints) ==
  [total_endpoints |-> Len(endpoints),
   high_or_critical |-> Cardinality({i \in DOMAIN endpoints : HighOrCritical(endpoints[i])}),
   unauthenticated |-> Cardinality({i \in DOMAIN endpoints : ~endpoints[i].authenticated}),
   sensitive_endpoints |->
     Cardinality({i \in DOMAIN endpoints : endpoints[i].sensitive_fields # {}})]

----------------------------------------------------------------------------
(* discover_from_str of lib.rs.                                            *)

\* Text that does not parse, or parses as something that has no paths object
\* (an empty file does), is an error.
Discover(doc) ==
  CASE doc.kind = "openapi" -> [i \in DOMAIN doc.operations |-> OpenApiDraft(doc.operations[i], doc)]
    [] doc.kind = "postman" ->
         LET leaves == Requests(doc.items)
         IN [k \in DOMAIN leaves |->
               PostmanDraft(doc.items[leaves[k]], EffectiveAuth(doc.items, leaves[k], doc.auth))]

Discoverable(doc) == doc.kind \in {"openapi", "postman"}

----------------------------------------------------------------------------
(* drift.rs.                                                               *)

Key(ep) == <<ep.method, ep.path>>
Keys(endpoints) == {Key(endpoints[i]) : i \in DOMAIN endpoints}

\* The first endpoint with a key.
FindKey(endpoints, key) ==
  endpoints[CHOOSE i \in DOMAIN endpoints :
              /\ Key(endpoints[i]) = key
              /\ \A j \in DOMAIN endpoints : Key(endpoints[j]) = key => i <= j]

ComparesAuthOnly(o, e) == o.authenticated # e.authenticated \/ o.auth_schemes # e.auth_schemes

Changed(o, e) == \/ o.authenticated # e.authenticated
                 \/ o.auth_schemes # e.auth_schemes
                 \/ o.deprecated # e.deprecated
                 \/ o.sensitive_fields # e.sensitive_fields

DiffInventories(old, new) ==
  [added |-> Keys(new) \ Keys(old),
   removed |-> Keys(old) \ Keys(new),
   changed |-> {Key(new[i]) : i \in {j \in DOMAIN new :
                  Key(new[j]) \in Keys(old) /\ Changed(FindKey(old, Key(new[j])), new[j])}}]

----------------------------------------------------------------------------
(* remediate.rs on the parsed document, which is what the text patch of    *)
(* SpecPatch amounts to when it patches what it was asked to.              *)

\* The fixes: which operations get a security, which an operationId.  A
\* security can only refer to a scheme the document declares.
ComputeFixes(doc) ==
  LET ep == Discover(doc)
  IN [security |-> {i \in DOMAIN ep : ~ep[i].authenticated /\ doc.schemes # <<>>},
      operationId |-> {i \in DOMAIN ep : ~ep[i].named}]

NoFixes == [security |-> {}, operationId |-> {}]

FixesTheDocument(doc, fixes) ==
  [doc EXCEPT !.security = IF fixes.security = {} THEN @ ELSE <<<<Head(doc.schemes)>>>>,
              !.operations = [i \in DOMAIN @ |->
                 [@[i] EXCEPT !.operationId = @ \/ i \in fixes.operationId]]]

ApplyFixes(doc, fixes) ==
  LET Fixed(i) ==
        [doc.operations[i] EXCEPT
           !.security = IF i \in fixes.security THEN <<<<Head(doc.schemes)>>>> ELSE @,
           !.operationId = @ \/ i \in fixes.operationId]
  IN [doc EXCEPT !.operations = [i \in DOMAIN doc.operations |-> Fixed(i)]]
=============================================================================
