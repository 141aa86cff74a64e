----------------------------- MODULE SpecFiles ------------------------------
(***************************************************************************)
(* Specifications on disk and the commands that read them: discover on a   *)
(* directory (discover_dir.rs), diff, and remediate with --apply, which    *)
(* writes one.  A command reads its files one after the other while people *)
(* save and remove them, and remediate may be interrupted between          *)
(* truncating the file and writing the whole of it.                        *)
(***************************************************************************)
EXTENDS SpecDocuments

CONSTANTS Files,      \* the files there may be
          Folders,    \* per file, the names of the directories it is in
          SpecNames,  \* those whose file name is one of a specification
          SkipDirs,   \* directories walk does not enter, hidden ones included
          Documents,  \* names of what people save
          Content(_), \* the document with a name
          MaxEvents   \* saves, removals and commands (bound)

Requirements == Seq(Seq(STRING)) \cup {Absent}

Operation == [method : STRING, path : STRING, security : Requirements, summary : BOOLEAN,
              operationId : BOOLEAN, deprecated : BOOLEAN,
              request : SUBSET STRING, responses : SUBSET STRING]

Item == [folder : Nat, auth : STRING \cup {Absent}, request : BOOLEAN, header : BOOLEAN,
         method : STRING, path : STRING, named : BOOLEAN, keys : SUBSET STRING]

\* Schemas have a name for everything but the targets of refs; a folder comes
\* before what is in it.
IsOpenApi(d) ==
  /\ d = [kind |-> "openapi", operations |-> d.operations, security |-> d.security,
          schemes |-> d.schemes, schemas |-> d.schemas]
  /\ d.operations \in Seq(Operation) /\ d.security \in Requirements /\ d.schemes \in Seq(STRING)
  /\ IsFiniteSet(DOMAIN d.schemas) /\ Absent \notin DOMAIN d.schemas
  /\ \A n \in DOMAIN d.schemas :
       LET s == d.schemas[n]
       IN /\ s \in [ref : STRING \cup {Absent}, items : DOMAIN d.schemas \cup {Absent},
                   properties : {s.properties}]
          /\ \A f \in DOMAIN s.properties : s.properties[f] \in DOMAIN d.schemas
  /\ \A i \in DOMAIN d.operations :
       d.operations[i].request \cup d.operations[i].responses \subseteq DOMAIN d.schemas

IsPostman(d) ==
  /\ d.items \in Seq(Item) /\ d.auth \in STRING \cup {Absent} /\ d.schemes = <<>>
  /\ \A i \in DOMAIN d.items : d.items[i].folder < i

IsDocument(d) == \/ d.kind = "openapi" /\ IsOpenApi(d)
                 \/ d.kind = "postman" /\ IsPostman(d)
                 \/ d.kind = "unparsable"

ASSUME SpecFilesAssumption ==
         /\ IsFiniteSet(Files) /\ SpecNames \subseteq Files
         /\ Absent \notin Seq(Seq(STRING))
         /\ \A d \in Documents : IsDocument(Content(d))

VARIABLES files,    \* what is on disk
          job,      \* the running or last command: its files and what it read
          exit,     \* its exit code
          steady,   \* history: files nobody touched since the command began
          patched,  \* history: per file that remediate completed and nobody
                    \* touched since, the document it was planned from
          events

vars == <<files, job, exit, steady, patched, events>>

Unparsable == [kind |-> "unparsable"]

\* In place of a file that does not exist.
Missing == [kind |-> "missing"]

Event == events < MaxEvents /\ events' = events + 1
Busy == job.pc \notin {"done", "crashed"}

Init == /\ files = [f \in Files |-> Missing]
        /\ job = [kind |-> "none", pc |-> "done", list |-> <<>>, read |-> <<>>]
        /\ exit = 0 /\ steady = {}
        /\ patched = [f \in Files |-> Absent]
        /\ events = 0

----------------------------------------------------------------------------
(* The people.                                                             *)

Touched(f) == /\ steady' = steady \ {f}
              /\ patched' = [patched EXCEPT ![f] = Absent]
              /\ UNCHANGED <<job, exit>>

Save(f, d) == /\ Event
              /\ files' = [files EXCEPT ![f] = Content(d)]
              /\ Touched(f)

Delete(f) == /\ Event
             /\ files[f] # Missing
             /\ files' = [files EXCEPT ![f] = Missing]
             /\ Touched(f)

----------------------------------------------------------------------------
(* The commands.                                                           *)

Start(kind, pc, list) ==
  /\ ~Busy /\ Event
  /\ job' = [kind |-> kind, pc |-> pc, list |-> list, read |-> <<>>]
  /\ exit' = 0
  /\ steady' = Files
  /\ UNCHANGED <<files, patched>>

Finish(code) == exit' = code /\ job' = [job EXCEPT !.pc = "done"]

\* walk: the specification files that are in no skipped directory.
Walk == {f \in SpecNames : files[f] # Missing /\ Folders[f] \cap SkipDirs = {}}

DiscoverDirectory == Start("directory", "read", SetToSeq(Walk))
Diff(old, new) == Start("diff", "read", <<old, new>>)
Remediate(f) == Start("remediate", "open", <<f>>)

\* --fail-on-high
ExitCode(inventories) ==
  IF \E i \in DOMAIN inventories : Summarize(inventories[i]).high_or_critical > 0 THEN 2 ELSE 0

Inventories(docs) == [i \in DOMAIN docs |-> Discover(docs[i])]

SkipsTheCheck(f) == files[f] # Missing

CanDiscover(f) == files[f] # Missing /\ Discoverable(files[f])

SkipsTheBroken ==
  LET f == job.list[Len(job.read) + 1]
  IN /\ job.pc = "read"
     /\ Len(job.read) < Len(job.list)
     /\ job' = IF CanDiscover(f) THEN [job EXCEPT !.read = Append(@, files[f])]
               ELSE [job EXCEPT !.list = RemoveAt(@, Len(job.read) + 1)]
     /\ UNCHANGED <<files, exit, steady, patched, events>>

\* The next file of the list, read and discovered; the first error ends it.
Read ==
  LET f == job.list[Len(job.read) + 1]
  IN /\ job.pc = "read"
     /\ Len(job.read) < Len(job.list)
     /\ IF CanDiscover(f)
        THEN job' = [job EXCEPT !.read = Append(@, files[f])] /\ UNCHANGED exit
        ELSE Finish(1)
     /\ UNCHANGED <<files, steady, patched, events>>

\* All have been read.  discover fails on high risk when it is asked to.
Conclude ==
  /\ job.pc = "read"
  /\ Len(job.read) = Len(job.list)
  /\ Finish(IF job.kind = "directory" THEN ExitCode(Inventories(job.read)) ELSE 0)
  /\ UNCHANGED <<files, steady, patched, events>>

\* remediate reads the text for the diff it prints, whatever it is,
OpenOriginal ==
  /\ job.pc = "open"
  /\ IF files[job.list[1]] # Missing
     THEN job' = [job EXCEPT !.pc = "plan"] /\ UNCHANGED exit
     ELSE Finish(1)
  /\ UNCHANGED <<files, steady, patched, events>>

\* and again for the plan.
Plan ==
  LET f == job.list[1]
  IN /\ job.pc = "plan"
     /\ CASE ~CanDiscover(f) -> Finish(1)
          [] CanDiscover(f) /\ ComputeFixes(files[f]) = NoFixes -> Finish(0)
          [] OTHER -> /\ job' = [job EXCEPT !.pc = "truncate", !.read = <<files[f]>>]
                      /\ UNCHANGED exit
     /\ UNCHANGED <<files, steady, patched, events>>

\* Opening the file for writing empties it, or creates it.
Truncate ==
  LET f == job.list[1]
  IN /\ job.pc = "truncate"
     /\ files' = [files EXCEPT ![f] = Unparsable]
     /\ patched' = [patched EXCEPT ![f] = Absent]
     /\ job' = [job EXCEPT !.pc = "write"]
     /\ UNCHANGED <<exit, steady, events>>

\* The text of a Postman collection stays as it is: the patch finds no
\* operation in it.
Remediated(doc) ==
  IF doc.kind = "openapi" THEN ApplyFixes(doc, ComputeFixes(doc)) ELSE doc

Write ==
  LET f == job.list[1]
  IN /\ job.pc = "write"
     /\ files' = [files EXCEPT ![f] = Remediated(job.read[1])]
     /\ patched' = [patched EXCEPT ![f] = job.read[1]]
     /\ Finish(0)
     /\ UNCHANGED <<steady, events>>

\* What parses of a text that is cut off: the operations before the cut.
Cut(doc, n) == [doc EXCEPT !.operations = SubSeq(@, 1, n)]

\* The process dies, or the disk is full, with none of the text on disk or with
\* a first part of it, which may parse: as a document with fewer operations.
Crash ==
  LET f == job.list[1]
  IN /\ job.pc = "write"
     /\ \/ UNCHANGED files
        \/ /\ job.read[1].kind = "openapi"
           /\ \E n \in 0..Len(job.read[1].operations) :
                files' = [files EXCEPT ![f] = Cut(Remediated(job.read[1]), n)]
     /\ job' = [job EXCEPT !.pc = "crashed"]
     /\ UNCHANGED <<exit, steady, patched, events>>

Next == \/ \E f \in Files : \E d \in Documents : Save(f, d)
        \/ \E f \in Files : Delete(f)
        \/ DiscoverDirectory
        \/ \E f, g \in Files : Diff(f, g)
        \/ \E f \in Files : Remediate(f)
        \/ Read
        \/ Conclude
        \/ OpenOriginal
        \/ Plan
        \/ Truncate
        \/ Write
        \/ Crash

Spec == Init /\ [][Next]_vars

----------------------------------------------------------------------------
(* Properties.                                                             *)

Done(kind) == job.kind = kind /\ job.pc = "done"

TypeOK == /\ DOMAIN files = Files
          /\ job.kind \in {"none", "directory", "diff", "remediate"}
          /\ job.pc \in {"read", "open", "plan", "truncate", "write", "done", "crashed"}
          /\ exit \in {0, 1, 2}
          /\ \A i \in DOMAIN job.read : Discoverable(job.read[i])
          /\ \A f \in Files : patched[f] # Absent => files[f] # Missing

\* A directory that passes with --fail-on-high is clean: every specification in
\* it that nobody touched meanwhile could be read and has no endpoint of high or
\* critical risk, one that a crash left behind included.
GreenMeansClean ==
  (Done("directory") /\ exit = 0) =>
    \A f \in Walk \cap steady :
      /\ Discoverable(files[f])
      /\ \A i \in DOMAIN Discover(files[f]) : ~HighOrCritical(Discover(files[f])[i])

UniqueKeys(endpoints) == \A i, j \in DOMAIN endpoints : Key(endpoints[i]) = Key(endpoints[j]) => i = j
NoDrift(d) == d.added = {} /\ d.removed = {} /\ d.changed = {}

\* diff does not compare risk levels.  Still, when it reports no drift between
\* two inventories without repeated endpoints, discover --fail-on-high says the
\* same of both: what diff leaves out (summaries, operationIds) never carries an
\* endpoint from a medium to a high risk.
KeepsTheGate(old, new) ==
  (UniqueKeys(old) /\ UniqueKeys(new) /\ NoDrift(DiffInventories(old, new))) =>
    /\ Summarize(old).high_or_critical = Summarize(new).high_or_critical
    /\ Summarize(old).unauthenticated = Summarize(new).unauthenticated
    /\ Summarize(old).sensitive_endpoints = Summarize(new).sensitive_endpoints

QuietDriftKeepsTheGate ==
  (Done("diff") /\ exit = 0) => KeepsTheGate(Discover(job.read[1]), Discover(job.read[2]))

\* The schemas that a chain of refs leads to, the first included, and those of
\* them that are no refs.
Refs(schemas, n) ==
  LET Closed(S) == \A m \in S : schemas[m].ref \in DOMAIN schemas => schemas[m].ref \in S
  IN {m \in DOMAIN schemas : \A S \in SUBSET DOMAIN schemas : (n \in S /\ Closed(S)) => m \in S}
Ends(schemas, n) == {m \in Refs(schemas, n) : schemas[m].ref = Absent}

Nested(schemas, m) == IF schemas[m].items # Absent THEN {schemas[m].items}
                      ELSE {schemas[m].properties[f] : f \in DOMAIN schemas[m].properties}

\* The schemas that are no refs, by how many lists and properties they are
\* below a schema.
Levels(schemas, n) ==
  LET level[d \in 0..MaxDepth] ==
        IF d = 0 THEN Ends(schemas, n)
        ELSE UNION {UNION {Ends(schemas, t) : t \in Nested(schemas, m)} : m \in level[d - 1]}
  IN level

\* The sensitive fields found below a schema are those of all the objects at
\* most MaxDepth lists and properties below it, however they are reached: refs
\* cost nothing, and those that lead nowhere or in circles hide no other field
\* and end the walk.
NestedFieldsAreFound ==
  Done("directory") => \A k \in DOMAIN job.read :
    LET schemas == job.read[k].schemas
    IN job.read[k].kind = "openapi" =>
         \A n \in DOMAIN schemas :
           LET near == UNION {Levels(schemas, n)[d] : d \in 0..MaxDepth}
           IN CollectFields(schemas, n) =
                DOMAIN Category \cap
                  UNION {DOMAIN schemas[m].properties : m \in {l \in near : schemas[l].items = Absent}}

\* The item itself and the folders around it.
Around(items, i) ==
  {j \in 1..i : \A S \in SUBSET (1..i) :
     (i \in S /\ \A k \in S : items[k].folder # 0 => items[k].folder \in S) => j \in S}

\* A Postman request is taken for authenticated exactly when the innermost auth
\* around it (folders come before what is in them) names a type other than
\* noauth, or when it is not noauth and the request has an Authorization header.
AuthIsInherited ==
  Done("directory") => \A k \in DOMAIN job.read :
    job.read[k].kind = "postman" =>
      LET items == job.read[k].items
          leaves == Requests(items)
          Declared(i) == {j \in Around(items, i) : items[j].auth # Absent}
          Auth(i) == IF Declared(i) = {} THEN job.read[k].auth
                     ELSE items[CHOOSE j \in Declared(i) : \A l \in Declared(i) : l <= j].auth
      IN \A n \in DOMAIN leaves :
           Discover(job.read[k])[n].authenticated <=>
             /\ Auth(leaves[n]) # "noauth"
             /\ Auth(leaves[n]) \notin {Absent, "untyped"} \/ items[leaves[n]].header

\* After remediate --apply on an OpenAPI document nothing is left to fix, no
\* endpoint has come or gone or become riskier, and nothing but authentication
\* and names has changed.
FixesConverge ==
  \A f \in Files :
    (patched[f] # Absent /\ patched[f].kind = "openapi") =>
      LET old == Discover(patched[f])
          new == Discover(files[f])
      IN /\ ComputeFixes(files[f]) = NoFixes
         /\ DOMAIN new = DOMAIN old
         /\ \A i \in DOMAIN new :
              /\ Key(new[i]) = Key(old[i])
              /\ ScoreEndpoint(new[i]) <= ScoreEndpoint(old[i])
              /\ new[i].deprecated = old[i].deprecated
              /\ new[i].sensitive_fields = old[i].sensitive_fields
              /\ old[i].authenticated => new[i].auth_schemes = old[i].auth_schemes
=============================================================================
