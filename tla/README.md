# TLA+ specifications of PyAPICheck

PyAPICheck inventories the endpoints of API specifications, scores them,
compares them with observed traffic, turns what it finds into policies and
gateway rules, and keeps a graph of agents, tools and what they can reach. Much
of it is computation on one document. What is hard to get right is where a
command meets something that moves on its own: a PostgreSQL server shared by
several runs, MCP servers behind pipes, logs that gateways append to, files
that people edit, a gateway configured from an older file. The specifications
follow those meeting points, and take the computations along as operators.

## The system

| Part | State it keeps | Operations | Hard behaviour |
| --- | --- | --- | --- |
| Graph bootstrap, `graph.rs: ensure_graph` | extension, graph and label tables in the catalog | create what is missing | concurrent callers, transactions of dead clients, lost replies |
| Graph writers, `graph.rs: upsert_*` and the loops in the bindings | vertices, properties, edges | one statement after the other, each committed alone | MERGE without uniqueness, errors halfway |
| Graph queries, `reachable_from`, `blast_radius` | none | paths of 1 to 6 hops, forwards and backwards | the hop limit, names shared between labels |
| MCP discovery, `mcp.rs` | child process, two pipes, helper thread, channel | spawn, handshake, timeout, kill, reap, join | hanging, crashing, forking and talkative servers |
| Inventory store, `db.rs` | inventories, endpoints, traffic_records | migrate, persist row by row, load | crash between rows, reading while writing, a second reading of the files |
| Remediation, `remediate.rs` and `text_patch.rs` | lines of the document | choose fixes, locate, sort, apply | indices into a text that shifts, indentation |
| Discovery, `openapi.rs`, `postman.rs`, `classify.rs`, `discover_dir.rs` | none | document to endpoints, directory to inventories | inherited security, refs that dangle or loop, files that change meanwhile |
| Scoring and drift, `risk.rs`, `model.rs`, `drift.rs` | none | score, summarise, compare | two judgements of one change |
| Traffic analysis, `traffic.rs`, `lifecycle.rs`, `baseline.rs` | none | log lines to records, classes, baselines and findings | unreadable lines, order of lines, 64-bit ids, rotation |
| Policies, `policy.rs`, `enforcement.rs` | the policy file, the exported filter | findings to Cedar policies, gaps, gateway rules | who counts as an agent, templates against concrete paths |
| Investigation, `investigate.py` | tool calls, findings | findings with citations and remedies | every file read twice |
| Rest of the Python layer, `cli.py`, `active.py`, `lint.py`, `sarif.py` | the user's files | one command per process | truncated writes, exit codes |

How they interact: the command line calls the bindings; the bindings read
files, call the core and, for `--db-url` and `graph`, open a connection pool
for that one call. `graph load-mcp` runs the discovery of all servers first,
then `ensure_graph`, then one `upsert_mcp_server` per server. The findings of
the traffic analysis become policies, the policies a gateway's filter, and the
gateway's log the next input of the traffic analysis. Processes share nothing
but the database and the files. There are no callbacks and no background
tasks; the only thread the code starts is the helper of a probe.

What makes each part correct:

- *Bootstrap*: Ok means everything is there; nobody fails for losing a race;
  nobody waits for ever.
- *Writers*: Ok means everything asked for is in the graph and stays there;
  edges are those declared, no others.
- *Queries*: the two questions are converses of each other.
- *Discovery of MCP servers*: "unavailable" and "no tools" are never confused;
  one bad server costs its timeout and nothing else.
- *Store*: a returned id is a complete inventory; history is never rewritten.
- *Remediation*: the text patch does what fixing the parsed document would do,
  and touches nothing else; it leaves nothing to fix and nothing riskier.
- *Discovery, scoring, drift*: a directory that passes the gate is clean; what
  `diff` calls no drift does not change the gate.
- *Traffic analysis*: an enumeration is found exactly when it is in the log; a
  first-time operation is reported once; no request gets lost in a report.
- *Policies*: an applied fix keeps denying, and the gateway denies what the
  policy file forbids.

## Modules

| Module | Models | Kind |
| --- | --- | --- |
| `GraphInstall` | what the bootstrap promises: objects appear once, in order; Ok only when all are there | abstract specification |
| `GraphBootstrap` | `ensure_graph` and the server's transactions | implements `GraphInstall` |
| `McpDiscovery` | `discover_all` with both threads, the child and its descendants | detailed |
| `SecurityGraph` | all graph writers, `reachable_from`, `blast_radius` | detailed |
| `InventoryStore` | `report --db-url`, `load_inventory`, `load_traffic`, the files and the tables | detailed |
| `SpecPatch` | `compute_fixes`, `apply_fixes`, the YAML and JSON text patches | detailed, with the parsed document as reference |
| `TrafficAnalysis` | `traffic.rs`, `lifecycle.rs`, `baseline.rs` | operators |
| `TrafficWindows` | `report` and `investigate` beside gateways, rotations and deployments | composition on `TrafficAnalysis` |
| `PolicyLoop` | `policies recommend`, `diff`, `emit-envoy`, the people who edit, the gateway that denies | composition on `TrafficAnalysis` |
| `SpecDocuments` | `openapi.rs`, `postman.rs`, `classify.rs`, `risk.rs`, `model.rs`, `drift.rs`, `remediate.rs` on parsed documents | operators |
| `SpecFiles` | `discover` on directories, `diff`, `remediate --apply` on files that change | composition on `SpecDocuments` |
| `GraphBootstrapProofs`, `McpDiscoveryProofs`, `SecurityGraphProofs`, `InventoryStoreProofs`, `SpecPatchProofs`, `TrafficWindowsProofs`, `PolicyLoopProofs`, `SpecFilesProofs` | theorems about the module in their name | proofs |

The `MC` module of each gives the constants their values. Definitions named
after a mistake (`RecheckIgnored`, `TopComesFirst`, `SkipsTheBroken`, ...)
stand before the definition they vary. Nothing uses them; replacing the real
definition by one of them must make a property fail, which shows that the
property depends on the code it is about.

### GraphBootstrap

`pc` and `at` are a caller's place in `ensure_graph`: probing (`graph_exists`,
`label_exists`), sending a CREATE (`Submit`), inside its transaction (`Insert`,
`Commit`), or in the re-check after an error (`Recheck`). The extension is
created without a probe. The server is external: its unique indexes make
`Insert` wait for another uncommitted transaction (`holder`) and fail once that
one has committed. `Abort` is any error the server reports. `Lose` is a
connection lost in the middle of a CREATE and `Crash` the death of the caller:
in both the server does not notice at once, and what they leave behind
(`Leave`) is a transaction that is `Stray` or a waiting statement that is
`adrift`. The latter may still insert (`Drift`), and the former still commits or
rolls back (`Orphan`), perhaps long after its client saw the error, looked again
and failed. The objects are numbered in the order in which the code creates them, so "the
graph exists" and "the label exists" are one case. A process that is started
again is another caller.

### McpDiscovery

`parent` is the calling thread in `discover_tools_inner` (`Spawn`, `Receive` or
`Timeout`, `Kill`, `Reap`, `Join`), `helper` the thread that runs
`run_handshake` (`Send`, `Read`, `ReadEof`), `channel` the mpsc channel between
them. The server is external: it may answer, answer with an error or garbage,
write lines nobody asked for (`Notify`: a note, junk, or a line with a tool
list, which `offered` remembers), stop, exit, or have been started by a launcher
as a process of its own (`Fork`), which inherits the pipes and survives
`child.kill()`. As in the code, `Read` looks at no id: only its position decides
what a line is taken for. A server stopped because nobody drains its stderr is one that
takes no more steps. A line is one of the five kinds the client distinguishes.

### SecurityGraph

Each operation is its list of statements (`Program`); a job executes them one
at a time (`pos`). MERGE is two steps, the search and the creation, so two jobs
can both create; a vertex is its node and the job that created it. A job ends
with `Finish`, at a text that cannot be written as a literal (`Reject`), at an
edge whose end is missing (`LinkVertices`), or at any point through a lost
connection or crash (`Lost`), before or after the statement took effect.

### InventoryStore

A job follows `_cmd_report` and `persist`: it reports on one reading of the
specification, persists a second one row by row, and reads the log again only
after the inventory is committed. `Fail` ends a job between any two statements.
A loader reads the header and then the rows. The files change at any time.
`edited` remembers which jobs had an edit between their two readings.

### SpecPatch

A document is a sequence of lines with indentation, kind, key and value, and
with `marks` for a key in quotes and for a comment behind the text. What the
scans take a line for is not what it means: `Reads` cuts a YAML key at its first
colon (`Stem`) and takes a JSON string in a list for a key, and `OpensPaths`
wants `paths:` and nothing else on the line.
`ComputeFixes` chooses the fixes from the parsed document, `Target` locates one
in the lines as the two scanning functions do, `Apply` performs one replacement
or insertion. `Meaning` is the parsed document, read off the nesting of the
lines; `ApplyFixes` is `apply_fixes` on it and serves as the reference.
`Regular` describes the documents the patch is written for, block style and
pretty-printed JSON: the hypothesis of the theorem `PatchesMeanFixes`.

### TrafficAnalysis and TrafficWindows

`TrafficAnalysis` is a function of an inventory and one or two logs, definition
by definition as in the Rust files: which lines are kept (`ParseAccessLog`),
`PathMatchesTemplate`, the lifecycle report, baselines, runs of ids, and
first-time operations. Ids go from `-IdLimit` to `IdLimit - 1`, and their
difference wraps around there (as in the release build; a debug build panics).
A parsed log keeps its records at the places of their lines, without those of
lines that were skipped: only their order matters to what is computed from it,
and a place stays what it is when the log grows. `Nth` counts them where the
code appends to a vector.

`TrafficWindows` puts it next to its world. `Call` is a request that a gateway
has served, `Write` its line reaching the log later, in any order, whole or cut
short; `Rotate` moves the current log to the historical one; `Deploy` replaces
the specification. `report` and `investigate` open their files one by one;
`investigate` opens all of them twice, for the findings (`ReadForFindings`) and
for the recommendations (`ReadForRecommendations`). A command fails on a file
that is not there or, cut inside a character, is not valid UTF-8, and
`investigate` also when a recommendation cannot be quoted (`Unquotable`); then
its findings are lost. `tools` and `findings` are
its `tool_calls` and `findings`, with citations as indices, and `ByConfidence`
is its sort; the order among findings of one confidence, which is by an id in
the code, is the one they were found in.

### PolicyLoop

A policy is its effect, principal, action, resource and whether its conditions
hold. `Start`, `ReadHistorical` and `ReadCurrent` are `diff` and `recommend`
with the order in which they read; `Edit` and `Apply` are people changing the
policy file, `EmitEnvoyRbac` writes the filter, `Splice` puts it into the
gateway, and `Request` is answered and logged by the gateway that has it. Cedar
is external: `Authorize` is its rule that a fitting forbid overrides every
permit and that nothing is allowed without a permit.

Worth knowing, and visible in the model: `emit-envoy` translates a forbid
whatever its action and conditions; with nothing to translate it leaves the
`--out` file of the last time as it is; one identity, method or path with a line
break fails the whole `recommend` or `diff`; and a fix for `User::"x"` says nothing once
`x` is declared with `--agent`, so that the gap opens again.

### SpecDocuments and SpecFiles

`SpecDocuments` takes a parsed document: an OpenAPI one with its operations,
security, schemes and named schemas, or a Postman collection with its items and
the folders they are in. `Discover` gives the endpoints, `ScoreEndpoint` and
`Summarize` the judgement, `DiffInventories` the drift, `ComputeFixes` and
`ApplyFixes` the remediation. Following refs and collecting fields are
recursive functions with the visited set and the depth limit of the code. A
document has finitely many schemas, and the items and properties of a schema are
schemas of the document; a ref may lead anywhere.

`SpecFiles` puts such documents on disk. `Walk` is the set of files a directory
walk yields (`Missing` is no file), `Read` reads the next file of a command, and
the first that cannot be read or parsed ends it. `remediate --apply` reads once
for the diff it prints (`OpenOriginal`), again for its plan (`Plan`), empties
the file (`Truncate`) and writes it (`Write`), or dies in between (`Crash`),
with nothing or a first part of the text on disk. People save and remove files at
any time; `steady` and `patched` remember what nobody touched.

Worth knowing, and visible in the model: an optional security
(`[{}, {bearer: []}]`) counts as authenticated; a Postman auth without a type
hides the one it would inherit; `remediate --apply` on a Postman collection
prints that it applied its fixes and changes nothing; and a file cut off in
the middle may parse, as a document with fewer operations.

## Runs

| Run | Instance | Shows |
| --- | --- | --- |
| `bootstrap` | 3 callers, extension + graph + 2 labels | `OkMeansReady`, `PredecessorsExist`, `OnlyOwnFaults`, `EveryCallEnds`, and that it implements `GraphInstall` |
| `discovery` | 2 servers with descendants, up to 2 unasked lines each; 390 000 states | `ToolsWereAnswered`, `ProbesDoNotOverlap`, `AnswerIsHeard`, `EndsUnlessHeld` |
| `discovery_hung` | 1 server with descendants | `DiscoveryEnds` fails |
| `graph` | two loads of one server, an agent, two vertices, two edges; at most 2 hops; 970 000 states | `OkIsWritten`, `EdgesAreDeclared`, `BareIsUnfinished`, `QueriesAgree` |
| `graph_garbled` | one load of two servers, one of them unavailable | `EveryServerRecorded` fails |
| `store` | 2 jobs, 1 loader, 2 versions of the file, 2 log lines; 1.7 million states | `IdMeansComplete`, `LoadsArePrefixes`, `HistoryKept` |
| `patch` | 768 documents in both formats | `TargetsStayPut`, `OthersUntouched`, `PatchMeansFixes` |
| `patch_comment` | YAML with a comment in the first column | `PatchMeansFixes` fails |
| `traffic` | 5 kinds of request by 2 identities, 2 specifications, 2 lines in flight, 5 events; 2 million states | `EnumerationIsFound`, `FirstTimeIsReportedOnce`, `RemedyCoversFindings`, `AgentsAreRecognised`, `EveryRequestIsAccountedFor` |
| `policies` | 6 kinds of request, 3 policies edited by hand, 5 events; 1.5 million states | `FixedStaysDenied`, `NewcomersAreReported`, `DeniedIsForbidden`, `FixesReachTheGateway` |
| `envoy` | the same, 4 events | `FixesStopTheirRequests` fails |
| `files` | 2 files, 7 documents, 5 events; 151 000 states | `GreenMeansClean`, `QuietDriftKeepsTheGate`, `NestedFieldsAreFound`, `AuthIsInherited`, `FixesConverge` |

Each passing run but `policies` also checks the `TypeOK` of its module.

Why the bounds are enough:

- *Bootstrap*: three callers give a holder, one who waits and one who arrives
  late or takes over from a dead one. Labels are created by one function one
  after the other, so two of them already have a label before and after; the
  theorems remove both bounds.
- *Discovery*: probes are sequential, so two servers show everything that one
  can leave behind for the next; one unasked line shifts every later line by
  one position, and a second one can come after or instead of an answer. The
  theorems remove both bounds.
- *Graph*: two writers of one name are needed to duplicate it, a third finds
  both copies; the chain is one hop longer than the queries follow, and a tool
  and an API share a name. The code's 6 hops would need a longer chain, not
  another case. The theorems hold for any work.
- *Store*: two jobs interleave their traffic rows, and one can die anywhere
  while the other goes on. One of the versions of the file holds an endpoint
  twice. The theorems hold for any jobs and documents.
- *Patch*: every pair of neighbouring operations with every choice of four
  bodies, in both orders of the paths, with `/b`, `get`, `security` and
  `operationId` also occurring where they mean something else.
- *Traffic*: `IdLimit = 2` lets differences overflow between the four ids there
  are, `MinRun = 3` is the code's (`lib.rs:43`), and five events allow two
  requests on both sides of a rotation, or a rotation or deployment inside an
  investigation after two requests. Two lines in flight are needed to swap them.
- *Policies*: a whole round takes four events (a request, a command, an export,
  a request); the fifth is an edit or a rotation at any point of it.
- *Files*: `remediate`, an edit and a crash on one file while a second command
  reads it take four events. `MaxDepth = 4` is the code's `MAX_SCHEMA_DEPTH`
  (`openapi.rs:15`). The document `trees` nests lists, objects and looping and
  dangling refs; `deep` goes on below the depth where the search is cut off.

`CHECK_DEADLOCK FALSE` stands in every configuration because every one of these
operations ends, or a bound on events is reached, and then the system has
nothing left to do.

### Fairness

`GraphBootstrap` assumes weak fairness of the regular course of each caller's
statements (`Statement`: probe, submit, insert when nobody is in the way, commit,
re-check) and of the server ending a transaction nobody waits for (`Orphan`).
The code awaits every statement without a condition, and PostgreSQL ends the
transaction of a client that is gone, one way or the other. Everything that can
go wrong (`Fault`, `Crash`) is outside the fairness: no statement timeout is set,
so a waiter cannot count on being aborted, and callers that waited for each
other would wait for ever and violate `EveryCallEnds`.
`McpDiscovery` assumes that both threads of the program run (and so that
`recv_timeout` expires), and of servers only that a descendant whose stdin has
ended exits, as the stdio transport of MCP asks. It assumes nothing of a server
that is still connected. `EndsUnlessHeld` has as its premise what is left:
that the server's descendants are infinitely often gone.
The other modules state no liveness; their operations are finite lists of
statements that wait for nobody.

## Where code and documentation disagree

Each of these is a run whose counterexample TLC finds.

- `discovery_hung`: `mcp.rs` promises that a hung server cannot hang discovery.
  The kill reaches only the direct child; if that was a launcher, the helper
  waits for end of file on a pipe the real server holds, the server for end of
  file on the pipe the helper holds, and `join` for the helper.
- `graph_garbled`: a tool name with a line break leaves its server with a
  vertex without status, and all later servers without a vertex, also one found
unavailable, for which `graph.rs:321` promises a vertex with the reason.
- `patch_comment`: a comment in the first column ends the search for every path
  below it; `remediate --apply` counts the lost fixes as applied.
- `envoy`: the filter compares a fix's path with the request's exactly. A fix
  names the template of an endpoint, so the rule for `GET /w/{id}` denies no
  request at all, although the snippet is said to implement every forbid.

These were met while modelling; the properties say what does hold:

- A server that writes a notification before its answer is reported
  unavailable, because the second line read is taken for the answer
  (`mcp.rs:26`, `165`). `AnswerIsHeard` is about servers that do not.
- Two endpoints of one method and path are one row, the last (`db.rs:60`),
  though the summary counts both. `IdMeansComplete` says so (`Collapse`).
- `report --db-url` prints one reading of the file and persists another
  (`cli.py:224`, `670`). `IdMeansComplete` has the edit as its exception.
- A line with a tool list that nobody asked for counts as the answer to
  `tools/list` (`mcp.rs:164-179` checks no id). `ToolsWereAnswered` says so.
- Runs of ids are looked for in the order of the log (`baseline.rs:246`);
  `ROADMAP.md:289-290` has the records sorted by time. `EnumerationIsFound` needs
  the identity's lines in order.
- A run is documented as steps "of exactly +1 or -1" (`baseline.rs:154`), but
  the difference of two ids can overflow: a release build then takes the two
  ends of the 64-bit range for neighbours, and a debug build panics.
  `EnumerationIsFound` promises that every real run is found, and that nothing
  else is where no difference overflows.
- The text patch silently leaves out the fixes of a path that contains a colon
  (`text_patch.rs:155`), and of all paths below a `paths:` with a comment behind
  it or in quotes (line 80); in JSON it takes a string in a list for the path of
  that name (line 239). `Regular` excludes these documents, and TLC checks that
  the scan goes wrong on them (`Misread`).
- A rotation between the two readings of the logs may show a first-time
  operation again, and a rotation or deployment between the two rounds of
  `investigate` may leave a finding without a recommendation. The two
  properties exclude commands during which a file moved.
- `blast_radius` is documented to return agents and users, and returns tools as
  well, as its own test expects.
- `lint.py` does not catch the exception of its own timeout.

## Theorems

All are proved for every value of the constants that satisfies the `ASSUME`s
of the module: no bound on callers, servers, jobs, documents, labels, policies,
fixes, requests, log lines, ids or hops.

`GraphBootstrapProofs`. `TypeCorrect` is inductive by itself. The safety
properties are not: that a caller at object *n* finds all objects below *n*
(`PredecessorsExist`) depends on nobody advancing past an object that does not
exist, which after an error depends on what the re-check saw. The inductive
invariant `Safe` therefore adds that a caller with answer Ok is past the last
object (`OkPastLast`) and that a caller sits in the re-check only because its
object exists or because one of its own statements was hit by a fault
(`RecheckJustified`). From `Safe` follow `StatementsFindPredecessors`,
`OkIsReady` and `FailuresAreOwn`. For the refinement, `Transactions` says that
an uncommitted insertion belongs to a caller that is creating that very object
or to nobody any more, and that also the stray transactions and the statements
adrift are for objects whose predecessors are there (`StraysInOrder`), so that a
commit, even one that `Orphan` performs long after its client has failed,
installs the next object in order.
`BootstrapImplementsInstall` then maps every step to a step of `GraphInstall`
or to a stutter: `Commit` and `Orphan` to the installation of one object, the
last step of a call to its answer, everything else to nothing.

`McpDiscoveryProofs`. `Typed` holds the places of both threads and the child
together: between two probes no helper or child is left (`ProbesAreSeparate`).
`ToolListsAreAnswers` needs `Heard`: a tool list in the pipe or on the channel
was written by the server being probed, while it was waited for; pipes that a
descendant keeps open do not carry over to the next probe. `AnswersAreHeard`
is the longest argument: a server that answered while it was waited for, and
wrote nothing unasked before, ends up with its tools unless the timeout came
before the helper had read the answer. `Answers` follows the handshake of a server that
writes nothing unasked: at each place of the helper the pipe holds at most the
one line it is about to read, so position and request agree. `Turns` adds that
servers answer in their turn and are judged after it.

`SecurityGraphProofs`. A program is a list of statements in which every SET
follows the MERGE of its vertex (`Paired`). What a job has done so far is in
the graph (`Written`), because MERGE finds, SET and edge creation only add, and
nothing is ever deleted. The hard part is duplicated vertices: a job may create
a second copy of a vertex long after others have described the first.
`FreshMerge` says that a job inside a MERGE has not yet described that node
itself (it would have found it), so the SET that describes the new copy is
still to come in the program of the very job that created it. From these
follow `EdgesAreThoseDeclared`, `OkStaysWritten` and
`BareVerticesAreUnfinished`. `QueriesAgreeHolds` needs little of this, only that
edges join vertices; it is about what the two queries compute. Each is shown to
give the ends of the paths of 1 to `MaxHops` edges from its own end
(`OutwardIsPath` and `PathIsOutward`, `InwardIsPath` and `PathIsInward`), by
induction over the number of hops, so that both speak of the same paths.

`InventoryStoreProofs`. `Numbered` says that ids are given out without gaps and
to one job each, which is what keeps jobs apart; `Filled` that the rows under
an id are the last ones of their key among the endpoints its job has written;
`Logged` the same for lines, which unlike endpoints go to one table for all
jobs: the rows of one id, wherever they lie in it, hold the lines 1 to n once
each and in order. `Loaded` describes a load in progress, `Fresh` the two
readings of the file. The model's `Collapse` and `InOrder` are connected to
these descriptions by `RowsCollapse` and `LinesInOrder`, both for sequences of
any length. The theorems are `IdsStandForDocuments`, `LoadsShowPrefixes` and
`HistoryIsKept`, the last about every step of every other job.

`SpecPatchProofs`. `TargetsAlwaysStayPut` proves for every document and every
list of fixes that while targets are applied, the text above every target
still to come is the original. The inductive invariant `Bounded` adds that
targets lie inside the original text, that the patched text never gets shorter
and that it is the original until the first target is applied; the order in
which targets are applied (`ComesFirst`) does the rest. That a target lies in
the text (`TargetInText`) is followed through the three nested scans.
`OthersAreUntouched` follows every original line to where it is now:
`Traces(h, g)` says that *h* keeps the order, that a line not written over is at its place
unchanged, that whatever has no origin was written, and that nothing has moved
at or above a target still to come, which is what lets the next replacement hit
the line it was located at. At the end the lines that were not written are in
order those that were not replaced (`SamePlaces`). `PatchTypes` has one
hypothesis, `PathsAreOutermost`: in JSON, no key or element after the line taken
for "paths" is further left. The code computes `path_indent - paths_indent` in unsigned
integers, which is an indentation only then; it holds for pretty-printed
documents unless an object before the document's own `paths` has a `paths` of its
own. YAML needs no such hypothesis, as its scan accepts "paths" in the first
column only.

`PatchesMeanFixes` proves `PatchMeansFixes` for every set of documents that are
`Regular` (`DocumentsAreRegular`). Besides well-formedness, a regular document
has one step of indentation throughout, no comment and no closing brace further
left than what comes after it, a close for every block in JSON, with a brace
for an object, its own `paths` as the first line taken for one, below it no line
that is taken for a path and is none, nor a path that is not taken for itself,
members of paths and operations that read as what they are, and operations with
at least one member, whose `security` is on one line if it names no scheme. A
colon in the name of a path, or a string in a list that is the name of one, is
what this excludes: there the code is wrong. `TidyIsRegular` has TLC check that
all 768 documents of the run `patch` are regular, among them some with quoted
keys and such strings outside the paths, and that those of `patch_comment` and
`Misread` are not; in the latter the scan misses an operation. So the
hypothesis neither excludes the interesting documents nor includes the ones for
which the statement is false. The proof reads in five parts. Parents, children and all that
lies below a line are characterised by the order and indentation of the lines
(`ParentEncloses`, `ChildIsBelow`, `BelowIsNested`). A text written from another
one carries its structure: a line keeps its parent when it moves and an added
line is a child of its operation (`ParentIsCarried`, `AddedIsNested`), so the
result is a document (`PatchedIsWellFormed`) and its meaning is that of the
original with the fields of the fixes (`MeaningIsFixed`). The scans find the
line they are after: nothing they stop at comes before it (`NoStopInside`), and
everything that looks like it belongs to another operation is beyond a stop
(`NothingEndsIt`). Hence each fix is placed in its own operation (`FixesArePlaced`), and
no two are the same (`CandidatesDiffer`). At last the invariant `Placing` (each
target is the one `Target` finds in the original text) and the maps of
`Traced`, *h* from old lines to new ones and *g* from insertions to the lines
they became, show that what was written are these fixes, all of them and each
of them once (`AllIsWritten`).

`TrafficWindowsProofs`. The invariant `Inv` has six parts. `Logs`: every request
has at most one line, wherever it is; without it a log could hold two different
lines of one moment and "the ids asked for" would not be defined. `Jobs`: what a
command has read is what the files hold, unless they were moved. `Cites`: each
finding cites the call that observed it. `Enumerated`: between the two rounds
the findings are those of the files read in the first. `Covered`: whatever was
found would be found again in the files as they are, although the current log
has grown meanwhile. `Reported`: every reported operation is in one of the logs,
and every settled one is in the historical log. The step that matters is that
findings only grow with the log: an operation that is new stays new
(`FoundGrows`), and a run of ids stays a run when lines are appended
(`RunsStay`), because `LongestSequentialRun` is shown to reach `MinRun` exactly
when some stretch of the ids is a run as the machine counts (`CountedRun`,
`RunsAreFound`), an induction over the list with the current and the best run as
invariant. Every run of steps of exactly one is such a run, and where no
difference overflows nothing else is (`StepIsExact`, `RunsAreExact`). That the
lines of the identity are in the order of their requests is a premise of
`EnumerationIsFound`, not an assumption. From `Inv` follow `EnumerationIsFoundHolds`,
`FirstTimeIsReportedOnceHolds`, `RemedyCoversFindingsHolds` (which also goes
through the sort, a permutation), `AgentsAreRecognisedHolds`,
`EveryRequestIsAccountedForHolds` and `TypeOKHolds`. The assumptions are those
on the constants: ids lie in their range, a run has at least two ids (the code:
three), and specifications are lists of endpoints.

`PolicyLoopProofs`. `FixesAreFixes` (whatever was printed or applied is the
forbid for the identity it was printed for) and `Deployed` (the gateway's rules
are those of the file it was made from, and every policy in it is well formed)
are the invariant. `FixesKeepDenying` follows with Cedar's precedence of
forbid; `DenialsAreForbidden` and `FixesAreEnforced` follow the rules back to
their policies and the policies forward to the header match. The last assumes
that the value standing for "unconstrained" is no principal or resource
(`AnythingIsApart`). `NewcomersAreReportedHolds` has an invariant of its own,
`Printed`: a `diff` that has ended printed a fix for every finding of the logs
it read that the policy file it read does not deny. That a newcomer's operation
is such a finding (`NewcomersAreFound`) needs no more than that every line is
one a gateway wrote, so that it can be read.

`SpecFilesProofs`. What is on disk and what a command has read are documents
whose inventory is a list (`Disk`, `Reading`), also after a remediation and
after one that was cut off. `Directory` relates a command to the disk while
people edit it: the untouched files of the walk are all on its list, and what
it read of an untouched file is what is still there. From this follows
`GreenMeansCleanHolds`. `QuietDriftKeepsTheGateHolds` rests on the arithmetic of
`risk.rs` (`NeverOnTheEdge`: without the 5 points for missing names, which
`diff` does not compare, no sum of factors lies in 35..39) and, as the two
inventories may be in a different order, on a bijection between them.
`FixesConvergeHolds` has `Promised` for its invariant: a file that was completed
and not touched since holds exactly what was planned for it, and the file that is
being written is not one of those. What remains is about documents: the fixes
settle every operation they are for (`FixesSettle`) and no factor of the score comes up that was not there
(`NoRiskier`). It assumes that `Absent` is no list of requirements, so that a
stated security is not taken for a missing one. `AuthIsInheritedHolds` compares
the pass that hands the auth down from folder to folder with the innermost
folder around a request that states one (`HandedIsInnermost`), by induction over
the order of the items, in which folders come before what they contain.
`NestedFieldsAreFoundHolds` says for every `MaxDepth` exactly what is found: the
sensitive fields of the objects at most so many lists and properties down
(`Levels`), and no others. A chain of refs that ends is not cut short by the
visited set, because it never comes back to a ref (`ChainsEnd`, `ResolveRefIs`, by
induction over what is left to visit), so following it leads to where the chain
ends, or nowhere (`EndsAre`). One call of the recursion then goes down one level
(`LevelsAre`), what is collected from the start is what is named above any level
and what is collected from there (`CollectedByLevel`, by induction over the
depth), and at the last level nothing is left (`FieldsAreFound`).
`SpecFilesTypes` adds the commands and exit codes (`Codes`).

A few assumptions only tell the prover what every reader knows: that "fix" and
the keys of fixes are strings (`DocumentsAssumption`), or that one value is not
another.
TLC evaluates all of them in the runs.

Only model-checked:

- liveness (`EveryCallEnds`, `EndsUnlessHeld`), which is out of the prover's
  reach;
- what the patch makes of documents that are not regular, such as those of
  `patch_comment`, of which the theorem says nothing.

## Not modelled

- Text inside names, values and statements: quoting, escaping, JSON and SQL
  syntax, URLs of Postman requests. Where a text can be rejected
  (`cypher_string`, `cedar_string`), being rejected is a property of the text
  (`Unsayable`, `Unquotable`).
- Floating-point statistics in `baseline.rs`, and the word matching in
  `classify.rs`, which is a constant function from names to categories here.
- What Cedar, AGE, sqlx, Schemathesis, vacuum and spectral do inside; with them
  `active.py` and `lint.py`, which run one subprocess and print its result.
- `sarif.py` and the JSON conversions in the bindings: renderings of finished
  results.
- The order in which `load_inventory` returns rows: it is the database's
  collation.
- JSON and YAML operations written on one line, and `security` over several
  lines without any scheme: the text patch is documented for block style and
  pretty-printed JSON and is known not to cope with them.

## What could come next

- A composition of `graph load-mcp`: discovery, then bootstrap, then writers.
- Two `remediate --apply` on one file at the same time; `SpecFiles` has one
  command at a time beside the people who edit.
