--------------------------- MODULE InventoryStore ---------------------------
(***************************************************************************)
(* `report --db-url` and load_inventory against one PostgreSQL database:   *)
(* _cmd_report of cli.py, persist of bindings/src/lib.rs and db.rs.  A job *)
(* builds its report from the specification and the access log, reads both *)
(* files again to persist them, and writes one row per statement, each     *)
(* committed on its own; a later job never overwrites an earlier one.      *)
(* Meanwhile the specification is edited, the gateway appends to its log,  *)
(* other jobs run against the same database, and loaders read it.          *)
(***************************************************************************)
EXTENDS Naturals, Sequences, FiniteSets

CONSTANTS Jobs,     \* runs of report --db-url
          Loaders,  \* calls of load_inventory
          Specs,    \* contents the specification file may have: sequences of
                    \* endpoints [key |-> method and path, body |-> the rest]
          MaxLog    \* lines the access log may grow to (bound)

ASSUME StoreAssumption ==
         /\ IsFiniteSet(Jobs) /\ MaxLog \in Nat
         /\ \A s \in Specs : s \in Seq([key : STRING, body : STRING])

Ids == 1..Cardinality(Jobs)
NoId == 0

VARIABLES spec, log,       \* the files: a member of Specs, and a number of lines
          migrated,        \* the tables exist
          inventories,     \* ids of rows in the table inventories
          endpoints,       \* per id, its rows in endpoints: key -> endpoint_json
          traffic,         \* rows of traffic_records in the order of their ids
          phase,           \* per job, the next statement
          shown,           \* per job, the specification its report is about
          doc, lines,      \* per job, what its second reading of the files gave
          id,              \* per job, the id the database gave its inventory
          done,            \* per job, rows written in the current loop
          load,            \* per loader, its progress and result
          edited           \* history: jobs whose two readings of the specification
                           \* had an edit between them

files == <<spec, log>>
tables == <<migrated, inventories, endpoints, traffic>>
job == <<phase, shown, doc, lines, id, done>>
vars == <<files, tables, job, load, edited>>

Phases == {"report", "read spec", "migrate", "inventory", "endpoints", "read log",
           "traffic", "ok", "failed"}

\* Faulty variants of definitions stand before the definition they vary and
\* are named after what is wrong with them; nothing else refers to them.
UpsertKeepsFirst(rows, key, body) ==
  [k \in DOMAIN rows \cup {key} |-> IF k \in DOMAIN rows THEN rows[k] ELSE body]

\* A table of rows as a function from keys.
Upsert(rows, key, body) ==
  [k \in DOMAIN rows \cup {key} |-> IF k = key THEN body ELSE rows[k]]

\* The rows that writing a document's endpoints in order leaves behind: one
\* per method and path, and of several the last.
Collapse(eps) ==
  [k \in {eps[i].key : i \in DOMAIN eps} |->
     LET last == CHOOSE i \in DOMAIN eps :
                   /\ eps[i].key = k
                   /\ \A m \in DOMAIN eps : eps[m].key = k => m <= i
     IN  eps[last].body]

TypeOK == /\ spec \in Specs /\ log \in 0..MaxLog
          /\ migrated \in BOOLEAN
          /\ inventories \subseteq Ids
          /\ DOMAIN endpoints = Ids
          /\ traffic \in Seq(Ids \X (1..MaxLog))
          /\ phase \in [Jobs -> Phases]
          /\ shown \in [Jobs -> Specs] /\ doc \in [Jobs -> Specs]
          /\ lines \in [Jobs -> 0..MaxLog] /\ edited \subseteq Jobs
          /\ id \in [Jobs -> Ids \cup {NoId}]
          /\ done \in [Jobs -> Nat]
          /\ DOMAIN load = Loaders
          /\ \A l \in Loaders : load[l].at \in {"header", "rows", "done", "error"}

Init == /\ spec \in Specs
        /\ log = 0
        /\ migrated = FALSE
        /\ inventories = {}
        /\ endpoints = [i \in Ids |-> <<>>]
        /\ traffic = <<>>
        /\ phase = [j \in Jobs |-> "report"]
        /\ shown = [j \in Jobs |-> spec]
        /\ doc = [j \in Jobs |-> spec]
        /\ lines = [j \in Jobs |-> 0]
        /\ id = [j \in Jobs |-> NoId]
        /\ done = [j \in Jobs |-> 0]
        /\ load = [l \in Loaders |-> [at |-> "header", id |-> NoId, rows |-> <<>>]]
        /\ edited = {}
-----------------------------------------------------------------------------
(* The world outside *)

EditSpec == /\ spec' \in Specs \ {spec}
            /\ edited' = edited \cup {j \in Jobs : phase[j] = "read spec"}
            /\ UNCHANGED <<log, tables, job, load>>

AppendLog == /\ log < MaxLog
             /\ log' = log + 1
             /\ UNCHANGED <<spec, tables, job, load, edited>>
-----------------------------------------------------------------------------
(* A job *)

From(j, at) == phase[j] = at
Goto(j, at) == phase' = [phase EXCEPT ![j] = at]

\* report_from_files: what is printed at the end comes from this reading.
Report(j) ==
  /\ From(j, "report") /\ Goto(j, "read spec")
  /\ shown' = [shown EXCEPT ![j] = spec]
  /\ UNCHANGED <<files, tables, doc, lines, id, done, load, edited>>

\* persist calls discover_from_file on the path again.
ReadSpec(j) ==
  /\ From(j, "read spec") /\ Goto(j, "migrate")
  /\ doc' = [doc EXCEPT ![j] = spec]
  /\ UNCHANGED <<files, tables, shown, lines, id, done, load, edited>>

\* connect and migrate; sqlx applies each migration once, under a lock.
Migrate(j) ==
  /\ From(j, "migrate") /\ Goto(j, "inventory")
  /\ migrated' = TRUE
  /\ UNCHANGED <<files, inventories, endpoints, traffic, shown, doc, lines, id, done, load, edited>>

InsertInventoryReusesId(j) ==
  /\ From(j, "inventory") /\ Goto(j, "endpoints")
  /\ inventories' = {1}
  /\ id' = [id EXCEPT ![j] = 1]
  /\ done' = [done EXCEPT ![j] = 0]
  /\ UNCHANGED <<files, migrated, endpoints, traffic, shown, doc, lines, load, edited>>

\* INSERT INTO inventories ... RETURNING id
InsertInventory(j) ==
  /\ From(j, "inventory") /\ Goto(j, "endpoints")
  /\ LET new == Cardinality(inventories) + 1 IN
       /\ inventories' = inventories \cup {new}
       /\ id' = [id EXCEPT ![j] = new]
  /\ done' = [done EXCEPT ![j] = 0]
  /\ UNCHANGED <<files, migrated, endpoints, traffic, shown, doc, lines, load, edited>>

InsertEndpointFromTheEnd(j) ==
  /\ From(j, "endpoints") /\ done[j] < Len(doc[j])
  /\ LET e == doc[j][Len(doc[j]) - done[j]] IN
       endpoints' = [endpoints EXCEPT ![id[j]] = Upsert(@, e.key, e.body)]
  /\ done' = [done EXCEPT ![j] = @ + 1]
  /\ UNCHANGED <<files, migrated, inventories, traffic, phase, shown, doc, lines, id, load, edited>>

\* INSERT INTO endpoints ... ON CONFLICT (inventory_id, method, path) DO UPDATE
InsertEndpoint(j) ==
  /\ From(j, "endpoints") /\ done[j] < Len(doc[j])
  /\ LET e == doc[j][done[j] + 1] IN
       endpoints' = [endpoints EXCEPT ![id[j]] = Upsert(@, e.key, e.body)]
  /\ done' = [done EXCEPT ![j] = @ + 1]
  /\ UNCHANGED <<files, migrated, inventories, traffic, phase, shown, doc, lines, id, load, edited>>

EndpointsWritten(j) ==
  /\ From(j, "endpoints") /\ done[j] = Len(doc[j])
  /\ Goto(j, "read log")
  /\ UNCHANGED <<files, tables, shown, doc, lines, id, done, load, edited>>

\* Only now is the log read again.
ReadLog(j) ==
  /\ From(j, "read log") /\ Goto(j, "traffic")
  /\ lines' = [lines EXCEPT ![j] = log]
  /\ done' = [done EXCEPT ![j] = 0]
  /\ UNCHANGED <<files, tables, shown, doc, id, load, edited>>

InsertTrafficPastEnd(j) ==
  /\ From(j, "traffic") /\ done[j] <= lines[j]
  /\ traffic' = Append(traffic, <<id[j], done[j] + 1>>)
  /\ done' = [done EXCEPT ![j] = @ + 1]
  /\ UNCHANGED <<files, migrated, inventories, endpoints, phase, shown, doc, lines, id, load, edited>>

InsertTraffic(j) ==
  /\ From(j, "traffic") /\ done[j] < lines[j]
  /\ traffic' = Append(traffic, <<id[j], done[j] + 1>>)
  /\ done' = [done EXCEPT ![j] = @ + 1]
  /\ UNCHANGED <<files, migrated, inventories, endpoints, phase, shown, doc, lines, id, load, edited>>

\* The id is printed, then the report.
Finish(j) ==
  /\ From(j, "traffic") /\ done[j] = lines[j]
  /\ Goto(j, "ok")
  /\ UNCHANGED <<files, tables, shown, doc, lines, id, done, load, edited>>

\* A statement or a file operation fails, or the process dies.
Fail(j) ==
  /\ phase[j] \notin {"ok", "failed"}
  /\ Goto(j, "failed")
  /\ UNCHANGED <<files, tables, shown, doc, lines, id, done, load, edited>>
-----------------------------------------------------------------------------
(* A loader *)

\* The header row; no such id, or no such table, is an error.
LoadHeader(l) ==
  /\ load[l].at = "header"
  /\ \E i \in Ids :
       load' = [load EXCEPT ![l] =
                  [at |-> IF migrated /\ i \in inventories THEN "rows" ELSE "error",
                   id |-> i, rows |-> <<>>]]
  /\ UNCHANGED <<files, tables, job, edited>>

\* The endpoints that are there by now.
LoadRows(l) ==
  /\ load[l].at = "rows"
  /\ load' = [load EXCEPT ![l] =
                [at |-> "done", id |-> load[l].id, rows |-> endpoints[load[l].id]]]
  /\ UNCHANGED <<files, tables, job, edited>>

\* load_traffic: one statement, WHERE inventory_id = i ORDER BY id.
InOrder(rows, i) ==
  LET Of == {k \in DOMAIN rows : rows[k][1] = i}
      Rank(k) == Cardinality({m \in Of : m <= k})
  IN [n \in 1..Cardinality(Of) |-> rows[CHOOSE k \in Of : Rank(k) = n][2]]

LoadTraffic(i) == InOrder(traffic, i)

Write(j) == \/ InsertInventory(j) \/ InsertEndpoint(j) \/ EndpointsWritten(j)
            \/ InsertTraffic(j)

Next == \/ EditSpec \/ AppendLog
        \/ \E j \in Jobs : \/ Report(j) \/ ReadSpec(j) \/ Migrate(j) \/ Write(j)
                           \/ ReadLog(j) \/ Finish(j) \/ Fail(j)
        \/ \E l \in Loaders : LoadHeader(l) \/ LoadRows(l)

Spec == Init /\ [][Next]_vars
-----------------------------------------------------------------------------
(* Properties *)

\* An id that was returned stands for everything that was read: loading it
\* gives one row for each method and path of that very document and the
\* complete log in order, however the inserts of several jobs interleaved; and
\* the document is the one the report printed with the id is about, unless the
\* file was edited between the two readings.
IdMeansComplete ==
  \A j \in Jobs : phase[j] = "ok" =>
    /\ endpoints[id[j]] = Collapse(doc[j])
    /\ LoadTraffic(id[j]) = [k \in 1..lines[j] |-> k]
    /\ j \notin edited => endpoints[id[j]] = Collapse(shown[j])

\* "Re-running ... creates a new inventory row rather than overwriting": what
\* a job that ended, well or badly, left under its id is never touched again.
Ended(j) == phase[j] \in {"ok", "failed"} /\ id[j] # NoId
HistoryKept ==
  [][\A j \in Jobs : Ended(j) =>
       /\ endpoints'[id[j]] = endpoints[id[j]]
       /\ LoadTraffic(id[j])' = LoadTraffic(id[j])]_vars

\* A load that races with a job, or comes after one that died, returns what
\* some prefix of that job's document amounts to: never rows of two
\* inventories, never a hole before a row that is there.
LoadsArePrefixes ==
  \A l \in Loaders : load[l].at = "done" =>
    \E j \in Jobs : /\ id[j] = load[l].id
                    /\ \E n \in 0..Len(doc[j]) : load[l].rows = Collapse(SubSeq(doc[j], 1, n))
=============================================================================
