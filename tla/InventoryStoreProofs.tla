------------------------ MODULE InventoryStoreProofs ------------------------
(***************************************************************************)
(* Proofs about InventoryStore, for any number of jobs and loaders, any    *)
(* specifications and any length of the log.  What a loop has written so   *)
(* far is described without a recursion over the document: a row is the    *)
(* last of its key among the endpoints written (RowsOf).                   *)
(***************************************************************************)
EXTENDS InventoryStore, SequenceTheorems, FunctionTheorems, FiniteSetTheorems, TLAPS

JobTypes == /\ phase \in [Jobs -> Phases]
            /\ shown \in [Jobs -> Specs] /\ doc \in [Jobs -> Specs]
            /\ lines \in [Jobs -> 0..MaxLog]
            /\ id \in [Jobs -> Ids \cup {NoId}]
            /\ done \in [Jobs -> Nat]

WorldTypes == /\ spec \in Specs /\ log \in 0..MaxLog
              /\ migrated \in BOOLEAN /\ edited \subseteq Jobs

TrafficTypes == traffic \in Seq(Ids \X (1..MaxLog))

LoadTypes == /\ DOMAIN load = Loaders
             /\ \A l \in Loaders : load[l].at \in {"header", "rows", "done", "error"}

Taken == {j \in Jobs : id[j] # NoId}

\* A job has an id from the statement that inserts its inventory on.
HasId == \A j \in Jobs :
           /\ phase[j] \in {"report", "read spec", "migrate", "inventory"} => id[j] = NoId
           /\ phase[j] \in {"endpoints", "read log", "traffic", "ok"} => id[j] # NoId

\* As many ids are given as jobs have one, and to each its own.
Numbered == /\ inventories = 1..Cardinality(Taken)
            /\ \A i \in inventories : \E j \in Taken : id[j] = i
            /\ \A j \in Taken : id[j] \in inventories
            /\ \A j, k \in Taken : id[j] = id[k] => j = k

\* Documents have a length.
LEMMA DocLength ==
  ASSUME JobTypes, NEW j \in Jobs
  PROVE  Len(doc[j]) \in Nat /\ DOMAIN doc[j] = 1..Len(doc[j])
<1>1. doc[j] \in Seq([key : STRING, body : STRING])
  BY StoreAssumption DEF JobTypes
<1> QED BY <1>1, LenProperties

\* Every step but three leaves ids, documents and endpoints alone.
Quiet == UNCHANGED <<inventories, endpoints, id, doc>>

\* What the steps of the program do to the phase of a job.
LEMMA Cases ==
  ASSUME [Next]_vars
  PROVE  \/ \E j \in Jobs : InsertInventory(j) \/ InsertEndpoint(j) \/ ReadSpec(j)
         \/ /\ Quiet
            /\ \/ UNCHANGED phase
               \/ \E j \in Jobs : \E to \in Phases :
                    /\ Goto(j, to)
                    /\ \/ phase[j] = "report" /\ to = "read spec"
                       \/ phase[j] = "migrate" /\ to = "inventory"
                       \/ /\ phase[j] = "endpoints" /\ to = "read log"
                          /\ done[j] = Len(doc[j])
                       \/ phase[j] = "read log" /\ to = "traffic"
                       \/ phase[j] = "traffic" /\ to = "ok"
                       \/ phase[j] \notin {"ok", "failed"} /\ to = "failed"
<1>1. CASE UNCHANGED vars
  BY <1>1 DEF vars, job, tables, Quiet
<1>2. CASE EditSpec \/ AppendLog \/ \E l \in Loaders : LoadHeader(l) \/ LoadRows(l)
  BY <1>2 DEF EditSpec, AppendLog, LoadHeader, LoadRows, tables, job, Quiet
<1>3. ASSUME NEW j \in Jobs, InsertTraffic(j) PROVE Quiet /\ UNCHANGED phase
  BY <1>3 DEF InsertTraffic, Quiet
<1>4. ASSUME NEW j \in Jobs, \/ Report(j) \/ Migrate(j) \/ EndpointsWritten(j)
                             \/ ReadLog(j) \/ Finish(j) \/ Fail(j)
      PROVE  /\ Quiet
             /\ \E to \in Phases :
                  /\ Goto(j, to)
                  /\ \/ phase[j] = "report" /\ to = "read spec"
                     \/ phase[j] = "migrate" /\ to = "inventory"
                     \/ /\ phase[j] = "endpoints" /\ to = "read log"
                        /\ done[j] = Len(doc[j])
                     \/ phase[j] = "read log" /\ to = "traffic"
                     \/ phase[j] = "traffic" /\ to = "ok"
                     \/ phase[j] \notin {"ok", "failed"} /\ to = "failed"
  <2>1. Quiet
    BY <1>4 DEF Report, Migrate, EndpointsWritten, ReadLog, Finish, Fail, tables, Quiet
  <2> QED BY <1>4, <2>1 DEF Report, Migrate, EndpointsWritten, ReadLog, Finish, Fail, From, Phases
<1> QED BY <1>1, <1>2, <1>3, <1>4 DEF Next, Write

-----------------------------------------------------------------------------
(* Types.                                                                  *)

\* Each step leaves the variables of the jobs in their types; that an id is one
\* needs the argument of NewId below.
LEMMA JobTypesStep ==
  ASSUME JobTypes, WorldTypes, [Next]_vars,
         \A j \in Jobs : InsertInventory(j) => Cardinality(inventories) + 1 \in Ids
  PROVE  JobTypes'
<1>1. CASE UNCHANGED vars \/ EditSpec \/ AppendLog \/ \E l \in Loaders : LoadHeader(l) \/ LoadRows(l)
  <2>1. UNCHANGED job
    BY <1>1 DEF vars, EditSpec, AppendLog, LoadHeader, LoadRows
  <2> QED BY <2>1 DEF job, JobTypes
<1>2. ASSUME NEW j \in Jobs, Report(j) PROVE JobTypes'
  BY <1>2 DEF Report, Goto, JobTypes, WorldTypes, Phases
<1>3. ASSUME NEW j \in Jobs, ReadSpec(j) PROVE JobTypes'
  BY <1>3 DEF ReadSpec, Goto, JobTypes, WorldTypes, Phases
<1>4. ASSUME NEW j \in Jobs, Migrate(j) \/ EndpointsWritten(j) \/ Finish(j) \/ Fail(j) PROVE JobTypes'
  BY <1>4 DEF Migrate, EndpointsWritten, Finish, Fail, Goto, JobTypes, Phases
<1>5. ASSUME NEW j \in Jobs, InsertInventory(j) PROVE JobTypes'
  <2>1. Cardinality(inventories) + 1 \in Ids
    BY <1>5
  <2> QED BY <1>5, <2>1 DEF InsertInventory, Goto, JobTypes, Phases
<1>6. ASSUME NEW j \in Jobs, InsertEndpoint(j) \/ InsertTraffic(j) PROVE JobTypes'
  BY <1>6 DEF InsertEndpoint, InsertTraffic, JobTypes
<1>7. ASSUME NEW j \in Jobs, ReadLog(j) PROVE JobTypes'
  BY <1>7 DEF ReadLog, Goto, JobTypes, WorldTypes, Phases
<1> QED BY <1>1, <1>2, <1>3, <1>4, <1>5, <1>6, <1>7 DEF Next, Write

\* The files, the migration and the history.
LEMMA WorldTypesStep ==
  ASSUME WorldTypes, [Next]_vars
  PROVE  WorldTypes'
<1>1. CASE EditSpec
  BY <1>1 DEF EditSpec, WorldTypes, tables
<1>2. CASE AppendLog
  BY <1>2, StoreAssumption DEF AppendLog, WorldTypes, tables
<1>3. ASSUME NEW j \in Jobs, Migrate(j) PROVE WorldTypes'
  BY <1>3 DEF Migrate, WorldTypes, files
<1>4. ASSUME NEW j \in Jobs, \/ Report(j) \/ ReadSpec(j) \/ Write(j) \/ ReadLog(j) \/ Finish(j) \/ Fail(j)
      PROVE  UNCHANGED <<spec, log, migrated, edited>>
  BY <1>4 DEF Report, ReadSpec, Write, InsertInventory, InsertEndpoint, EndpointsWritten,
              InsertTraffic, ReadLog, Finish, Fail, files, tables
<1>5. ASSUME NEW l \in Loaders, LoadHeader(l) \/ LoadRows(l) PROVE UNCHANGED <<spec, log, migrated, edited>>
  BY <1>5 DEF LoadHeader, LoadRows, files, tables
<1>6. CASE UNCHANGED vars
  BY <1>6 DEF vars, files, tables, WorldTypes
<1>7. UNCHANGED <<spec, log, migrated, edited>> => WorldTypes'
  BY DEF WorldTypes
<1> QED BY <1>1, <1>2, <1>3, <1>4, <1>5, <1>6, <1>7 DEF Next

\* A row of traffic belongs to an id and a line.
LEMMA TrafficTypesStep ==
  ASSUME JobTypes, HasId, TrafficTypes, [Next]_vars
  PROVE  TrafficTypes'
<1>1. ASSUME NEW j \in Jobs, InsertTraffic(j) PROVE TrafficTypes'
  <2>1. id[j] \in Ids
    BY <1>1 DEF InsertTraffic, From, HasId, JobTypes
  <2>2. done[j] + 1 \in 1..MaxLog
    BY <1>1, StoreAssumption DEF InsertTraffic, JobTypes
  <2>3. traffic' = Append(traffic, <<id[j], done[j] + 1>>)
    BY <1>1 DEF InsertTraffic
  <2>4. <<id[j], done[j] + 1>> \in Ids \X (1..MaxLog)
    BY <2>1, <2>2
  <2> QED BY <2>3, <2>4, AppendProperties DEF TrafficTypes
<1>2. ASSUME NEW j \in Jobs,
             \/ Report(j) \/ ReadSpec(j) \/ Migrate(j) \/ InsertInventory(j) \/ InsertEndpoint(j)
             \/ EndpointsWritten(j) \/ ReadLog(j) \/ Finish(j) \/ Fail(j)
      PROVE  UNCHANGED traffic
  BY <1>2 DEF Report, ReadSpec, Migrate, InsertInventory, InsertEndpoint, EndpointsWritten,
              ReadLog, Finish, Fail, tables
<1>3. CASE \/ EditSpec \/ AppendLog \/ UNCHANGED vars
           \/ \E l \in Loaders : LoadHeader(l) \/ LoadRows(l)
  BY <1>3 DEF EditSpec, AppendLog, LoadHeader, LoadRows, tables, vars, TrafficTypes
<1> QED BY <1>1, <1>2, <1>3 DEF Next, Write, TrafficTypes

\* The loaders.
LEMMA LoadTypesStep ==
  ASSUME LoadTypes, [Next]_vars
  PROVE  LoadTypes'
<1>1. ASSUME NEW l \in Loaders, LoadHeader(l) \/ LoadRows(l) PROVE LoadTypes'
  <2>1. \E r : /\ load' = [load EXCEPT ![l] = r]
               /\ r.at \in {"header", "rows", "done", "error"}
    BY <1>1 DEF LoadHeader, LoadRows
  <2> QED BY <2>1 DEF LoadTypes
<1>2. ASSUME NEW j \in Jobs,
             \/ Report(j) \/ ReadSpec(j) \/ Migrate(j) \/ Write(j) \/ ReadLog(j) \/ Finish(j) \/ Fail(j)
      PROVE  UNCHANGED load
  BY <1>2 DEF Report, ReadSpec, Migrate, Write, InsertInventory, InsertEndpoint, EndpointsWritten,
              InsertTraffic, ReadLog, Finish, Fail
<1>3. CASE EditSpec \/ AppendLog \/ UNCHANGED vars
  BY <1>3 DEF EditSpec, AppendLog, vars, LoadTypes
<1> QED BY <1>1, <1>2, <1>3 DEF Next, LoadTypes

-----------------------------------------------------------------------------
(* Ids.                                                                    *)

\* A job gets its id when it inserts its inventory and keeps it.
LEMMA HasIdStep ==
  ASSUME JobTypes, HasId, [Next]_vars,
         \A j \in Jobs : InsertInventory(j) => Cardinality(inventories) + 1 \in Ids
  PROVE  HasId'
<1>1. ASSUME NEW j \in Jobs, InsertInventory(j) PROVE HasId'
  <2>0. Cardinality(inventories) + 1 # NoId
    BY <1>1 DEF Ids, NoId
  <2>1. /\ Cardinality(inventories) + 1 # NoId
        /\ phase' = [phase EXCEPT ![j] = "endpoints"]
        /\ id' = [id EXCEPT ![j] = Cardinality(inventories) + 1]
    BY <1>1, <2>0 DEF InsertInventory, Goto
  <2>2. /\ phase'[j] = "endpoints" /\ id'[j] # NoId
        /\ \A k \in Jobs : k # j => phase'[k] = phase[k] /\ id'[k] = id[k]
    BY <2>1 DEF JobTypes
  <2> QED BY <2>2 DEF HasId
<1>2. ASSUME NEW j \in Jobs, InsertEndpoint(j) PROVE HasId'
  BY <1>2 DEF InsertEndpoint, HasId
<1>3. ASSUME NEW j \in Jobs, ReadSpec(j) PROVE HasId'
  <2>1. phase[j] = "read spec" /\ phase' = [phase EXCEPT ![j] = "migrate"] /\ id' = id
    BY <1>3 DEF ReadSpec, From, Goto
  <2>2. phase'[j] = "migrate" /\ \A k \in Jobs : k # j => phase'[k] = phase[k]
    BY <2>1 DEF JobTypes
  <2> QED BY <2>1, <2>2 DEF HasId
<1>4. CASE Quiet /\ UNCHANGED phase
  BY <1>4 DEF Quiet, HasId
<1>5. ASSUME Quiet, NEW j \in Jobs, NEW to \in Phases, Goto(j, to),
             \/ phase[j] = "report" /\ to = "read spec"
             \/ phase[j] = "migrate" /\ to = "inventory"
             \/ phase[j] = "endpoints" /\ to = "read log"
             \/ phase[j] = "read log" /\ to = "traffic"
             \/ phase[j] = "traffic" /\ to = "ok"
             \/ to = "failed"
      PROVE  HasId'
  <2>1. id' = id /\ phase'[j] = to /\ \A k \in Jobs : k # j => phase'[k] = phase[k]
    BY <1>5 DEF Quiet, Goto, JobTypes
  <2> QED BY <1>5, <2>1 DEF HasId
<1> QED BY <1>1, <1>2, <1>3, <1>4, <1>5, Cases

\* The id the database gives next is one nobody has, and there are enough.
LEMMA NewId ==
  ASSUME JobTypes, HasId, Numbered, NEW j \in Jobs, InsertInventory(j)
  PROVE  /\ Cardinality(Taken) \in Nat
         /\ Cardinality(inventories) = Cardinality(Taken)
         /\ Cardinality(Taken) + 1 \in Ids
         /\ j \notin Taken
         /\ id' = [id EXCEPT ![j] = Cardinality(Taken) + 1]
         /\ inventories' = inventories \cup {Cardinality(Taken) + 1}
         /\ Taken' = Taken \cup {j}
         /\ Cardinality(Taken') = Cardinality(Taken) + 1
<1>1. Taken \in SUBSET Jobs /\ j \notin Taken
  BY DEF Taken, HasId, InsertInventory, From
<1>2. IsFiniteSet(Taken) /\ Cardinality(Taken) \in Nat
  BY <1>1, FS_Subset, FS_CardinalityType, StoreAssumption
<1>3. Cardinality(inventories) = Cardinality(Taken)
  <2>1. Cardinality(1..Cardinality(Taken)) = Cardinality(Taken)
    BY <1>2, FS_Interval
  <2> QED BY <2>1 DEF Numbered
<1>4. id' = [id EXCEPT ![j] = Cardinality(Taken) + 1]
  BY <1>3 DEF InsertInventory
<1>5. inventories' = inventories \cup {Cardinality(Taken) + 1}
  BY <1>3 DEF InsertInventory
<1>6. Cardinality(Taken \cup {j}) = Cardinality(Taken) + 1
  BY <1>1, <1>2, FS_AddElement
<1>7. Cardinality(Taken) + 1 \in Ids
  <2>1. Taken \cup {j} \in SUBSET Jobs
    BY <1>1
  <2>2. Cardinality(Taken \cup {j}) <= Cardinality(Jobs) /\ Cardinality(Jobs) \in Nat
    BY <2>1, FS_Subset, FS_CardinalityType, StoreAssumption
  <2> QED BY <1>2, <1>6, <2>2 DEF Ids
<1>8. Taken' = Taken \cup {j}
  <2>1. id'[j] # NoId /\ \A k \in Jobs : k # j => id'[k] = id[k]
    BY <1>2, <1>4 DEF JobTypes, NoId
  <2> QED BY <2>1 DEF Taken
<1> QED BY <1>1, <1>2, <1>3, <1>4, <1>5, <1>6, <1>7, <1>8

\* Ids stay numbered, whoever inserts.
LEMMA NumberedStep ==
  ASSUME JobTypes, HasId, Numbered, [Next]_vars
  PROVE  Numbered'
<1>1. ASSUME NEW j \in Jobs, InsertInventory(j) PROVE Numbered'
  <2> DEFINE n == Cardinality(Taken)
  <2>1. /\ n \in Nat /\ j \notin Taken
        /\ id' = [id EXCEPT ![j] = n + 1]
        /\ inventories' = inventories \cup {n + 1}
        /\ Taken' = Taken \cup {j}
        /\ Cardinality(Taken') = n + 1
    BY <1>1, NewId
  <2>2. inventories = 1..n
    BY DEF Numbered
  <2> HIDE DEF n
  <2>3. inventories' = 1..(n + 1)
    BY <2>1, <2>2
  <2>4. id'[j] = n + 1 /\ \A k \in Taken : k \in Jobs /\ id'[k] = id[k]
    BY <2>1 DEF JobTypes, Taken
  <2>5. \A k \in Taken : id[k] \in 1..n
    BY <2>2 DEF Numbered
  <2>6. \A i \in inventories' : \E k \in Taken' : id'[k] = i
    BY <2>1, <2>4 DEF Numbered
  <2>7. \A k \in Taken' : id'[k] \in inventories'
    BY <2>1, <2>4 DEF Numbered
  <2>8. \A k \in Taken : id'[k] # id'[j]
    BY <2>1, <2>4, <2>5
  <2>9. \A k, m \in Taken' : id'[k] = id'[m] => k = m
    <3>1. \A k, m \in Taken : id'[k] = id'[m] => k = m
      BY <2>4 DEF Numbered
    <3> QED BY <2>1, <2>8, <3>1
  <2>10. inventories' = 1..Cardinality(Taken')
    BY <2>1, <2>3
  <2> QED BY <2>6, <2>7, <2>9, <2>10 DEF Numbered
<1>2. ASSUME UNCHANGED <<id, inventories>> PROVE Numbered'
  <2>1. Taken' = Taken
    BY <1>2 DEF Taken
  <2> QED BY <1>2, <2>1 DEF Numbered
<1>3. ASSUME NEW j \in Jobs, InsertEndpoint(j) \/ ReadSpec(j) PROVE UNCHANGED <<id, inventories>>
  BY <1>3 DEF InsertEndpoint, ReadSpec, tables
<1> QED BY <1>1, <1>2, <1>3, Cases DEF Quiet

\* Ids are enough for all jobs.
LEMMA IdsSuffice ==
  ASSUME JobTypes, HasId, Numbered
  PROVE  \A j \in Jobs : InsertInventory(j) => Cardinality(inventories) + 1 \in Ids
BY NewId

-----------------------------------------------------------------------------
(* Rows.                                                                   *)

\* rows is what writing the first n endpoints of a document leaves behind.
RowsOf(rows, d, n) ==
  /\ rows = [k \in {d[i].key : i \in 1..n} |-> rows[k]]
  /\ \A k \in DOMAIN rows : \E i \in 1..n :
       /\ d[i].key = k /\ rows[k] = d[i].body
       /\ \A m \in 1..n : d[m].key = k => m <= i

\* Nothing, before the first.
LEMMA RowsNone ==
  ASSUME NEW d
  PROVE  RowsOf(<<>>, d, 0)
<1>1. 1..0 = {}
  OBVIOUS
<1>2. {d[i].key : i \in 1..0} = {}
  BY <1>1
<1>3. <<>> = [k \in {} |-> <<>>[k]]
  OBVIOUS
<1> QED BY <1>2, <1>3 DEF RowsOf

\* The next one, by an upsert.
LEMMA RowsMore ==
  ASSUME NEW rows, NEW d, NEW n \in Nat, RowsOf(rows, d, n)
  PROVE  RowsOf(Upsert(rows, d[n + 1].key, d[n + 1].body), d, n + 1)
<1> DEFINE key == d[n + 1].key
           body == d[n + 1].body
           new == Upsert(rows, key, body)
<1>1. 1..(n + 1) = (1..n) \cup {n + 1}
  OBVIOUS
<1>2. DOMAIN rows = {d[i].key : i \in 1..n}
  BY DEF RowsOf
<1>3. {d[i].key : i \in 1..(n + 1)} = DOMAIN rows \cup {key}
  BY <1>1, <1>2
<1>4. new = [k \in DOMAIN rows \cup {key} |-> IF k = key THEN body ELSE rows[k]]
  BY DEF Upsert
<1> HIDE DEF new
<1>5. new = [k \in {d[i].key : i \in 1..(n + 1)} |-> new[k]]
  BY <1>3, <1>4
<1>6. ASSUME NEW k \in DOMAIN new
      PROVE  \E i \in 1..(n + 1) : /\ d[i].key = k /\ new[k] = d[i].body
                                   /\ \A m \in 1..(n + 1) : d[m].key = k => m <= i
  <2>1. CASE k = key
    <3>1. new[k] = body
      BY <1>4, <2>1
    <3>2. n + 1 \in 1..(n + 1) /\ \A m \in 1..(n + 1) : m <= n + 1
      OBVIOUS
    <3> QED BY <2>1, <3>1, <3>2
  <2>2. CASE k # key
    <3>1. k \in DOMAIN rows /\ new[k] = rows[k]
      BY <1>4, <2>2
    <3>2. PICK i \in 1..n : /\ d[i].key = k /\ rows[k] = d[i].body
                            /\ \A m \in 1..n : d[m].key = k => m <= i
      BY <3>1 DEF RowsOf
    <3>3. \A m \in 1..(n + 1) : d[m].key = k => m <= i
      BY <1>1, <2>2, <3>2
    <3> QED BY <3>1, <3>2, <3>3
  <2> QED BY <2>1, <2>2
<1>7. RowsOf(new, d, n + 1)
  BY <1>5, <1>6 DEF RowsOf
<1> QED BY <1>7 DEF new

\* It is what Collapse says of that part of the document.
LEMMA RowsCollapse ==
  ASSUME NEW S, NEW d \in Seq(S), NEW n \in 0..Len(d), NEW rows, RowsOf(rows, d, n)
  PROVE  rows = Collapse(SubSeq(d, 1, n))
<1> DEFINE p == SubSeq(d, 1, n)
           Last(k, i) == /\ i \in 1..n /\ d[i].key = k
                         /\ \A m \in 1..n : d[m].key = k => m <= i
<1>1. Len(d) \in Nat /\ n \in Nat
  BY LenProperties
<1>2. \A i \in 1..n : d[i] \in S
  BY <1>1, ElementOfSeq
<1>3. p \in Seq(S) /\ Len(p) = n /\ \A i \in 1..n : p[i] = d[i]
  <2>1. /\ p \in Seq(S) /\ Len(p) = IF 1 <= n THEN n - 1 + 1 ELSE 0
        /\ \A i \in 1..(n - 1 + 1) : p[i] = d[1 + i - 1]
    BY <1>1, <1>2, SubSeqProperties
  <2>2. Len(p) = n
    BY <1>1, <2>1
  <2>3. \A i \in 1..n : i \in 1..(n - 1 + 1) /\ 1 + i - 1 = i
    BY <1>1
  <2> QED BY <2>1, <2>2, <2>3
<1>4. DOMAIN p = 1..n
  BY <1>3, LenProperties
<1> HIDE DEF p
<1> DEFINE last(k) == CHOOSE i \in DOMAIN p : /\ p[i].key = k
                                              /\ \A m \in DOMAIN p : p[m].key = k => m <= i
<1>5. Collapse(p) = [k \in {p[i].key : i \in DOMAIN p} |-> p[last(k)].body]
  BY DEF Collapse
<1>6. {p[i].key : i \in DOMAIN p} = {d[i].key : i \in 1..n}
  BY <1>3, <1>4
<1>7. DOMAIN rows = {d[i].key : i \in 1..n} /\ rows = [k \in DOMAIN rows |-> rows[k]]
  BY DEF RowsOf
<1>8. ASSUME NEW k \in DOMAIN rows PROVE rows[k] = p[last(k)].body
  <2>1. PICK i \in 1..n : /\ d[i].key = k /\ rows[k] = d[i].body
                          /\ \A m \in 1..n : d[m].key = k => m <= i
    BY DEF RowsOf
  <2>2. \E m \in DOMAIN p : p[m].key = k /\ \A o \in DOMAIN p : p[o].key = k => o <= m
    BY <1>3, <1>4, <2>1
  <2>3. /\ last(k) \in DOMAIN p /\ p[last(k)].key = k
        /\ \A o \in DOMAIN p : p[o].key = k => o <= last(k)
    BY <2>2
  <2> HIDE DEF last
  <2>4. last(k) = i
    BY <1>1, <1>3, <1>4, <2>1, <2>3
  <2> QED BY <1>3, <2>1, <2>4
<1> HIDE DEF last
<1>9. rows = Collapse(p)
  BY <1>5, <1>6, <1>7, <1>8
<1> QED BY <1>9 DEF p

-----------------------------------------------------------------------------
(* The table of endpoints.                                                 *)

Filled ==
  /\ DOMAIN endpoints = Ids
  /\ \A i \in Ids \ inventories : endpoints[i] = <<>>
  /\ \A j \in Taken : \E n \in 0..Len(doc[j]) : RowsOf(endpoints[id[j]], doc[j], n)
  /\ \A j \in Jobs : phase[j] = "endpoints" =>
       done[j] <= Len(doc[j]) /\ RowsOf(endpoints[id[j]], doc[j], done[j])
  /\ \A j \in Jobs : phase[j] \in {"read log", "traffic", "ok"} =>
       RowsOf(endpoints[id[j]], doc[j], Len(doc[j]))

\* A job that has an id keeps it and its document.
LEMMA Settled ==
  ASSUME JobTypes, HasId, Numbered, [Next]_vars
  PROVE  /\ \A j \in Taken : j \in Taken' /\ id'[j] = id[j] /\ doc'[j] = doc[j]
         /\ inventories \subseteq inventories'
<1>1. ASSUME NEW k \in Jobs, InsertInventory(k)
      PROVE  /\ \A j \in Taken : j \in Taken' /\ id'[j] = id[j] /\ doc'[j] = doc[j]
             /\ inventories \subseteq inventories'
  <2>1. k \notin Taken /\ Taken' = Taken \cup {k} /\ inventories \subseteq inventories'
    BY <1>1, NewId
  <2>2. \A j \in Jobs : j # k => id'[j] = id[j]
    BY <1>1, NewId DEF JobTypes
  <2>3. doc' = doc /\ Taken \subseteq Jobs
    BY <1>1 DEF InsertInventory, Taken
  <2> QED BY <2>1, <2>2, <2>3
<1>2. ASSUME NEW k \in Jobs, ReadSpec(k)
      PROVE  /\ \A j \in Taken : j \in Taken' /\ id'[j] = id[j] /\ doc'[j] = doc[j]
             /\ inventories \subseteq inventories'
  <2>1. k \notin Taken
    BY <1>2 DEF ReadSpec, From, HasId, Taken
  <2>2. id' = id /\ inventories' = inventories /\ \A j \in Jobs : j # k => doc'[j] = doc[j]
    BY <1>2 DEF ReadSpec, tables, JobTypes
  <2> QED BY <2>1, <2>2 DEF Taken
<1>3. CASE Quiet
  BY <1>3 DEF Quiet, Taken
<1>4. ASSUME NEW k \in Jobs, InsertEndpoint(k) PROVE Quiet \/ UNCHANGED <<inventories, id, doc>>
  BY <1>4 DEF InsertEndpoint
<1>5. ASSUME UNCHANGED <<inventories, id, doc>>
      PROVE  /\ \A j \in Taken : j \in Taken' /\ id'[j] = id[j] /\ doc'[j] = doc[j]
             /\ inventories \subseteq inventories'
  BY <1>5 DEF Taken
<1> QED BY <1>1, <1>2, <1>3, <1>4, <1>5, Cases

\* While a job writes endpoints its counter moves only with them.
LEMMA DoneKept ==
  ASSUME JobTypes, [Next]_vars, NEW k \in Jobs, phase[k] = "endpoints"
  PROVE  done'[k] = done[k] \/ InsertEndpoint(k)
<1>1. CASE UNCHANGED vars \/ EditSpec \/ AppendLog \/ \E l \in Loaders : LoadHeader(l) \/ LoadRows(l)
  BY <1>1 DEF vars, EditSpec, AppendLog, LoadHeader, LoadRows, job
<1>2. ASSUME NEW j \in Jobs, \/ Report(j) \/ ReadSpec(j) \/ Migrate(j) \/ EndpointsWritten(j)
                             \/ Finish(j) \/ Fail(j)
      PROVE  UNCHANGED done
  BY <1>2 DEF Report, ReadSpec, Migrate, EndpointsWritten, Finish, Fail
<1>3. ASSUME NEW j \in Jobs, InsertInventory(j) \/ ReadLog(j) \/ InsertTraffic(j)
      PROVE  done'[k] = done[k]
  <2>1. j # k
    BY <1>3 DEF InsertInventory, ReadLog, InsertTraffic, From
  <2> QED BY <1>3, <2>1 DEF InsertInventory, ReadLog, InsertTraffic, JobTypes
<1>4. ASSUME NEW j \in Jobs, InsertEndpoint(j), j # k PROVE done'[k] = done[k]
  BY <1>4 DEF InsertEndpoint, JobTypes
<1> QED BY <1>1, <1>2, <1>3, <1>4 DEF Next, Write

\* The rows under the id of a job are those of its document as far as it got,
\* and no other job writes there.
LEMMA FilledStep ==
  ASSUME JobTypes, HasId, Numbered, Filled, [Next]_vars
  PROVE  Filled'
<1>0. \A j \in Jobs : Len(doc[j]) \in Nat /\ done[j] \in Nat
  BY DocLength DEF JobTypes
<1>1. ASSUME NEW j \in Jobs, InsertInventory(j) PROVE Filled'
  <2> DEFINE new == Cardinality(Taken) + 1
  <2>1. /\ new \in Ids /\ new \notin inventories /\ j \notin Taken
        /\ id'[j] = new /\ inventories' = inventories \cup {new} /\ Taken' = Taken \cup {j}
    <3>1. Cardinality(Taken) \in Nat /\ inventories = 1..Cardinality(Taken)
      BY <1>1, NewId DEF Numbered
    <3> QED BY <1>1, <3>1, NewId DEF JobTypes
  <2>2. /\ endpoints' = endpoints /\ doc' = doc
        /\ phase'[j] = "endpoints" /\ done'[j] = 0
        /\ \A k \in Jobs : k # j => phase'[k] = phase[k] /\ done'[k] = done[k] /\ id'[k] = id[k]
    <3>1. id' = [id EXCEPT ![j] = Cardinality(Taken) + 1]
      BY <1>1, NewId
    <3> QED BY <1>1, <3>1 DEF InsertInventory, Goto, JobTypes
  <2>3. RowsOf(endpoints'[id'[j]], doc'[j], 0)
    BY <2>1, <2>2, RowsNone DEF Filled
  <2>4. \A k \in Taken' : \E n \in 0..Len(doc'[k]) : RowsOf(endpoints'[id'[k]], doc'[k], n)
    <3>1. 0 \in 0..Len(doc'[j])
      BY <1>0, <2>2
    <3> QED BY <2>1, <2>2, <2>3, <3>1 DEF Filled, Taken
  <2>5. \A k \in Jobs : phase'[k] = "endpoints" =>
          done'[k] <= Len(doc'[k]) /\ RowsOf(endpoints'[id'[k]], doc'[k], done'[k])
    <3>1. done'[j] <= Len(doc'[j])
      BY <1>0, <2>2
    <3>2. RowsOf(endpoints'[id'[j]], doc'[j], done'[j])
      BY <2>2, <2>3, Zenon
    <3> QED BY <2>2, <3>1, <3>2 DEF Filled
  <2>6. \A k \in Jobs : phase'[k] \in {"read log", "traffic", "ok"} =>
          RowsOf(endpoints'[id'[k]], doc'[k], Len(doc'[k]))
    BY <2>2 DEF Filled
  <2>7. \A i \in Ids \ inventories' : endpoints'[i] = <<>>
    BY <2>1, <2>2 DEF Filled
  <2>8. DOMAIN endpoints' = Ids
    BY <2>2 DEF Filled
  <2> QED BY <2>4, <2>5, <2>6, <2>7, <2>8 DEF Filled
<1>2. ASSUME NEW j \in Jobs, InsertEndpoint(j) PROVE Filled'
  <2> DEFINE e == doc[j][done[j] + 1]
  <2>1. /\ phase[j] = "endpoints" /\ done[j] < Len(doc[j])
        /\ endpoints' = [endpoints EXCEPT ![id[j]] = Upsert(endpoints[id[j]], e.key, e.body)]
        /\ UNCHANGED <<inventories, id, doc, phase>>
        /\ done'[j] = done[j] + 1 /\ \A k \in Jobs : k # j => done'[k] = done[k]
    BY <1>2 DEF InsertEndpoint, From, JobTypes
  <2>2. j \in Taken /\ id[j] \in Ids /\ id[j] \in inventories
    BY <2>1 DEF HasId, Taken, JobTypes, Numbered
  <2>3. RowsOf(endpoints'[id[j]], doc[j], done[j] + 1)
    <3>1. endpoints'[id[j]] = Upsert(endpoints[id[j]], e.key, e.body)
      BY <2>1, <2>2 DEF Filled
    <3>2. RowsOf(endpoints[id[j]], doc[j], done[j])
      BY <2>1 DEF Filled
    <3> QED BY <1>0, <3>1, <3>2, RowsMore
  <2>4. \A i \in Ids : i # id[j] => endpoints'[i] = endpoints[i]
    BY <2>1 DEF Filled
  <2>5. \A k \in Taken : k # j => endpoints'[id[k]] = endpoints[id[k]]
    <3>1. \A k \in Taken : id[k] \in Ids
      BY DEF Taken, JobTypes
    <3> QED BY <2>2, <2>4, <3>1 DEF Numbered
  <2>6. Taken' = Taken
    BY <2>1 DEF Taken
  <2>7. \A k \in Taken' : \E n \in 0..Len(doc'[k]) : RowsOf(endpoints'[id'[k]], doc'[k], n)
    <3>1. done[j] + 1 \in 0..Len(doc[j])
      BY <1>0, <2>1
    <3> QED BY <2>1, <2>3, <2>5, <2>6, <3>1, ZenonT(40) DEF Filled
  <2>8. \A k \in Jobs : phase[k] \in {"endpoints", "read log", "traffic", "ok"} => k \in Taken
    BY DEF HasId, Taken
  <2>9. \A k \in Jobs : phase'[k] = "endpoints" =>
          done'[k] <= Len(doc'[k]) /\ RowsOf(endpoints'[id'[k]], doc'[k], done'[k])
    <3>1. done[j] + 1 <= Len(doc[j])
      BY <1>0, <2>1
    <3> QED BY <2>1, <2>3, <2>5, <2>8, <3>1 DEF Filled
  <2>10. \A k \in Jobs : phase'[k] \in {"read log", "traffic", "ok"} =>
          RowsOf(endpoints'[id'[k]], doc'[k], Len(doc'[k]))
    BY <2>1, <2>5, <2>8 DEF Filled
  <2>11. \A i \in Ids \ inventories' : endpoints'[i] = <<>>
    BY <2>1, <2>2, <2>4 DEF Filled
  <2>12. DOMAIN endpoints' = Ids
    BY <2>1 DEF Filled
  <2> QED BY <2>7, <2>9, <2>10, <2>11, <2>12 DEF Filled
<1>3. ASSUME NEW j \in Jobs, ReadSpec(j) PROVE Filled'
  <2>1. /\ phase'[j] = "migrate" /\ j \notin Taken
        /\ UNCHANGED <<inventories, endpoints, id, done>>
        /\ \A k \in Jobs : k # j => phase'[k] = phase[k] /\ doc'[k] = doc[k]
    BY <1>3 DEF ReadSpec, From, Goto, tables, JobTypes, HasId, Taken
  <2>2. Taken' = Taken /\ \A k \in Taken : k \in Jobs
    BY <2>1 DEF Taken
  <2> QED BY <2>1, <2>2 DEF Filled
<1>4. CASE Quiet /\ UNCHANGED phase
  <2>1. Taken' = Taken
    BY <1>4 DEF Quiet, Taken
  <2>2. \A k \in Jobs : phase[k] = "endpoints" => done'[k] = done[k] \/ InsertEndpoint(k)
    BY DoneKept
  <2> QED BY <1>2, <1>4, <2>1, <2>2 DEF Quiet, Filled
<1>5. ASSUME Quiet, NEW j \in Jobs, NEW to \in Phases, Goto(j, to),
             \/ phase[j] = "report" /\ to = "read spec"
             \/ phase[j] = "migrate" /\ to = "inventory"
             \/ phase[j] = "endpoints" /\ to = "read log" /\ done[j] = Len(doc[j])
             \/ phase[j] = "read log" /\ to = "traffic"
             \/ phase[j] = "traffic" /\ to = "ok"
             \/ to = "failed"
      PROVE  Filled'
  <2>1. Taken' = Taken /\ UNCHANGED <<inventories, endpoints, id, doc>>
    BY <1>5 DEF Quiet, Taken
  <2>2. phase'[j] = to /\ \A k \in Jobs : k # j => phase'[k] = phase[k]
    BY <1>5 DEF Goto, JobTypes
  <2>3. \A k \in Jobs : phase[k] = "endpoints" => done'[k] = done[k] \/ InsertEndpoint(k)
    BY DoneKept
  <2>4. \A k \in Jobs : phase'[k] = "endpoints" => phase[k] = "endpoints"
    BY <1>5, <2>2
  <2>5. CASE \E k \in Jobs : InsertEndpoint(k)
    BY <1>2, <2>5
  <2>6. CASE ~\E k \in Jobs : InsertEndpoint(k)
    <3>1. \A k \in Jobs : phase'[k] \in {"read log", "traffic", "ok"} =>
            RowsOf(endpoints[id[k]], doc[k], Len(doc[k]))
      BY <1>5, <2>2 DEF Filled
    <3>2. \A k \in Jobs : phase'[k] = "endpoints" =>
            done'[k] <= Len(doc[k]) /\ RowsOf(endpoints[id[k]], doc[k], done'[k])
      BY <2>3, <2>4, <2>6 DEF Filled
    <3> QED BY <2>1, <3>1, <3>2 DEF Filled
  <2> QED BY <2>5, <2>6
<1> QED BY <1>1, <1>2, <1>3, <1>4, <1>5, Cases

-----------------------------------------------------------------------------
(* The loaders.                                                            *)

Loaded ==
  \A l \in Loaders :
    /\ load[l].at = "rows" => load[l].id \in inventories
    /\ load[l].at = "done" =>
         \E j \in Taken : /\ id[j] = load[l].id
                          /\ \E n \in 0..Len(doc[j]) : RowsOf(load[l].rows, doc[j], n)

\* What a loader read belongs to one job, which goes on or dies but keeps its
\* id and its document.
LEMMA LoadedStep ==
  ASSUME JobTypes, LoadTypes, HasId, Numbered, Filled, Loaded, [Next]_vars
  PROVE  Loaded'
<1>1. /\ \A j \in Taken : j \in Taken' /\ id'[j] = id[j] /\ doc'[j] = doc[j]
      /\ inventories \subseteq inventories'
  BY Settled
<1>2. ASSUME NEW l \in Loaders, load'[l] = load[l]
      PROVE  /\ load'[l].at = "rows" => load'[l].id \in inventories'
             /\ load'[l].at = "done" =>
                  \E j \in Taken' : /\ id'[j] = load'[l].id
                                    /\ \E n \in 0..Len(doc'[j]) : RowsOf(load'[l].rows, doc'[j], n)
  BY <1>1, <1>2 DEF Loaded
<1>3. ASSUME NEW l \in Loaders, LoadHeader(l) PROVE Loaded'
  <2>1. PICK i \in Ids :
          load' = [load EXCEPT ![l] =
                    [at |-> IF migrated /\ i \in inventories THEN "rows" ELSE "error",
                     id |-> i, rows |-> <<>>]]
    BY <1>3 DEF LoadHeader
  <2>2. /\ load'[l].at # "done"
        /\ load'[l].at = "rows" => load'[l].id \in inventories
        /\ \A m \in Loaders : m # l => load'[m] = load[m]
    BY <2>1 DEF LoadTypes
  <2> QED BY <1>1, <1>2, <2>2 DEF Loaded
<1>4. ASSUME NEW l \in Loaders, LoadRows(l) PROVE Loaded'
  <2>1. /\ load[l].at = "rows"
        /\ load'[l] = [at |-> "done", id |-> load[l].id, rows |-> endpoints[load[l].id]]
        /\ \A m \in Loaders : m # l => load'[m] = load[m]
    BY <1>4 DEF LoadRows, LoadTypes
  <2>2. PICK j \in Taken : id[j] = load[l].id
    BY <2>1 DEF Loaded, Numbered
  <2>3. \E n \in 0..Len(doc[j]) : RowsOf(endpoints[load[l].id], doc[j], n)
    BY <2>2 DEF Filled
  <2>4. load'[l].at = "done" /\ load'[l].id = load[l].id /\ load'[l].rows = endpoints[load[l].id]
    BY <2>1
  <2>5. \E k \in Taken' : /\ id'[k] = load'[l].id
                          /\ \E n \in 0..Len(doc'[k]) : RowsOf(load'[l].rows, doc'[k], n)
    BY <1>1, <2>2, <2>3, <2>4
  <2> QED BY <1>2, <2>1, <2>4, <2>5 DEF Loaded
<1>5. CASE UNCHANGED load
  BY <1>2, <1>5 DEF Loaded
<1>6. ASSUME NEW j \in Jobs,
             \/ Report(j) \/ ReadSpec(j) \/ Migrate(j) \/ Write(j) \/ ReadLog(j) \/ Finish(j) \/ Fail(j)
      PROVE  UNCHANGED load
  BY <1>6 DEF Report, ReadSpec, Migrate, Write, InsertInventory, InsertEndpoint, EndpointsWritten,
              InsertTraffic, ReadLog, Finish, Fail
<1>7. ASSUME EditSpec \/ AppendLog \/ UNCHANGED vars PROVE UNCHANGED load
  BY <1>7 DEF EditSpec, AppendLog, vars
<1> QED BY <1>3, <1>4, <1>5, <1>6, <1>7 DEF Next

-----------------------------------------------------------------------------
(* The rows of traffic.                                                    *)

\* Among the rows, those of id i are the lines 1 to d in order.
Lines(rows, i, d) ==
  LET Of == {k \in DOMAIN rows : rows[k][1] = i}
  IN /\ \A k \in Of : rows[k][2] \in 1..d
     /\ \A n \in 1..d : \E k \in Of : rows[k][2] = n
     /\ \A k, m \in Of : k < m => rows[k][2] < rows[m][2]

\* A set of rows whose lines are 1 to d, each once, has d rows.
LEMMA CountRows ==
  ASSUME NEW S, IsFiniteSet(S), NEW d \in Nat, NEW line \in [S -> 1..d],
         \A n \in 1..d : \E k \in S : line[k] = n,
         \A k, m \in S : line[k] = line[m] => k = m
  PROVE  Cardinality(S) = d
<1>1. line \in Bijection(S, 1..d)
  BY Fun_IsBij
<1>2. Cardinality(1..d) = Cardinality(S)
  BY <1>1, FS_Bijection DEF ExistsBijection
<1>3. Cardinality(1..d) = d
  BY FS_Interval
<1> QED BY <1>2, <1>3

\* load_traffic gives these lines in order.
LEMMA LinesInOrder ==
  ASSUME NEW rows, NEW S, rows \in Seq(S), NEW i, NEW d \in Nat, Lines(rows, i, d)
  PROVE  InOrder(rows, i) = [n \in 1..d |-> n]
<1> DEFINE Of == {k \in DOMAIN rows : rows[k][1] = i}
           Rank(k) == Cardinality({m \in Of : m <= k})
           line(k) == rows[k][2]
<1>1. Of \in SUBSET (1..Len(rows)) /\ Len(rows) \in Nat
  BY LenProperties
<1>2. IsFiniteSet(Of)
  BY <1>1, FS_Interval, FS_Subset
<1>3. /\ \A k \in Of : line(k) \in 1..d
      /\ \A n \in 1..d : \E k \in Of : line(k) = n
      /\ \A k, m \in Of : k < m => line(k) < line(m)
  BY DEF Lines
<1>4. InOrder(rows, i) = [n \in 1..Cardinality(Of) |-> line(CHOOSE k \in Of : Rank(k) = n)]
  BY DEF InOrder
<1>5. Of \subseteq Int
  BY <1>1
<1> HIDE DEF Of, line
<1>6. \A k, m \in Of : line(k) = line(m) => k = m
  BY <1>3, <1>5
<1>7. Cardinality(Of) = d
  <2> DEFINE f == [k \in Of |-> line(k)]
  <2>1. /\ f \in [Of -> 1..d]
        /\ \A n \in 1..d : \E k \in Of : f[k] = n
        /\ \A k, m \in Of : f[k] = f[m] => k = m
    BY <1>3, <1>6
  <2> HIDE DEF f
  <2> QED BY <1>2, <2>1, CountRows
<1>8. ASSUME NEW k \in Of PROVE Rank(k) = line(k)
  <2> DEFINE upto == {m \in Of : m <= k}
  <2>1. IsFiniteSet(upto)
    BY <1>2, FS_Subset
  <2>2. line(k) \in Nat
    BY <1>3
  <2>3. \A m \in upto : line(m) \in 1..line(k)
    BY <1>3, <1>5
  <2>4. \A n \in 1..line(k) : \E m \in upto : line(m) = n
    BY <1>3, <1>5
  <2>5. \A m, o \in upto : line(m) = line(o) => m = o
    BY <1>6
  <2> HIDE DEF upto
  <2>6. Cardinality(upto) = line(k)
    <3> DEFINE f == [m \in upto |-> line(m)]
    <3>1. /\ f \in [upto -> 1..line(k)]
          /\ \A n \in 1..line(k) : \E m \in upto : f[m] = n
          /\ \A m, o \in upto : f[m] = f[o] => m = o
      BY <2>3, <2>4, <2>5
    <3> HIDE DEF f
    <3> QED BY <2>1, <2>2, <3>1, CountRows
  <2> QED BY <2>6 DEF upto
<1> HIDE DEF Rank
<1>9. \A n \in 1..d : line(CHOOSE k \in Of : Rank(k) = n) = n
  <2> SUFFICES ASSUME NEW n \in 1..d PROVE line(CHOOSE k \in Of : Rank(k) = n) = n
    OBVIOUS
  <2>1. \E k \in Of : Rank(k) = n
    BY <1>3, <1>8
  <2>2. PICK k \in Of : k = (CHOOSE m \in Of : Rank(m) = n) /\ Rank(k) = n
    BY <2>1
  <2> QED BY <1>8, <2>2
<1> QED BY <1>4, <1>7, <1>9

\* The next line of id i.
LEMMA LinesMore ==
  ASSUME NEW S, NEW rows \in Seq(S), NEW i, NEW d \in Nat, Lines(rows, i, d), <<i, d + 1>> \in S
  PROVE  Lines(Append(rows, <<i, d + 1>>), i, d + 1)
<1> DEFINE new == Append(rows, <<i, d + 1>>)
           n == Len(rows)
<1>1. n \in Nat /\ DOMAIN rows = 1..n
  BY LenProperties
<1>2. /\ DOMAIN new = 1..(n + 1) /\ new[n + 1] = <<i, d + 1>>
      /\ \A k \in 1..n : new[k] = rows[k]
  BY <1>1, AppendProperties, LenProperties
<1> HIDE DEF new, n
<1>3. \A k \in 1..n : rows[k][1] = i => rows[k][2] \in 1..d
  BY <1>1 DEF Lines
<1>4. \A m \in 1..d : \E k \in 1..n : rows[k][1] = i /\ rows[k][2] = m
  BY <1>1 DEF Lines
<1>5. \A k, m \in 1..n : rows[k][1] = i /\ rows[m][1] = i /\ k < m => rows[k][2] < rows[m][2]
  BY <1>1 DEF Lines
<1>6. new[n + 1][1] = i /\ new[n + 1][2] = d + 1
  BY <1>2
<1>7. ASSUME NEW k \in 1..(n + 1), new[k][1] = i PROVE new[k][2] \in 1..(d + 1)
  BY <1>1, <1>2, <1>3, <1>6, <1>7
<1>8. ASSUME NEW m \in 1..(d + 1) PROVE \E k \in 1..(n + 1) : new[k][1] = i /\ new[k][2] = m
  <2>1. CASE m = d + 1
    BY <1>1, <1>6, <2>1
  <2>2. CASE m \in 1..d
    BY <1>1, <1>2, <1>4, <2>2
  <2> QED BY <2>1, <2>2
<1>9. ASSUME NEW k \in 1..(n + 1), NEW m \in 1..(n + 1), new[k][1] = i, new[m][1] = i, k < m
      PROVE  new[k][2] < new[m][2]
  <2>1. k \in 1..n /\ new[k] = rows[k]
    BY <1>1, <1>2, <1>9
  <2>2. CASE m = n + 1
    BY <1>3, <1>6, <1>9, <2>1, <2>2
  <2>3. CASE m \in 1..n
    BY <1>2, <1>5, <1>9, <2>1, <2>3
  <2> QED BY <1>1, <2>2, <2>3
<1>10. Lines(new, i, d + 1)
  BY <1>2, <1>7, <1>8, <1>9 DEF Lines
<1> QED BY <1>10 DEF new

\* A row of another id changes nothing.
LEMMA LinesOther ==
  ASSUME NEW S, NEW rows \in Seq(S), NEW i, NEW d, Lines(rows, i, d),
         NEW row \in S, row[1] # i
  PROVE  Lines(Append(rows, row), i, d)
<1> DEFINE new == Append(rows, row)
           n == Len(rows)
<1>1. n \in Nat /\ DOMAIN rows = 1..n
  BY LenProperties
<1>2. DOMAIN new = 1..(n + 1) /\ new[n + 1] = row /\ \A k \in 1..n : new[k] = rows[k]
  BY <1>1, AppendProperties, LenProperties
<1> HIDE DEF new, n
<1>3. {k \in DOMAIN new : new[k][1] = i} = {k \in DOMAIN rows : rows[k][1] = i}
  BY <1>1, <1>2
<1>4. \A k \in DOMAIN rows : new[k] = rows[k]
  BY <1>1, <1>2
<1> DEFINE Of == {k \in DOMAIN rows : rows[k][1] = i}
<1>5. Of \subseteq DOMAIN rows
  OBVIOUS
<1>6. /\ \A k \in Of : rows[k][2] \in 1..d
      /\ \A m \in 1..d : \E k \in Of : rows[k][2] = m
      /\ \A k, m \in Of : k < m => rows[k][2] < rows[m][2]
  BY DEF Lines
<1>7. Lines(new, i, d) <=> /\ \A k \in Of : new[k][2] \in 1..d
                           /\ \A m \in 1..d : \E k \in Of : new[k][2] = m
                           /\ \A k, m \in Of : k < m => new[k][2] < new[m][2]
  BY <1>3 DEF Lines
<1> HIDE DEF Of
<1>8. Lines(new, i, d)
  BY <1>4, <1>5, <1>6, <1>7
<1> QED BY <1>8 DEF new

Logged ==
  /\ \A k \in DOMAIN traffic : traffic[k][1] \in inventories
  /\ \A j \in Taken : \E d \in Nat : Lines(traffic, id[j], d)
  /\ \A j \in Jobs : phase[j] \in {"endpoints", "read log"} => Lines(traffic, id[j], 0)
  /\ \A j \in Jobs : phase[j] = "traffic" => done[j] <= lines[j] /\ Lines(traffic, id[j], done[j])
  /\ \A j \in Jobs : phase[j] = "ok" => Lines(traffic, id[j], lines[j])

\* What the other steps do to the counters of a job that writes traffic.
LEMMA CountersKept ==
  ASSUME JobTypes, [Next]_vars, NEW k \in Jobs, phase[k] \in {"traffic", "ok"}
  PROVE  /\ lines'[k] = lines[k]
         /\ phase[k] = "traffic" => done'[k] = done[k] \/ InsertTraffic(k)
<1>1. CASE UNCHANGED vars \/ EditSpec \/ AppendLog \/ \E l \in Loaders : LoadHeader(l) \/ LoadRows(l)
  BY <1>1 DEF vars, EditSpec, AppendLog, LoadHeader, LoadRows, job
<1>2. ASSUME NEW j \in Jobs, \/ Report(j) \/ ReadSpec(j) \/ Migrate(j) \/ EndpointsWritten(j)
                             \/ Finish(j) \/ Fail(j)
      PROVE  UNCHANGED <<done, lines>>
  BY <1>2 DEF Report, ReadSpec, Migrate, EndpointsWritten, Finish, Fail
<1>3. ASSUME NEW j \in Jobs, InsertInventory(j) \/ InsertEndpoint(j) \/ ReadLog(j)
      PROVE  done'[k] = done[k] /\ lines'[k] = lines[k]
  <2>1. j # k
    BY <1>3 DEF InsertInventory, InsertEndpoint, ReadLog, From
  <2> QED BY <1>3, <2>1 DEF InsertInventory, InsertEndpoint, ReadLog, JobTypes
<1>4. ASSUME NEW j \in Jobs, InsertTraffic(j)
      PROVE  UNCHANGED lines /\ (j # k => done'[k] = done[k])
  BY <1>4 DEF InsertTraffic, JobTypes
<1> QED BY <1>1, <1>2, <1>3, <1>4 DEF Next, Write

\* Every step but three leaves the rows of traffic and the ids alone, and of a
\* job only lets the phase go on.
LEMMA LogCases ==
  ASSUME [Next]_vars
  PROVE  \/ \E j \in Jobs : InsertInventory(j) \/ InsertTraffic(j) \/ ReadLog(j)
         \/ /\ UNCHANGED <<inventories, id, traffic>>
            /\ \/ UNCHANGED phase
               \/ \E j \in Jobs : \E to \in Phases :
                    /\ Goto(j, to)
                    /\ to \in {"endpoints", "traffic"} => FALSE
                    /\ to = "read log" => phase[j] = "endpoints"
                    /\ to = "ok" => phase[j] = "traffic" /\ done[j] = lines[j]
<1>1. CASE \/ UNCHANGED vars \/ EditSpec \/ AppendLog
           \/ \E l \in Loaders : LoadHeader(l) \/ LoadRows(l)
  BY <1>1 DEF vars, EditSpec, AppendLog, LoadHeader, LoadRows, tables, job
<1>2. ASSUME NEW j \in Jobs, InsertEndpoint(j) PROVE UNCHANGED <<inventories, id, traffic, phase>>
  BY <1>2 DEF InsertEndpoint
<1>3. ASSUME NEW j \in Jobs, \/ Report(j) \/ ReadSpec(j) \/ Migrate(j) \/ EndpointsWritten(j)
                             \/ Finish(j) \/ Fail(j)
      PROVE  /\ UNCHANGED <<inventories, id, traffic>>
             /\ \E to \in Phases :
                    /\ Goto(j, to)
                    /\ to \in {"endpoints", "traffic"} => FALSE
                    /\ to = "read log" => phase[j] = "endpoints"
                    /\ to = "ok" => phase[j] = "traffic" /\ done[j] = lines[j]
  <2>1. UNCHANGED <<inventories, id, traffic>>
    BY <1>3 DEF Report, ReadSpec, Migrate, EndpointsWritten, Finish, Fail, tables
  <2> QED BY <1>3, <2>1 DEF Report, ReadSpec, Migrate, EndpointsWritten, Finish, Fail, From, Phases
<1> QED BY <1>1, <1>2, <1>3 DEF Next, Write

\* Each job numbers its own lines, whatever lies between them.
LEMMA LoggedStep ==
  ASSUME JobTypes, WorldTypes, TrafficTypes, HasId, Numbered, Logged, [Next]_vars
  PROVE  Logged'
<1>0. \A j \in Jobs : done[j] \in Nat /\ lines[j] \in Nat
  BY StoreAssumption DEF JobTypes
<1>1. ASSUME NEW j \in Jobs, InsertInventory(j) PROVE Logged'
  <2> DEFINE new == Cardinality(Taken) + 1
  <2>1. /\ new \notin inventories /\ j \notin Taken
        /\ id'[j] = new /\ inventories' = inventories \cup {new} /\ Taken' = Taken \cup {j}
    <3>1. Cardinality(Taken) \in Nat /\ inventories = 1..Cardinality(Taken)
      BY <1>1, NewId DEF Numbered
    <3> QED BY <1>1, <3>1, NewId DEF JobTypes
  <2>2. /\ traffic' = traffic /\ phase'[j] = "endpoints"
        /\ \A k \in Jobs : k # j => /\ phase'[k] = phase[k] /\ done'[k] = done[k]
                                    /\ lines'[k] = lines[k] /\ id'[k] = id[k]
    <3>1. id' = [id EXCEPT ![j] = Cardinality(Taken) + 1]
      BY <1>1, NewId
    <3> QED BY <1>1, <3>1 DEF InsertInventory, Goto, JobTypes
  <2>3. Lines(traffic', id'[j], 0)
    <3> HIDE DEF new
    <3>1. 1..0 = {}
      OBVIOUS
    <3>2. \A k \in DOMAIN traffic : traffic[k][1] # new
      BY <2>1 DEF Logged
    <3> QED BY <2>1, <2>2, <3>1, <3>2 DEF Lines
  <2>4. \A k \in Taken' : \E d \in Nat : Lines(traffic', id'[k], d)
    BY <2>1, <2>2, <2>3 DEF Logged, Taken
  <2>5. \A k \in DOMAIN traffic' : traffic'[k][1] \in inventories'
    BY <2>1, <2>2 DEF Logged
  <2> QED BY <2>2, <2>3, <2>4, <2>5 DEF Logged
<1>2. ASSUME NEW j \in Jobs, InsertTraffic(j) PROVE Logged'
  <2>1. /\ phase[j] = "traffic" /\ done[j] < lines[j]
        /\ traffic' = Append(traffic, <<id[j], done[j] + 1>>)
        /\ UNCHANGED <<inventories, id, lines, phase>>
        /\ done'[j] = done[j] + 1 /\ \A k \in Jobs : k # j => done'[k] = done[k]
    BY <1>2 DEF InsertTraffic, From, JobTypes
  <2>2. j \in Taken /\ id[j] \in Ids /\ id[j] \in inventories
    BY <2>1, ZenonT(40) DEF HasId, Taken, JobTypes, Numbered
  <2>3. <<id[j], done[j] + 1>> \in Ids \X (1..MaxLog)
    <3>1. done[j] + 1 \in 1..MaxLog
      BY <2>1, StoreAssumption DEF JobTypes
    <3> QED BY <2>2, <3>1
  <2>4. Lines(traffic', id[j], done[j] + 1)
    <3>1. Lines(traffic, id[j], done[j])
      BY <2>1 DEF Logged
    <3> QED BY <1>0, <2>1, <2>3, <3>1, LinesMore DEF TrafficTypes
  <2>5. ASSUME NEW k \in Taken, k # j, NEW d, Lines(traffic, id[k], d) PROVE Lines(traffic', id[k], d)
    <3>1. id[j] # id[k]
      BY <2>2, <2>5 DEF Numbered
    <3> QED BY <2>1, <2>3, <2>5, <3>1, LinesOther DEF TrafficTypes
  <2>6. Taken' = Taken
    BY <2>1 DEF Taken
  <2>7. \A k \in Taken' : \E d \in Nat : Lines(traffic', id'[k], d)
    <3>1. done[j] + 1 \in Nat
      BY <1>0
    <3> QED BY <2>1, <2>4, <2>5, <2>6, <3>1 DEF Logged
  <2>8. \A k \in DOMAIN traffic' : traffic'[k][1] \in inventories'
    <3>1. /\ Len(traffic) \in Nat /\ DOMAIN traffic = 1..Len(traffic)
          /\ DOMAIN traffic' = 1..(Len(traffic) + 1)
          /\ traffic'[Len(traffic) + 1] = <<id[j], done[j] + 1>>
          /\ \A k \in 1..Len(traffic) : traffic'[k] = traffic[k]
      BY <2>1, <2>3, AppendProperties, LenProperties DEF TrafficTypes
    <3>2. traffic'[Len(traffic) + 1][1] = id[j]
      BY <3>1
    <3>3. ASSUME NEW k \in 1..Len(traffic) PROVE traffic'[k][1] \in inventories'
      BY <2>1, <3>1 DEF Logged
    <3>4. \A k \in 1..(Len(traffic) + 1) : k \in 1..Len(traffic) \/ k = Len(traffic) + 1
      BY <3>1
    <3> QED BY <2>1, <2>2, <3>1, <3>2, <3>3, <3>4, Zenon
  <2>9. \A k \in Jobs : phase[k] \in {"endpoints", "read log", "traffic", "ok"} => k \in Taken
    BY DEF HasId, Taken
  <2>10. \A k \in Jobs : phase[k] \in {"endpoints", "read log"} => Lines(traffic', id[k], 0)
    BY <2>1, <2>5, <2>9 DEF Logged
  <2>11. \A k \in Jobs : phase[k] = "traffic" => done'[k] <= lines[k] /\ Lines(traffic', id[k], done'[k])
    <3>1. done[j] + 1 <= lines[j]
      BY <1>0, <2>1
    <3>2. done'[j] <= lines[j] /\ Lines(traffic', id[j], done'[j])
      BY <2>1, <2>4, <3>1
    <3> QED BY <2>1, <2>5, <2>9, <3>2 DEF Logged
  <2>12. \A k \in Jobs : phase[k] = "ok" => Lines(traffic', id[k], lines[k])
    BY <2>1, <2>5, <2>9 DEF Logged
  <2> QED BY <2>1, <2>7, <2>8, <2>10, <2>11, <2>12 DEF Logged
<1>3. ASSUME NEW j \in Jobs, ReadLog(j) PROVE Logged'
  <2>1. /\ phase[j] = "read log" /\ phase'[j] = "traffic" /\ done'[j] = 0 /\ lines'[j] = log
        /\ UNCHANGED <<inventories, id, traffic>>
        /\ \A k \in Jobs : k # j => /\ phase'[k] = phase[k] /\ done'[k] = done[k]
                                    /\ lines'[k] = lines[k]
    BY <1>3 DEF ReadLog, From, Goto, tables, JobTypes
  <2>2. Taken' = Taken
    BY <2>1 DEF Taken
  <2>3. done'[j] <= lines'[j]
    <3>1. 0 <= log
      BY StoreAssumption DEF WorldTypes
    <3> QED BY <2>1, <3>1, Zenon
  <2>4. Lines(traffic', id'[j], done'[j])
    <3>1. Lines(traffic, id[j], 0)
      BY <2>1 DEF Logged
    <3> QED BY <2>1, <3>1, Zenon
  <2> QED BY <2>1, <2>2, <2>3, <2>4 DEF Logged
<1>4. ASSUME UNCHANGED <<inventories, id, traffic>>, UNCHANGED phase, ~\E k \in Jobs : InsertTraffic(k)
      PROVE  Logged'
  <2>1. Taken' = Taken
    BY <1>4 DEF Taken
  <2>2. \A k \in Jobs : /\ phase[k] \in {"traffic", "ok"} => lines'[k] = lines[k]
                        /\ phase[k] = "traffic" => done'[k] = done[k]
    BY <1>4, CountersKept
  <2> QED BY <1>4, <2>1, <2>2 DEF Logged
<1>5. ASSUME UNCHANGED <<inventories, id, traffic>>, ~\E k \in Jobs : InsertTraffic(k),
             NEW j \in Jobs, NEW to \in Phases, Goto(j, to), to \notin {"endpoints", "traffic"},
             to = "read log" => phase[j] = "endpoints",
             to = "ok" => phase[j] = "traffic" /\ done[j] = lines[j]
      PROVE  Logged'
  <2>1. Taken' = Taken
    BY <1>5 DEF Taken
  <2>2. \A k \in Jobs : /\ phase[k] \in {"traffic", "ok"} => lines'[k] = lines[k]
                        /\ phase[k] = "traffic" => done'[k] = done[k]
    BY <1>5, CountersKept
  <2>3. phase'[j] = to /\ \A k \in Jobs : k # j => phase'[k] = phase[k]
    BY <1>5 DEF Goto, JobTypes
  <2>4. \A k \in Jobs : phase'[k] \in {"endpoints", "read log"} => Lines(traffic, id[k], 0)
    BY <1>5, <2>3 DEF Logged
  <2>5. \A k \in Jobs : phase'[k] = "traffic" => done'[k] <= lines'[k] /\ Lines(traffic, id[k], done'[k])
    BY <1>5, <2>2, <2>3 DEF Logged
  <2>6. \A k \in Jobs : phase'[k] = "ok" => Lines(traffic, id[k], lines'[k])
    BY <1>5, <2>2, <2>3 DEF Logged
  <2> QED BY <1>5, <2>1, <2>4, <2>5, <2>6 DEF Logged
<1> QED BY <1>1, <1>2, <1>3, <1>4, <1>5, LogCases

-----------------------------------------------------------------------------
(* The two readings of the specification.                                  *)

Fresh ==
  \A j \in Jobs \ edited :
    /\ phase[j] = "read spec" => shown[j] = spec
    /\ phase[j] \notin {"report", "read spec", "failed"} => doc[j] = shown[j]

\* Only an edit between the two readings tells them apart.
LEMMA FreshStep ==
  ASSUME JobTypes, Fresh, [Next]_vars
  PROVE  Fresh'
<1>1. CASE EditSpec
  BY <1>1 DEF EditSpec, Fresh, job
<1>2. ASSUME NEW j \in Jobs, Report(j) PROVE Fresh'
  <2>1. /\ phase'[j] = "read spec" /\ shown'[j] = spec /\ UNCHANGED <<spec, doc, edited>>
        /\ \A k \in Jobs : k # j => phase'[k] = phase[k] /\ shown'[k] = shown[k]
    BY <1>2 DEF Report, Goto, files, JobTypes
  <2> QED BY <2>1 DEF Fresh
<1>3. ASSUME NEW j \in Jobs, ReadSpec(j) PROVE Fresh'
  <2>1. /\ phase[j] = "read spec" /\ phase'[j] = "migrate" /\ doc'[j] = spec
        /\ UNCHANGED <<spec, shown, edited>>
        /\ \A k \in Jobs : k # j => phase'[k] = phase[k] /\ doc'[k] = doc[k]
    BY <1>3 DEF ReadSpec, From, Goto, files, JobTypes
  <2> QED BY <2>1 DEF Fresh
<1>4. ASSUME UNCHANGED <<spec, shown, doc, edited, phase>> PROVE Fresh'
  BY <1>4 DEF Fresh
<1>5. ASSUME UNCHANGED <<spec, shown, doc, edited>>, NEW j \in Jobs, NEW to,
             phase[j] \notin {"report", "read spec"} \/ to = "failed", to # "read spec",
             Goto(j, to), phase[j] # "failed"
      PROVE  Fresh'
  <2>1. phase'[j] = to /\ \A k \in Jobs : k # j => phase'[k] = phase[k]
    BY <1>5 DEF Goto, JobTypes
  <2> QED BY <1>5, <2>1 DEF Fresh
<1>6. ASSUME NEW j \in Jobs,
             Migrate(j) \/ InsertInventory(j) \/ EndpointsWritten(j) \/ ReadLog(j) \/ Finish(j) \/ Fail(j)
      PROVE  Fresh'
  <2>1. UNCHANGED <<spec, shown, doc, edited>>
    BY <1>6 DEF Migrate, InsertInventory, EndpointsWritten, ReadLog, Finish, Fail, files, tables
  <2>2. phase[j] # "failed" /\ \E to : /\ Goto(j, to) /\ to # "read spec"
                                       /\ phase[j] \notin {"report", "read spec"} \/ to = "failed"
    BY <1>6 DEF Migrate, InsertInventory, EndpointsWritten, ReadLog, Finish, Fail, From
  <2> QED BY <1>5, <2>1, <2>2
<1>7. ASSUME NEW j \in Jobs, InsertEndpoint(j) \/ InsertTraffic(j) PROVE Fresh'
  BY <1>4, <1>7 DEF InsertEndpoint, InsertTraffic, files
<1>8. CASE AppendLog \/ UNCHANGED vars \/ \E l \in Loaders : LoadHeader(l) \/ LoadRows(l)
  <2>1. UNCHANGED <<spec, shown, doc, edited, phase>>
    BY <1>8 DEF AppendLog, vars, LoadHeader, LoadRows, files, job
  <2> QED BY <1>4, <2>1
<1> QED BY <1>1, <1>2, <1>3, <1>6, <1>7, <1>8 DEF Next, Write

-----------------------------------------------------------------------------
(* The theorems.                                                           *)

Inv == /\ JobTypes /\ WorldTypes /\ TrafficTypes /\ LoadTypes
       /\ HasId /\ Numbered /\ Filled /\ Loaded /\ Logged /\ Fresh

\* The tables are empty at the start and nobody has an id.
LEMMA InvInit == Init => Inv
<1> SUFFICES ASSUME Init PROVE Inv
  OBVIOUS
<1>1. Taken = {} /\ Cardinality(Taken) = 0 /\ inventories = {}
  BY FS_EmptySet DEF Init, Taken
<1>2. JobTypes /\ WorldTypes
  <2>1. 0 \in 0..MaxLog /\ "report" \in Phases
    BY StoreAssumption DEF Phases
  <2>2. WorldTypes
    BY <2>1 DEF Init, WorldTypes
  <2>3. id \in [Jobs -> Ids \cup {NoId}] /\ lines \in [Jobs -> 0..MaxLog]
    BY <2>1 DEF Init
  <2>4. done \in [Jobs -> Nat] /\ phase \in [Jobs -> Phases]
    BY <2>1 DEF Init
  <2>5. shown \in [Jobs -> Specs] /\ doc \in [Jobs -> Specs]
    BY DEF Init
  <2> QED BY <2>2, <2>3, <2>4, <2>5 DEF JobTypes
<1>3. TrafficTypes
  BY EmptySeq DEF Init, TrafficTypes
<1>4. LoadTypes /\ Loaded
  BY DEF Init, LoadTypes, Loaded
<1>5. HasId /\ Fresh
  BY DEF Init, HasId, Fresh
<1>6. Numbered
  <2>1. 1..0 = {}
    OBVIOUS
  <2>2. inventories = 1..Cardinality(Taken)
    BY <1>1, <2>1, Zenon
  <2> QED BY <1>1, <2>2 DEF Numbered
<1>7. Filled
  <2>1. \A j \in Jobs : phase[j] = "report"
    BY DEF Init
  <2>2. DOMAIN endpoints = Ids /\ \A i \in Ids : endpoints[i] = <<>>
    BY DEF Init
  <2> QED BY <1>1, <2>1, <2>2 DEF Filled
<1>8. Logged
  <2>1. \A j \in Jobs : phase[j] = "report"
    BY DEF Init
  <2>2. DOMAIN traffic = {}
    BY DEF Init
  <2> QED BY <1>1, <2>1, <2>2 DEF Logged
<1> QED BY <1>2, <1>3, <1>4, <1>5, <1>6, <1>7, <1>8 DEF Inv

\* Everything together is inductive.
LEMMA StoreInvariant == Spec => []Inv
<1>1. Inv /\ [Next]_vars => Inv'
  <2> SUFFICES ASSUME Inv, [Next]_vars PROVE Inv'
    OBVIOUS
  <2>1. \A j \in Jobs : InsertInventory(j) => Cardinality(inventories) + 1 \in Ids
    BY IdsSuffice DEF Inv
  <2>2. JobTypes' /\ WorldTypes' /\ TrafficTypes' /\ LoadTypes'
    BY <2>1, JobTypesStep, WorldTypesStep, TrafficTypesStep, LoadTypesStep DEF Inv
  <2>3. HasId' /\ Numbered' /\ Filled'
    BY <2>1, HasIdStep, NumberedStep, FilledStep DEF Inv
  <2>4. Loaded' /\ Logged' /\ Fresh'
    BY LoadedStep, LoggedStep, FreshStep DEF Inv
  <2> QED BY <2>2, <2>3, <2>4 DEF Inv
<1> QED BY <1>1, InvInit, PTL DEF Spec

\* Every variable keeps its type: in particular the database never runs out of
\* ids, one per job, and a row of traffic always belongs to one.
THEOREM StoreTypes == Spec => []TypeOK
<1>1. Inv => TypeOK
  <2> SUFFICES ASSUME Inv PROVE TypeOK
    OBVIOUS
  <2>1. inventories \subseteq Ids
    <3>1. \A j \in Taken : id[j] \in Ids
      BY DEF Inv, Taken, JobTypes
    <3>2. \A i \in inventories : \E j \in Taken : id[j] = i
      BY DEF Inv, Numbered
    <3> QED BY <3>1, <3>2
  <2> QED BY <2>1 DEF Inv, JobTypes, WorldTypes, TrafficTypes, LoadTypes, Filled, TypeOK
<1> QED BY <1>1, StoreInvariant, PTL

\* load_inventory never mixes two inventories and never shows a row whose
\* predecessors in the document are missing, although persist_inventory commits
\* row by row and may die between any two of them.
THEOREM LoadsShowPrefixes == Spec => []LoadsArePrefixes
<1>1. Inv => LoadsArePrefixes
  <2> SUFFICES ASSUME Inv, NEW l \in Loaders, load[l].at = "done"
               PROVE  \E j \in Jobs :
                        /\ id[j] = load[l].id
                        /\ \E n \in 0..Len(doc[j]) : load[l].rows = Collapse(SubSeq(doc[j], 1, n))
    BY DEF LoadsArePrefixes
  <2>1. PICK j \in Taken : /\ id[j] = load[l].id
                           /\ \E n \in 0..Len(doc[j]) : RowsOf(load[l].rows, doc[j], n)
    BY DEF Inv, Loaded
  <2>2. PICK n \in 0..Len(doc[j]) : RowsOf(load[l].rows, doc[j], n)
    BY <2>1
  <2>3. j \in Jobs /\ doc[j] \in Seq([key : STRING, body : STRING])
    BY StoreAssumption DEF Taken, Inv, JobTypes
  <2>4. load[l].rows = Collapse(SubSeq(doc[j], 1, n))
    BY <2>2, <2>3, RowsCollapse
  <2> QED BY <2>1, <2>3, <2>4
<1> QED BY <1>1, StoreInvariant, PTL

\* The lines a job is known to have written come back as they are.
LEMMA LoadGivesLines ==
  ASSUME TrafficTypes, NEW i, NEW d \in Nat, Lines(traffic, i, d)
  PROVE  LoadTraffic(i) = [n \in 1..d |-> n]
BY LinesInOrder DEF TrafficTypes, LoadTraffic

\* However many jobs write to the tables at the same time, each that ends well
\* finds all of its own endpoints and lines under its id and nothing else, and
\* they are those of the document it reported on unless that was edited.
THEOREM IdsStandForDocuments == Spec => []IdMeansComplete
<1>1. Inv => IdMeansComplete
  <2> SUFFICES ASSUME Inv, NEW j \in Jobs, phase[j] = "ok"
               PROVE  /\ endpoints[id[j]] = Collapse(doc[j])
                      /\ LoadTraffic(id[j]) = [k \in 1..lines[j] |-> k]
                      /\ j \notin edited => endpoints[id[j]] = Collapse(shown[j])
    BY DEF IdMeansComplete
  <2>1. doc[j] \in Seq([key : STRING, body : STRING]) /\ Len(doc[j]) \in 0..Len(doc[j])
    <3>1. doc[j] \in Seq([key : STRING, body : STRING])
      BY StoreAssumption DEF Inv, JobTypes
    <3> QED BY <3>1, LenProperties
  <2>2. RowsOf(endpoints[id[j]], doc[j], Len(doc[j]))
    BY DEF Inv, Filled
  <2>3. endpoints[id[j]] = Collapse(SubSeq(doc[j], 1, Len(doc[j])))
    BY <2>1, <2>2, RowsCollapse
  <2>4. SubSeq(doc[j], 1, Len(doc[j])) = doc[j]
    BY <2>1, SubSeqFull
  <2>5. j \notin edited => doc[j] = shown[j]
    BY DEF Inv, Fresh
  <2>6. LoadTraffic(id[j]) = [k \in 1..lines[j] |-> k]
    <3>1. lines[j] \in Nat
      BY StoreAssumption DEF Inv, JobTypes
    <3>2. Lines(traffic, id[j], lines[j])
      BY DEF Inv, Logged
    <3> QED BY <3>1, <3>2, LoadGivesLines DEF Inv
  <2> QED BY <2>3, <2>4, <2>5, <2>6
<1> QED BY <1>1, StoreInvariant, PTL

\* A step of one job never touches what another job, ended well or badly, left
\* under its id: persist_inventory and persist_traffic only ever add rows to an
\* id that is new.
LEMMA HistoryStep ==
  ASSUME Inv, Inv', [Next]_vars, NEW j \in Jobs, Ended(j)
  PROVE  endpoints'[id[j]] = endpoints[id[j]] /\ LoadTraffic(id[j])' = LoadTraffic(id[j])
<1>1. j \in Taken /\ id[j] \in Ids /\ phase[j] \in {"ok", "failed"}
  BY DEF Ended, Taken, Inv, JobTypes
<1>2. id'[j] = id[j]
  BY <1>1, Settled DEF Inv
<1>3. endpoints'[id[j]] = endpoints[id[j]]
  <2>1. ASSUME NEW k \in Jobs, InsertEndpoint(k) PROVE endpoints'[id[j]] = endpoints[id[j]]
    <3>1. phase[k] = "endpoints"
      BY <2>1 DEF InsertEndpoint, From
    <3>2. k \in Taken /\ k # j
      BY <1>1, <3>1 DEF Inv, HasId, Taken
    <3>3. id[k] # id[j]
      BY <1>1, <3>2 DEF Inv, Numbered
    <3> QED BY <1>1, <2>1, <3>3 DEF InsertEndpoint, Inv, Filled
  <2>2. ASSUME NEW k \in Jobs, InsertInventory(k) \/ ReadSpec(k) PROVE UNCHANGED endpoints
    BY <2>2 DEF InsertInventory, ReadSpec, tables
  <2> QED BY <2>1, <2>2, Cases DEF Quiet
<1>4. PICK d \in Nat : Lines(traffic, id[j], d)
  BY <1>1 DEF Inv, Logged
<1>5. Lines(traffic', id[j], d)
  <2>1. ASSUME NEW k \in Jobs, InsertTraffic(k) PROVE Lines(traffic', id[j], d)
    <3>1. phase[k] = "traffic"
      BY <2>1 DEF InsertTraffic, From
    <3>2. k \in Taken /\ k # j
      BY <1>1, <3>1 DEF Inv, HasId, Taken
    <3>3. id[k] # id[j] /\ id[k] \in Ids
      BY <1>1, <3>2 DEF Inv, Numbered, Taken, JobTypes
    <3>4. <<id[k], done[k] + 1>> \in Ids \X (1..MaxLog)
      <4>1. done[k] + 1 \in 1..MaxLog
        BY <2>1, StoreAssumption DEF InsertTraffic, Inv, JobTypes
      <4> QED BY <3>3, <4>1
    <3>5. traffic' = Append(traffic, <<id[k], done[k] + 1>>) /\ traffic \in Seq(Ids \X (1..MaxLog))
      BY <2>1 DEF InsertTraffic, Inv, TrafficTypes
    <3> QED BY <1>4, <3>3, <3>4, <3>5, LinesOther
  <2>2. ASSUME NEW k \in Jobs, InsertInventory(k) \/ ReadLog(k) PROVE UNCHANGED traffic
    BY <2>2 DEF InsertInventory, ReadLog, tables
  <2> QED BY <1>4, <2>1, <2>2, LogCases
<1>6. LoadTraffic(id[j]) = [n \in 1..d |-> n]
  BY <1>4, LoadGivesLines DEF Inv
<1>7. LoadTraffic(id[j])' = [n \in 1..d |-> n]
  <2>1. traffic' \in Seq(Ids \X (1..MaxLog))
    BY DEF Inv, TrafficTypes
  <2>2. InOrder(traffic', id'[j]) = [n \in 1..d |-> n]
    BY <1>2, <1>5, <2>1, LinesInOrder
  <2> QED BY <2>2 DEF LoadTraffic
<1> QED BY <1>3, <1>6, <1>7

\* History is only added to, whatever jobs run afterwards or at the same time.
THEOREM HistoryIsKept == Spec => HistoryKept
<1>1. Inv /\ Inv' /\ [Next]_vars =>
        [\A j \in Jobs : Ended(j) => /\ endpoints'[id[j]] = endpoints[id[j]]
                                     /\ LoadTraffic(id[j])' = LoadTraffic(id[j])]_vars
  BY HistoryStep
<1> QED BY <1>1, StoreInvariant, PTL DEF Spec, HistoryKept
=============================================================================
