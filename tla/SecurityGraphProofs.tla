------------------------ MODULE SecurityGraphProofs -------------------------
(***************************************************************************)
(* Proofs about SecurityGraph, for any number of jobs and any work.  First *)
(* the shape of the programs, then what holds of the graph while they run, *)
(* then the two queries.                                                   *)
(***************************************************************************)
EXTENDS SecurityGraph, SequenceTheorems, WellFoundedInduction, TLAPS

Statements == [op : {"merge"}, node : NodeSet, text : STRING]
              \cup [op : {"set"}, node : NodeSet, text : Texts]
              \cup [op : {"link"}, node : NodeSet, to : NodeSet, text : STRING]

\* A SET comes right after the MERGE of the vertex it is about.
Paired(p) == \A i \in 1..Len(p) :
               p[i].op = "set" => i > 1 /\ p[i - 1].op = "merge" /\ p[i - 1].node = p[i].node

IsProgram(p) == p \in Seq(Statements) /\ Paired(p)

\* What Merge, Set and Link make are statements.
LEMMA StatementTypes ==
  /\ \A n \in NodeSet : Merge(n) \in Statements
  /\ \A n \in NodeSet, value \in Texts : Set(n, value) \in Statements
  /\ \A n \in NodeSet, m \in NodeSet : Link(n, m) \in Statements
<1>1. \A n \in NodeSet : n.name \in STRING
  BY DEF NodeSet
<1> QED BY <1>1 DEF Merge, Set, Link, Statements

\* The name and the label of a node.
LEMMA NodeTypes ==
  ASSUME NEW name \in STRING, NEW label \in Labels
  PROVE  Node(label, name) \in NodeSet
BY DEF Node, NodeSet

\* Two statements per server: the i-th of them is about server (i + 1) \div 2.
LEMMA Halves ==
  ASSUME NEW n \in Nat, NEW i \in 1..(2 * n)
  PROVE  /\ (i + 1) \div 2 \in 1..n
         /\ i % 2 # 1 => i - 1 \in 1..(2 * n) /\ (i - 1) % 2 = 1 /\ (i - 1 + 1) \div 2 = (i + 1) \div 2
OBVIOUS

\* upsert_mcp_server for each server.
LEMMA LoadIsProgram ==
  ASSUME NEW servers \in Seq([name : STRING, result : Texts])
  PROVE  IsProgram(LoadProgram(servers))
<1> DEFINE n == Len(servers)
           server(i) == servers[(i + 1) \div 2]
           node(i) == Node("Tool", server(i).name)
           p == LoadProgram(servers)
<1>1. n \in Nat
  BY LenProperties
<1>2. \A i \in 1..(2 * n) : server(i) \in [name : STRING, result : Texts]
  BY <1>1, Halves, ElementOfSeq
<1>3. \A i \in 1..(2 * n) : node(i) \in NodeSet /\ server(i).result \in Texts
  BY <1>2, NodeTypes DEF Labels
<1> HIDE DEF server, node
<1>4. p = [i \in 1..(2 * n) |-> IF i % 2 = 1 THEN Merge(node(i)) ELSE Set(node(i), server(i).result)]
  BY DEF LoadProgram, server, node
<1>5. \A i \in 1..(2 * n) : p[i] \in Statements
  BY <1>3, <1>4, StatementTypes
<1>6. p \in Seq(Statements) /\ Len(p) = 2 * n
  BY <1>1, <1>4, <1>5
<1>7. ASSUME NEW i \in 1..Len(p), p[i].op = "set"
      PROVE  i > 1 /\ p[i - 1].op = "merge" /\ p[i - 1].node = p[i].node
  <2>1. i % 2 # 1 /\ p[i] = Set(node(i), server(i).result)
    BY <1>4, <1>6, <1>7 DEF Merge
  <2>2. i - 1 \in 1..(2 * n) /\ (i - 1) % 2 = 1 /\ (i - 1 + 1) \div 2 = (i + 1) \div 2
    BY <1>1, <1>6, <2>1, Halves
  <2>3. node(i - 1) = node(i)
    BY <2>2 DEF node, server
  <2>4. p[i - 1] = Merge(node(i))
    BY <1>4, <2>2, <2>3
  <2> QED BY <2>1, <2>2, <2>4 DEF Merge, Set
<1> QED BY <1>6, <1>7 DEF IsProgram, Paired

\* A sequence of links is a sequence of statements without a SET.
LEMMA Links ==
  ASSUME NEW self \in NodeSet, NEW label \in Labels, NEW names \in Seq(STRING)
  PROVE  LET p == [i \in DOMAIN names |-> Link(self, Node(label, names[i]))]
         IN  p \in Seq(Statements) /\ \A i \in 1..Len(p) : p[i].op = "link"
<1> DEFINE p == [i \in DOMAIN names |-> Link(self, Node(label, names[i]))]
<1>1. Len(names) \in Nat /\ DOMAIN names = 1..Len(names)
  BY LenProperties
<1>2. \A i \in 1..Len(names) : Node(label, names[i]) \in NodeSet
  BY NodeTypes, ElementOfSeq
<1>3. \A i \in 1..Len(names) : p[i] = Link(self, Node(label, names[i]))
  BY <1>1
<1>4. \A i \in 1..Len(names) : p[i] \in Statements
  BY <1>2, <1>3, StatementTypes
<1>5. p \in Seq(Statements) /\ Len(p) = Len(names)
  BY <1>1, <1>4
<1> QED BY <1>3, <1>5 DEF Link

\* Concatenation, for statements.
LEMMA Concat ==
  ASSUME NEW s \in Seq(Statements), NEW t \in Seq(Statements), NEW k, Len(s) = k
  PROVE  /\ s \o t \in Seq(Statements)
         /\ Len(s \o t) = k + Len(t)
         /\ \A i \in 1..(k + Len(t)) : (s \o t)[i] = IF i <= k THEN s[i] ELSE t[i - k]
BY ConcatProperties

\* upsert_agent.
LEMMA AgentIsProgram ==
  ASSUME NEW a, a.name \in STRING, a.owner \in Texts, a.tools \in Seq(STRING),
         a.apis \in Seq(STRING)
  PROVE  IsProgram(AgentProgram(a))
<1> DEFINE self == Node("Agent", a.name)
           head == <<Merge(self), Set(self, a.owner)>>
           tools == [i \in DOMAIN a.tools |-> Link(self, Node("Tool", a.tools[i]))]
           apis == [i \in DOMAIN a.apis |-> Link(self, Node("Endpoint", a.apis[i]))]
           p == head \o tools \o apis
<1>1. self \in NodeSet
  BY NodeTypes DEF Labels
<1>2. tools \in Seq(Statements) /\ \A i \in 1..Len(tools) : tools[i].op = "link"
  BY <1>1, Links DEF Labels
<1>3. apis \in Seq(Statements) /\ \A i \in 1..Len(apis) : apis[i].op = "link"
  BY <1>1, Links DEF Labels
<1>4. /\ head \in Seq(Statements) /\ Len(head) = 2
      /\ head[1] = Merge(self) /\ head[2] = Set(self, a.owner)
  BY <1>1, StatementTypes
<1> HIDE DEF self, head, tools, apis
<1>5. /\ head \o tools \in Seq(Statements)
      /\ Len(head \o tools) = 2 + Len(tools)
      /\ \A i \in 1..(2 + Len(tools)) :
           (head \o tools)[i] = IF i <= 2 THEN head[i] ELSE tools[i - 2]
  <2>1. head \in Seq(Statements) /\ tools \in Seq(Statements) /\ Len(head) = 2
    BY <1>2, <1>4
  <2>2. \A k : Len(head) = k =>
          /\ head \o tools \in Seq(Statements)
          /\ Len(head \o tools) = k + Len(tools)
          /\ \A i \in 1..(k + Len(tools)) :
               (head \o tools)[i] = IF i <= k THEN head[i] ELSE tools[i - k]
    BY <2>1, Concat
  <2> QED BY <2>1, <2>2, Zenon
<1>6. /\ p \in Seq(Statements)
      /\ Len(p) = 2 + Len(tools) + Len(apis)
      /\ \A i \in 1..(2 + Len(tools) + Len(apis)) :
           p[i] = IF i <= 2 + Len(tools) THEN (head \o tools)[i]
                  ELSE apis[i - (2 + Len(tools))]
  BY <1>3, <1>5, Concat
<1>7. Len(tools) \in Nat /\ Len(apis) \in Nat
  BY <1>2, <1>3, LenProperties
<1>8. /\ p[1] = Merge(self) /\ p[2] = Set(self, a.owner)
      /\ \A i \in 3..Len(p) : p[i].op = "link"
  <2>1. p[1] = head[1] /\ p[2] = head[2]
    BY <1>5, <1>6, <1>7
  <2>2. ASSUME NEW i \in 3..Len(p) PROVE p[i].op = "link"
    <3>1. CASE i <= 2 + Len(tools)
      <4>1. p[i] = tools[i - 2] /\ i - 2 \in 1..Len(tools)
        BY <1>5, <1>6, <1>7, <2>2, <3>1
      <4> QED BY <4>1, <1>2
    <3>2. CASE ~(i <= 2 + Len(tools))
      <4>1. p[i] = apis[i - (2 + Len(tools))] /\ i - (2 + Len(tools)) \in 1..Len(apis)
        BY <1>6, <1>7, <2>2, <3>2
      <4> QED BY <4>1, <1>3
    <3> QED BY <3>1, <3>2
  <2> QED BY <1>4, <2>1, <2>2
<1>9. Paired(p)
  <2> SUFFICES ASSUME NEW i \in 1..Len(p), p[i].op = "set"
               PROVE  i > 1 /\ p[i - 1].op = "merge" /\ p[i - 1].node = p[i].node
    BY DEF Paired
  <2>1. Len(p) \in Nat
    BY <1>6, <1>7
  <2>2. i = 2
    BY <1>8, <2>1 DEF Merge
  <2> QED BY <1>8, <2>2 DEF Merge, Set
<1>10. AgentProgram(a) = p
  BY DEF AgentProgram, p, self, head, tools, apis
<1> QED BY <1>6, <1>9, <1>10 DEF IsProgram

\* Every operation is a program.
LEMMA Programs == \A j \in Jobs : IsProgram(Prog[j])
<1> SUFFICES ASSUME NEW j \in Jobs PROVE IsProgram(Program(Work[j]))
  BY DEF Prog
<1> DEFINE w == Work[j]
<1>1. IsWork(w)
  BY WorkAssumption
<1> HIDE DEF w
<1>2. CASE w.kind = "load" /\ w.servers \in Seq([name : STRING, result : Texts])
  <2>1. Program(w) = LoadProgram(w.servers)
    BY <1>2 DEF Program
  <2> QED BY <1>2, <2>1, LoadIsProgram DEF w
<1>3. CASE /\ w.kind = "agent" /\ w.name \in STRING /\ w.owner \in Texts
           /\ w.tools \in Seq(STRING) /\ w.apis \in Seq(STRING)
  <2>1. Program(w) = AgentProgram(w)
    BY <1>3 DEF Program
  <2> QED BY <1>3, <2>1, AgentIsProgram DEF w
<1>4. CASE w.kind = "vertex" /\ w.node \in NodeSet
  <2>1. Program(w) = <<Merge(w.node)>>
    BY <1>4 DEF Program
  <2>2. Merge(w.node) \in Statements /\ w.node.name \in STRING
    BY <1>4, StatementTypes DEF NodeSet
  <2>3. Merge(w.node).op = "merge"
    BY DEF Merge
  <2> QED BY <2>1, <2>2, <2>3 DEF w, IsProgram, Paired
<1>5. CASE w.kind = "edge" /\ w.node \in NodeSet /\ w.to \in NodeSet
  <2>1. Program(w) = <<Link(w.node, w.to)>>
    BY <1>5 DEF Program
  <2>2. Link(w.node, w.to) \in Statements
    BY <1>5, StatementTypes
  <2>3. Link(w.node, w.to).op = "link"
    BY DEF Link
  <2> QED BY <2>1, <2>2, <2>3 DEF w, IsProgram, Paired
<1> QED BY <1>1, <1>2, <1>3, <1>4, <1>5 DEF IsWork

\* What the steps need to know of the programs.
LEMMA ProgramFacts ==
  ASSUME NEW j \in Jobs
  PROVE  /\ Len(Prog[j]) \in Nat
         /\ DOMAIN Prog[j] = 1..Len(Prog[j])
         /\ \A i \in 1..Len(Prog[j]) :
              /\ Prog[j][i].node \in Nodes
              /\ Prog[j][i].op \in {"merge", "set", "link"}
              /\ Prog[j][i].op = "set" =>
                   /\ Prog[j][i].text # "unset"
                   /\ i > 1 /\ Prog[j][i - 1].op = "merge"
                   /\ Prog[j][i - 1].node = Prog[j][i].node
<1>1. Prog[j] \in Seq(Statements) /\ Paired(Prog[j])
  BY Programs DEF IsProgram
<1>2. Len(Prog[j]) \in Nat /\ DOMAIN Prog[j] = 1..Len(Prog[j])
  BY <1>1, LenProperties
<1>3. ASSUME NEW i \in 1..Len(Prog[j]) PROVE Prog[j][i].node \in Nodes
  BY <1>2, <1>3 DEF Nodes
<1>4. ASSUME NEW s \in Statements
      PROVE  s.op \in {"merge", "set", "link"} /\ (s.op = "set" => s.text # "unset")
  BY DEF Statements, Texts
<1>5. \A i \in 1..Len(Prog[j]) : Prog[j][i] \in Statements
  BY <1>1, ElementOfSeq
<1> QED BY <1>1, <1>2, <1>3, <1>4, <1>5 DEF Paired

-----------------------------------------------------------------------------
(* Types.                                                                  *)

Progress == /\ pos \in [Jobs -> Nat]
            /\ \A j \in Jobs : pos[j] \in 0..Len(Prog[j])
            /\ phase \in [Jobs -> {"run", "create", "ok", "failed"}]

Contents == /\ vertices \subseteq Nodes \X Jobs
            /\ DOMAIN props = vertices
            /\ edges \subseteq vertices \X vertices

\* Inside a MERGE that found nothing, the vertex to be created is not there.
Searching == \A j \in Jobs : phase[j] = "create" =>
               /\ pos[j] < Len(Prog[j])
               /\ Stmt(j).op = "merge"
               /\ <<Stmt(j).node, j>> \notin vertices

\* A statement that takes effect moves its job on by one, and no other.
LEMMA Advance ==
  ASSUME Progress, NEW j \in Jobs, Done(j), pos[j] < Len(Prog[j])
  PROVE  /\ Progress'
         /\ \A k \in Jobs : pos'[k] = IF k = j THEN pos[k] + 1 ELSE pos[k]
         /\ phase'[j] \in {"run", "failed"}
         /\ \A k \in Jobs : k # j => phase'[k] = phase[k]
<1>1. Len(Prog[j]) \in Nat
  BY ProgramFacts
<1>2. /\ pos' = [pos EXCEPT ![j] = @ + 1]
      /\ phase' = [phase EXCEPT ![j] = "run"] \/ phase' = [phase EXCEPT ![j] = "failed"]
  BY DEF Done
<1>3. \A k \in Jobs : pos'[k] = IF k = j THEN pos[k] + 1 ELSE pos[k]
  BY <1>2 DEF Progress
<1>4. pos' \in [Jobs -> Nat]
  BY <1>2 DEF Progress
<1>5. \A k \in Jobs : pos'[k] \in 0..Len(Prog[k])
  BY <1>1, <1>3 DEF Progress
<1>6. /\ phase' \in [Jobs -> {"run", "create", "ok", "failed"}]
      /\ phase'[j] \in {"run", "failed"}
      /\ \A k \in Jobs : k # j => phase'[k] = phase[k]
  BY <1>2 DEF Progress
<1> QED BY <1>3, <1>4, <1>5, <1>6 DEF Progress

\* A step of a job moves it on, by a statement that took effect on the graph,
\* or moves nobody and leaves the graph as it is.
Moves(j) == \/ MergeMatch(j) /\ Done(j)
            \/ MergeCreate(j)
            \/ SetProperties(j)
            \/ LinkVertices(j) /\ Done(j)

Stays == UNCHANGED <<pos, vertices, props, edges>>

\* What a step that moves a job has to do with its next statement.
LEMMA Effect ==
  ASSUME Progress, Searching, NEW j \in Jobs, Moves(j)
  PROVE  /\ Done(j) /\ pos[j] < Len(Prog[j])
         /\ \/ /\ Stmt(j).op = "merge" /\ Matches(Stmt(j).node) # {}
               /\ UNCHANGED <<vertices, props, edges>>
            \/ /\ Stmt(j).op = "merge" /\ phase[j] = "create"
               /\ vertices' = vertices \cup {<<Stmt(j).node, j>>}
               /\ props' = [u \in vertices' |-> IF u = <<Stmt(j).node, j>> THEN "unset" ELSE props[u]]
               /\ UNCHANGED edges
            \/ /\ Stmt(j).op = "set"
               /\ props' = [v \in vertices |-> IF v[1] = Stmt(j).node THEN Stmt(j).text ELSE props[v]]
               /\ UNCHANGED <<vertices, edges>>
            \/ /\ Stmt(j).op = "link"
               /\ Matches(Stmt(j).node) \X Matches(Stmt(j).to) # {}
               /\ edges' = edges \cup (Matches(Stmt(j).node) \X Matches(Stmt(j).to))
               /\ UNCHANGED <<vertices, props>>
<1>1. CASE MergeMatch(j) /\ Done(j)
  <2>1. pos' # pos
    BY <1>1 DEF Done, Progress
  <2> QED BY <1>1, <2>1 DEF MergeMatch, Runs
<1>2. CASE MergeCreate(j)
  BY <1>2 DEF MergeCreate, Searching
<1>3. CASE SetProperties(j)
  BY <1>3 DEF SetProperties, Runs
<1>4. CASE LinkVertices(j) /\ Done(j)
  <2>1. pos' # pos
    BY <1>4 DEF Done, Progress
  <2> QED BY <1>4, <2>1 DEF LinkVertices, Runs, Fail
<1> QED BY <1>1, <1>2, <1>3, <1>4 DEF Moves

\* Every step moves a job or leaves everything but a phase as it is, and then
\* a job that enters a MERGE has found nothing.
LEMMA Cases ==
  ASSUME Progress, [Next]_vars
  PROVE  \/ \E j \in Jobs : Moves(j)
         \/ /\ Stays
            /\ \/ UNCHANGED phase
               \/ \E j \in Jobs : \E to \in {"create", "ok", "failed"} :
                    /\ phase' = [phase EXCEPT ![j] = to]
                    /\ to = "create" => /\ pos[j] < Len(Prog[j]) /\ Stmt(j).op = "merge"
                                        /\ Matches(Stmt(j).node) = {}
                    /\ to = "ok" => pos[j] = Len(Prog[j])
<1>1. CASE UNCHANGED vars
  BY <1>1 DEF vars, Stays
<1>3. ASSUME NEW j \in Jobs, MergeMatch(j), ~Done(j)
      PROVE  /\ Stays /\ phase' = [phase EXCEPT ![j] = "create"]
             /\ pos[j] < Len(Prog[j]) /\ Stmt(j).op = "merge" /\ Matches(Stmt(j).node) = {}
  BY <1>3 DEF MergeMatch, Runs, Stays
<1>4. ASSUME NEW j \in Jobs, LinkVertices(j), ~Done(j)
      PROVE  Stays /\ phase' = [phase EXCEPT ![j] = "failed"]
  BY <1>4 DEF LinkVertices, Stays, Fail
<1>5. ASSUME NEW j \in Jobs, Reject(j) \/ Lost(j)
      PROVE  Stays /\ phase' = [phase EXCEPT ![j] = "failed"]
  BY <1>5 DEF Reject, Lost, Stays, Fail
<1>6. ASSUME NEW j \in Jobs, Finish(j)
      PROVE  Stays /\ phase' = [phase EXCEPT ![j] = "ok"] /\ pos[j] = Len(Prog[j])
  BY <1>6 DEF Finish, Stays
<1>7. CASE Next
  <2>1. PICK j \in Jobs : \/ MergeMatch(j) \/ MergeCreate(j) \/ SetProperties(j)
                          \/ LinkVertices(j) \/ Reject(j) \/ Lost(j) \/ Finish(j)
    BY <1>7 DEF Next
  <2>2. CASE MergeMatch(j)
    BY <2>2, <1>3 DEF Moves
  <2>3. CASE MergeCreate(j) \/ SetProperties(j)
    BY <2>3 DEF Moves
  <2>4. CASE LinkVertices(j)
    BY <2>4, <1>4 DEF Moves
  <2>5. CASE Reject(j) \/ Lost(j) \/ Finish(j)
    BY <2>5, <1>5, <1>6
  <2> QED BY <2>1, <2>2, <2>3, <2>4, <2>5
<1> QED BY <1>1, <1>7

\* A statement of a program is about a node of the model.
LEMMA NextStatement ==
  ASSUME Progress, NEW j \in Jobs, pos[j] < Len(Prog[j])
  PROVE  /\ pos[j] + 1 \in 1..Len(Prog[j])
         /\ Stmt(j).node \in Nodes
         /\ Stmt(j).op = "set" => Stmt(j).text # "unset" /\ pos[j] >= 1
                                  /\ Prog[j][pos[j]].op = "merge"
                                  /\ Prog[j][pos[j]].node = Stmt(j).node
<1>1. Len(Prog[j]) \in Nat /\ pos[j] \in 0..Len(Prog[j])
  BY ProgramFacts DEF Progress
<1>2. pos[j] + 1 \in 1..Len(Prog[j]) /\ pos[j] + 1 - 1 = pos[j]
  BY <1>1
<1> QED BY <1>1, <1>2, ProgramFacts DEF Stmt

\* The jobs make progress through their programs.
LEMMA ProgressStep == Progress /\ Searching /\ [Next]_vars => Progress'
<1> SUFFICES ASSUME Progress, Searching, [Next]_vars PROVE Progress'
  OBVIOUS
<1>1. ASSUME NEW j \in Jobs, Moves(j) PROVE Progress'
  BY <1>1, Effect, Advance
<1>2. CASE /\ Stays
           /\ \/ UNCHANGED phase
              \/ \E j \in Jobs : \E to \in {"create", "ok", "failed"} :
                   phase' = [phase EXCEPT ![j] = to]
  <2>1. UNCHANGED pos /\ phase' \in [Jobs -> {"run", "create", "ok", "failed"}]
    BY <1>2 DEF Stays, Progress
  <2> QED BY <2>1 DEF Progress
<1> QED BY <1>1, <1>2, Cases

\* Vertices, properties and edges fit together.
LEMMA ContentsStep == Progress /\ Searching /\ Contents /\ [Next]_vars => Contents'
<1> SUFFICES ASSUME Progress, Searching, Contents, [Next]_vars PROVE Contents'
  OBVIOUS
<1>1. ASSUME NEW j \in Jobs, Moves(j) PROVE Contents'
  <2>1. Stmt(j).node \in Nodes
    BY <1>1, Effect, NextStatement
  <2>2. CASE UNCHANGED <<vertices, props, edges>>
    BY <2>2 DEF Contents
  <2>3. CASE /\ vertices' = vertices \cup {<<Stmt(j).node, j>>}
             /\ props' = [u \in vertices' |-> IF u = <<Stmt(j).node, j>> THEN "unset" ELSE props[u]]
             /\ UNCHANGED edges
    <3>1. DOMAIN props' = vertices'
      BY <2>3
    <3>2. vertices' \subseteq Nodes \X Jobs
      BY <2>1, <2>3 DEF Contents
    <3>3. edges' \subseteq vertices' \X vertices'
      BY <2>3 DEF Contents
    <3> QED BY <3>1, <3>2, <3>3 DEF Contents
  <2>4. CASE /\ props' = [v \in vertices |-> IF v[1] = Stmt(j).node THEN Stmt(j).text ELSE props[v]]
             /\ UNCHANGED <<vertices, edges>>
    BY <2>4 DEF Contents
  <2>5. CASE /\ edges' = edges \cup (Matches(Stmt(j).node) \X Matches(Stmt(j).to))
             /\ UNCHANGED <<vertices, props>>
    BY <2>5 DEF Contents, Matches
  <2> QED BY <1>1, Effect, <2>2, <2>3, <2>4, <2>5
<1>2. CASE Stays
  BY <1>2 DEF Stays, Contents
<1> QED BY <1>1, <1>2, Cases

\* While a job is inside a MERGE only that job could create its vertex.
LEMMA SearchingStep == Progress /\ Searching /\ [Next]_vars => Searching'
<1> SUFFICES ASSUME Progress, Searching, [Next]_vars, NEW k \in Jobs, phase'[k] = "create"
             PROVE  /\ pos'[k] < Len(Prog[k])
                    /\ Stmt(k)'.op = "merge"
                    /\ <<Stmt(k).node, k>>' \notin vertices'
  BY DEF Searching
<1>1. ASSUME NEW j \in Jobs, Moves(j)
      PROVE  /\ pos'[k] < Len(Prog[k])
             /\ Stmt(k)'.op = "merge"
             /\ <<Stmt(k).node, k>>' \notin vertices'
  <2>1. k # j /\ pos'[k] = pos[k] /\ phase[k] = "create"
    BY <1>1, Effect, Advance
  <2>2. Stmt(k)' = Stmt(k)
    BY <2>1 DEF Stmt
  <2>3. vertices' = vertices \/ vertices' = vertices \cup {<<Stmt(j).node, j>>}
    BY <1>1, Effect
  <2> QED BY <2>1, <2>2, <2>3 DEF Searching
<1>2. CASE Stays /\ UNCHANGED phase
  <2>1. pos' = pos /\ vertices' = vertices /\ Stmt(k)' = Stmt(k)
    BY <1>2 DEF Stays, Stmt
  <2> QED BY <1>2, <2>1 DEF Searching
<1>3. ASSUME Stays, NEW j \in Jobs, NEW to \in {"create", "ok", "failed"},
             phase' = [phase EXCEPT ![j] = to],
             to = "create" => /\ pos[j] < Len(Prog[j]) /\ Stmt(j).op = "merge"
                              /\ Matches(Stmt(j).node) = {}
      PROVE  /\ pos'[k] < Len(Prog[k])
             /\ Stmt(k)'.op = "merge"
             /\ <<Stmt(k).node, k>>' \notin vertices'
  <2>1. pos' = pos /\ vertices' = vertices /\ Stmt(k)' = Stmt(k)
    BY <1>3 DEF Stays, Stmt
  <2>2. CASE k = j
    <3>1. to = "create"
      BY <1>3, <2>2 DEF Progress
    <3>2. <<Stmt(j).node, j>> \notin vertices
      BY <1>3, <3>1 DEF Matches
    <3> QED BY <1>3, <2>1, <2>2, <3>1, <3>2
  <2>3. CASE k # j
    <3>1. phase[k] = "create"
      BY <1>3, <2>3 DEF Progress
    <3> QED BY <2>1, <3>1 DEF Searching
  <2> QED BY <2>2, <2>3
<1> QED BY <1>1, <1>2, <1>3, Cases

-----------------------------------------------------------------------------
(* The edges.                                                              *)

Pairs(E) == {<<e[1][1], e[2][1]>> : e \in E}
Linked(j, n) == {<<Prog[j][i].node, Prog[j][i].to>> : i \in {k \in 1..n : Prog[j][k].op = "link"}}

\* A step that moves a job adds the pair of its statement, if that links two
\* vertices, and nothing else.
LEMMA EdgesStep == Progress /\ Searching /\ EdgesAreDeclared /\ [Next]_vars => EdgesAreDeclared'
<1> SUFFICES ASSUME Progress, Searching, EdgesAreDeclared, [Next]_vars PROVE EdgesAreDeclared'
  OBVIOUS
<1>1. EdgesAreDeclared <=> Pairs(edges) = UNION {Linked(j, pos[j]) : j \in Jobs}
  BY DEF EdgesAreDeclared, Pairs, Linked
<1>2. EdgesAreDeclared' <=> Pairs(edges') = UNION {Linked(j, pos'[j]) : j \in Jobs}
  BY DEF EdgesAreDeclared, Pairs, Linked
<1>3. ASSUME NEW j \in Jobs, Moves(j) PROVE EdgesAreDeclared'
  <2>1. /\ \A k \in Jobs : k # j => pos'[k] = pos[k]
        /\ pos'[j] = pos[j] + 1 /\ pos[j] \in Nat
    BY <1>3, Effect, Advance DEF Progress
  <2>2. CASE Stmt(j).op # "link"
    <3>1. edges' = edges
      BY <1>3, <2>2, Effect
    <3>2. Linked(j, pos'[j]) = Linked(j, pos[j])
      <4>1. {i \in 1..(pos[j] + 1) : Prog[j][i].op = "link"} = {i \in 1..pos[j] : Prog[j][i].op = "link"}
        BY <2>1, <2>2 DEF Stmt
      <4> QED BY <2>1, <4>1 DEF Linked
    <3>3. \A k \in Jobs : Linked(k, pos'[k]) = Linked(k, pos[k])
      BY <2>1, <3>2
    <3> QED BY <1>1, <1>2, <3>1, <3>3
  <2>3. CASE Stmt(j).op = "link"
    <3> DEFINE pair == <<Stmt(j).node, Stmt(j).to>>
    <3>1. Pairs(edges') = Pairs(edges) \cup {pair}
      <4> DEFINE new == Matches(Stmt(j).node) \X Matches(Stmt(j).to)
      <4>1. new # {} /\ edges' = edges \cup new
        BY <1>3, <2>3, Effect
      <4>2. \A e \in new : <<e[1][1], e[2][1]>> = pair
        BY DEF Matches
      <4>3. Pairs(edges \cup new) = Pairs(edges) \cup Pairs(new)
        BY DEF Pairs
      <4>4. Pairs(new) = {pair}
        BY <4>1, <4>2 DEF Pairs
      <4> QED BY <4>1, <4>3, <4>4
    <3>2. Linked(j, pos'[j]) = Linked(j, pos[j]) \cup {pair}
      <4>1. {i \in 1..(pos[j] + 1) : Prog[j][i].op = "link"}
              = {i \in 1..pos[j] : Prog[j][i].op = "link"} \cup {pos[j] + 1}
        BY <2>1, <2>3 DEF Stmt
      <4> QED BY <2>1, <4>1 DEF Linked, Stmt
    <3>3. \A k \in Jobs : k # j => Linked(k, pos'[k]) = Linked(k, pos[k])
      BY <2>1
    <3> HIDE DEF pair
    <3>4. \A x : (\E k \in Jobs : x \in Linked(k, pos'[k]))
                  <=> x = pair \/ \E k \in Jobs : x \in Linked(k, pos[k])
      BY <3>2, <3>3
    <3> DEFINE before == UNION {Linked(k, pos[k]) : k \in Jobs}
               after == UNION {Linked(k, pos'[k]) : k \in Jobs}
    <3>5. /\ \A x : x \in before <=> \E k \in Jobs : x \in Linked(k, pos[k])
          /\ \A x : x \in after <=> \E k \in Jobs : x \in Linked(k, pos'[k])
      OBVIOUS
    <3>6. Pairs(edges) = before
      BY <1>1
    <3>7. Pairs(edges') = after <=> EdgesAreDeclared'
      BY <1>2
    <3> HIDE DEF before, after
    <3>8. after = before \cup {pair}
      BY <3>4, <3>5
    <3> QED BY <3>1, <3>6, <3>7, <3>8
  <2> QED BY <2>2, <2>3
<1>4. CASE Stays
  BY <1>4 DEF Stays, EdgesAreDeclared
<1> QED BY <1>3, <1>4, Cases

-----------------------------------------------------------------------------
(* What operations leave behind.                                           *)

Written == \A j \in Jobs : /\ \A i \in 1..pos[j] : Visible(Prog[j][i])
                           /\ phase[j] = "ok" => pos[j] = Len(Prog[j])

\* What shows of a statement, by its kind.
LEMMA VisibleKinds ==
  ASSUME NEW s
  PROVE  /\ s.op = "merge" => (Visible(s) <=> Matches(s.node) # {})
         /\ s.op = "set" => (Visible(s) <=> \E v \in Matches(s.node) : props[v] # "unset")
         /\ s.op = "link" => (Visible(s) <=> \E e \in edges : e[1][1] = s.node /\ e[2][1] = s.to)
         /\ s.op = "merge" => (Visible(s)' <=> Matches(s.node)' # {})
         /\ s.op = "set" => (Visible(s)' <=> \E v \in Matches(s.node)' : props'[v] # "unset")
         /\ s.op = "link" => (Visible(s)' <=> \E e \in edges' : e[1][1] = s.node /\ e[2][1] = s.to)
BY DEF Visible

\* Nothing that shows of a statement is undone by a step.
LEMMA NothingUndone ==
  ASSUME Progress, Searching, NEW j \in Jobs, Moves(j), NEW s,
         s.op \in {"merge", "set", "link"}, Visible(s)
  PROVE  Visible(s)'
<1>1. /\ Stmt(j).op = "set" => Stmt(j).text # "unset"
      /\ pos[j] < Len(Prog[j])
  BY Effect, NextStatement
<1>2. CASE UNCHANGED <<vertices, props, edges>>
  BY <1>2 DEF Visible, Matches
<1>3. CASE /\ phase[j] = "create"
           /\ vertices' = vertices \cup {<<Stmt(j).node, j>>}
           /\ props' = [u \in vertices' |-> IF u = <<Stmt(j).node, j>> THEN "unset" ELSE props[u]]
           /\ UNCHANGED edges
  <2>1. \A v \in vertices : v \in vertices' /\ props'[v] = props[v]
    BY <1>3 DEF Searching
  <2>2. Matches(s.node) \subseteq Matches(s.node)'
    BY <2>1 DEF Matches
  <2>3. \A v \in Matches(s.node) : props'[v] = props[v]
    BY <2>1 DEF Matches
  <2> QED BY <1>3, <2>2, <2>3, VisibleKinds
<1>4. CASE /\ Stmt(j).op = "set"
           /\ props' = [v \in vertices |-> IF v[1] = Stmt(j).node THEN Stmt(j).text ELSE props[v]]
           /\ UNCHANGED <<vertices, edges>>
  <2>1. \A v \in vertices : props[v] # "unset" => props'[v] # "unset"
    BY <1>1, <1>4
  <2>2. Matches(s.node)' = Matches(s.node) /\ Matches(s.node) \subseteq vertices
    BY <1>4 DEF Matches
  <2> QED BY <1>4, <2>1, <2>2, VisibleKinds
<1>5. CASE /\ edges' = edges \cup (Matches(Stmt(j).node) \X Matches(Stmt(j).to))
           /\ UNCHANGED <<vertices, props>>
  <2>1. Matches(s.node)' = Matches(s.node)
    BY <1>5 DEF Matches
  <2> QED BY <1>5, <2>1, VisibleKinds
<1> QED BY Effect, <1>2, <1>3, <1>4, <1>5

\* A statement that took effect shows.
LEMMA NowVisible ==
  ASSUME Progress, Searching, Written, NEW j \in Jobs, Moves(j), NEW s, s = Stmt(j)
  PROVE  Visible(s)'
<1>1. pos[j] < Len(Prog[j]) /\ pos[j] \in Nat
  BY Effect DEF Progress
<1>2. CASE s.op = "merge" /\ Matches(s.node) # {} /\ UNCHANGED <<vertices, props, edges>>
  <2>1. Matches(s.node)' # {}
    BY <1>2 DEF Matches
  <2> QED BY <1>2, <2>1, VisibleKinds
<1>3. CASE s.op = "merge" /\ vertices' = vertices \cup {<<s.node, j>>}
  <2>1. <<s.node, j>> \in Matches(s.node)'
    BY <1>3 DEF Matches
  <2> QED BY <1>3, <2>1, VisibleKinds
<1>4. CASE /\ s.op = "set"
           /\ props' = [v \in vertices |-> IF v[1] = s.node THEN s.text ELSE props[v]]
           /\ UNCHANGED <<vertices, edges>>
  <2>1. /\ s.text # "unset" /\ pos[j] >= 1
        /\ Prog[j][pos[j]].op = "merge" /\ Prog[j][pos[j]].node = s.node
    BY <1>1, <1>4, NextStatement
  <2>2. Visible(Prog[j][pos[j]])
    BY <1>1, <2>1 DEF Written
  <2>3. PICK v \in Matches(s.node) : TRUE
    BY <2>1, <2>2, VisibleKinds
  <2>4. v \in Matches(s.node)' /\ props'[v] = s.text
    BY <1>4, <2>3 DEF Matches
  <2> QED BY <1>4, <2>1, <2>4, VisibleKinds
<1>5. CASE /\ s.op = "link"
           /\ Matches(s.node) \X Matches(s.to) # {}
           /\ edges' = edges \cup (Matches(s.node) \X Matches(s.to))
  <2>1. PICK v \in Matches(s.node), w \in Matches(s.to) : TRUE
    BY <1>5
  <2>2. <<v, w>> \in edges' /\ v[1] = s.node /\ w[1] = s.to
    BY <1>5, <2>1 DEF Matches
  <2> QED BY <1>5, <2>2, VisibleKinds
<1> QED BY Effect, <1>2, <1>3, <1>4, <1>5

\* What an operation got past stays in the graph.
LEMMA WrittenStep == Progress /\ Searching /\ Written /\ [Next]_vars => Written'
<1> SUFFICES ASSUME Progress, Searching, Written, [Next]_vars PROVE Written'
  OBVIOUS
<1>1. \A k \in Jobs : pos[k] \in Nat /\ pos[k] <= Len(Prog[k]) /\ Len(Prog[k]) \in Nat
  BY ProgramFacts DEF Progress
<1>2. ASSUME NEW j \in Jobs, Moves(j) PROVE Written'
  <2>1. /\ pos'[j] = pos[j] + 1 /\ phase'[j] # "ok"
        /\ \A k \in Jobs : k # j => pos'[k] = pos[k] /\ phase'[k] = phase[k]
        /\ pos[j] < Len(Prog[j])
    BY <1>2, Effect, Advance
  <2>2. ASSUME NEW k \in Jobs, NEW i \in 1..pos[k] PROVE Visible(Prog[k][i])'
    <3>1. Visible(Prog[k][i]) /\ Prog[k][i].op \in {"merge", "set", "link"}
      BY <1>1, <2>2, ProgramFacts DEF Written
    <3> QED BY <1>2, <3>1, NothingUndone
  <2>3. ASSUME NEW i, i = pos[j] + 1 PROVE Visible(Prog[j][i])'
    BY <1>2, <2>3, NowVisible DEF Stmt
  <2>4. ASSUME NEW k \in Jobs, NEW i \in 1..pos'[k] PROVE Visible(Prog[k][i])'
    <3>1. i \in 1..pos[k] \/ (k = j /\ i = pos[j] + 1)
      BY <1>1, <2>1, <2>4
    <3> QED BY <2>2, <2>3, <3>1
  <2>5. ASSUME NEW k \in Jobs, phase'[k] = "ok" PROVE pos'[k] = Len(Prog[k])
    BY <2>1, <2>5 DEF Written
  <2> QED BY <2>4, <2>5 DEF Written
<1>3. CASE /\ Stays
           /\ \/ UNCHANGED phase
              \/ \E j \in Jobs : \E to \in {"create", "ok", "failed"} :
                   /\ phase' = [phase EXCEPT ![j] = to]
                   /\ to = "ok" => pos[j] = Len(Prog[j])
  <2>1. pos' = pos
    BY <1>3 DEF Stays
  <2>2. ASSUME NEW k \in Jobs, NEW i \in 1..pos[k] PROVE Visible(Prog[k][i])'
    <3>1. Visible(Prog[k][i])
      BY <2>2 DEF Written
    <3> QED BY <1>3, <3>1 DEF Stays, Visible, Matches
  <2>3. \A k \in Jobs : phase'[k] = "ok" => phase[k] = "ok" \/ pos[k] = Len(Prog[k])
    BY <1>3 DEF Progress
  <2> QED BY <2>1, <2>2, <2>3 DEF Written
<1> QED BY <1>2, <1>3, Cases

-----------------------------------------------------------------------------
(* Vertices nobody describes.                                              *)

\* Once inside a MERGE, a job has not yet SET anything on that node.
FreshMerge ==
  \A j \in Jobs : phase[j] = "create" =>
    \A i \in 1..pos[j] : ~(Prog[j][i].op = "set" /\ Prog[j][i].node = Stmt(j).node)

\* A job that had SET something on a node would have found it.
LEMMA FreshMergeStep ==
  Progress /\ Searching /\ Written /\ FreshMerge /\ [Next]_vars => FreshMerge'
<1> SUFFICES ASSUME Progress, Searching, Written, FreshMerge, [Next]_vars,
                    NEW k \in Jobs, phase'[k] = "create", NEW i \in 1..pos'[k]
             PROVE  ~(Prog[k][i].op = "set" /\ Prog[k][i].node = Stmt(k)'.node)
  BY DEF FreshMerge
<1>1. ASSUME NEW j \in Jobs, Moves(j) PROVE ~(Prog[k][i].op = "set" /\ Prog[k][i].node = Stmt(k)'.node)
  <2>1. k # j /\ pos'[k] = pos[k] /\ phase[k] = "create"
    BY <1>1, Effect, Advance
  <2>2. Stmt(k)' = Stmt(k)
    BY <2>1 DEF Stmt
  <2> QED BY <2>1, <2>2 DEF FreshMerge
<1>2. ASSUME Stays, UNCHANGED phase PROVE ~(Prog[k][i].op = "set" /\ Prog[k][i].node = Stmt(k)'.node)
  <2>1. pos' = pos /\ Stmt(k)' = Stmt(k)
    BY <1>2 DEF Stays, Stmt
  <2> QED BY <1>2, <2>1 DEF FreshMerge
<1>3. ASSUME Stays, NEW j \in Jobs, NEW to \in {"create", "ok", "failed"},
             phase' = [phase EXCEPT ![j] = to],
             to = "create" => Matches(Stmt(j).node) = {}
      PROVE  ~(Prog[k][i].op = "set" /\ Prog[k][i].node = Stmt(k)'.node)
  <2>1. pos' = pos /\ Stmt(k)' = Stmt(k)
    BY <1>3 DEF Stays, Stmt
  <2>2. CASE k = j
    <3>1. Matches(Stmt(j).node) = {}
      BY <1>3, <2>2 DEF Progress
    <3>2. Visible(Prog[k][i])
      BY <2>1 DEF Written
    <3> QED BY <2>1, <2>2, <3>1, <3>2, VisibleKinds
  <2>3. CASE k # j
    <3>1. phase[k] = "create"
      BY <1>3, <2>3 DEF Progress
    <3> QED BY <2>1, <3>1 DEF FreshMerge
  <2> QED BY <2>2, <2>3
<1> QED BY <1>1, <1>2, <1>3, Cases

\* Only the creation of a vertex leaves it bare, and a SET of the job that
\* created it describes it.
LEMMA BareStep ==
  Progress /\ Searching /\ Contents /\ FreshMerge /\ BareIsUnfinished /\ [Next]_vars => BareIsUnfinished'
<1> SUFFICES ASSUME Progress, Searching, Contents, FreshMerge, BareIsUnfinished, [Next]_vars
             PROVE  BareIsUnfinished'
  OBVIOUS
<1>0. \A v \in vertices' : v[2] \in Jobs /\ DOMAIN Prog[v[2]] = 1..Len(Prog[v[2]])
  BY ContentsStep, ProgramFacts DEF Contents
<1> SUFFICES ASSUME NEW v \in vertices', props'[v] = "unset", v[2] \in Jobs,
                    NEW i \in 1..Len(Prog[v[2]]), Prog[v[2]][i].op = "set",
                    Prog[v[2]][i].node = v[1]
             PROVE  pos'[v[2]] < i
  BY <1>0 DEF BareIsUnfinished
<1>1. \A k \in Jobs : pos[k] \in Nat /\ Len(Prog[k]) \in Nat
  BY ProgramFacts DEF Progress
<1>2. ASSUME v \in vertices, props[v] = "unset" PROVE pos[v[2]] < i
  <2>1. i \in DOMAIN Prog[v[2]]
    BY ProgramFacts
  <2> QED BY <1>2, <2>1 DEF BareIsUnfinished
<1>3. ASSUME NEW j \in Jobs, Moves(j) PROVE pos'[v[2]] < i
  <2>1. \A k \in Jobs : pos'[k] = IF k = j THEN pos[k] + 1 ELSE pos[k]
    BY <1>3, Effect, Advance
  <2>2. ASSUME v \in vertices, props[v] = "unset", v[2] = j => ~(Stmt(j).op = "set" /\ Stmt(j).node = v[1])
        PROVE  pos'[v[2]] < i
    <3>1. pos[v[2]] < i
      BY <1>2, <2>2
    <3>2. v[2] = j => i # pos[j] + 1
      BY <2>2 DEF Stmt
    <3> QED BY <1>1, <2>1, <3>1, <3>2
  <2>3. CASE Stmt(j).op # "set" /\ UNCHANGED <<vertices, props>>
    BY <2>2, <2>3
  <2>4. CASE /\ Stmt(j).op = "merge" /\ phase[j] = "create"
             /\ vertices' = vertices \cup {<<Stmt(j).node, j>>}
             /\ props' = [u \in vertices' |-> IF u = <<Stmt(j).node, j>> THEN "unset" ELSE props[u]]
    <3>1. CASE v = <<Stmt(j).node, j>>
      <4>1. ~(i \in 1..pos[j])
        BY <2>4, <3>1 DEF FreshMerge
      <4>2. i # pos[j] + 1
        BY <2>4, <3>1 DEF Stmt
      <4> QED BY <1>1, <2>1, <3>1, <4>1, <4>2
    <3>2. CASE v # <<Stmt(j).node, j>>
      BY <2>2, <2>4, <3>2
    <3> QED BY <3>1, <3>2
  <2>5. CASE /\ Stmt(j).op = "set"
             /\ props' = [u \in vertices |-> IF u[1] = Stmt(j).node THEN Stmt(j).text ELSE props[u]]
             /\ UNCHANGED vertices
    <3>1. Stmt(j).text # "unset"
      BY <1>3, <2>5, Effect, NextStatement
    <3>2. v[1] # Stmt(j).node /\ props[v] = "unset"
      BY <2>5, <3>1
    <3> QED BY <2>2, <2>5, <3>2
  <2> QED BY <1>3, Effect, <2>3, <2>4, <2>5
<1>4. CASE Stays
  BY <1>2, <1>4 DEF Stays
<1> QED BY <1>3, <1>4, Cases

-----------------------------------------------------------------------------
(* The theorems.                                                           *)

\* Nobody has got past a statement at the start.
LEMMA NothingYet == Init => \A j \in Jobs : 1..pos[j] = {}
<1> SUFFICES ASSUME Init, NEW j \in Jobs PROVE 1..pos[j] = {}
  OBVIOUS
<1>1. pos[j] = 0
  BY DEF Init
<1>2. 1..0 = {}
  OBVIOUS
<1> QED BY <1>1, <1>2, Zenon

\* Everything together is inductive.
LEMMA GraphInvariant ==
  Spec => [](Progress /\ Searching /\ Contents /\ EdgesAreDeclared /\ Written /\ FreshMerge
             /\ BareIsUnfinished)
<1>1. Init => Progress
  <2>1. \A j \in Jobs : Len(Prog[j]) \in Nat
    BY ProgramFacts
  <2> QED BY <2>1 DEF Init, Progress
<1>2. Init => Searching /\ Contents /\ FreshMerge /\ BareIsUnfinished
  BY DEF Init, Searching, Contents, FreshMerge, BareIsUnfinished
<1>3. Init => EdgesAreDeclared
  <2> SUFFICES ASSUME Init PROVE EdgesAreDeclared
    OBVIOUS
  <2>1. \A j \in Jobs : 1..pos[j] = {}
    BY NothingYet
  <2>2. \A j \in Jobs : {k \in 1..pos[j] : Prog[j][k].op = "link"} = {}
    BY <2>1
  <2> QED BY <2>2 DEF Init, EdgesAreDeclared
<1>4. Init => Written
  <2>1. Init => \A j \in Jobs : 1..pos[j] = {} /\ phase[j] # "ok"
    BY NothingYet DEF Init
  <2> QED BY <2>1 DEF Written
<1> QED BY <1>1, <1>2, <1>3, <1>4, ProgressStep, SearchingStep, ContentsStep, EdgesStep,
          WrittenStep, FreshMergeStep, BareStep, PTL DEF Spec

\* Only jobs are stopped.
Stopped == faulted \subseteq Jobs

\* A step stops at most the job that takes it.
LEMMA StoppedStep == Stopped /\ [Next]_vars => Stopped'
<1> SUFFICES ASSUME faulted \subseteq Jobs, [Next]_vars PROVE faulted' \subseteq Jobs
  BY DEF Stopped
<1>1. ASSUME NEW j \in Jobs, Done(j) \/ UNCHANGED faulted \/ faulted' = faulted \cup {j}
      PROVE  faulted' \subseteq Jobs
  BY <1>1 DEF Done
<1>2. ASSUME NEW j \in Jobs,
             \/ MergeMatch(j) \/ MergeCreate(j) \/ SetProperties(j)
             \/ LinkVertices(j) \/ Reject(j) \/ Lost(j) \/ Finish(j)
      PROVE  Done(j) \/ UNCHANGED faulted \/ faulted' = faulted \cup {j}
  BY <1>2 DEF MergeMatch, MergeCreate, SetProperties, LinkVertices, Reject, Lost, Finish
<1>3. CASE UNCHANGED vars
  BY <1>3 DEF vars
<1> QED BY <1>1, <1>2, <1>3 DEF Next

\* Jobs stay in their programs, and vertices, properties and edges fit together,
\* whatever the jobs, their faults and the interleaving of their statements.
THEOREM GraphTypes == Spec => []TypeOK
<1>1. Init => Stopped
  BY DEF Init, Stopped
<1>2. Progress /\ Contents /\ Stopped => TypeOK
  BY DEF Progress, Contents, Stopped, TypeOK
<1>3. Spec => []Stopped
  BY <1>1, StoppedStep, PTL DEF Spec
<1> QED BY <1>2, <1>3, GraphInvariant, PTL

\* Between two nodes there is an edge exactly if some job got past the statement
\* that links them: upsert_edge wires nothing silently and loses nothing.
THEOREM EdgesAreThoseDeclared == Spec => []EdgesAreDeclared
BY GraphInvariant, PTL

\* What an operation that answered Ok was asked to write is in the graph and
\* stays there, for any number of writers that race, fail or die: neither MERGE
\* nor SET nor another writer undoes it.
THEOREM OkStaysWritten == Spec => []OkIsWritten
<1>1. Written => OkIsWritten
  <2> SUFFICES ASSUME Written, NEW j \in Jobs, phase[j] = "ok", NEW i \in DOMAIN Prog[j]
               PROVE  Visible(Prog[j][i])
    BY DEF OkIsWritten
  <2> QED BY ProgramFacts DEF Written
<1> QED BY <1>1, GraphInvariant, PTL

\* A vertex without properties is the work of a job that has not got to its SET:
\* two MERGEs that race on one name leave no vertex that nobody describes.
THEOREM BareVerticesAreUnfinished == Spec => []BareIsUnfinished
BY GraphInvariant, PTL

-----------------------------------------------------------------------------
(* The two queries follow the same paths, one from each end.               *)

\* Induction, for properties given as the set of the numbers that have them.
LEMMA SetInduction ==
  ASSUME NEW S, 0 \in S, \A n \in Nat : n \in S => n + 1 \in S
  PROVE  Nat \subseteq S
<1> SUFFICES ASSUME Nat \ S # {} PROVE FALSE
  OBVIOUS
<1> DEFINE T == Nat \ S
<1>1. PICK x \in T : \A y \in T : <<y, x>> \notin OpToRel(<, Nat)
  <2>1. T \subseteq Nat /\ T # {}
    OBVIOUS
  <2> HIDE DEF T
  <2> QED BY <2>1, NatLessThanWellFounded, WFMin
<1>2. x \in Nat /\ x # 0 /\ x \notin S
  BY <1>1
<1>3. x - 1 \in Nat /\ x - 1 < x
  BY <1>2
<1>4. <<x - 1, x>> \in OpToRel(<, Nat)
  BY <1>2, <1>3 DEF OpToRel
<1>5. x - 1 \in S
  BY <1>1, <1>3, <1>4
<1>6. (x - 1) + 1 \in S
  BY <1>3, <1>5
<1> QED BY <1>2, <1>6

\* What a query gathers hop by hop: w[k] is what k hops lead to, or come from.
IsOutward(w, S, n) ==
  w = [k \in 0..n |-> IF k = 0 THEN S ELSE Successors(w[k-1])]
IsInward(w, S, n) ==
  w = [k \in 0..n |-> IF k = 0 THEN S ELSE Predecessors(w[k-1])]

\* Each query has its walk: the recursion in it has a solution.
LEMMA OutwardExists ==
  ASSUME NEW S, NEW n \in Nat
  PROVE  \E w : IsOutward(w, S, n)
<1> DEFINE Good == {m \in Nat : \E w : IsOutward(w, S, m)}
<1>1. 0 \in Good
  <2> DEFINE w == [k \in 0..0 |-> S]
  <2>1. w = [k \in 0..0 |-> IF k = 0 THEN S ELSE Successors(w[k-1])]
    <3>1. \A k \in 0..0 : k = 0
      OBVIOUS
    <3> QED BY <3>1
  <2> HIDE DEF w
  <2> QED BY <2>1 DEF IsOutward
<1>2. ASSUME NEW m \in Nat, m \in Good PROVE m + 1 \in Good
  <2>1. PICK w : IsOutward(w, S, m)
    BY <1>2
  <2> DEFINE v == [k \in 0..(m + 1) |-> IF k = m + 1 THEN Successors(w[m]) ELSE w[k]]
  <2>2. \A k \in 0..m : w[k] = IF k = 0 THEN S ELSE Successors(w[k-1])
    BY <2>1 DEF IsOutward
  <2>3. \A k \in 0..m : v[k] = w[k]
    OBVIOUS
  <2>4. v[m + 1] = Successors(w[m])
    OBVIOUS
  <2>5. v = [k \in 0..(m + 1) |-> v[k]]
    OBVIOUS
  <2> HIDE DEF v
  <2>6. \A k \in 0..(m + 1) : v[k] = IF k = 0 THEN S ELSE Successors(v[k-1])
    <3> SUFFICES ASSUME NEW k \in 0..(m + 1)
                 PROVE  v[k] = IF k = 0 THEN S ELSE Successors(v[k-1])
      OBVIOUS
    <3>1. CASE k = m + 1
      <4>1. k # 0 /\ k - 1 = m /\ m \in 0..m
        BY <3>1
      <4> QED BY <2>3, <2>4, <3>1, <4>1
    <3>2. CASE k = 0
      BY <2>2, <2>3, <3>2
    <3>3. CASE k # m + 1 /\ k # 0
      <4>1. k \in 0..m /\ k - 1 \in 0..m
        BY <3>3
      <4> QED BY <2>2, <2>3, <3>3, <4>1
    <3> QED BY <3>1, <3>2, <3>3
  <2>7. v = [k \in 0..(m + 1) |-> IF k = 0 THEN S ELSE Successors(v[k-1])]
    BY <2>5, <2>6
  <2>8. IsOutward(v, S, m + 1)
    BY <2>7 DEF IsOutward
  <2> QED BY <2>8
<1> HIDE DEF Good
<1>3. Nat \subseteq Good
  BY <1>1, <1>2, SetInduction
<1> QED BY <1>3 DEF Good

\* The same for the other direction.
LEMMA InwardExists ==
  ASSUME NEW S, NEW n \in Nat
  PROVE  \E w : IsInward(w, S, n)
<1> DEFINE Good == {m \in Nat : \E w : IsInward(w, S, m)}
<1>1. 0 \in Good
  <2> DEFINE w == [k \in 0..0 |-> S]
  <2>1. w = [k \in 0..0 |-> IF k = 0 THEN S ELSE Predecessors(w[k-1])]
    <3>1. \A k \in 0..0 : k = 0
      OBVIOUS
    <3> QED BY <3>1
  <2> HIDE DEF w
  <2> QED BY <2>1 DEF IsInward
<1>2. ASSUME NEW m \in Nat, m \in Good PROVE m + 1 \in Good
  <2>1. PICK w : IsInward(w, S, m)
    BY <1>2
  <2> DEFINE v == [k \in 0..(m + 1) |-> IF k = m + 1 THEN Predecessors(w[m]) ELSE w[k]]
  <2>2. \A k \in 0..m : w[k] = IF k = 0 THEN S ELSE Predecessors(w[k-1])
    BY <2>1 DEF IsInward
  <2>3. \A k \in 0..m : v[k] = w[k]
    OBVIOUS
  <2>4. v[m + 1] = Predecessors(w[m])
    OBVIOUS
  <2>5. v = [k \in 0..(m + 1) |-> v[k]]
    OBVIOUS
  <2> HIDE DEF v
  <2>6. \A k \in 0..(m + 1) : v[k] = IF k = 0 THEN S ELSE Predecessors(v[k-1])
    <3> SUFFICES ASSUME NEW k \in 0..(m + 1)
                 PROVE  v[k] = IF k = 0 THEN S ELSE Predecessors(v[k-1])
      OBVIOUS
    <3>1. CASE k = m + 1
      <4>1. k # 0 /\ k - 1 = m /\ m \in 0..m
        BY <3>1
      <4> QED BY <2>3, <2>4, <3>1, <4>1
    <3>2. CASE k = 0
      BY <2>2, <2>3, <3>2
    <3>3. CASE k # m + 1 /\ k # 0
      <4>1. k \in 0..m /\ k - 1 \in 0..m
        BY <3>3
      <4> QED BY <2>2, <2>3, <3>3, <4>1
    <3> QED BY <3>1, <3>2, <3>3
  <2>7. v = [k \in 0..(m + 1) |-> IF k = 0 THEN S ELSE Predecessors(v[k-1])]
    BY <2>5, <2>6
  <2>8. IsInward(v, S, m + 1)
    BY <2>7 DEF IsInward
  <2> QED BY <2>8
<1> HIDE DEF Good
<1>3. Nat \subseteq Good
  BY <1>1, <1>2, SetInduction
<1> QED BY <1>3 DEF Good

\* A path of k hops: p[0] to p[k] along edges.
IsPath(p, k) == \A i \in 0..(k - 1) : <<p[i], p[i + 1]>> \in edges

\* What is found within k hops outward is at the end of a path.
LEMMA OutwardIsPath ==
  ASSUME NEW S, NEW n \in Nat, NEW w, IsOutward(w, S, n), edges \subseteq vertices \X vertices
  PROVE  \A k \in 0..n : \A x \in w[k] :
           \E p \in [0..k -> S \cup vertices] : p[0] \in S /\ p[k] = x /\ IsPath(p, k)
<1> DEFINE Leads(k, x) ==
             \E p \in [0..k -> S \cup vertices] : p[0] \in S /\ p[k] = x /\ IsPath(p, k)
           Good == {m \in Nat : m \in 0..n => \A x \in w[m] : Leads(m, x)}
<1>1. \A k \in 0..n : w[k] = IF k = 0 THEN S ELSE Successors(w[k-1])
  BY DEF IsOutward
<1>2. 0 \in Good
  <2> SUFFICES ASSUME NEW x \in S PROVE Leads(0, x)
    BY <1>1
  <2> DEFINE p == [i \in 0..0 |-> x]
  <2>1. p \in [0..0 -> S \cup vertices] /\ p[0] = x
    OBVIOUS
  <2>2. IsPath(p, 0)
    BY DEF IsPath
  <2> HIDE DEF p
  <2> QED BY <2>1, <2>2
<1>3. ASSUME NEW m \in Nat, m \in Good PROVE m + 1 \in Good
  <2> SUFFICES ASSUME m + 1 \in 0..n, NEW x \in w[m + 1] PROVE Leads(m + 1, x)
    BY DEF Good
  <2>1. w[m + 1] = Successors(w[m]) /\ m \in 0..n
    BY <1>1
  <2>2. PICK e \in edges : e[1] \in w[m] /\ e[2] = x
    BY <2>1 DEF Successors
  <2>3. e = <<e[1], x>> /\ x \in vertices
    BY <2>2
  <2>4. PICK p \in [0..m -> S \cup vertices] : p[0] \in S /\ p[m] = e[1] /\ IsPath(p, m)
    BY <1>3, <2>1, <2>2
  <2> DEFINE q == [i \in 0..(m + 1) |-> IF i = m + 1 THEN x ELSE p[i]]
  <2>5. q \in [0..(m + 1) -> S \cup vertices]
    <3>1. \A i \in 0..(m + 1) : i # m + 1 => i \in 0..m
      OBVIOUS
    <3> QED BY <2>3, <2>4, <3>1
  <2>6. q[m + 1] = x /\ \A i \in 0..m : q[i] = p[i]
    OBVIOUS
  <2> HIDE DEF q
  <2>7. IsPath(q, m + 1)
    <3> SUFFICES ASSUME NEW i \in 0..m PROVE <<q[i], q[i + 1]>> \in edges
      <4>1. 0..((m + 1) - 1) = 0..m
        OBVIOUS
      <4> QED BY <4>1 DEF IsPath
    <3>1. CASE i = m
      BY <2>2, <2>3, <2>4, <2>6, <3>1
    <3>2. CASE i # m
      <4>1. i \in 0..(m - 1) /\ i + 1 \in 0..m
        BY <3>2
      <4> QED BY <2>4, <2>6, <4>1 DEF IsPath
    <3> QED BY <3>1, <3>2
  <2>8. q[0] \in S
    BY <2>4, <2>6
  <2> QED BY <2>5, <2>6, <2>7, <2>8
<1> HIDE DEF Good, Leads
<1>4. Nat \subseteq Good
  BY <1>2, <1>3, SetInduction
<1>5. \A k \in 0..n : k \in Good
  BY <1>4
<1>6. \A k \in 0..n : \A x \in w[k] : Leads(k, x)
  BY <1>5 DEF Good
<1> QED BY <1>6 DEF Leads

\* A path from S is followed outward to its end.
LEMMA PathIsOutward ==
  ASSUME NEW S, NEW n \in Nat, NEW w, IsOutward(w, S, n), NEW k \in 0..n,
         NEW p, p[0] \in S, IsPath(p, k)
  PROVE  p[k] \in w[k]
<1> DEFINE Good == {m \in Nat : m \in 0..k => p[m] \in w[m]}
<1>1. \A i \in 0..n : w[i] = IF i = 0 THEN S ELSE Successors(w[i-1])
  BY DEF IsOutward
<1>2. 0 \in Good
  BY <1>1
<1>3. ASSUME NEW m \in Nat, m \in Good PROVE m + 1 \in Good
  <2> SUFFICES ASSUME m + 1 \in 0..k PROVE p[m + 1] \in w[m + 1]
    BY DEF Good
  <2>1. m \in 0..(k - 1) /\ m \in 0..k /\ m + 1 \in 0..n /\ (m + 1) - 1 = m
    OBVIOUS
  <2>2. <<p[m], p[m + 1]>> \in edges
    BY <2>1 DEF IsPath
  <2>3. p[m] \in w[m]
    BY <1>3, <2>1
  <2>4. w[m + 1] = Successors(w[m])
    BY <1>1, <2>1
  <2> QED BY <2>2, <2>3, <2>4 DEF Successors
<1> HIDE DEF Good
<1>4. Nat \subseteq Good
  BY <1>2, <1>3, SetInduction
<1> QED BY <1>4 DEF Good

\* What is found within k hops inward is at the start of a path.
LEMMA InwardIsPath ==
  ASSUME NEW S, NEW n \in Nat, NEW w, IsInward(w, S, n), edges \subseteq vertices \X vertices
  PROVE  \A k \in 0..n : \A x \in w[k] :
           \E p \in [0..k -> S \cup vertices] : p[0] = x /\ p[k] \in S /\ IsPath(p, k)
<1> DEFINE Comes(k, x) ==
             \E p \in [0..k -> S \cup vertices] : p[0] = x /\ p[k] \in S /\ IsPath(p, k)
           Good == {m \in Nat : m \in 0..n => \A x \in w[m] : Comes(m, x)}
<1>1. \A k \in 0..n : w[k] = IF k = 0 THEN S ELSE Predecessors(w[k-1])
  BY DEF IsInward
<1>2. 0 \in Good
  <2> SUFFICES ASSUME NEW x \in S PROVE Comes(0, x)
    BY <1>1
  <2> DEFINE p == [i \in 0..0 |-> x]
  <2>1. p \in [0..0 -> S \cup vertices] /\ p[0] = x
    OBVIOUS
  <2>2. IsPath(p, 0)
    BY DEF IsPath
  <2> HIDE DEF p
  <2> QED BY <2>1, <2>2
<1>3. ASSUME NEW m \in Nat, m \in Good PROVE m + 1 \in Good
  <2> SUFFICES ASSUME m + 1 \in 0..n, NEW x \in w[m + 1] PROVE Comes(m + 1, x)
    BY DEF Good
  <2>1. w[m + 1] = Predecessors(w[m]) /\ m \in 0..n
    BY <1>1
  <2>2. PICK e \in edges : e[2] \in w[m] /\ e[1] = x
    BY <2>1 DEF Predecessors
  <2>3. e = <<x, e[2]>> /\ x \in vertices
    BY <2>2
  <2>4. PICK p \in [0..m -> S \cup vertices] : p[0] = e[2] /\ p[m] \in S /\ IsPath(p, m)
    BY <1>3, <2>1, <2>2
  <2> DEFINE q == [i \in 0..(m + 1) |-> IF i = 0 THEN x ELSE p[i - 1]]
  <2>5. q \in [0..(m + 1) -> S \cup vertices]
    <3>1. \A i \in 0..(m + 1) : i # 0 => i - 1 \in 0..m
      OBVIOUS
    <3> QED BY <2>3, <2>4, <3>1
  <2>6. q[0] = x /\ \A i \in 0..m : q[i + 1] = p[i]
    OBVIOUS
  <2> HIDE DEF q
  <2>7. IsPath(q, m + 1)
    <3> SUFFICES ASSUME NEW i \in 0..m PROVE <<q[i], q[i + 1]>> \in edges
      <4>1. 0..((m + 1) - 1) = 0..m
        OBVIOUS
      <4> QED BY <4>1 DEF IsPath
    <3>1. CASE i = 0
      BY <2>2, <2>3, <2>4, <2>6, <3>1
    <3>2. CASE i # 0
      <4>1. i - 1 \in 0..(m - 1) /\ (i - 1) + 1 = i /\ i - 1 \in 0..m
        BY <3>2
      <4>2. q[i] = p[i - 1] /\ q[i + 1] = p[i]
        BY <2>6, <4>1
      <4> QED BY <2>4, <4>1, <4>2 DEF IsPath
    <3> QED BY <3>1, <3>2
  <2>8. q[m + 1] \in S
    BY <2>4, <2>6
  <2> QED BY <2>5, <2>6, <2>7, <2>8
<1> HIDE DEF Good, Comes
<1>4. Nat \subseteq Good
  BY <1>2, <1>3, SetInduction
<1>5. \A k \in 0..n : k \in Good
  BY <1>4
<1>6. \A k \in 0..n : \A x \in w[k] : Comes(k, x)
  BY <1>5 DEF Good
<1> QED BY <1>6 DEF Comes

\* A path to S is followed inward to its start.
LEMMA PathIsInward ==
  ASSUME NEW S, NEW n \in Nat, NEW w, IsInward(w, S, n), NEW k \in 0..n,
         NEW p, p[k] \in S, IsPath(p, k)
  PROVE  p[0] \in w[k]
<1> DEFINE Good == {m \in Nat : m \in 0..k => p[k - m] \in w[m]}
<1>1. \A i \in 0..n : w[i] = IF i = 0 THEN S ELSE Predecessors(w[i-1])
  BY DEF IsInward
<1>2. 0 \in Good
  BY <1>1
<1>3. ASSUME NEW m \in Nat, m \in Good PROVE m + 1 \in Good
  <2> SUFFICES ASSUME m + 1 \in 0..k PROVE p[k - (m + 1)] \in w[m + 1]
    BY DEF Good
  <2>1. /\ k - (m + 1) \in 0..(k - 1) /\ (k - (m + 1)) + 1 = k - m
        /\ m \in 0..k /\ m + 1 \in 0..n /\ (m + 1) - 1 = m
    OBVIOUS
  <2>2. <<p[k - (m + 1)], p[k - m]>> \in edges
    BY <2>1 DEF IsPath
  <2>3. p[k - m] \in w[m]
    BY <1>3, <2>1
  <2>4. w[m + 1] = Predecessors(w[m])
    BY <1>1, <2>1
  <2> QED BY <2>2, <2>3, <2>4 DEF Predecessors
<1> HIDE DEF Good
<1>4. Nat \subseteq Good
  BY <1>2, <1>3, SetInduction
<1>5. p[k - k] \in w[k]
  BY <1>4 DEF Good
<1> QED BY <1>5

\* The two queries as paths of at most MaxHops hops.
LEMMA ForwardIs ==
  ASSUME NEW S, S \subseteq vertices, edges \subseteq vertices \X vertices
  PROVE  \A x : x \in Forward(S) <=>
           \E k \in 1..MaxHops : \E p \in [0..k -> vertices] :
             p[0] \in S /\ p[k] = x /\ IsPath(p, k)
<1> DEFINE w == CHOOSE f : IsOutward(f, S, MaxHops)
<1>1. MaxHops \in Nat /\ \A k \in 1..MaxHops : k \in 0..MaxHops
  BY HopsAssumption
<1>2. IsOutward(w, S, MaxHops)
  BY <1>1, OutwardExists
<1>3. Forward(S) = UNION {w[k] : k \in 1..MaxHops}
  BY DEF Forward, IsOutward
<1> HIDE DEF w
<1>4. S \cup vertices = vertices
  OBVIOUS
<1>5. \A k \in 0..MaxHops : \A x \in w[k] :
        \E p \in [0..k -> vertices] : p[0] \in S /\ p[k] = x /\ IsPath(p, k)
  BY <1>1, <1>2, <1>4, OutwardIsPath
<1>6. \A k \in 0..MaxHops : \A p \in [0..k -> vertices] :
        p[0] \in S /\ IsPath(p, k) => p[k] \in w[k]
  BY <1>1, <1>2, PathIsOutward
<1> QED BY <1>1, <1>3, <1>5, <1>6

LEMMA BackwardIs ==
  ASSUME NEW S, S \subseteq vertices, edges \subseteq vertices \X vertices
  PROVE  \A x : x \in Backward(S) <=>
           \E k \in 1..MaxHops : \E p \in [0..k -> vertices] :
             p[0] = x /\ p[k] \in S /\ IsPath(p, k)
<1> DEFINE w == CHOOSE f : IsInward(f, S, MaxHops)
<1>1. MaxHops \in Nat /\ \A k \in 1..MaxHops : k \in 0..MaxHops
  BY HopsAssumption
<1>2. IsInward(w, S, MaxHops)
  BY <1>1, InwardExists
<1>3. Backward(S) = UNION {w[k] : k \in 1..MaxHops}
  BY DEF Backward, IsInward
<1> HIDE DEF w
<1>4. S \cup vertices = vertices
  OBVIOUS
<1>5. \A k \in 0..MaxHops : \A x \in w[k] :
        \E p \in [0..k -> vertices] : p[0] = x /\ p[k] \in S /\ IsPath(p, k)
  BY <1>1, <1>2, <1>4, InwardIsPath
<1>6. \A k \in 0..MaxHops : \A p \in [0..k -> vertices] :
        p[k] \in S /\ IsPath(p, k) => p[0] \in w[k]
  BY <1>1, <1>2, PathIsInward
<1> QED BY <1>1, <1>3, <1>5, <1>6

\* An agent's vertices are those whose node has the label Agent and its name.
LEMMA AgentNode ==
  ASSUME NEW n \in NodeSet, n.label = "Agent"
  PROVE  n = Node("Agent", n.name)
BY DEF Node, NodeSet

\* What a path of a few hops joins, both queries see.
LEMMA BothEnds ==
  ASSUME vertices \subseteq NodeSet \X Jobs, edges \subseteq vertices \X vertices
  PROVE  QueriesAgree
<1>1. ASSUME NEW a \in Agents, NEW n \in ReachableFrom(a)
      PROVE  Node("Agent", a) \in BlastRadius(n.name)
  <2> DEFINE S == Matches(Node("Agent", a))
             T == {v \in vertices : v[1].name = n.name}
  <2>1. S \subseteq vertices /\ T \subseteq vertices
    BY DEF Matches
  <2>2. PICK x \in Forward(S) : n = x[1]
    BY <1>1 DEF ReachableFrom, NodesOf
  <2>3. \A u \in S : u[1] = Node("Agent", a)
    BY DEF Matches
  <2>4. \A v \in vertices : v[1].name = n.name => v \in T
    OBVIOUS
  <2>5. BlastRadius(n.name) = {v[1] : v \in Backward(T)}
    BY DEF BlastRadius, NodesOf
  <2> HIDE DEF S, T
  <2>6. PICK k \in 1..MaxHops : \E p \in [0..k -> vertices] :
          p[0] \in S /\ p[k] = x /\ IsPath(p, k)
    BY <2>1, <2>2, ForwardIs
  <2>7. PICK p \in [0..k -> vertices] : p[0] \in S /\ p[k] = x /\ IsPath(p, k)
    BY <2>6
  <2>8. k \in 0..k
    BY HopsAssumption
  <2>9. p[k] \in T
    BY <2>2, <2>4, <2>7, <2>8
  <2>10. p[0] \in Backward(T)
    BY <2>1, <2>7, <2>9, BackwardIs
  <2> QED BY <2>3, <2>5, <2>7, <2>10
<1>2. ASSUME NEW v \in vertices, NEW n \in BlastRadius(v[1].name), n.label = "Agent"
      PROVE  \E m \in ReachableFrom(n.name) : m.name = v[1].name
  <2> DEFINE S == Matches(Node("Agent", n.name))
             T == {u \in vertices : u[1].name = v[1].name}
  <2>1. S \subseteq vertices /\ T \subseteq vertices
    BY DEF Matches
  <2>2. PICK x \in Backward(T) : n = x[1]
    BY <1>2 DEF BlastRadius, NodesOf
  <2>3. \A u \in T : u[1].name = v[1].name
    OBVIOUS
  <2>4. \A u \in vertices : u[1] = Node("Agent", n.name) => u \in S
    BY DEF Matches
  <2>5. ReachableFrom(n.name) = {u[1] : u \in Forward(S)}
    BY DEF ReachableFrom, NodesOf
  <2> HIDE DEF S, T
  <2>6. PICK k \in 1..MaxHops : \E p \in [0..k -> vertices] :
          p[0] = x /\ p[k] \in T /\ IsPath(p, k)
    BY <2>1, <2>2, BackwardIs
  <2>7. PICK p \in [0..k -> vertices] : p[0] = x /\ p[k] \in T /\ IsPath(p, k)
    BY <2>6
  <2>8. 0 \in 0..k
    BY HopsAssumption
  <2>9. x \in vertices /\ n \in NodeSet
    BY <2>2, <2>7, <2>8
  <2>10. n = Node("Agent", n.name)
    BY <1>2, <2>9, AgentNode
  <2>11. p[0] \in S
    BY <2>2, <2>4, <2>7, <2>9, <2>10
  <2>12. p[k] \in Forward(S)
    BY <2>1, <2>7, <2>11, ForwardIs
  <2> QED BY <2>3, <2>5, <2>7, <2>12
<1> QED BY <1>1, <1>2 DEF QueriesAgree

\* Every vertex is a node with a label and a name.
LEMMA NodesAreNodes == Nodes \subseteq NodeSet
<1> SUFFICES ASSUME NEW j \in Jobs, NEW i \in DOMAIN Prog[j] PROVE Prog[j][i].node \in NodeSet
  BY DEF Nodes
<1>1. Prog[j] \in Seq(Statements)
  BY Programs DEF IsProgram
<1>2. DOMAIN Prog[j] = 1..Len(Prog[j])
  BY <1>1, LenProperties
<1>3. Prog[j][i] \in Statements
  BY <1>1, <1>2, ElementOfSeq
<1> QED BY <1>3 DEF Statements

\* reachable_from and blast_radius are each other's inverse as far as agents go,
\* in every graph the writers can leave behind and up to the last hop: what an
\* agent reaches has it in its blast radius, and the other way round.
THEOREM QueriesAgreeHolds == Spec => []QueriesAgree
<1>1. Contents => vertices \subseteq NodeSet \X Jobs /\ edges \subseteq vertices \X vertices
  BY NodesAreNodes DEF Contents
<1>2. Contents => QueriesAgree
  BY <1>1, BothEnds
<1> QED BY <1>2, GraphInvariant, PTL
=============================================================================
