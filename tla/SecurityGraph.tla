--------------------------- MODULE SecurityGraph ----------------------------
(***************************************************************************)
(* The writers and readers of the security graph (core/src/graph.rs, and   *)
(* the loops around them in bindings/src/lib.rs), once ensure_graph has    *)
(* created it.  Every write operation is a list of Cypher statements sent  *)
(* one by one in autocommit mode, given up at the first error; several     *)
(* operations run at once, and each may lose its connection or die.        *)
(*                                                                         *)
(* MERGE is what Apache AGE offers without a unique constraint: it looks   *)
(* for a match and creates a vertex if it saw none, so two of them can     *)
(* both create.  A vertex is therefore a node together with the job that   *)
(* created it.  The label of an edge plays no part in any query and is     *)
(* left out.                                                               *)
(***************************************************************************)
EXTENDS Naturals, Sequences

CONSTANTS Jobs,       \* write operations
          Work,       \* per job, its arguments
          Unsayable,  \* texts cypher_string rejects: they hold a control character
          MaxHops     \* longest path a query follows (6 in the code)

Labels == {"User", "Agent", "Tool", "Endpoint", "Resource", "Role"}
Node(label, name) == [label |-> label, name |-> name]

\* What is SET is never the text that stands for no property here.
NodeSet == [label : Labels, name : STRING]
Texts == STRING \ {"unset"}

\* Arguments of an operation, one kind per public function that writes.
IsWork(w) ==
  \/ w.kind = "load" /\ w.servers \in Seq([name : STRING, result : Texts])
  \/ /\ w.kind = "agent" /\ w.name \in STRING /\ w.owner \in Texts
     /\ w.tools \in Seq(STRING) /\ w.apis \in Seq(STRING)
  \/ w.kind = "vertex" /\ w.node \in NodeSet
  \/ w.kind = "edge" /\ w.node \in NodeSet /\ w.to \in NodeSet

ASSUME WorkAssumption == \A j \in Jobs : IsWork(Work[j])
ASSUME HopsAssumption == MaxHops \in Nat \ {0}
-----------------------------------------------------------------------------
(* The statements of each operation *)

Merge(n) == [op |-> "merge", node |-> n, text |-> n.name]
Set(n, value) == [op |-> "set", node |-> n, text |-> value]
Link(n, m) == [op |-> "link", node |-> n, to |-> m, text |-> m.name]

\* upsert_mcp_server for each discovered server, in order: the vertex, then
\* its tools and status in one SET.
LoadProgram(servers) ==
  [i \in 1..(2 * Len(servers)) |->
     LET s == servers[(i + 1) \div 2] IN
       IF i % 2 = 1 THEN Merge(Node("Tool", s.name))
                    ELSE Set(Node("Tool", s.name), s.result)]

\* upsert_agent: the vertex, its owner and scope, an edge to each declared
\* tool and then to each declared API.
AgentProgram(a) ==
  LET self == Node("Agent", a.name) IN
    <<Merge(self), Set(self, a.owner)>>
    \o [i \in DOMAIN a.tools |-> Link(self, Node("Tool", a.tools[i]))]
    \o [i \in DOMAIN a.apis |-> Link(self, Node("Endpoint", a.apis[i]))]

Program(w) == CASE w.kind = "load"   -> LoadProgram(w.servers)
                [] w.kind = "agent"  -> AgentProgram(w)
                [] w.kind = "vertex" -> <<Merge(w.node)>>
                [] w.kind = "edge"   -> <<Link(w.node, w.to)>>

Prog == [j \in Jobs |-> Program(Work[j])]

\* cypher_string accepts every text the statement is made from.
Sayable(stmt) == {stmt.node.name, stmt.text} \cap Unsayable = {}
-----------------------------------------------------------------------------
VARIABLES pos,       \* per job, number of statements that took effect
          phase,     \* per job: "run", "create" (inside MERGE), "ok", "failed"
          vertices,  \* set of <<node, creating job>>
          props,     \* value last SET on each vertex, or "unset"
          edges,     \* set of pairs of vertices
          faulted    \* history: jobs stopped by a lost connection or a crash

vars == <<pos, phase, vertices, props, edges, faulted>>

Nodes == UNION {{Prog[j][i].node : i \in DOMAIN Prog[j]} : j \in Jobs}

TypeOK == /\ pos \in [Jobs -> Nat]
          /\ \A j \in Jobs : pos[j] \in 0..Len(Prog[j])
          /\ phase \in [Jobs -> {"run", "create", "ok", "failed"}]
          /\ vertices \subseteq Nodes \X Jobs
          /\ DOMAIN props = vertices
          /\ edges \subseteq vertices \X vertices
          /\ faulted \subseteq Jobs

Init == /\ pos = [j \in Jobs |-> 0]
        /\ phase = [j \in Jobs |-> "run"]
        /\ vertices = {}
        /\ props = [v \in {} |-> "unset"]
        /\ edges = {}
        /\ faulted = {}

Stmt(j) == Prog[j][pos[j] + 1]
Runs(j, op) == /\ phase[j] = "run" /\ pos[j] < Len(Prog[j])
               /\ Stmt(j).op = op /\ Sayable(Stmt(j))
Matches(n) == {v \in vertices : v[1] = n}

\* The statement took effect.  The client goes on with the next one, or does
\* not live to see the reply.
Done(j) ==
  /\ pos' = [pos EXCEPT ![j] = @ + 1]
  /\ \/ /\ phase' = [phase EXCEPT ![j] = "run"]
        /\ UNCHANGED faulted
     \/ /\ phase' = [phase EXCEPT ![j] = "failed"]
        /\ faulted' = faulted \cup {j}

Fail(j) == phase' = [phase EXCEPT ![j] = "failed"] /\ UNCHANGED pos

\* Faulty variants of definitions stand before the definition they vary and
\* are named after what is wrong with them; nothing else refers to them.
MergeMatchReplaces(j) ==
  /\ Runs(j, "merge")
  /\ \/ /\ Matches(Stmt(j).node) # {} /\ Done(j)
        /\ props' = [v \in vertices |-> IF v[1] = Stmt(j).node THEN "unset" ELSE props[v]]
     \/ /\ Matches(Stmt(j).node) = {}
        /\ phase' = [phase EXCEPT ![j] = "create"]
        /\ UNCHANGED <<pos, props, faulted>>
  /\ UNCHANGED <<vertices, edges>>

\* upsert_vertex, first half: the node is found, or not.
MergeMatch(j) ==
  /\ Runs(j, "merge")
  /\ \/ Matches(Stmt(j).node) # {} /\ Done(j)
     \/ /\ Matches(Stmt(j).node) = {}
        /\ phase' = [phase EXCEPT ![j] = "create"]
        /\ UNCHANGED <<pos, faulted>>
  /\ UNCHANGED <<vertices, props, edges>>

MergeCreateWithoutProperties(j) ==
  /\ phase[j] = "create"
  /\ vertices' = vertices \cup {<<Stmt(j).node, j>>}
  /\ Done(j)
  /\ UNCHANGED <<props, edges>>

\* upsert_vertex, second half: the vertex that was not found is created.
MergeCreate(j) ==
  /\ phase[j] = "create"
  /\ LET v == <<Stmt(j).node, j>> IN
       /\ vertices' = vertices \cup {v}
       /\ props' = [u \in vertices' |-> IF u = v THEN "unset" ELSE props[u]]
  /\ Done(j)
  /\ UNCHANGED edges

SetOneMatch(j) ==
  /\ Runs(j, "set")
  /\ \E one \in Matches(Stmt(j).node) : props' = [props EXCEPT ![one] = Stmt(j).text]
  /\ Done(j)
  /\ UNCHANGED <<vertices, edges>>

\* MATCH ... SET on every vertex of that label and name.
SetProperties(j) ==
  /\ Runs(j, "set")
  /\ props' = [v \in vertices |-> IF v[1] = Stmt(j).node THEN Stmt(j).text ELSE props[v]]
  /\ Done(j)
  /\ UNCHANGED <<vertices, edges>>

LinkSilently(j) ==
  /\ Runs(j, "link")
  /\ edges' = edges \cup (Matches(Stmt(j).node) \X Matches(Stmt(j).to))
  /\ Done(j)
  /\ UNCHANGED <<vertices, props>>

\* upsert_edge: no row comes back if either end is missing, and that is an error.
LinkVertices(j) ==
  /\ Runs(j, "link")
  /\ LET new == Matches(Stmt(j).node) \X Matches(Stmt(j).to) IN
       \/ new # {} /\ edges' = edges \cup new /\ Done(j)
       \/ new = {} /\ Fail(j) /\ UNCHANGED <<edges, faulted>>
  /\ UNCHANGED <<vertices, props>>

\* A text that cannot be written as a Cypher literal ends the operation
\* before the statement is sent.
Reject(j) ==
  /\ phase[j] = "run" /\ pos[j] < Len(Prog[j]) /\ ~Sayable(Stmt(j))
  /\ Fail(j)
  /\ UNCHANGED <<vertices, props, edges, faulted>>

\* The statement fails, or the process dies before it is sent.
Lost(j) ==
  /\ phase[j] \in {"run", "create"}
  /\ Fail(j)
  /\ faulted' = faulted \cup {j}
  /\ UNCHANGED <<vertices, props, edges>>

Finish(j) ==
  /\ phase[j] = "run" /\ pos[j] = Len(Prog[j])
  /\ phase' = [phase EXCEPT ![j] = "ok"]
  /\ UNCHANGED <<pos, vertices, props, edges, faulted>>

Next == \E j \in Jobs :
          \/ MergeMatch(j) \/ MergeCreate(j) \/ SetProperties(j)
          \/ LinkVertices(j) \/ Reject(j) \/ Lost(j) \/ Finish(j)

Spec == Init /\ [][Next]_vars
-----------------------------------------------------------------------------
(* The queries *)

Successors(S) == {e[2] : e \in {d \in edges : d[1] \in S}}
Predecessors(S) == {e[1] : e \in {d \in edges : d[2] \in S}}

\* Vertices a path of 1 to MaxHops edges leads to from S, or leads from to S.
Forward(S) == LET walk[k \in 0..MaxHops] == IF k = 0 THEN S ELSE Successors(walk[k-1])
              IN  UNION {walk[k] : k \in 1..MaxHops}

BackwardOneShort(S) ==
               LET walk[k \in 0..MaxHops] == IF k = 0 THEN S ELSE Predecessors(walk[k-1])
               IN  UNION {walk[k] : k \in 1..(MaxHops - 1)}

Backward(S) == LET walk[k \in 0..MaxHops] == IF k = 0 THEN S ELSE Predecessors(walk[k-1])
               IN  UNION {walk[k] : k \in 1..MaxHops}

NodesOf(S) == {v[1] : v \in S}

\* RETURN DISTINCT label, name: copies of a vertex are one row.
ReachableFrom(agent) == NodesOf(Forward(Matches(Node("Agent", agent))))
BlastRadius(name) == NodesOf(Backward({v \in vertices : v[1].name = name}))
-----------------------------------------------------------------------------
(* Properties *)

\* Statement s of some operation shows in the graph.
Visible(s) ==
  CASE s.op = "merge" -> Matches(s.node) # {}
    [] s.op = "set" -> \E v \in Matches(s.node) : props[v] # "unset"
    [] s.op = "link" -> \E e \in edges : e[1][1] = s.node /\ e[2][1] = s.to

\* An operation that answered Ok left everything it was asked to write in the
\* graph, and no concurrent writer, duplicated vertex or failed operation has
\* undone any of it.
OkIsWritten ==
  \A j \in Jobs : phase[j] = "ok" =>
    \A i \in DOMAIN Prog[j] : Visible(Prog[j][i])

\* Capabilities are exactly those declared and reached: the edges between two
\* nodes are there if and only if some operation got past the statement that
\* links them.  A failed declaration leaves a prefix of its edges; nothing is
\* wired silently to what was never discovered.
EdgesAreDeclared ==
  {<<e[1][1], e[2][1]>> : e \in edges}
    = UNION {{<<Prog[j][i].node, Prog[j][i].to>> :
                i \in {k \in 1..pos[j] : Prog[j][k].op = "link"}} : j \in Jobs}

\* A server or agent without properties is the work of an operation that has
\* not got, or never got, to its SET: two operations that race on one name
\* cannot between them leave a vertex nobody describes.
BareIsUnfinished ==
  \A v \in vertices : props[v] = "unset" =>
    \A i \in DOMAIN Prog[v[2]] :
      Prog[v[2]][i].op = "set" /\ Prog[v[2]][i].node = v[1] => pos[v[2]] < i

\* The two questions agree: what an agent can reach has that agent in its
\* blast radius, and an agent in a blast radius reaches something of that name,
\* right up to the last hop.
Agents == {n.name : n \in {m \in NodesOf(vertices) : m.label = "Agent"}}
QueriesAgree ==
  /\ \A a \in Agents : \A n \in ReachableFrom(a) : Node("Agent", a) \in BlastRadius(n.name)
  /\ \A v \in vertices : \A n \in BlastRadius(v[1].name) :
       n.label = "Agent" => \E m \in ReachableFrom(n.name) : m.name = v[1].name

\* "A server ... still gets a vertex ... with status recording why": once a
\* load has ended by itself, every server of the file has a vertex and a status.
EveryServerRecorded ==
  \A j \in Jobs :
    Work[j].kind = "load" /\ phase[j] \in {"ok", "failed"} /\ j \notin faulted =>
      \A i \in DOMAIN Work[j].servers :
        \E v \in Matches(Node("Tool", Work[j].servers[i].name)) : props[v] # "unset"
=============================================================================
