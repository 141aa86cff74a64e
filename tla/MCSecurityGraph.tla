-------------------------- MODULE MCSecurityGraph ---------------------------
(***************************************************************************)
(* SecurityGraph on small instances.  Work is what a team would run at the *)
(* same time: loading an MCP configuration twice, declaring an agent, and  *)
(* recording what a tool accesses.                                         *)
(***************************************************************************)
EXTENDS SecurityGraph

Server(name, result) == [name |-> name, result |-> result]
Load(servers) == [kind |-> "load", servers |-> servers]
Agent(name, owner, tools, apis) ==
  [kind |-> "agent", name |-> name, owner |-> owner, tools |-> tools, apis |-> apis]
Vertex(n) == [kind |-> "vertex", node |-> n]
Edge(n, m) == [kind |-> "edge", node |-> n, to |-> m]

\* A tool list in which the server put a line break.
Garbled == {"two\nlines"}

\* Two loads of one server, one of which was sent a tool list it cannot
\* write; meanwhile an agent is declared for it and for an API of the same
\* name, and the chain bot -> db (tool) -> disk -> db (API) is built, one hop
\* too long for the queries.
Writers == [ load1 |-> Load(<<Server("db", "list")>>),
             load2 |-> Load(<<Server("db", "two\nlines")>>),
             agent |-> Agent("bot", "alice", <<"db">>, <<"db">>),
             res   |-> Vertex(Node("Resource", "disk")),
             api   |-> Vertex(Node("Endpoint", "db")),
             uses  |-> Edge(Node("Tool", "db"), Node("Resource", "disk")),
             has   |-> Edge(Node("Resource", "disk"), Node("Endpoint", "db")) ]

\* One load, alone; the first server's tool list holds a line break, the
\* second server was found unavailable.
GarbledLoad == [ load |-> Load(<<Server("db", "two\nlines"), Server("mail", "unavailable")>>) ]

JobsOf(work) == DOMAIN work
WriterJobs == JobsOf(Writers)
GarbledJobs == JobsOf(GarbledLoad)
=============================================================================
