--------------------------- MODULE GraphBootstrap ---------------------------
(***************************************************************************)
(* ensure_graph of core/src/graph.rs, run by any number of callers at once *)
(* against one PostgreSQL server.  Object 1 is the age extension, object 2 *)
(* the graph, objects 3..Last the label tables in the order of             *)
(* ALL_VERTEX_LABELS followed by ALL_EDGE_LABELS.  A process that starts   *)
(* again after a crash is another member of Callers.                       *)
(*                                                                         *)
(* Each statement of the code is sent in autocommit mode.  A CREATE        *)
(* statement is a transaction of the server: it looks whether the object   *)
(* is visible (Submit), inserts the catalog rows (Insert, which waits      *)
(* while another uncommitted transaction holds the same unique key and     *)
(* fails with a duplicate key once that one has committed) and ends        *)
(* (Commit or Abort).  The server outlives its clients: a statement whose  *)
(* client died or lost its connection is adrift, may still insert (Drift), *)
(* and its transaction still ends, one way or the other (Orphan).          *)
(***************************************************************************)
EXTENDS Naturals

CONSTANTS Callers,    \* calls of ensure_graph
          NumLabels,  \* number of vertex and edge labels (10 in the code)
          None,       \* "no transaction"
          Stray       \* a transaction whose client died or lost the connection

ASSUME LabelsAssumption == NumLabels \in Nat
ASSUME NoneAssumption == None \notin Callers /\ Stray \notin Callers \cup {None}

Last == NumLabels + 2
Objects == 1..Last
Extension == 1

VARIABLES pc,        \* per call, the statement it is about to run or waits in
          at,        \* per call, the object it is working on
          catalog,   \* objects whose creating transaction has committed
          holder,    \* per object, whose uncommitted transaction has
                     \* inserted it: a call's, a Stray one or None
          adrift,    \* per object, the number of statements that wait to
                     \* insert it and that no client waits for any more
          faulted    \* history: calls one of whose own statements was hit by
                     \* a server or connection fault

vars == <<pc, at, catalog, holder, adrift, faulted>>

Ended == {"ok", "failed", "crashed"}
PC == {"probe", "submit", "insert", "creating", "recheck"} \cup Ended

TypeOK == /\ pc \in [Callers -> PC]
          /\ at \in [Callers -> Objects]
          /\ catalog \in SUBSET Objects
          /\ holder \in [Objects -> Callers \cup {None, Stray}]
          /\ adrift \in [Objects -> Nat]
          /\ faulted \in SUBSET Callers
-----------------------------------------------------------------------------
\* The extension is created without a probe: CREATE EXTENSION IF NOT EXISTS.
Init == /\ pc = [c \in Callers |-> "submit"]
        /\ at = [c \in Callers |-> Extension]
        /\ catalog = {}
        /\ holder = [o \in Objects |-> None]
        /\ adrift = [o \in Objects |-> 0]
        /\ faulted = {}

Goto(c, label) == pc' = [pc EXCEPT ![c] = label]

\* Faulty variants of definitions of this module, named after what is wrong
\* with them, stand before the definition they vary.  Nothing refers to them:
\* they are there to replace it, to see that a property depends on it.
AdvancePastLast(c) == Goto(c, "probe") /\ at' = [at EXCEPT ![c] = @ + 1]

AdvanceEarly(c) ==
  IF at[c] = Last - 1
  THEN Goto(c, "ok") /\ UNCHANGED at
  ELSE Goto(c, "probe") /\ at' = [at EXCEPT ![c] = @ + 1]

\* Object at[c] is known to exist: on to the next one, or Ok(()).
Advance(c) ==
  IF at[c] = Last
  THEN Goto(c, "ok") /\ UNCHANGED at
  ELSE Goto(c, "probe") /\ at' = [at EXCEPT ![c] = @ + 1]

ProbeDefers(c) ==
  /\ pc[c] = "probe"
  /\ \/ at[c] \in catalog /\ Advance(c)
     \/ /\ at[c] \notin catalog
        /\ \A d \in Callers \ {c} : at[d] = at[c] => pc[d] = "probe"
        /\ Goto(c, "submit")
        /\ UNCHANGED at
  /\ UNCHANGED <<catalog, holder, adrift, faulted>>

\* graph_exists / label_exists before the CREATE statement.
Probe(c) ==
  /\ pc[c] = "probe"
  /\ \/ at[c] \in catalog /\ Advance(c)
     \/ at[c] \notin catalog /\ Goto(c, "submit") /\ UNCHANGED at
  /\ UNCHANGED <<catalog, holder, adrift, faulted>>

\* The CREATE statement starts.  If it sees the object, IF NOT EXISTS makes
\* it succeed for the extension; create_graph and create_?label raise an error.
Submit(c) ==
  /\ pc[c] = "submit"
  /\ \/ at[c] \notin catalog /\ Goto(c, "insert") /\ UNCHANGED at
     \/ at[c] \in catalog /\ at[c] = Extension /\ Advance(c)
     \/ at[c] \in catalog /\ at[c] # Extension /\ Goto(c, "recheck") /\ UNCHANGED at
  /\ UNCHANGED <<catalog, holder, adrift, faulted>>

InsertWithoutRecheck(c) ==
  /\ pc[c] = "insert"
  /\ holder[at[c]] = None
  /\ \/ /\ at[c] \notin catalog
        /\ holder' = [holder EXCEPT ![at[c]] = c]
        /\ Goto(c, "creating")
     \/ /\ at[c] \in catalog
        /\ Goto(c, "failed")
        /\ UNCHANGED holder
  /\ UNCHANGED <<at, catalog, adrift, faulted>>

\* The insertion of the catalog rows, blocked while somebody else's is open.
Insert(c) ==
  /\ pc[c] = "insert"
  /\ holder[at[c]] = None
  /\ \/ /\ at[c] \notin catalog
        /\ holder' = [holder EXCEPT ![at[c]] = c]
        /\ Goto(c, "creating")
     \/ /\ at[c] \in catalog
        /\ Goto(c, "recheck")
        /\ UNCHANGED holder
  /\ UNCHANGED <<at, catalog, adrift, faulted>>

\* Object o exists from now on.  The statements adrift that waited to insert it
\* fail on the duplicate key, unheard.
Committed(o) == /\ catalog' = catalog \cup {o}
                /\ holder' = [holder EXCEPT ![o] = None]
                /\ adrift' = [adrift EXCEPT ![o] = 0]

Commit(c) ==
  /\ pc[c] = "creating"
  /\ Committed(at[c])
  /\ Advance(c)
  /\ UNCHANGED faulted

AbortIgnored(c) ==
  /\ pc[c] \in {"submit", "insert", "creating"}
  /\ holder' = IF pc[c] = "creating" THEN [holder EXCEPT ![at[c]] = None] ELSE holder
  /\ Advance(c)
  /\ UNCHANGED <<catalog, adrift, faulted>>

\* The CREATE statement is aborted by the server, which says so.
Abort(c) ==
  /\ pc[c] \in {"submit", "insert", "creating"}
  /\ holder' = IF pc[c] = "creating" THEN [holder EXCEPT ![at[c]] = None] ELSE holder
  /\ Goto(c, "recheck")
  /\ faulted' = faulted \cup {c}
  /\ UNCHANGED <<at, catalog, adrift>>

\* What a client that stops listening leaves behind: its open transaction is a
\* stray one, its waiting statement goes adrift, and one that was just being
\* sent may have reached the server or not.
Leave(c) ==
  \/ /\ pc[c] = "creating"
     /\ holder' = [holder EXCEPT ![at[c]] = Stray]
     /\ UNCHANGED adrift
  \/ /\ pc[c] \in {"submit", "insert"} /\ at[c] \notin catalog
     /\ adrift' = [adrift EXCEPT ![at[c]] = @ + 1]
     /\ UNCHANGED holder
  \/ /\ pc[c] # "creating"
     /\ pc[c] # "insert" \/ at[c] \in catalog
     /\ UNCHANGED <<holder, adrift>>

\* The connection is lost during the CREATE statement: the caller sees an error
\* while the server does not know that anything is wrong.
Lose(c) ==
  /\ pc[c] \in {"submit", "insert", "creating"}
  /\ Leave(c)
  /\ Goto(c, "recheck")
  /\ faulted' = faulted \cup {c}
  /\ UNCHANGED <<at, catalog>>

RecheckIgnored(c) ==
  /\ pc[c] = "recheck"
  /\ Advance(c)
  /\ UNCHANGED <<catalog, holder, adrift, faulted>>

\* `if let Err(e) = create { if !exists()? { return Err } }`
Recheck(c) ==
  /\ pc[c] = "recheck"
  /\ \/ at[c] \in catalog /\ Advance(c)
     \/ at[c] \notin catalog /\ Goto(c, "failed") /\ UNCHANGED at
  /\ UNCHANGED <<catalog, holder, adrift, faulted>>

\* An existence query fails: the `?` after it returns the error at once.
QueryFails(c) ==
  /\ pc[c] \in {"probe", "recheck"}
  /\ Goto(c, "failed")
  /\ faulted' = faulted \cup {c}
  /\ UNCHANGED <<at, catalog, holder, adrift>>

\* The calling process dies; its statement stays behind.
Crash(c) ==
  /\ pc[c] \notin Ended
  /\ Leave(c)
  /\ Goto(c, "crashed")
  /\ UNCHANGED <<at, catalog, faulted>>

\* A statement adrift takes its turn.
Drift(o) ==
  /\ adrift[o] > 0
  /\ holder[o] = None
  /\ adrift' = [adrift EXCEPT ![o] = @ - 1]
  /\ holder' = [holder EXCEPT ![o] = Stray]
  /\ UNCHANGED <<pc, at, catalog, faulted>>

\* The server ends a stray transaction: its caller has long gone on, failed or
\* died.
Orphan(o) ==
  /\ holder[o] = Stray
  /\ \/ Committed(o)
     \/ holder' = [holder EXCEPT ![o] = None] /\ UNCHANGED <<catalog, adrift>>
  /\ UNCHANGED <<pc, at, faulted>>

\* The statements of a live call, run to their regular end.
Statement(c) == Probe(c) \/ Submit(c) \/ Insert(c) \/ Commit(c) \/ Recheck(c)

\* What may go wrong with one.
Fault(c) == Abort(c) \/ Lose(c) \/ QueryFails(c)

Next == \/ \E c \in Callers : Statement(c) \/ Fault(c) \/ Crash(c)
        \/ \E o \in Objects : Orphan(o) \/ Drift(o)

Spec == Init /\ [][Next]_vars

\* A statement that is not blocked comes to an end, and so does a transaction
\* nobody waits for.  Nothing has to go wrong: no statement timeout is set, so
\* a waiter cannot count on the server to abort it.
Fairness == /\ \A c \in Callers : WF_vars(Statement(c))
            /\ \A o \in Objects : WF_vars(Orphan(o))

FairSpec == Spec /\ Fairness
-----------------------------------------------------------------------------
(* Properties *)

\* "Safe to call concurrently": a call returns Ok only when the extension, the
\* graph and every label exist, whatever the other callers did or died in.
OkMeansReady == \A c \in Callers : pc[c] = "ok" => catalog = Objects

\* Every statement finds what it depends on: no call works on an object before
\* all its predecessors are committed (create_graph needs the extension, a
\* label needs the graph), so the errors a missing one would raise cannot occur.
PredecessorsExist ==
  \A c \in Callers : 1..(at[c] - 1) \subseteq catalog

\* The re-check before erroring does its work: a call fails only on account of
\* a fault of one of its own statements, never because it lost a race, and
\* never because another caller crashed or was aborted in the middle.
OnlyOwnFaults == \A c \in Callers : pc[c] = "failed" => c \in faulted

\* Nobody waits for ever behind a concurrent, dead or disconnected creator: each
\* call returns or dies, though nothing but the waited-for statement's end can
\* release it.
EveryCallEnds == \A c \in Callers : <>(pc[c] \in Ended)

\* Refinement of GraphInstall.
Answer == [c \in Callers |->
             CASE pc[c] = "ok" -> "ok"
               [] pc[c] = "failed" -> "error"
               [] pc[c] = "crashed" -> "gone"
               [] OTHER -> "pending"]

Install == INSTANCE GraphInstall WITH installed <- catalog, answer <- Answer

\* The concurrent bootstrap implements the atomic installation.
ImplementsInstall == Install!Spec
=============================================================================
