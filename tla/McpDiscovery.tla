---------------------------- MODULE McpDiscovery ----------------------------
(***************************************************************************)
(* discover_all of core/src/mcp.rs: the servers of an mcpServers file are  *)
(* probed one after the other.  For each, discover_tools_inner spawns the  *)
(* configured command, lets a helper thread run the JSON-RPC handshake     *)
(* over the child's stdin and stdout, waits for the helper's result on a   *)
(* channel with a timeout, and then kills and reaps the child and joins    *)
(* the helper.                                                             *)
(*                                                                         *)
(* The configured command is often a launcher (npx, uv, sh -c) that starts *)
(* the real server as a process of its own.  Such a descendant inherits    *)
(* both pipes and is not hit by child.kill(), which signals the direct     *)
(* child only.  A server that stops because nobody drains its stderr is a  *)
(* server that no longer takes steps.                                      *)
(***************************************************************************)
EXTENDS Naturals, Sequences

CONSTANTS NumServers,   \* configured servers, in the order of their names
          Descendants,  \* whether a child may start a process that outlives it
          MaxNotes      \* lines a server may write unasked (bound)

ASSUME DiscoveryAssumption == /\ NumServers \in Nat
                              /\ Descendants \in BOOLEAN
                              /\ MaxNotes \in Nat

Servers == 1..NumServers

VARIABLES parent,    \* the caller's place in discover_tools_inner
          cur,       \* the server being probed; NumServers + 1 at the end
          verdict,   \* per server, what was concluded
          helper,    \* the helper thread's place in run_handshake
          channel,   \* the mpsc channel of this probe
          child,     \* the spawned process: "none", "running", "dead", "reaped"
          heirs,     \* servers that have a living descendant
          sent,      \* messages written to the server's stdin (of 3)
          handled,   \* how many of them the server has dealt with
          stdout,    \* lines in the server's stdout pipe
          notes,     \* unasked lines the server has written
          answered,  \* history: servers that wrote their tool list while the
                     \* caller was still waiting
          chatty,    \* history: servers that wrote an unasked line before it
          offered    \* history: servers one of whose unasked lines, written
                     \* while the caller was still waiting, was a tool list

vars == <<parent, cur, verdict, helper, channel, child, heirs, sent, handled,
          stdout, notes, answered, chatty, offered>>

\* A line of the server, reduced to what the client can tell apart: the answer
\* to initialize, a result with a tools array, an error object, any other JSON
\* without either (a notification), text that is not JSON.
Lines == {"init", "tools", "error", "note", "junk"}

\* "tools" is Tools(_); the others are Unavailable(_) by the origin of its reason.
Verdicts == {"tools", "nostart", "protocol", "timeout"}

Sending == {"send initialize", "send initialized", "send tools/list"}
Reading == {"read init", "read tools"}

TypeOK == /\ parent \in {"next", "waiting", "kill", "reap", "join"}
          /\ cur \in 1..(NumServers + 1)
          /\ verdict \in [Servers -> Verdicts \cup {"none"}]
          /\ helper \in {"none", "ended"} \cup Sending \cup Reading
          /\ channel \in {"empty", "tools", "protocol"}
          /\ child \in {"none", "running", "dead", "reaped"}
          /\ heirs \in SUBSET Servers
          /\ sent \in 0..3 /\ handled \in 0..sent
          /\ stdout \in Seq(Lines)
          /\ notes \in 0..MaxNotes
          /\ answered \in SUBSET Servers /\ chatty \in SUBSET Servers
          /\ offered \in SUBSET Servers
-----------------------------------------------------------------------------
Init == /\ parent = "next"
        /\ cur = 1
        /\ verdict = [s \in Servers |-> "none"]
        /\ helper = "none"
        /\ channel = "empty"
        /\ child = "none"
        /\ heirs = {}
        /\ sent = 0 /\ handled = 0
        /\ stdout = <<>>
        /\ notes = 0
        /\ answered = {} /\ chatty = {} /\ offered = {}

probe == <<helper, channel, child, heirs, sent, handled, stdout, notes, answered, chatty, offered>>
server == <<child, heirs, handled, stdout, notes, answered, chatty, offered>>
caller == <<parent, cur, verdict>>

\* Somebody still has the read end of stdin and the write end of stdout open.
PipesHeld == child = "running" \/ cur \in heirs
-----------------------------------------------------------------------------
(* The calling thread *)

Conclude(v) == verdict' = [verdict EXCEPT ![cur] = v]

\* No command configured, or spawn() fails: Unavailable at once.
CannotStart ==
  /\ parent = "next" /\ cur \in Servers
  /\ Conclude("nostart")
  /\ cur' = cur + 1
  /\ UNCHANGED <<parent, probe>>

\* The child with fresh pipes, a fresh channel and a fresh helper thread.
Spawn ==
  /\ parent = "next" /\ cur \in Servers
  /\ parent' = "waiting"
  /\ child' = "running"
  /\ helper' = "send initialize"
  /\ channel' = "empty"
  /\ sent' = 0 /\ handled' = 0 /\ stdout' = <<>> /\ notes' = 0
  /\ UNCHANGED <<cur, verdict, heirs, answered, chatty, offered>>

\* Faulty variants of definitions stand before the definition they vary and
\* are named after what is wrong with them; nothing else refers to them.
ReceiveAnything ==
  /\ parent = "waiting"
  /\ Conclude(channel)
  /\ parent' = "kill"
  /\ UNCHANGED <<cur, probe>>

\* recv_timeout returns the helper's result.
Receive ==
  /\ parent = "waiting" /\ channel # "empty"
  /\ Conclude(channel)
  /\ parent' = "kill"
  /\ UNCHANGED <<cur, probe>>

TimeoutNever == FALSE /\ UNCHANGED vars

\* recv_timeout runs out before the helper has sent anything.
Timeout ==
  /\ parent = "waiting" /\ channel = "empty"
  /\ Conclude("timeout")
  /\ parent' = "kill"
  /\ UNCHANGED <<cur, probe>>

\* child.kill(): the direct child only.
Kill ==
  /\ parent = "kill"
  /\ child' = "dead"
  /\ parent' = "reap"
  /\ UNCHANGED <<cur, verdict, helper, channel, heirs, sent, handled, stdout, notes, answered, chatty, offered>>

\* child.wait()
Reap ==
  /\ parent = "reap" /\ child = "dead"
  /\ child' = "reaped"
  /\ parent' = "join"
  /\ UNCHANGED <<cur, verdict, helper, channel, heirs, sent, handled, stdout, notes, answered, chatty, offered>>

JoinForgotten ==
  /\ parent = "join"
  /\ parent' = "next"
  /\ cur' = cur + 1
  /\ UNCHANGED <<verdict, probe>>

\* handle.join(), which blocks until the helper has returned.
Join ==
  /\ parent = "join" /\ helper = "ended"
  /\ parent' = "next"
  /\ cur' = cur + 1
  /\ UNCHANGED <<verdict, probe>>
-----------------------------------------------------------------------------
(* The helper thread *)

\* tx.send(result); returning drops the helper's ends of both pipes.
Report(r) == helper' = "ended" /\ channel' = r

AfterSendPipelined == [h \in Sending |->
                CASE h = "send initialize"  -> "send initialized"
                  [] h = "send initialized" -> "send tools/list"
                  [] h = "send tools/list"  -> "read tools"]

AfterSend == [h \in Sending |->
                CASE h = "send initialize"  -> "read init"
                  [] h = "send initialized" -> "send tools/list"
                  [] h = "send tools/list"  -> "read tools"]

\* send_message: a broken pipe once nobody can read stdin any more.
Send ==
  /\ helper \in Sending
  /\ \/ /\ PipesHeld
        /\ sent' = sent + 1
        /\ helper' = AfterSend[helper]
        /\ UNCHANGED channel
     \/ ~PipesHeld /\ Report("protocol") /\ UNCHANGED sent
  /\ UNCHANGED <<caller, server>>

ReadNoArrayAsNoTools ==
  /\ helper \in Reading
  /\ stdout # <<>>
  /\ LET line == Head(stdout) IN
       \/ /\ helper = "read init" /\ line # "junk"
          /\ helper' = "send initialized" /\ UNCHANGED channel
       \/ helper = "read tools" /\ line # "junk" /\ Report("tools")
       \/ line = "junk" /\ Report("protocol")
  /\ stdout' = Tail(stdout)
  /\ UNCHANGED <<caller, sent, child, heirs, handled, notes, answered, chatty, offered>>

\* read_message and what run_handshake does with the line.  Nothing but its
\* position decides what a line is taken for.
Read ==
  /\ helper \in Reading
  /\ stdout # <<>>
  /\ LET line == Head(stdout) IN
       \/ /\ helper = "read init" /\ line # "junk"
          /\ helper' = "send initialized" /\ UNCHANGED channel
       \/ helper = "read tools" /\ line = "tools" /\ Report("tools")
       \/ /\ IF helper = "read init" THEN line = "junk" ELSE line # "tools"
          /\ Report("protocol")
  /\ stdout' = Tail(stdout)
  /\ UNCHANGED <<caller, sent, child, heirs, handled, notes, answered, chatty, offered>>

\* End of file: read_line returns 0 once every write end is closed.
ReadEof ==
  /\ helper \in Reading
  /\ stdout = <<>> /\ ~PipesHeld
  /\ Report("protocol")
  /\ UNCHANGED <<caller, sent, server>>

HelperStep == Send \/ Read \/ ReadEof
-----------------------------------------------------------------------------
(* The server: the child or its descendant *)

Write(line) == stdout' = Append(stdout, line)

\* It reads the next message and answers it if it is a request.
Serve ==
  /\ PipesHeld /\ handled < sent
  /\ handled' = handled + 1
  /\ \/ /\ handled = 0
        /\ \E line \in {"init", "junk"} : Write(line)
        /\ UNCHANGED answered
     \/ handled = 1 /\ UNCHANGED <<stdout, answered>>
     \/ /\ handled = 2
        /\ \E line \in {"tools", "error", "junk"} :
             /\ Write(line)
             /\ answered' = IF line = "tools" /\ parent = "waiting"
                            THEN answered \cup {cur} ELSE answered
  /\ UNCHANGED <<caller, helper, channel, child, heirs, sent, notes, chatty, offered>>

\* A line nobody asked for: a log message, a progress notification, the banner
\* of a launcher, or a second or early answer that holds a tool list.
Notify ==
  /\ PipesHeld /\ notes < MaxNotes
  /\ notes' = notes + 1
  /\ \E line \in {"note", "junk", "tools"} :
       /\ Write(line)
       /\ offered' = IF line = "tools" /\ parent = "waiting"
                     THEN offered \cup {cur} ELSE offered
  /\ chatty' = IF cur \in answered THEN chatty ELSE chatty \cup {cur}
  /\ UNCHANGED <<caller, helper, channel, child, heirs, sent, handled, answered>>

ChildExits ==
  /\ child = "running"
  /\ child' = "dead"
  /\ UNCHANGED <<caller, helper, channel, heirs, sent, handled, stdout, notes, answered, chatty, offered>>

Fork ==
  /\ Descendants /\ child = "running"
  /\ heirs' = heirs \cup {cur}
  /\ UNCHANGED <<caller, helper, channel, child, sent, handled, stdout, notes, answered, chatty, offered>>

HeirExits(s) ==
  /\ s \in heirs
  /\ heirs' = heirs \ {s}
  /\ UNCHANGED <<caller, helper, channel, child, sent, handled, stdout, notes, answered, chatty, offered>>

\* Its stdin is at end of file: the helper that held the other end has returned.
StdinClosed(s) == s < cur \/ helper = "ended"
-----------------------------------------------------------------------------
CallerStep == CannotStart \/ Spawn \/ Receive \/ Timeout \/ Kill \/ Reap \/ Join
ServerStep == Serve \/ Notify \/ ChildExits \/ Fork \/ \E s \in Servers : HeirExits(s)

Next == CallerStep \/ HelperStep \/ ServerStep

Spec == Init /\ [][Next]_vars

\* Both threads of the program keep running, so its timer does too.  Nothing
\* is assumed of a server, except that a descendant exits when its stdin ends,
\* as the stdio transport asks of it.
Fairness == /\ WF_vars(CallerStep)
            /\ WF_vars(HelperStep)
            /\ \A s \in Servers : WF_vars(StdinClosed(s) /\ HeirExits(s))

FairSpec == Spec /\ Fairness
-----------------------------------------------------------------------------
(* Properties *)

Finished == parent = "next" /\ cur = NumServers + 1

\* "never silently treated as zero tools": Tools(_) is concluded only of a
\* server that sent a tool list while it was being waited for.  read_message
\* looks at no id, so one that nobody asked for counts as well; nothing else
\* does, and nothing of an earlier probe or written after the timeout.
ToolsWereAnswered ==
  \A s \in Servers : verdict[s] = "tools" => s \in answered \cup offered

\* Between two probes nothing of the earlier one is left to interfere with the
\* next: its child is reaped and its helper has returned, on every path.
ProbesDoNotOverlap ==
  parent = "next" => child \in {"none", "reaped"} /\ helper \in {"none", "ended"}

\* Unavailable is "a server that failed to start or hangs": a server that
\* answered tools/list while it was waited for is recorded with its tools,
\* unless the timeout came before the helper had read the answer.  It is never
\* called unavailable for anything it wrote afterwards, for its death or for
\* what another one did.  A line that nobody asked for before the answer does
\* cost it the answer.
AnswerIsHeard ==
  \A s \in answered \ chatty :
    \/ verdict[s] \in {"tools", "timeout"}
    \/ s = cur /\ verdict[s] = "none"

\* "A hung server must not hang discovery."
DiscoveryEnds == <>Finished

\* What it takes to end: that no descendant keeps the pipes for ever.
EndsUnlessHeld == []<>(cur \notin heirs) => <>Finished
=============================================================================
