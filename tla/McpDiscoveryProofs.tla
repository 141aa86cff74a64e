------------------------- MODULE McpDiscoveryProofs -------------------------
(***************************************************************************)
(* Proofs about McpDiscovery, for any number of servers, with and without  *)
(* descendants, and any number of unasked lines.                           *)
(***************************************************************************)
EXTENDS McpDiscovery, SequenceTheorems, TLAPS

\* The places of both threads and of the child, and what follows from them:
\* between two probes nothing is left of the earlier one, and the helper is only
\* joined once the child has been reaped.
Places == /\ parent \in {"next", "waiting", "kill", "reap", "join"}
          /\ helper \in {"none", "ended"} \cup Sending \cup Reading
          /\ channel \in {"empty", "tools", "protocol"}
          /\ child \in {"none", "running", "dead", "reaped"}
          /\ parent = "next" => child \in {"none", "reaped"} /\ helper \in {"none", "ended"}
          /\ parent = "join" => child = "reaped"

\* Nothing is handled before it has been sent, and the helper's place says how
\* much has been sent.
Counters == sent \in 0..3 /\ handled \in 0..sent

Progress == /\ helper = "send initialize" => sent = 0
            /\ helper \in {"read init", "send initialized"} => sent = 1
            /\ helper = "send tools/list" => sent = 2

\* A server is there while it is probed.
Probed == /\ cur \in 1..(NumServers + 1)
          /\ parent # "next" => cur \in Servers
          /\ heirs \in SUBSET Servers
          /\ answered \in SUBSET Servers
          /\ chatty \in SUBSET Servers
          /\ offered \in SUBSET Servers

Pipe == stdout \in Seq(Lines) /\ notes \in 0..MaxNotes

Concluded == verdict \in [Servers -> Verdicts \cup {"none"}]

Typed == Places /\ Counters /\ Progress /\ Probed /\ Pipe /\ Concluded

\* The server after the last one still has a number.
LEMMA ServerNumbers == \A s \in Servers : /\ s \in 1..(NumServers + 1)
                                           /\ s + 1 \in 1..(NumServers + 1)
BY DiscoveryAssumption DEF Servers

\* Initially nothing has been probed.
LEMMA InitTyped == Init => Typed
<1> SUFFICES ASSUME Init PROVE Typed
  OBVIOUS
<1>1. Places
  BY DEF Init, Places
<1>2. Probed
  BY DiscoveryAssumption DEF Init, Probed
<1>3. Pipe
  BY EmptySeq, DiscoveryAssumption DEF Init, Pipe
<1>4. Concluded
  BY DEF Init, Concluded
<1>5. Counters
  BY DEF Init, Counters
<1>6. Progress
  BY DEF Init, Progress
<1> QED BY <1>1, <1>2, <1>3, <1>4, <1>5, <1>6 DEF Typed

\* What the helper does after each message it sends.
LEMMA AfterSendValues == /\ AfterSend["send initialize"] = "read init"
                         /\ AfterSend["send initialized"] = "send tools/list"
                         /\ AfterSend["send tools/list"] = "read tools"
BY DEF AfterSend, Sending

\* Every step leaves the threads and the child in such places.
LEMMA PlacesStep == Places /\ [Next]_vars => Places'
<1> SUFFICES ASSUME Places, [Next]_vars PROVE Places'
  OBVIOUS
<1>1. CASE CannotStart
  BY <1>1 DEF Places, CannotStart, probe
<1>2. CASE Spawn
  BY <1>2 DEF Places, Spawn, Sending
<1>3. CASE Receive
  BY <1>3 DEF Places, Receive, probe
<1>4. CASE Timeout
  BY <1>4 DEF Places, Timeout, probe
<1>5. CASE Kill
  BY <1>5 DEF Places, Kill
<1>6. CASE Reap
  BY <1>6 DEF Places, Reap
<1>7. CASE Join
  BY <1>7 DEF Places, Join, probe
<1>8. CASE Send
  BY <1>8, AfterSendValues DEF Places, Send, Report, Sending, Reading, caller, server
<1>9. CASE Read
  BY <1>9 DEF Places, Read, Report, Sending, Reading, caller
<1>10. CASE ReadEof
  BY <1>10 DEF Places, ReadEof, Report, Reading, caller, server
<1>11. CASE Serve
  BY <1>11 DEF Places, Serve, caller
<1>12. CASE Notify
  BY <1>12 DEF Places, Notify, caller
<1>13. CASE ChildExits
  BY <1>13 DEF Places, ChildExits, caller
<1>14. CASE Fork
  BY <1>14 DEF Places, Fork, caller
<1>15. CASE \E s \in Servers : HeirExits(s)
  BY <1>15 DEF Places, HeirExits, caller
<1>16. CASE UNCHANGED vars
  BY <1>16 DEF Places, vars
<1> QED BY <1>1, <1>2, <1>3, <1>4, <1>5, <1>6, <1>7, <1>8, <1>9, <1>10, <1>11,
           <1>12, <1>13, <1>14, <1>15, <1>16
        DEF Next, CallerStep, HelperStep, ServerStep

\* Nothing is handled that has not been sent.
LEMMA CountersStep == Counters /\ Progress /\ [Next]_vars => Counters'
<1> SUFFICES ASSUME Counters, Progress, [Next]_vars PROVE Counters'
  OBVIOUS
<1>1. CASE CannotStart
  BY <1>1 DEF Counters, CannotStart, probe
<1>2. CASE Spawn
  <2>1. sent' = 0 /\ handled' = 0
    BY <1>2 DEF Spawn
  <2> QED BY <2>1 DEF Counters
<1>3. CASE Receive
  BY <1>3 DEF Counters, Receive, probe
<1>4. CASE Timeout
  BY <1>4 DEF Counters, Timeout, probe
<1>5. CASE Kill
  BY <1>5 DEF Counters, Kill
<1>6. CASE Reap
  BY <1>6 DEF Counters, Reap
<1>7. CASE Join
  BY <1>7 DEF Counters, Join, probe
<1>8. CASE Send
  <2>1. sent \in {0, 1, 2} /\ sent' \in {sent, sent + 1} /\ UNCHANGED handled
    BY <1>8 DEF Progress, Send, Sending, server
  <2> QED BY <2>1 DEF Counters
<1>9. CASE Read
  BY <1>9 DEF Counters, Read, caller
<1>10. CASE ReadEof
  BY <1>10 DEF Counters, ReadEof, caller, server
<1>11. CASE Serve
  <2>1. handled < sent /\ handled' = handled + 1 /\ UNCHANGED sent
    BY <1>11 DEF Serve
  <2> QED BY <2>1 DEF Counters
<1>12. CASE Notify
  BY <1>12 DEF Counters, Notify, caller
<1>13. CASE ChildExits
  BY <1>13 DEF Counters, ChildExits, caller
<1>14. CASE Fork
  BY <1>14 DEF Counters, Fork, caller
<1>15. CASE \E s \in Servers : HeirExits(s)
  BY <1>15 DEF Counters, HeirExits, caller
<1>16. CASE UNCHANGED vars
  BY <1>16 DEF Counters, vars
<1> QED BY <1>1, <1>2, <1>3, <1>4, <1>5, <1>6, <1>7, <1>8, <1>9, <1>10, <1>11,
           <1>12, <1>13, <1>14, <1>15, <1>16
        DEF Next, CallerStep, HelperStep, ServerStep

\* The helper sends one message after the other.
LEMMA ProgressStep == Progress /\ [Next]_vars => Progress'
<1> SUFFICES ASSUME Progress, [Next]_vars PROVE Progress'
  OBVIOUS
<1>1. CASE CannotStart
  BY <1>1 DEF Progress, CannotStart, probe
<1>2. CASE Spawn
  BY <1>2 DEF Progress, Spawn
<1>3. CASE Receive
  BY <1>3 DEF Progress, Receive, probe
<1>4. CASE Timeout
  BY <1>4 DEF Progress, Timeout, probe
<1>5. CASE Kill
  BY <1>5 DEF Progress, Kill
<1>6. CASE Reap
  BY <1>6 DEF Progress, Reap
<1>7. CASE Join
  BY <1>7 DEF Progress, Join, probe
<1>8. CASE Send
  <2>1. CASE helper' = "ended"
    BY <2>1 DEF Progress
  <2>2. CASE helper' = AfterSend[helper] /\ sent' = sent + 1 /\ helper \in Sending
    <3>1. CASE helper = "send initialize"
      <4>1. sent = 0
        BY <3>1 DEF Progress
      <4>2. sent' = 1
        BY <2>2, <4>1
      <4>3. helper' = "read init"
        BY <2>2, <3>1, AfterSendValues
      <4> QED BY <4>2, <4>3 DEF Progress
    <3>2. CASE helper = "send initialized"
      <4>1. sent = 1
        BY <3>2 DEF Progress
      <4>2. sent' = 2
        BY <2>2, <4>1
      <4>3. helper' = "send tools/list"
        BY <2>2, <3>2, AfterSendValues
      <4> QED BY <4>2, <4>3 DEF Progress
    <3>3. CASE helper = "send tools/list"
      <4>1. sent = 2
        BY <3>3 DEF Progress
      <4>2. sent' = 3
        BY <2>2, <4>1
      <4>3. helper' = "read tools"
        BY <2>2, <3>3, AfterSendValues
      <4> QED BY <4>2, <4>3 DEF Progress
    <3> QED BY <2>2, <3>1, <3>2, <3>3 DEF Sending
  <2> QED BY <1>8, <2>1, <2>2 DEF Send, Report
<1>9. CASE Read
  BY <1>9 DEF Progress, Read, Report, Reading, caller
<1>10. CASE ReadEof
  BY <1>10 DEF Progress, ReadEof, Report, caller, server
<1>11. CASE Serve
  BY <1>11 DEF Progress, Serve, caller
<1>12. CASE Notify
  BY <1>12 DEF Progress, Notify, caller
<1>13. CASE ChildExits
  BY <1>13 DEF Progress, ChildExits, caller
<1>14. CASE Fork
  BY <1>14 DEF Progress, Fork, caller
<1>15. CASE \E s \in Servers : HeirExits(s)
  BY <1>15 DEF Progress, HeirExits, caller
<1>16. CASE UNCHANGED vars
  BY <1>16 DEF Progress, vars
<1> QED BY <1>1, <1>2, <1>3, <1>4, <1>5, <1>6, <1>7, <1>8, <1>9, <1>10, <1>11,
           <1>12, <1>13, <1>14, <1>15, <1>16
        DEF Next, CallerStep, HelperStep, ServerStep

\* Whoever answers, chats or forks is a server.
LEMMA ProbedStep == Places /\ Probed /\ [Next]_vars => Probed'
<1> SUFFICES ASSUME Places, Probed, [Next]_vars PROVE Probed'
  OBVIOUS
<1>1. CASE CannotStart
  BY <1>1, ServerNumbers DEF Probed, CannotStart, probe
<1>2. CASE Spawn
  BY <1>2 DEF Probed, Spawn
<1>3. CASE Receive
  BY <1>3 DEF Probed, Receive, probe
<1>4. CASE Timeout
  BY <1>4 DEF Probed, Timeout, probe
<1>5. CASE Kill
  BY <1>5 DEF Probed, Kill
<1>6. CASE Reap
  BY <1>6 DEF Probed, Reap
<1>7. CASE Join
  BY <1>7, ServerNumbers DEF Probed, Join, probe
<1>8. CASE Send
  BY <1>8 DEF Probed, Send, caller, server
<1>9. CASE Read
  BY <1>9 DEF Probed, Read, caller
<1>10. CASE ReadEof
  BY <1>10 DEF Probed, ReadEof, caller, server
<1>11. CASE Serve
  BY <1>11 DEF Places, Probed, Serve, caller, PipesHeld
<1>12. CASE Notify
  BY <1>12 DEF Places, Probed, Notify, caller, PipesHeld
<1>13. CASE ChildExits
  BY <1>13 DEF Probed, ChildExits, caller
<1>14. CASE Fork
  BY <1>14 DEF Places, Probed, Fork, caller
<1>15. CASE \E s \in Servers : HeirExits(s)
  BY <1>15 DEF Probed, HeirExits, caller
<1>16. CASE UNCHANGED vars
  BY <1>16 DEF Probed, vars
<1> QED BY <1>1, <1>2, <1>3, <1>4, <1>5, <1>6, <1>7, <1>8, <1>9, <1>10, <1>11,
           <1>12, <1>13, <1>14, <1>15, <1>16
        DEF Next, CallerStep, HelperStep, ServerStep

\* The server's stdout holds lines.
LEMMA PipeStep == Pipe /\ [Next]_vars => Pipe'
<1> SUFFICES ASSUME Pipe, [Next]_vars PROVE Pipe'
  OBVIOUS
<1>1. CASE CannotStart
  BY <1>1 DEF Pipe, CannotStart, probe
<1>2. CASE Spawn
  <2>1. stdout' \in Seq(Lines)
    BY <1>2, EmptySeq DEF Spawn
  <2>2. notes' = 0
    BY <1>2 DEF Spawn
  <2>3. 0 \in 0..MaxNotes
    BY DiscoveryAssumption
  <2> QED BY <2>1, <2>2, <2>3 DEF Pipe
<1>3. CASE Receive
  BY <1>3 DEF Pipe, Receive, probe
<1>4. CASE Timeout
  BY <1>4 DEF Pipe, Timeout, probe
<1>5. CASE Kill
  BY <1>5 DEF Pipe, Kill
<1>6. CASE Reap
  BY <1>6 DEF Pipe, Reap
<1>7. CASE Join
  BY <1>7 DEF Pipe, Join, probe
<1>8. CASE Send
  BY <1>8 DEF Pipe, Send, caller, server
<1>9. CASE Read
  BY <1>9, HeadTailProperties DEF Pipe, Read, caller
<1>10. CASE ReadEof
  BY <1>10 DEF Pipe, ReadEof, caller, server
<1>11. CASE Serve
  BY <1>11, AppendProperties, SMTT(30) DEF Pipe, Serve, Write, Lines
<1>12. CASE Notify
  <2>1. stdout' \in Seq(Lines)
    BY <1>12, AppendProperties DEF Pipe, Notify, Write, Lines
  <2>2. notes' \in 0..MaxNotes
    BY <1>12, DiscoveryAssumption DEF Pipe, Notify
  <2> QED BY <2>1, <2>2 DEF Pipe
<1>13. CASE ChildExits
  BY <1>13 DEF Pipe, ChildExits, caller
<1>14. CASE Fork
  BY <1>14 DEF Pipe, Fork, caller
<1>15. CASE \E s \in Servers : HeirExits(s)
  BY <1>15 DEF Pipe, HeirExits, caller
<1>16. CASE UNCHANGED vars
  BY <1>16 DEF Pipe, vars
<1> QED BY <1>1, <1>2, <1>3, <1>4, <1>5, <1>6, <1>7, <1>8, <1>9, <1>10, <1>11,
           <1>12, <1>13, <1>14, <1>15, <1>16
        DEF Next, CallerStep, HelperStep, ServerStep

\* What is concluded of a server is a verdict.
LEMMA ConcludedStep == Places /\ Concluded /\ [Next]_vars => Concluded'
<1> SUFFICES ASSUME Places, Concluded, [Next]_vars PROVE Concluded'
  OBVIOUS
<1>1. CASE CannotStart
  BY <1>1 DEF Concluded, CannotStart, Conclude, Verdicts
<1>2. CASE Spawn
  BY <1>2 DEF Concluded, Spawn
<1>3. CASE Receive
  BY <1>3 DEF Places, Concluded, Receive, Conclude, Verdicts
<1>4. CASE Timeout
  BY <1>4 DEF Concluded, Timeout, Conclude, Verdicts
<1>5. CASE Kill
  BY <1>5 DEF Concluded, Kill
<1>6. CASE Reap
  BY <1>6 DEF Concluded, Reap
<1>7. CASE Join
  BY <1>7 DEF Concluded, Join, probe
<1>8. CASE Send
  BY <1>8 DEF Concluded, Send, caller, server
<1>9. CASE Read
  BY <1>9 DEF Concluded, Read, caller
<1>10. CASE ReadEof
  BY <1>10 DEF Concluded, ReadEof, caller, server
<1>11. CASE Serve
  BY <1>11 DEF Concluded, Serve, caller
<1>12. CASE Notify
  BY <1>12 DEF Concluded, Notify, caller
<1>13. CASE ChildExits
  BY <1>13 DEF Concluded, ChildExits, caller
<1>14. CASE Fork
  BY <1>14 DEF Concluded, Fork, caller
<1>15. CASE \E s \in Servers : HeirExits(s)
  BY <1>15 DEF Concluded, HeirExits, caller
<1>16. CASE UNCHANGED vars
  BY <1>16 DEF Concluded, vars
<1> QED BY <1>1, <1>2, <1>3, <1>4, <1>5, <1>6, <1>7, <1>8, <1>9, <1>10, <1>11,
           <1>12, <1>13, <1>14, <1>15, <1>16
        DEF Next, CallerStep, HelperStep, ServerStep

\* The types, and what the places of threads and child say, always hold.
LEMMA Typing == Spec => []Typed
<1>1. Typed /\ [Next]_vars => Typed'
  BY PlacesStep, CountersStep, ProgressStep, ProbedStep, PipeStep, ConcludedStep DEF Typed
<1> QED BY InitTyped, <1>1, PTL DEF Spec

\* Every variable keeps its type, whatever the servers do.
THEOREM TypeCorrect == Spec => []TypeOK
<1>1. Typed => TypeOK
  BY DEF Typed, Places, Counters, Probed, Pipe, Concluded, TypeOK
<1> QED BY Typing, <1>1, PTL

\* Between two probes nothing of the earlier one is left: discover_tools_inner
\* reaps the child and joins the helper on every path.
THEOREM ProbesAreSeparate == Spec => []ProbesDoNotOverlap
<1>1. Typed => ProbesDoNotOverlap
  BY DEF Typed, Places, ProbesDoNotOverlap
<1> QED BY Typing, <1>1, PTL

\* A tool list in the pipe or on the channel while the caller waits, or
\* concluded earlier, was written while the caller waited.
Heard == /\ parent = "waiting" /\ (channel = "tools" \/ \E i \in DOMAIN stdout : stdout[i] = "tools")
              => cur \in answered \cup offered
         /\ ToolsWereAnswered

\* A tool list in the pipe after a write is the line written or was there.
LEMMA WriteAdds ==
  ASSUME Pipe, NEW line \in Lines, Write(line), NEW i \in DOMAIN stdout', stdout'[i] = "tools"
  PROVE  line = "tools" \/ \E k \in DOMAIN stdout : stdout[k] = "tools"
<1>1. stdout \in Seq(Lines) /\ stdout' = Append(stdout, line)
  BY DEF Pipe, Write
<1>2. /\ Len(stdout) \in Nat /\ DOMAIN stdout = 1..Len(stdout)
      /\ DOMAIN stdout' = 1..(Len(stdout) + 1)
      /\ stdout'[Len(stdout) + 1] = line
      /\ \A k \in 1..Len(stdout) : stdout'[k] = stdout[k]
  BY <1>1, AppendProperties, LenProperties
<1>3. i = Len(stdout) + 1 \/ i \in 1..Len(stdout)
  BY <1>2
<1> QED BY <1>2, <1>3

\* Serve writes a tool list in answer to tools/list, Notify one unasked.
LEMMA HeardStep == Typed /\ Heard /\ [Next]_vars => Heard'
<1> SUFFICES ASSUME Typed, Heard, [Next]_vars PROVE Heard'
  OBVIOUS
<1> USE DEF Heard, ToolsWereAnswered
<1>1. CASE CannotStart
  BY <1>1 DEF Typed, Concluded, CannotStart, Conclude, probe
<1>2. CASE Spawn
  <2>1. channel' = "empty" /\ UNCHANGED <<verdict, answered, offered>>
    BY <1>2 DEF Spawn
  <2>2. DOMAIN stdout' = {}
    <3>1. stdout' = <<>>
      BY <1>2 DEF Spawn
    <3> QED BY <3>1
  <2> QED BY <2>1, <2>2
<1>3. CASE Receive
  BY <1>3 DEF Typed, Concluded, Receive, Conclude, probe
<1>4. CASE Timeout
  BY <1>4 DEF Typed, Concluded, Timeout, Conclude, probe
<1>5. CASE Kill
  BY <1>5 DEF Kill
<1>6. CASE Reap
  BY <1>6 DEF Reap
<1>7. CASE Join
  BY <1>7 DEF Join, probe
<1>8. CASE Send
  BY <1>8 DEF Send, Report, caller, server
<1>9. CASE Read
  <2>a. stdout \in Seq(Lines) /\ stdout # <<>> /\ stdout' = Tail(stdout)
    BY <1>9 DEF Read, Typed, Pipe
  <2>1. \A i \in DOMAIN stdout' : stdout'[i] = stdout[i + 1] /\ i + 1 \in DOMAIN stdout
    BY <2>a, HeadTailProperties, LenProperties
  <2>2. Head(stdout) = stdout[1] /\ 1 \in DOMAIN stdout
    BY <2>a, EmptySeq, LenProperties
  <2>3. channel' = "tools" => channel = "tools" \/ Head(stdout) = "tools"
    BY <1>9 DEF Read, Report
  <2> QED BY <1>9, <2>1, <2>2, <2>3 DEF Read, caller
<1>10. CASE ReadEof
  BY <1>10 DEF ReadEof, Report, caller, server
<1>11. CASE Serve
  <2>0. UNCHANGED offered
    BY <1>11 DEF Serve
  <2>1. ASSUME parent = "waiting", NEW i \in DOMAIN stdout', stdout'[i] = "tools"
        PROVE  cur \in answered' \cup offered
    <3>1. CASE stdout' = stdout
      BY <1>11, <2>1, <3>1 DEF Serve
    <3>2. CASE \E line \in Lines : /\ Write(line)
                                  /\ answered' = IF line = "tools" /\ parent = "waiting"
                                                 THEN answered \cup {cur} ELSE answered
      BY <2>1, <3>2, WriteAdds DEF Typed
    <3>3. CASE \E line \in Lines : Write(line) /\ line # "tools" /\ UNCHANGED answered
      BY <2>1, <3>3, WriteAdds DEF Typed
    <3> QED BY <1>11, <3>1, <3>2, <3>3 DEF Serve, Lines
  <2> QED BY <1>11, <2>0, <2>1 DEF Serve, caller
<1>12. CASE Notify
  <2>0. PICK line \in Lines : /\ Write(line)
                              /\ offered' = IF line = "tools" /\ parent = "waiting"
                                            THEN offered \cup {cur} ELSE offered
    BY <1>12 DEF Notify, Lines
  <2>1. ASSUME parent = "waiting", NEW i \in DOMAIN stdout', stdout'[i] = "tools"
        PROVE  cur \in answered \cup offered'
    <3>1. line = "tools" \/ \E k \in DOMAIN stdout : stdout[k] = "tools"
      BY <2>0, <2>1, WriteAdds DEF Typed
    <3> QED BY <2>0, <2>1, <3>1
  <2>2. offered \subseteq offered'
    BY <2>0
  <2> QED BY <1>12, <2>1, <2>2 DEF Notify, caller
<1>13. CASE ChildExits
  BY <1>13 DEF ChildExits, caller
<1>14. CASE Fork
  BY <1>14 DEF Fork, caller
<1>15. CASE \E s \in Servers : HeirExits(s)
  BY <1>15 DEF HeirExits, caller
<1>16. CASE UNCHANGED vars
  BY <1>16 DEF vars
<1> QED BY <1>1, <1>2, <1>3, <1>4, <1>5, <1>6, <1>7, <1>8, <1>9, <1>10, <1>11,
           <1>12, <1>13, <1>14, <1>15, <1>16
        DEF Next, CallerStep, HelperStep, ServerStep

\* run_handshake takes the second line it reads for the answer: whatever comes
\* in between, a tool list is only concluded of a server that sent one, asked
\* or not, while it was waited for.
THEOREM ToolListsAreAnswers == Spec => []ToolsWereAnswered
<1>1. Init => Heard
  BY DEF Init, Heard, ToolsWereAnswered, Verdicts
<1>2. Heard => ToolsWereAnswered
  BY DEF Heard
<1> QED BY Typing, <1>1, <1>2, HeardStep, PTL DEF Spec

\* A probe during which the server has written nothing unasked: at most the
\* answer the helper is about to read is in the pipe, and if that is the tool
\* list, or was, it is what the helper takes it for.
Answers == /\ parent = "waiting" /\ helper # "ended" => channel = "empty"
           /\ parent = "waiting" /\ cur \notin chatty =>
                \/ /\ helper = "send initialize" /\ handled = 0
                   /\ stdout = <<>> /\ cur \notin answered
                \/ /\ helper = "read init" /\ handled = 0
                   /\ stdout = <<>> /\ cur \notin answered
                \/ /\ helper = "read init" /\ handled # 0
                   /\ Tail(stdout) = <<>> /\ cur \notin answered
                \/ /\ helper \in {"send initialized", "send tools/list"} /\ handled # 0
                   /\ stdout = <<>> /\ cur \notin answered
                \/ /\ helper = "read tools" /\ handled \in {1, 2}
                   /\ stdout = <<>> /\ cur \notin answered
                \/ /\ helper = "read tools" /\ handled = 3 /\ stdout # <<>>
                   /\ cur \in answered => Head(stdout) = "tools"
                \/ helper = "ended" /\ cur \notin answered /\ (handled = sent \/ ~PipesHeld)
                \/ helper = "ended" /\ channel = "tools"

\* Servers answer when it is their turn, and are judged after that.
Turns == /\ \A s \in answered : s < cur \/ (s = cur /\ parent # "next")
         /\ \A s \in Servers : s > cur \/ (s = cur /\ parent \in {"next", "waiting"})
                                 => verdict[s] = "none"
         /\ parent \notin {"next", "waiting"} => verdict[cur] # "none"

\* A probe begins with empty pipes.
LEMMA AnswersCaller == Typed /\ Answers /\ Turns /\ CallerStep => Answers'
<1> SUFFICES ASSUME Typed, Answers, Turns, CallerStep PROVE Answers'
  OBVIOUS
<1>1. CASE Spawn
  <2>0. cur \in Nat
    BY DEF Typed, Probed
  <2>1. cur \notin answered
    <3>1. \A s \in answered : s < cur \/ (s = cur /\ parent # "next")
      BY DEF Turns
    <3>2. parent = "next"
      BY <1>1 DEF Spawn
    <3>3. ~(cur < cur)
      BY <2>0
    <3> QED BY <3>1, <3>2, <3>3
  <2> QED BY <1>1, <2>1 DEF Spawn, Answers
<1>2. CASE parent' # "waiting"
  BY <1>2 DEF Answers
<1>3. CallerStep => Spawn \/ parent' # "waiting"
  BY DEF CallerStep, CannotStart, Receive, Timeout, Kill, Reap, Join
<1> QED BY <1>1, <1>2, <1>3

\* The helper reads each answer after the request it answers.
LEMMA AnswersHelper == Typed /\ Answers /\ HelperStep => Answers'
<1> SUFFICES ASSUME Typed, Answers, HelperStep, parent = "waiting" PROVE Answers'
  BY DEF Answers, HelperStep, Send, Read, ReadEof, caller
<1>p. UNCHANGED PipesHeld /\ UNCHANGED <<parent, cur, chatty, answered, handled>>
  BY DEF HelperStep, Send, Read, ReadEof, caller, server, PipesHeld
<1>1. CASE Send
  <2>1. CASE ~PipesHeld /\ Report("protocol")
    BY <1>1, <1>p, <2>1 DEF Answers, Report, Sending, Send, server
  <2>2. CASE helper' = AfterSend[helper] /\ UNCHANGED channel
    <3>1. UNCHANGED stdout
      BY <1>1 DEF Send, server
    <3>2. CASE helper = "send initialize"
      BY <1>p, <2>2, <3>1, <3>2, AfterSendValues DEF Answers
    <3>3. CASE helper = "send initialized"
      BY <1>p, <2>2, <3>1, <3>3, AfterSendValues DEF Answers
    <3>4. CASE helper = "send tools/list"
      <4>0. cur \notin chatty => handled # 0 /\ stdout = <<>> /\ cur \notin answered
        BY <3>4 DEF Answers
      <4>1. sent = 2
        BY <3>4 DEF Typed, Progress
      <4>2. handled # 0 => handled \in {1, 2}
        BY <4>1 DEF Typed, Counters
      <4> QED BY <1>p, <2>2, <3>1, <3>4, <4>0, <4>2, AfterSendValues DEF Answers
    <3> QED BY <1>1, <3>2, <3>3, <3>4 DEF Send, Sending
  <2> QED BY <1>1, <2>1, <2>2 DEF Send
<1>2. CASE Read
  <2>1. CASE helper = "read init"
    <3>1. cur \notin chatty => handled # 0 /\ stdout' = <<>> /\ cur \notin answered
      BY <1>2, <2>1 DEF Read, Answers
    <3>0. sent = 1
      BY <2>1 DEF Typed, Progress
    <3>2. handled # 0 => handled = sent
      BY <3>0 DEF Typed, Counters
    <3>3. UNCHANGED sent
      BY <1>2 DEF Read
    <3>4. \/ helper' = "send initialized" /\ UNCHANGED channel
          \/ helper' = "ended"
      BY <1>2, <2>1 DEF Read, Report
    <3> QED BY <1>p, <2>1, <3>1, <3>2, <3>3, <3>4 DEF Answers
  <2>2. CASE helper = "read tools"
    <3>1. cur \notin chatty => handled = 3 /\ (cur \in answered => Head(stdout) = "tools")
      BY <1>2, <2>2 DEF Read, Answers
    <3>2. handled = 3 => handled = sent
      BY DEF Typed, Counters
    <3>3. UNCHANGED sent
      BY <1>2 DEF Read
    <3>4. helper' = "ended" /\ (Head(stdout) = "tools" => channel' = "tools")
      BY <1>2, <2>2 DEF Read, Report
    <3> QED BY <1>p, <3>1, <3>2, <3>3, <3>4 DEF Answers
  <2> QED BY <1>2, <2>1, <2>2 DEF Read, Reading
<1>3. CASE ReadEof
  BY <1>3, <1>p DEF ReadEof, Reading, Report, Answers
<1> QED BY <1>1, <1>2, <1>3 DEF HelperStep

\* The server answers once, and only after the helper has asked.
LEMMA AnswersServer == Typed /\ Answers /\ ServerStep => Answers'
<1> SUFFICES ASSUME Typed, Answers, ServerStep, parent = "waiting" PROVE Answers'
  BY DEF Answers, ServerStep, Serve, Notify, ChildExits, Fork, HeirExits, caller
<1>p. UNCHANGED <<parent, cur, helper, channel, sent>>
  BY DEF ServerStep, Serve, Notify, ChildExits, Fork, HeirExits, caller
<1>1. CASE Serve
  <2>1. PipesHeld /\ handled # sent /\ handled' = handled + 1 /\ UNCHANGED chatty
    BY <1>1 DEF Serve, Typed, Counters
  <2>2. CASE cur \in chatty \/ (helper = "ended" /\ channel = "tools")
    BY <1>p, <2>1, <2>2 DEF Answers
  <2>3. CASE helper = "read init" /\ cur \notin chatty
    <3>0. sent = 1
      BY <2>3 DEF Typed, Progress
    <3>1. handled = 0
      BY <2>1, <3>0 DEF Typed, Counters
    <3>2. PICK line \in Lines : stdout' = Append(stdout, line) /\ UNCHANGED answered
      BY <1>1, <3>1 DEF Serve, Write, Lines
    <3>3. stdout = <<>> /\ cur \notin answered
      BY <2>3, <3>1 DEF Answers
    <3>4. Tail(stdout') = <<>>
      BY <3>2, <3>3, HeadTailAppend DEF Typed, Pipe
    <3>5. handled' # 0
      BY <2>1, <3>1
    <3> QED BY <1>p, <2>1, <2>3, <3>2, <3>3, <3>4, <3>5 DEF Answers
  <2>4. CASE helper = "send tools/list" /\ cur \notin chatty
    <3>a. sent = 2
      BY <2>4 DEF Typed, Progress
    <3>b. handled # 0 /\ stdout = <<>> /\ cur \notin answered
      BY <2>4 DEF Answers
    <3>1. handled = 1
      BY <2>1, <3>a, <3>b DEF Typed, Counters
    <3>2. UNCHANGED <<stdout, answered>> /\ handled' = 2
      BY <1>1, <2>1, <3>1 DEF Serve
    <3>3. handled' # 0
      BY <3>2
    <3>4. UNCHANGED <<stdout, answered>>
      BY <3>2
    <3> QED BY <1>p, <2>1, <2>4, <3>b, <3>3, <3>4 DEF Answers
  <2>5. CASE helper = "read tools" /\ cur \notin chatty
    <3>0. handled # 3
      BY <2>1 DEF Typed, Counters
    <3>1. handled \in {1, 2} /\ stdout = <<>> /\ cur \notin answered
      BY <2>5, <3>0 DEF Answers
    <3>2. CASE handled = 1
      <4>1. UNCHANGED <<stdout, answered>> /\ handled' = 2
        BY <1>1, <2>1, <3>2 DEF Serve
      <4> QED BY <1>p, <2>1, <2>5, <3>1, <4>1 DEF Answers
    <3>3. CASE handled = 2
      <4>1. handled' = 3
        BY <2>1, <3>3
      <4>2. PICK line \in Lines : /\ stdout' = Append(stdout, line)
                                  /\ cur \in answered' => line = "tools"
        BY <1>1, <3>1, <3>3 DEF Serve, Write, Lines
      <4>3. stdout' # <<>> /\ Head(stdout') = line
        BY <3>1, <4>2, HeadTailAppend, AppendProperties DEF Typed, Pipe
      <4> QED BY <1>p, <2>1, <2>5, <4>1, <4>2, <4>3 DEF Answers
    <3> QED BY <3>1, <3>2, <3>3
  <2>6. CASE helper \in {"send initialize", "send initialized"} /\ cur \notin chatty
    <3>2. CASE helper = "send initialize"
      <4>1. sent = 0
        BY <3>2 DEF Typed, Progress
      <4> QED BY <2>1, <4>1 DEF Typed, Counters
    <3>3. CASE helper = "send initialized"
      <4>1. sent = 1 /\ handled # 0
        BY <2>6, <3>3 DEF Typed, Progress, Answers
      <4> QED BY <2>1, <4>1 DEF Typed, Counters
    <3> QED BY <2>6, <3>2, <3>3
  <2> QED BY <2>1, <2>2, <2>3, <2>4, <2>5, <2>6 DEF Answers
<1>2. CASE Notify
  <2>1. UNCHANGED <<handled, answered>>
        /\ \E line \in Lines : stdout' = Append(stdout, line)
    BY <1>2 DEF Notify, Write, Lines
  <2>2. CASE cur \in chatty'
    BY <1>p, <2>2 DEF Answers
  <2>3. CASE cur \notin chatty'
    <3>1. cur \in answered /\ cur \notin chatty
      BY <1>2, <2>3 DEF Notify
    <3>2. CASE helper = "ended"
      BY <1>p, <3>1, <3>2 DEF Answers
    <3>3. CASE helper # "ended"
      <4>1. helper = "read tools" /\ handled = 3 /\ stdout # <<>> /\ Head(stdout) = "tools"
        BY <3>1, <3>3 DEF Answers
      <4>2. stdout' # <<>> /\ Head(stdout') = Head(stdout)
        <5>1. stdout \in Seq(Lines) /\ stdout # <<>>
          BY <4>1 DEF Typed, Pipe
        <5>2. PICK line \in Lines : stdout' = Append(stdout, line)
          BY <2>1
        <5>3. Append(stdout, line) # <<>>
          BY <5>1, AppendProperties
        <5>4. Head(Append(stdout, line)) = Head(stdout)
          BY <5>1, HeadTailAppend
        <5> QED BY <5>2, <5>3, <5>4
      <4> QED BY <1>p, <2>1, <4>1, <4>2, <3>3 DEF Answers
    <3> QED BY <3>2, <3>3
  <2> QED BY <2>2, <2>3
<1>3. CASE ChildExits \/ Fork \/ \E s \in Servers : HeirExits(s)
  <2>1. UNCHANGED <<handled, stdout, answered, chatty>> /\ (PipesHeld' => PipesHeld)
    BY <1>3 DEF ChildExits, Fork, HeirExits, caller, PipesHeld
  <2> QED BY <1>p, <2>1 DEF Answers
<1> QED BY <1>1, <1>2, <1>3 DEF ServerStep

\* Probes do not come back to an earlier server.
LEMMA TurnsStep == Typed /\ Turns /\ [Next]_vars => Turns'
<1> SUFFICES ASSUME Typed, Turns, [Next]_vars PROVE Turns'
  OBVIOUS
<1>t. answered \in SUBSET Servers /\ cur \in Nat /\ Servers \in SUBSET Nat
  BY DiscoveryAssumption DEF Typed, Probed, Servers
<1>w. \A v : parent # "next" /\ Conclude(v) => verdict'[cur] = v
  BY DEF Typed, Probed, Concluded, Conclude
<1>v. \A s \in Servers : s # cur /\ (\E v : Conclude(v)) => verdict'[s] = verdict[s]
  BY DEF Typed, Concluded, Conclude
<1>1. CASE CannotStart \/ Join
  <2>1. /\ parent' = "next" /\ cur' = cur + 1 /\ UNCHANGED answered
        /\ (\E v : Conclude(v)) \/ UNCHANGED verdict
    BY <1>1 DEF CannotStart, Join, probe
  <2>2. \A s \in Servers : s >= cur' => verdict'[s] = "none"
    BY <1>t, <1>v, <2>1 DEF Turns
  <2>3. \A s \in answered' : s < cur'
    BY <1>t, <2>1 DEF Turns
  <2> QED BY <1>t, <2>1, <2>2, <2>3 DEF Turns
<1>2. CASE Receive \/ Timeout
  <2>1. /\ parent' = "kill" /\ UNCHANGED <<cur, answered>> /\ (\E v : Conclude(v))
        /\ parent = "waiting"
    BY <1>2 DEF Receive, Timeout, probe
  <2>2. \A s \in Servers : s > cur' => verdict'[s] = "none"
    BY <1>t, <1>v, <2>1 DEF Turns
  <2>3. verdict'[cur'] # "none"
    BY <1>2, <1>w, <2>1 DEF Receive, Timeout, Typed, Places
  <2> QED BY <1>t, <2>1, <2>2, <2>3 DEF Turns
<1>3. CASE Spawn \/ Kill \/ Reap
  BY <1>3 DEF Spawn, Kill, Reap, Turns
<1>4. CASE Serve
  BY <1>4 DEF Serve, caller, Turns
<1>5. CASE HelperStep \/ Notify \/ ChildExits \/ Fork \/ (\E s \in Servers : HeirExits(s))
             \/ UNCHANGED vars
  <2>1. UNCHANGED <<parent, cur, verdict, answered>>
    BY <1>5 DEF HelperStep, Send, Read, ReadEof, Notify, ChildExits, Fork, HeirExits, caller,
                server, vars
  <2> QED BY <2>1 DEF Turns
<1> QED BY <1>1, <1>2, <1>3, <1>4, <1>5 DEF Next, CallerStep, ServerStep

\* What is concluded of an answer is the answer or that time was up.
LEMMA AnswerIsHeardStep ==
  Typed /\ Answers /\ Turns /\ AnswerIsHeard /\ [Next]_vars => AnswerIsHeard'
<1> SUFFICES ASSUME Typed, Answers, Turns, AnswerIsHeard, [Next]_vars PROVE AnswerIsHeard'
  OBVIOUS
<1>t. /\ answered \in SUBSET Servers /\ verdict \in [Servers -> Verdicts \cup {"none"}]
      /\ cur \in Nat /\ Servers \in SUBSET Nat
  BY DiscoveryAssumption DEF Typed, Probed, Concluded, Servers
<1>0. CASE CannotStart
  <2>1. UNCHANGED <<answered, chatty>> /\ \A s \in answered : s # cur
    BY <1>0, <1>t DEF CannotStart, probe, Turns
  <2>2. \A s \in answered : verdict'[s] = verdict[s]
    BY <1>0, <1>t, <2>1 DEF CannotStart, Conclude
  <2> QED BY <2>1, <2>2 DEF AnswerIsHeard
<1>1. CASE Timeout
  BY <1>1, <1>t DEF Timeout, Conclude, probe, AnswerIsHeard
<1>2. CASE Receive
  <2>1. cur \in answered \ chatty => channel = "tools"
    BY <1>2 DEF Receive, Answers, Typed, Places
  <2> QED BY <1>2, <1>t, <2>1 DEF Receive, Conclude, probe, AnswerIsHeard
<1>3. CASE Serve
  <2>1. \/ UNCHANGED answered
        \/ answered' = answered \cup {cur} /\ verdict[cur] = "none"
    <3>1. parent = "waiting" => verdict[cur] = "none"
      BY DEF Typed, Probed, Turns
    <3> QED BY <1>3, <3>1 DEF Serve
  <2> QED BY <1>3, <2>1 DEF Serve, caller, AnswerIsHeard
<1>4. CASE Notify
  <2>1. answered' \ chatty' \subseteq answered \ chatty /\ UNCHANGED <<verdict, cur>>
    BY <1>4 DEF Notify, caller
  <2> QED BY <2>1 DEF AnswerIsHeard
<1>5. CASE HelperStep \/ Spawn \/ Kill \/ Reap \/ ChildExits \/ Fork
             \/ (\E s \in Servers : HeirExits(s)) \/ UNCHANGED vars
  <2>1. UNCHANGED <<cur, verdict, answered, chatty>>
    BY <1>5 DEF HelperStep, Send, Read, ReadEof, Spawn, Kill, Reap, ChildExits, Fork,
                HeirExits, caller, server, probe, vars
  <2> QED BY <2>1 DEF AnswerIsHeard
<1>6. CASE Join
  <2>1. UNCHANGED <<verdict, answered, chatty>> /\ verdict[cur] # "none"
    BY <1>6 DEF Join, probe, Turns
  <2> QED BY <2>1 DEF AnswerIsHeard
<1> QED BY <1>0, <1>1, <1>2, <1>3, <1>4, <1>5, <1>6 DEF Next, CallerStep, ServerStep

\* A server that answered while it was waited for, and wrote nothing unasked
\* before, is recorded with its tools unless the timeout came before the helper
\* had read the answer: it is never called unavailable for what it wrote.
THEOREM AnswersAreHeard == Spec => []AnswerIsHeard
<1> DEFINE IInv == Answers /\ Turns /\ AnswerIsHeard
<1>1. Init => IInv
  BY DEF Init, Answers, Turns, AnswerIsHeard
<1>2. Typed /\ IInv /\ [Next]_vars => IInv'
  <2>1. Typed /\ Answers /\ UNCHANGED vars => Answers'
    BY DEF Answers, PipesHeld, vars
  <2> QED BY <2>1, AnswersCaller, AnswersHelper, AnswersServer, TurnsStep, AnswerIsHeardStep
          DEF Next
<1> QED BY Typing, <1>1, <1>2, PTL DEF Spec
=============================================================================
