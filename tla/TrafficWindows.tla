--------------------------- MODULE TrafficWindows ---------------------------
(***************************************************************************)
(* The commands that read access logs (report, investigate) beside the     *)
(* system that writes them.  Requests are served by gateway processes, each *)
(* of which writes its line later: lines reach the log in any order, and   *)
(* one may be cut short.  From time to time the current log becomes part   *)
(* of the historical one, and a new version of the specification is        *)
(* deployed.  The commands open the files one after the other, and         *)
(* investigate opens all of them twice: for the findings                   *)
(* (baseline_from_files) and for the policies it recommends                *)
(* (policy_recommendations_from_files).                                    *)
(***************************************************************************)
EXTENDS TrafficAnalysis

CONSTANTS Requests,      \* what may be asked, as lines without a time
          KnownAgents,   \* identities declared as agents
          Specs,         \* the versions of the specification (inventories)
          Unquotable,    \* identities, methods and path segments with a line break
          MaxUnwritten,  \* lines waiting to be written (bound)
          MaxEvents      \* requests, cut lines, rotations, deployments, commands
                         \* and readings that fail, together (bound)

ASSUME TrafficWindowsAssumption == Specs \subseteq Seq([method : STRING, path : Seq(STRING)])

VARIABLES clock,       \* how many requests there have been
          unwritten,   \* lines the gateways have not written yet
          current,     \* the current log
          historical,  \* the historical log
          spec,        \* the specification file
          job,         \* the running or last command: its place and what it read
          tools,       \* investigate: tool_calls
          findings,    \* investigate: findings
          reported,    \* history: first-time operations reported so far
          settled,     \* history: those whose lines have been rotated since
          events       \* how many of the bounded events there have been

vars == <<clock, unwritten, current, historical, spec, job, tools, findings,
          reported, settled, events>>
logs == <<clock, unwritten, current, historical>>

Busy == job.pc \in {"spec", "historical", "current"}

TypeOK == /\ clock \in Nat
          /\ \A line \in unwritten : line.at \in 1..clock
          /\ spec \in Specs
          /\ job.kind \in {"none", "report", "investigate"}
          /\ job.pc \in {"done", "failed", "spec", "historical", "current"}
          /\ job.round \in {1, 2}
          /\ \A i \in DOMAIN findings : findings[i].citation \in DOMAIN tools
          /\ settled \subseteq reported

Event == events < MaxEvents /\ events' = events + 1

Init == /\ clock = 0 /\ unwritten = {} /\ current = <<>> /\ historical = <<>>
        /\ spec \in Specs
        /\ job = [kind |-> "none", pc |-> "done", round |-> 1, moved |-> FALSE,
                  spec |-> <<>>, historical |-> <<>>, current |-> <<>>]
        /\ tools = <<>> /\ findings = <<>>
        /\ reported = {} /\ settled = {}
        /\ events = 0

----------------------------------------------------------------------------
(* The system that writes the files.                                       *)

Call(r) ==
  LET line == [method |-> r.method, target |-> r.target, status |-> r.status,
               who |-> r.who, at |-> clock + 1]
  IN /\ Event /\ Cardinality(unwritten) < MaxUnwritten
     /\ clock' = clock + 1
     /\ unwritten' = unwritten \cup {line}
     /\ UNCHANGED <<current, historical, spec, job, tools, findings, reported, settled>>

Write(line) ==
  /\ unwritten' = unwritten \ {line}
  /\ \/ current' = Append(current, line) /\ UNCHANGED events
     \/ current' = Append(current, [line EXCEPT !.method = Absent]) /\ Event
  /\ UNCHANGED <<clock, historical, spec, job, tools, findings, reported, settled>>

Rotate ==
  /\ Event
  /\ current # <<>>
  /\ historical' = historical \o current
  /\ current' = <<>>
  /\ settled' = reported
  /\ job' = [job EXCEPT !.moved = @ \/ Busy]
  /\ UNCHANGED <<clock, unwritten, spec, tools, findings, reported>>

Deploy ==
  /\ Event
  /\ spec' \in Specs \ {spec}
  /\ job' = [job EXCEPT !.moved = @ \/ Busy]
  /\ UNCHANGED <<logs, tools, findings, reported, settled>>

----------------------------------------------------------------------------
(* The commands.                                                           *)

BaselinesOfTheHistory(inventory, hist, cur) ==
  LET h == ParseAccessLog(hist)
      c == ParseAccessLog(cur)
  IN [baselines |-> BuildBaselines(h, KnownAgents),
      bola_findings |-> DetectSequentialIdAccess(inventory, c),
      first_time_operations |-> DetectFirstTimeOperations(inventory, h, c)]

BaselineFromFiles(inventory, hist, cur) ==
  LET h == ParseAccessLog(hist)
      c == ParseAccessLog(cur)
  IN [baselines |-> BuildBaselines(ParseAccessLog(hist \o cur), KnownAgents),
      bola_findings |-> DetectSequentialIdAccess(inventory, c),
      first_time_operations |-> DetectFirstTimeOperations(inventory, h, c)]

\* One policy for each finding: whom it forbids what, and its effect_hint.
Policy(f) == [who |-> f.who, method |-> f.method, path |-> f.path,
              effect_hint |-> IF f.kind = "bola" THEN "deny" ELSE "require_approval"]
Claims(result) == result.bola_findings \cup result.first_time_operations
Recommendations(result) == {Policy(f) : f \in Claims(result)}

\* cedar_string takes the identity and the resource, which names the method and
\* the path.
Quotable(f) == ({f.who, f.method} \cup ToSet(f.path)) \cap Unquotable = {}

\* In hundredths.  An agent is known by its baseline.
Confidence(f, baselines) ==
  LET known_agent_ids == {w \in DOMAIN baselines : baselines[w].known}
  IN CASE f.kind = "bola" -> 85
       [] f.kind = "first" /\ f.who \in known_agent_ids -> 80
       [] OTHER -> 60

CitesTheNextCall(result) ==
  LET claims == SetToSeq(result.bola_findings) \o SetToSeq(result.first_time_operations)
  IN [calls |-> [i \in DOMAIN claims |-> [tool |-> "baseline", observation |-> claims[i]]],
      findings |-> [i \in DOMAIN claims |->
                      [claim |-> claims[i], citation |-> i + 2, remediation |-> 0,
                       confidence |-> Confidence(claims[i], result.baselines)]]]

\* Each finding cites the tool call that is appended with it; discover's call
\* comes before all of them.
Cited(result) ==
  LET claims == SetToSeq(result.bola_findings) \o SetToSeq(result.first_time_operations)
  IN [calls |-> [i \in DOMAIN claims |-> [tool |-> "baseline", observation |-> claims[i]]],
      findings |-> [i \in DOMAIN claims |->
                      [claim |-> claims[i], citation |-> i + 1, remediation |-> 0,
                       confidence |-> Confidence(claims[i], result.baselines)]]]

Report ==
  /\ ~Busy /\ Event
  /\ job' = [kind |-> "report", pc |-> "spec", round |-> 1, moved |-> FALSE,
             spec |-> <<>>, historical |-> <<>>, current |-> <<>>]
  /\ tools' = <<>> /\ findings' = <<>>
  /\ UNCHANGED <<logs, spec, reported, settled>>

\* The first thing investigate does is discover, a reading of its own.
Investigate ==
  /\ ~Busy /\ Event
  /\ job' = [kind |-> "investigate", pc |-> "spec", round |-> 1, moved |-> FALSE,
             spec |-> <<>>, historical |-> <<>>, current |-> <<>>]
  /\ tools' = <<[tool |-> "discover", observation |-> Len(spec)]>>
  /\ findings' = <<>>
  /\ UNCHANGED <<logs, spec, reported, settled>>

ReadSpec ==
  /\ job.pc = "spec"
  /\ job' = [job EXCEPT !.spec = spec,
                        !.pc = IF job.kind = "report" THEN "current" ELSE "historical"]
  /\ UNCHANGED <<logs, spec, tools, findings, reported, settled, events>>

ReadHistorical ==
  /\ job.pc = "historical"
  /\ job' = [job EXCEPT !.historical = historical, !.pc = "current"]
  /\ UNCHANGED <<logs, spec, tools, findings, reported, settled, events>>

\* report_from_files: the last file is read, the report is made.
ReadForReport ==
  /\ job.pc = "current" /\ job.kind = "report"
  /\ job' = [job EXCEPT !.current = current, !.pc = "done"]
  /\ UNCHANGED <<logs, spec, tools, findings, reported, settled, events>>

ReadForFindings ==
  LET result == BaselineFromFiles(job.spec, job.historical, current)
      cited == Cited(result)
  IN /\ job.pc = "current" /\ job.kind = "investigate" /\ job.round = 1
     /\ job' = [job EXCEPT !.current = current, !.pc = "spec", !.round = 2]
     /\ tools' = tools \o cited.calls
     /\ findings' = cited.findings
     /\ reported' = reported \cup
          {<<job.spec, Policy(f)>> : f \in result.first_time_operations}
     /\ UNCHANGED <<logs, spec, settled, events>>

\* Sorted by confidence, the highest first, and then by id, for whose order that
\* of the claims stands.
ByConfidence(found) ==
  LET Before(i, j) == \/ found[i].confidence > found[j].confidence
                      \/ found[i].confidence = found[j].confidence /\ i <= j
      Place(i) == Cardinality({j \in DOMAIN found : Before(j, i)})
  IN [n \in DOMAIN found |-> found[CHOOSE i \in DOMAIN found : Place(i) = n]]

\* The command ends with an error; what investigate has found so far is lost.
FailCommand ==
  /\ job' = [kind |-> "none", pc |-> "failed", round |-> 1, moved |-> FALSE,
             spec |-> <<>>, historical |-> <<>>, current |-> <<>>]
  /\ tools' = <<>> /\ findings' = <<>>
  /\ UNCHANGED <<logs, spec, reported, settled>>

\* A file is missing, as during a rotation, or its last line was cut inside a
\* character: read_to_string fails.
ReadFails == Busy /\ Event /\ FailCommand

\* One finding that cannot be quoted fails policies_recommend.
RecommendFails ==
  /\ job.pc = "current" /\ job.kind = "investigate" /\ job.round = 2
  /\ \E f \in Claims(BaselineFromFiles(job.spec, job.historical, current)) : ~Quotable(f)
  /\ FailCommand
  /\ UNCHANGED events

\* The findings get the citation of the recommendations, and are sorted.
ReadForRecommendations ==
  LET result == BaselineFromFiles(job.spec, job.historical, current)
      recommended == Recommendations(result)
      cites == [i \in DOMAIN findings |->
                  [findings[i] EXCEPT !.remediation = Len(tools) + 1]]
  IN /\ job.pc = "current" /\ job.kind = "investigate" /\ job.round = 2
     /\ \A f \in Claims(result) : Quotable(f)
     /\ job' = [job EXCEPT !.spec = <<>>, !.historical = <<>>, !.current = <<>>, !.pc = "done"]
     /\ IF recommended = {}
        THEN findings' = ByConfidence(findings) /\ UNCHANGED tools
        ELSE /\ findings' = ByConfidence(cites)
             /\ tools' = Append(tools, [tool |-> "policies_recommend",
                                        observation |-> recommended])
     /\ UNCHANGED <<logs, spec, reported, settled, events>>

Next == \/ \E r \in Requests : Call(r)
        \/ \E line \in unwritten : Write(line)
        \/ Rotate
        \/ Deploy
        \/ Report
        \/ Investigate
        \/ ReadSpec
        \/ ReadHistorical
        \/ ReadForReport
        \/ ReadForFindings
        \/ ReadForRecommendations
        \/ ReadFails
        \/ RecommendFails

Spec == Init /\ [][Next]_vars

----------------------------------------------------------------------------
(* Properties.                                                             *)

FindingsAreMade == job.kind = "investigate" /\ job.round = 2 /\ job.pc = "spec"
Done(kind) == job.kind = kind /\ job.pc = "done"

\* The requests behind the lines of a log that can be read, by the time they
\* were made.
Behind(log) ==
  LET kept == {l \in ToSet(log) : Readable(l)}
  IN [t \in {l.at : l \in kept} |-> ParseLine(CHOOSE l \in kept : l.at = t)]

\* The lines of an identity are in the order of its requests.
InTimeOrder(log, w) ==
  \A i, j \in {k \in DOMAIN log : Readable(log[k]) /\ log[k].who = w} :
    i < j => log[i].at < log[j].at

HasRun(ids) == \E i, j \in DOMAIN ids : /\ j - i >= MinRun - 1
                                        /\ \A k \in i .. (j - 1) : ids[k + 1] - ids[k] \in {1, -1}

\* No difference of two ids asked for in a row overflows.
Fits(ids) == \A k \in DOMAIN ids :
               k + 1 \in DOMAIN ids => ids[k + 1] - ids[k] \in -IdLimit .. (IdLimit - 1)

\* "a step of exactly +1 or -1": an identity that asked an endpoint with one
\* parameter for a run of MinRun such ids, one after the other, is reported, and
\* nobody else is as long as no difference of two ids overflows (one that does
\* may look like a step of one).  Requests of others, requests for something
\* else and lines that cannot be read hide no run and make none.  The code takes
\* the order of the log for the order of the requests, so the identity's lines
\* have to be in order; ROADMAP.md (4.3) has the code sort them, which it does
\* not.
EnumerationIsFound ==
  FindingsAreMade =>
    \A w \in Identities(ParseAccessLog(job.current)) :
      \A e \in ToSet(job.spec) :
        LET asked == AccessedIds(Behind(job.current), w, e)
            Claimed == \E i \in DOMAIN findings :
                         findings[i].claim = [kind |-> "bola", who |-> w, method |-> e.method,
                                              path |-> e.path]
        IN (InTimeOrder(job.current, w) /\ SingleNumericParamIndex(e.path) # 0) =>
             /\ HasRun(asked) => Claimed
             /\ Claimed /\ Fits(asked) => HasRun(asked)

\* A first-time operation is found as such once: when the log it was found in
\* has become history, no investigation under the same specification finds it
\* again, however late other lines of the same requests arrive.  ~job.moved: of
\* an investigation during which the logs are rotated, or a specification is
\* deployed, nothing is said; it may miss lines or see them twice.
FirstTimeIsReportedOnce ==
  [][FindingsAreMade' /\ ~FindingsAreMade /\ ~job.moved =>
       \A i \in DOMAIN findings' :
         findings'[i].claim.kind = "first" =>
           <<job.spec, Policy(findings'[i].claim)>> \notin settled]_vars

\* Every claim of a finished investigation cites the tool call that observed
\* it, also after the sort, and the recommendations it cites contain a policy
\* against it although they were computed from a second reading of files that
\* may have grown since the first.  ~job.moved: when a log is rotated or a
\* specification deployed between the two readings, the second may lack what
\* the first had, and nothing is said of the recommendations.
RemedyCoversFindings ==
  Done("investigate") =>
    \A i \in DOMAIN findings :
      /\ tools[findings[i].citation].observation = findings[i].claim
      /\ ~job.moved => /\ findings[i].remediation # 0
                       /\ Policy(findings[i].claim)
                            \in tools[findings[i].remediation].observation

\* A declared agent is recognised, and nobody else, however short its history:
\* the confidence of a first-time finding depends on it.
AgentsAreRecognised ==
  \A i \in DOMAIN findings :
    findings[i].claim.kind = "first" =>
      (findings[i].confidence = 80 <=> findings[i].claim.who \in KnownAgents)

\* Every request is accounted for in a report: it is not in the log that was
\* read, its line cannot be read, an endpoint it falls under is active, or it
\* is shadow; and no request falls under a zombie.
EveryRequestIsAccountedFor ==
  Done("report") =>
    LET r == BuildLifecycleReport(job.spec, ParseAccessLog(job.current))
        read == Behind(job.current)
    IN \A k \in DOMAIN read :
         /\ \/ \E i \in DOMAIN r.active : Hits(read[k], job.spec[i])
            \/ <<read[k].method, read[k].path>> \in DOMAIN r.shadow
         /\ \A i \in r.zombie : ~Hits(read[k], job.spec[i])
=============================================================================
