-------------------------- MODULE PolicyLoopProofs --------------------------
(***************************************************************************)
(* Proofs about PolicyLoop, for any specification, any requests, any       *)
(* declarations of agents and any policies that are edited by hand.        *)
(***************************************************************************)
EXTENDS PolicyLoop, TLAPS

\* A fix is the forbid policy for the identity and the declarations it was
\* printed for.
IsFix(f) ==
  /\ f.policy = BuildForbidPolicy(f.who, f.agents, f.policy.resource)
  /\ f.policy.resource = EndpointResourceName(f.policy.resource.method, f.policy.resource.path)

FixesAreFixes == /\ \A f \in output : IsFix(f)
                 /\ \A f \in applied : IsFix(f)

\* What is printed are fixes.
LEMMA FixIsFix ==
  ASSUME NEW f, NEW agents
  PROVE  IsFix(Fix(f, agents))
BY DEF IsFix, Fix, BuildForbidPolicy, Resource, EndpointResourceName

\* No step makes something else of a fix.
LEMMA FixesStep == FixesAreFixes /\ [Next]_vars => FixesAreFixes'
<1> SUFFICES ASSUME FixesAreFixes, [Next]_vars PROVE FixesAreFixes'
  OBVIOUS
<1>1. CASE ReadCurrent
  <2>1. \A f \in output' : IsFix(f)
    <3>1. \A f \in output' : \E g : f = Fix(g, job.agents)
      BY <1>1, Zenon DEF ReadCurrent, Recommend, DiffAgainstPolicy
    <3> QED BY <3>1, FixIsFix
  <2>2. UNCHANGED applied
    BY <1>1 DEF ReadCurrent, files
  <2> QED BY <2>1, <2>2 DEF FixesAreFixes, IsFix
<1>2. CASE Apply
  BY <1>2 DEF Apply, FixesAreFixes, IsFix
<1>3. ASSUME NEW kind, NEW agents, Start(kind, agents) PROVE FixesAreFixes'
  BY <1>3 DEF Start, files, FixesAreFixes, IsFix
<1>4. CASE \/ (\E r \in Requests : Request(r)) \/ Rotate \/ (\E p \in ByHand : Edit(p))
           \/ ReadHistorical \/ EmitEnvoyRbac \/ Splice \/ UNCHANGED vars
  <2>1. UNCHANGED <<output, applied>>
    BY <1>4 DEF Request, Rotate, Edit, ReadHistorical, EmitEnvoyRbac, Splice, files, vars
  <2> QED BY <2>1 DEF FixesAreFixes, IsFix
<1> QED BY <1>1, <1>2, <1>3, <1>4 DEF Next

\* A forbid whose scope fits overrides every permit.
LEMMA ForbidOverrides ==
  ASSUME NEW policies, NEW p \in policies, NEW principal, NEW resource,
         p.effect = "forbid", Applies(p, principal, resource)
  PROVE  Authorize(policies, principal, resource) = "Deny"
BY DEF Authorize

\* As long as an applied fix is in the policy file, diff sees what the fix was
\* printed for denied, whatever the rest of the file says: build_forbid_policy
\* writes a forbid without conditions for exactly the request diff asks about.
THEOREM FixesKeepDenying == Spec => []FixedStaysDenied
<1>1. Init => FixesAreFixes
  BY DEF Init, FixesAreFixes
<1>2. FixesAreFixes => FixedStaysDenied
  <2> SUFFICES ASSUME FixesAreFixes, NEW f \in applied, f.policy \in policy
               PROVE  Evaluate(policy, f.who, f.agents, f.policy.resource) = "Deny"
    BY DEF FixedStaysDenied
  <2>1. f.policy = BuildForbidPolicy(f.who, f.agents, f.policy.resource)
    BY DEF FixesAreFixes, IsFix
  <2>2. /\ f.policy.effect = "forbid"
        /\ Applies(f.policy, Principal(f.who, f.agents), f.policy.resource)
    BY <2>1 DEF BuildForbidPolicy, Applies
  <2> QED BY <2>2, ForbidOverrides DEF Evaluate
<1> QED BY <1>1, <1>2, FixesStep, PTL DEF Spec
----------------------------------------------------------------------------
(* The rules of the gateway are the translation of the file they are from. *)

Translated(filter) == /\ filter.rules = ExtractForbidRules(filter.source)
                      /\ \A p \in filter.source : WellFormed(p)

Deployed == /\ \A p \in policy : WellFormed(p)
            /\ Translated(envoy)
            /\ Translated(gateway)

\* A fix names an Agent or a User, a method and a path.
LEMMA FixWellFormed ==
  ASSUME NEW f, IsFix(f)
  PROVE  WellFormed(f.policy)
<1>1. f.policy.principal = Principal(f.who, f.agents)
  BY DEF IsFix, BuildForbidPolicy
<1>2. /\ Principal(f.who, f.agents).type \in {"Agent", "User"}
      /\ Principal(f.who, f.agents).name = f.who
  BY DEF Principal
<1>3. Principal(f.who, f.agents)
        = [type |-> Principal(f.who, f.agents).type, name |-> Principal(f.who, f.agents).name]
  BY DEF Principal
<1> QED BY <1>1, <1>2, <1>3 DEF WellFormed, IsFix, EndpointResourceName

\* No step puts rules into the gateway that the file it names does not give.
LEMMA DeployedStep == FixesAreFixes /\ Deployed /\ [Next]_vars => Deployed'
<1> SUFFICES ASSUME FixesAreFixes, Deployed, [Next]_vars PROVE Deployed'
  OBVIOUS
<1>1. ASSUME NEW p \in ByHand, Edit(p) PROVE Deployed'
  <2>1. UNCHANGED <<envoy, gateway>>
    BY <1>1 DEF Edit
  <2>2. policy' \subseteq policy \cup {p}
    BY <1>1 DEF Edit
  <2> QED BY <2>1, <2>2, PolicyLoopAssumption DEF PolicyLoopAssumption, Deployed, Translated
<1>2. CASE Apply
  <2>1. UNCHANGED <<envoy, gateway>>
    BY <1>2 DEF Apply
  <2>2. policy' = policy \cup {f.policy : f \in output}
    BY <1>2 DEF Apply
  <2>3. \A f \in output : WellFormed(f.policy)
    BY FixWellFormed DEF FixesAreFixes
  <2> QED BY <2>1, <2>2, <2>3 DEF Deployed, Translated
<1>3. CASE EmitEnvoyRbac
  <2>1. /\ UNCHANGED <<policy, gateway>>
        /\ envoy' = [rules |-> ExtractForbidRules(policy), source |-> policy]
    BY <1>3 DEF EmitEnvoyRbac
  <2> QED BY <2>1 DEF Deployed, Translated
<1>4. CASE Splice
  <2>1. UNCHANGED <<policy, envoy>> /\ gateway' = envoy
    BY <1>4 DEF Splice
  <2> QED BY <2>1 DEF Deployed, Translated
<1>5. CASE \/ (\E r \in Requests : Request(r)) \/ Rotate
           \/ (\E agents \in AgentSets : Start("diff", agents) \/ Start("recommend", agents))
           \/ ReadHistorical \/ ReadCurrent \/ UNCHANGED vars
  <2>1. UNCHANGED <<policy, envoy, gateway>>
    BY <1>5 DEF Request, Rotate, Start, ReadHistorical, ReadCurrent, files, vars
  <2> QED BY <2>1 DEF Deployed, Translated
<1> QED BY <1>1, <1>2, <1>3, <1>4, <1>5 DEF Next

\* What is true of the files and of the fixes, together.
LEMMA Invariant == Spec => [](FixesAreFixes /\ Deployed)
<1>1. Init => FixesAreFixes
  BY DEF Init, FixesAreFixes
<1>2. Init => Deployed
  BY PolicyLoopAssumption DEF PolicyLoopAssumption, Init, Deployed, Translated, ExtractForbidRules
<1> QED BY <1>1, <1>2, FixesStep, DeployedStep, PTL DEF Spec

\* The gateway never denies what the policy file it was made from would allow to
\* agents and to users alike, as long as the forbids of that file are plain:
\* extract_forbid_rules gives the gateway nothing of its own.
THEOREM DenialsAreForbidden == Spec => []DeniedIsForbidden
<1>1. Deployed => DeniedIsForbidden
  <2> SUFFICES ASSUME Deployed, NEW r \in Requests, Denies(gateway.rules, r),
                      \A p \in gateway.source : IsTranslated(p) => Plain(p)
               PROVE  \E type \in {"Agent", "User"} :
                        Authorize(gateway.source, [type |-> type, name |-> r.who],
                                  EndpointResourceName(r.method, r.target.path)) = "Deny"
    BY DEF DeniedIsForbidden
  <2>1. PICK p \in gateway.source : /\ IsTranslated(p)
                                    /\ p.principal.name = r.who
                                    /\ p.resource.method = r.method
                                    /\ p.resource.path = r.target.path
    <3>1. gateway.rules = ExtractForbidRules(gateway.source)
      BY DEF Deployed, Translated
    <3>2. PICK rule \in ExtractForbidRules(gateway.source) :
            rule.who = r.who /\ rule.method = r.method /\ rule.path = r.target.path
      BY <3>1 DEF Denies
    <3> QED BY <3>2 DEF ExtractForbidRules
  <2>2. WellFormed(p) /\ Plain(p) /\ p.effect = "forbid"
    BY <2>1 DEF Deployed, Translated, IsTranslated
  <2>3. /\ p.principal.type \in {"Agent", "User"}
        /\ p.principal = [type |-> p.principal.type, name |-> r.who]
        /\ p.resource = EndpointResourceName(r.method, r.target.path)
    BY <2>1, <2>2 DEF WellFormed, IsTranslated, EndpointResourceName
  <2>4. Applies(p, [type |-> p.principal.type, name |-> r.who],
                EndpointResourceName(r.method, r.target.path))
    BY <2>2, <2>3 DEF Applies, Plain
  <2> QED BY <2>2, <2>3, <2>4, ForbidOverrides
<1> QED BY <1>1, Invariant, PTL

\* An unconstrained principal or resource is none of the constrained ones.
AnythingIsApart == \A a, b : /\ [type |-> a, name |-> b] # Anything
                             /\ [method |-> a, path |-> b] # Anything

\* The whole way from a finding to the header match: a gateway made from a file
\* with a fix in it denies the request the fix names.  diff and recommend only
\* print what extract_forbid_rules translates, and a later edit, fix or file
\* never takes the rule out of a filter that was made with it.
THEOREM FixesAreEnforced == AnythingIsApart => (Spec => []FixesReachTheGateway)
<1> SUFFICES ASSUME AnythingIsApart PROVE Spec => []FixesReachTheGateway
  OBVIOUS
<1>1. FixesAreFixes /\ Deployed => FixesReachTheGateway
  <2> SUFFICES ASSUME FixesAreFixes, Deployed, NEW f \in applied, f.policy \in gateway.source
               PROVE  Denies(gateway.rules,
                             [who |-> f.who, method |-> f.policy.resource.method,
                              target |-> [path |-> f.policy.resource.path, query |-> ""]])
    BY DEF FixesReachTheGateway
  <2>1. IsFix(f)
    BY DEF FixesAreFixes
  <2>2. f.policy.principal = Principal(f.who, f.agents) /\ f.policy.effect = "forbid"
    BY <2>1 DEF IsFix, BuildForbidPolicy
  <2>3. f.policy.principal # Anything /\ f.policy.principal.name = f.who
    BY <2>2 DEF Principal, AnythingIsApart
  <2>4. f.policy.resource # Anything
    BY <2>1 DEF IsFix, EndpointResourceName, AnythingIsApart
  <2>5. [who |-> f.who, method |-> f.policy.resource.method, path |-> f.policy.resource.path]
          \in gateway.rules
    BY <2>2, <2>3, <2>4 DEF Deployed, Translated, ExtractForbidRules, IsTranslated
  <2> QED BY <2>5 DEF Denies
<1> QED BY <1>1, Invariant, PTL

-----------------------------------------------------------------------------
(* What diff prints.                                                       *)

\* The lines the gateway writes.
Lines == [method : {r.method : r \in Requests}, target : {r.target : r \in Requests},
          who : {r.who : r \in Requests}, at : {Absent}, status : {200, 403}]

\* When diff is done, its output is for the logs and the policy file it has read.
Printed == /\ current \in Seq(Lines)
           /\ job = [kind |-> job.kind, pc |-> job.pc, agents |-> job.agents, policy |-> job.policy,
                     historical |-> job.historical, current |-> job.current]
           /\ job.kind = "diff" /\ job.pc = "done" =>
                /\ job.current \in Seq(Lines)
                /\ output = DiffAgainstPolicy(job.policy, Findings(job.historical, job.current), job.agents)

\* No step changes the output of a diff that is done, or what it was made from.
LEMMA PrintedStep == Printed /\ [Next]_vars => Printed'
<1> SUFFICES ASSUME Printed, [Next]_vars PROVE Printed'
  OBVIOUS
<1>1. ASSUME NEW r \in Requests, Request(r) PROVE Printed'
  <2>1. Line(r) \in Lines
    BY DEF Line, Lines
  <2>2. current' = Append(current, Line(r)) /\ UNCHANGED <<job, output>>
    BY <1>1 DEF Request
  <2>3. current' \in Seq(Lines)
    BY <2>1, <2>2 DEF Printed
  <2> QED BY <2>2, <2>3 DEF Printed
<1>2. CASE Rotate
  <2>1. current' \in Seq(Lines)
    BY <1>2 DEF Rotate
  <2> QED BY <1>2, <2>1 DEF Rotate, Printed
<1>3. ASSUME NEW kind, NEW agents, Start(kind, agents) PROVE Printed'
  <2>1. /\ current' = current
        /\ job' = [kind |-> kind, pc |-> "historical", agents |-> agents,
                   policy |-> IF kind = "diff" THEN policy ELSE {},
                   historical |-> <<>>, current |-> <<>>]
    BY <1>3 DEF Start, logs
  <2> QED BY <2>1 DEF Printed
<1>4. CASE ReadHistorical
  <2>1. current' = current /\ job' = [job EXCEPT !.historical = historical, !.pc = "current"]
    BY <1>4 DEF ReadHistorical, logs
  <2>2. job' = [kind |-> job.kind, pc |-> "current", agents |-> job.agents, policy |-> job.policy,
                historical |-> historical, current |-> job.current]
    BY <2>1 DEF Printed
  <2> QED BY <2>1, <2>2 DEF Printed
<1>5. CASE ReadCurrent
  <2> DEFINE found == Findings(job.historical, current)
             pc == IF Quotable(found) THEN "done" ELSE "failed"
  <2>1. /\ current' = current /\ job' = [job EXCEPT !.current = current, !.pc = pc]
        /\ Quotable(found) /\ job.kind = "diff" =>
             output' = DiffAgainstPolicy(job.policy, found, job.agents)
    BY <1>5, Zenon DEF ReadCurrent, logs
  <2>2. pc = "done" => Quotable(found)
    OBVIOUS
  <2> HIDE DEF found, pc
  <2>3. job' = [kind |-> job.kind, pc |-> pc, agents |-> job.agents, policy |-> job.policy,
                historical |-> job.historical, current |-> current]
    BY <2>1 DEF Printed
  <2>4. /\ job'.kind = job.kind /\ job'.pc = pc /\ job'.agents = job.agents
        /\ job'.policy = job.policy /\ job'.historical = job.historical /\ job'.current = current
        /\ job' = [kind |-> job'.kind, pc |-> job'.pc, agents |-> job'.agents, policy |-> job'.policy,
                   historical |-> job'.historical, current |-> job'.current]
    BY <2>3
  <2>5. current \in Seq(Lines)
    BY DEF Printed
  <2>6. job'.kind = "diff" /\ job'.pc = "done" =>
          output' = DiffAgainstPolicy(job'.policy, Findings(job'.historical, job'.current), job'.agents)
    BY <2>1, <2>2, <2>4 DEF found
  <2> QED BY <2>1, <2>4, <2>5, <2>6 DEF Printed
<1>6. CASE \/ (\E p \in ByHand : Edit(p)) \/ Apply \/ EmitEnvoyRbac \/ Splice \/ UNCHANGED vars
  <2>1. UNCHANGED <<current, job, output>>
    BY <1>6 DEF Edit, Apply, EmitEnvoyRbac, Splice, logs, vars
  <2> QED BY <2>1 DEF Printed
<1> QED BY <1>1, <1>2, <1>3, <1>4, <1>5, <1>6 DEF Next

\* Every operation of an identity that the historical log has no line of is a
\* finding.
LEMMA NewcomersAreFound ==
  ASSUME NEW hist, NEW cur \in Seq(Lines), NEW k \in DOMAIN cur, cur[k].who # Absent,
         \A j \in DOMAIN hist : hist[j].who # cur[k].who
  PROVE  LET r == ParseLine(cur[k])
         IN  [kind |-> "first", who |-> r.who, method |-> r.method, path |-> OperationKey(Inventory, r)]
               \in Findings(hist, cur)
<1> DEFINE r == ParseLine(cur[k])
           f == [kind |-> "first", who |-> r.who, method |-> r.method, path |-> OperationKey(Inventory, r)]
           h == ParseAccessLog(hist)
           c == ParseAccessLog(cur)
<1>1. Readable(cur[k])
  <2>1. cur[k] \in Lines
    OBVIOUS
  <2>2. /\ \A q \in Requests : q.method # Absent /\ q.target # Absent
        /\ {200, 403} \subseteq Statuses
    BY PolicyLoopAssumption DEF PolicyLoopAssumption
  <2> QED BY <2>1, <2>2 DEF Lines, Readable
<1>2. r \in ToSet(c)
  <2>1. k \in DOMAIN c /\ c[k] = r
    BY <1>1 DEF ParseAccessLog
  <2> QED BY <2>1, Zenon DEF ToSet
<1>3. \A x \in ToSet(h) : x.who # r.who
  <2>1. \A j \in DOMAIN h : j \in DOMAIN hist /\ h[j] = ParseLine(hist[j])
    BY DEF ParseAccessLog
  <2>2. \A line : ParseLine(line).who = line.who
    BY DEF ParseLine
  <2> HIDE DEF h, c
  <2> QED BY <2>1, <2>2 DEF ToSet
<1>4. r.who # Absent
  BY DEF ParseLine
<1> HIDE DEF h, c, r
<1>5. f \in Operations(Inventory, c)
  BY <1>2, <1>4 DEF Operations
<1>6. f \notin Operations(Inventory, h)
  <2>1. \A g \in Operations(Inventory, h) : \E x \in ToSet(h) : g.who = x.who
    BY DEF Operations
  <2>2. f.who = r.who
    OBVIOUS
  <2> HIDE DEF f
  <2> QED BY <1>3, <2>1, <2>2
<1> HIDE DEF f
<1>7. f \in Findings(hist, cur)
  BY <1>5, <1>6 DEF Findings, DetectFirstTimeOperations, h, c
<1> QED BY <1>7 DEF f, r

\* Nobody is overlooked because of the others: whatever else is in the logs, in
\* the policy file and in the declarations, a newcomer's operation is denied
\* already or diff prints a fix for it.
THEOREM NewcomersAreReportedHolds == Spec => []NewcomersAreReported
<1>1. Init => Printed
  BY DEF Init, Printed
<1>2. Printed => NewcomersAreReported
  <2> SUFFICES ASSUME Printed, job.kind = "diff", job.pc = "done", NEW k \in DOMAIN job.current,
                      ParseLine(job.current[k]).who # Absent,
                      \A j \in DOMAIN job.historical :
                        job.historical[j].who # ParseLine(job.current[k]).who
               PROVE  LET r == ParseLine(job.current[k])
                          on == EndpointResourceName(r.method, OperationKey(Inventory, r))
                      IN \/ Evaluate(job.policy, r.who, job.agents, on) = "Deny"
                         \/ \E f \in output : f.who = r.who /\ f.policy.resource = on
    BY Zenon DEF NewcomersAreReported
  <2> DEFINE r == ParseLine(job.current[k])
             on == EndpointResourceName(r.method, OperationKey(Inventory, r))
             g == [kind |-> "first", who |-> r.who, method |-> r.method, path |-> OperationKey(Inventory, r)]
             found == Findings(job.historical, job.current)
  <2>1. /\ job.current \in Seq(Lines)
        /\ output = DiffAgainstPolicy(job.policy, found, job.agents)
    BY DEF Printed
  <2>2. r.who = job.current[k].who
    BY DEF ParseLine
  <2>3. g \in found
    BY <2>1, <2>2, NewcomersAreFound
  <2>4. g.who = r.who /\ Resource(g) = on
    BY DEF Resource
  <2> HIDE DEF g, r, found
  <2>5. CASE Evaluate(job.policy, r.who, job.agents, on) = "Deny"
    BY <2>5 DEF r
  <2>6. CASE Evaluate(job.policy, r.who, job.agents, on) = "Allow"
    <3> DEFINE fix == Fix(g, job.agents)
    <3>1. fix \in output
      BY <2>1, <2>3, <2>4, <2>6 DEF DiffAgainstPolicy
    <3>2. fix.who = r.who /\ fix.policy.resource = on
      BY <2>4 DEF Fix, BuildForbidPolicy
    <3> QED BY <3>1, <3>2 DEF r
  <2>7. Evaluate(job.policy, r.who, job.agents, on) \in {"Allow", "Deny"}
    BY DEF Evaluate, Authorize
  <2> QED BY <2>5, <2>6, <2>7
<1> QED BY <1>1, <1>2, PrintedStep, PTL DEF Spec
=============================================================================
