----------------------------- MODULE PolicyLoop -----------------------------
(***************************************************************************)
(* The way from an access log to a gateway that denies, and back: policies *)
(* diff and policies recommend (policy.rs) turn findings into Cedar forbid *)
(* policies, someone adds them to the policy file, policies emit-envoy     *)
(* (enforcement.rs) turns the file into the rules of an Envoy RBAC filter, *)
(* and the gateway that has them logs the requests it denies like the      *)
(* others.  Which identities are agents is told to every command anew.     *)
(*                                                                         *)
(* A policy is a record: effect, principal and resource (or Anything),     *)
(* action, and whether its conditions hold.  Annotations and reasons are   *)
(* left out.                                                               *)
(* A file that does not parse fails every command that reads it and is     *)
(* left out too.  The delays of the log are the subject of TrafficWindows: *)
(* here a line is in the log when its request has been answered.           *)
(***************************************************************************)
EXTENDS TrafficAnalysis

CONSTANTS Requests,      \* what may be asked: who, method, target
          Inventory,     \* the endpoints of the specification
          AgentSets,     \* what --agent may be given
          ByHand,        \* policies someone may add or remove by hand
          Unquotable,    \* identities, methods and path segments with a line break
          Anything,      \* an unconstrained principal or resource
          MaxEvents      \* requests, edits, commands and rotations (bound)

\* A policy names an Agent or a User if it names a principal, and a method and a
\* path if it names a resource.
WellFormed(p) ==
  /\ p.principal # Anything =>
       /\ p.principal.type \in {"Agent", "User"}
       /\ p.principal = [type |-> p.principal.type, name |-> p.principal.name]
  /\ p.resource # Anything =>
       p.resource = [method |-> p.resource.method, path |-> p.resource.path]

\* What the gateway answers can be logged.
ASSUME PolicyLoopAssumption ==
         /\ \A p \in ByHand : WellFormed(p)
         /\ \A r \in Requests : r.method # Absent /\ r.target # Absent
         /\ {200, 403} \subseteq Statuses

VARIABLES policy,      \* the policy file
          envoy,       \* the file that emit-envoy wrote, and from what
          gateway,     \* the filter the gateway runs
          historical, current,  \* the logs
          job,         \* the running or last diff or recommend
          output,      \* the fixes it printed
          applied,     \* history: fixes that were added, and for whom
          events

vars == <<policy, envoy, gateway, historical, current, job, output, applied, events>>

Busy == job.pc \in {"historical", "current"}

----------------------------------------------------------------------------
(* policy.rs.                                                              *)

\* cedar_string refuses a line break.
CedarString(value) == value \notin Unquotable

Principal(identity, agents) ==
  [type |-> IF identity \in agents THEN "Agent" ELSE "User", name |-> identity]

EndpointResourceName(method, path) == [method |-> method, path |-> path]

NamesAUser(identity, agents, resource) ==
  [effect |-> "forbid", principal |-> Principal(identity, {}),
   action |-> "CallEndpoint", resource |-> resource, holds |-> TRUE]

BuildForbidPolicy(identity, agents, resource) ==
  [effect |-> "forbid", principal |-> Principal(identity, agents),
   action |-> "CallEndpoint", resource |-> resource, holds |-> TRUE]

\* Cedar: a policy counts when its scope fits and its conditions hold; a forbid
\* overrides every permit, and without a permit the answer is Deny.
Applies(p, principal, resource) == /\ p.principal \in {Anything, principal}
                                   /\ p.action \in {Anything, "CallEndpoint"}
                                   /\ p.resource \in {Anything, resource}
                                   /\ p.holds

Authorize(policies, principal, resource) ==
  LET fit == {p \in policies : Applies(p, principal, resource)}
  IN IF \E p \in fit : p.effect = "permit" /\ \A q \in fit : q.effect # "forbid"
     THEN "Allow" ELSE "Deny"

Evaluate(policies, identity, agents, resource) ==
  Authorize(policies, Principal(identity, agents), resource)

Findings(hist, cur) ==
  LET h == ParseAccessLog(hist)
      c == ParseAccessLog(cur)
  IN DetectSequentialIdAccess(Inventory, c) \cup DetectFirstTimeOperations(Inventory, h, c)

\* One finding whose identity or resource cannot be quoted fails the whole call.
Quotable(findings) ==
  \A f \in findings : \A part \in {f.who, f.method} \cup ToSet(f.path) : CedarString(part)

Resource(f) == EndpointResourceName(f.method, f.path)

\* What is printed for a finding: the policy, and (history) for whom it is.
Fix(f, agents) == [policy |-> BuildForbidPolicy(f.who, agents, Resource(f)),
                   who |-> f.who, agents |-> agents]

Recommend(findings, agents) == {Fix(f, agents) : f \in findings}

AsksAboutUsers(policies, findings, agents) ==
  {Fix(f, agents) : f \in {g \in findings : Evaluate(policies, g.who, {}, Resource(g)) = "Allow"}}

\* The findings the policy would allow.
DiffAgainstPolicy(policies, findings, agents) ==
  {Fix(f, agents) : f \in {g \in findings : Evaluate(policies, g.who, agents, Resource(g)) = "Allow"}}

----------------------------------------------------------------------------
(* enforcement.rs.                                                         *)

\* A forbid for one principal and one resource becomes a rule, whatever its
\* action and its conditions, and whatever the principal's type.
IsTranslated(p) == p.effect = "forbid" /\ p.principal # Anything /\ p.resource # Anything

TranslatesAgentsOnly(policies) ==
  {[who |-> p.principal.name, method |-> p.resource.method, path |-> p.resource.path] :
     p \in {q \in policies : IsTranslated(q) /\ q.principal.type = "Agent"}}

TranslatesPermitsToo(policies) ==
  {[who |-> p.principal.name, method |-> p.resource.method, path |-> p.resource.path] :
     p \in {q \in policies : q.principal # Anything /\ q.resource # Anything}}

ExtractForbidRules(policies) ==
  {[who |-> p.principal.name, method |-> p.resource.method, path |-> p.resource.path] :
     p \in {q \in policies : IsTranslated(q)}}

\* The filter matches the three headers exactly.  Envoy's :path header is the
\* target with its query.
Denies(rules, r) ==
  \E rule \in rules : /\ rule.who = r.who
                      /\ rule.method = r.method
                      /\ rule.path = r.target.path
                      /\ r.target.query = ""

----------------------------------------------------------------------------
Init == /\ policy \in SUBSET ByHand
        /\ envoy = [rules |-> {}, source |-> {}]
        /\ gateway = [rules |-> {}, source |-> {}]
        /\ historical = <<>> /\ current = <<>>
        /\ job = [kind |-> "none", pc |-> "done", agents |-> {}, policy |-> {},
                  historical |-> <<>>, current |-> <<>>]
        /\ output = {} /\ applied = {} /\ events = 0

Event == events < MaxEvents /\ events' = events + 1
files == <<policy, envoy, gateway, applied>>
logs == <<historical, current>>

Line(r) == [method |-> r.method, target |-> r.target, who |-> r.who, at |-> Absent,
            status |-> IF Denies(gateway.rules, r) THEN 403 ELSE 200]

Request(r) ==
  /\ Event
  /\ current' = Append(current, Line(r))
  /\ UNCHANGED <<files, historical, job, output>>

Rotate ==
  /\ Event
  /\ current # <<>>
  /\ historical' = historical \o current
  /\ current' = <<>>
  /\ UNCHANGED <<files, job, output>>

\* Someone edits the policy file.
Edit(p) ==
  /\ Event
  /\ policy' = IF p \in policy THEN policy \ {p} ELSE policy \cup {p}
  /\ UNCHANGED <<envoy, gateway, applied, logs, job, output>>

\* diff reads the policy file first; recommend does not read it.
Start(kind, agents) ==
  /\ ~Busy /\ Event
  /\ job' = [kind |-> kind, pc |-> "historical", agents |-> agents,
             policy |-> IF kind = "diff" THEN policy ELSE {},
             historical |-> <<>>, current |-> <<>>]
  /\ output' = {}
  /\ UNCHANGED <<files, logs>>

ReadHistorical ==
  /\ job.pc = "historical"
  /\ job' = [job EXCEPT !.historical = historical, !.pc = "current"]
  /\ UNCHANGED <<files, logs, output, events>>

ReadCurrent ==
  LET findings == Findings(job.historical, current)
  IN /\ job.pc = "current"
     /\ output' = CASE ~Quotable(findings) -> {}
                    [] Quotable(findings) /\ job.kind = "diff" ->
                         DiffAgainstPolicy(job.policy, findings, job.agents)
                    [] OTHER -> Recommend(findings, job.agents)
     /\ job' = [job EXCEPT !.current = current,
                           !.pc = IF Quotable(findings) THEN "done" ELSE "failed"]
     /\ UNCHANGED <<files, logs, events>>

\* Someone adds what was printed to the policy file.
Apply ==
  /\ ~Busy
  /\ ~({f.policy : f \in output} \subseteq policy)
  /\ policy' = policy \cup {f.policy : f \in output}
  /\ applied' = applied \cup output
  /\ UNCHANGED <<envoy, gateway, logs, job, output, events>>

\* With nothing to translate the file of the last time stays as it is.
EmitEnvoyRbac ==
  /\ Event
  /\ ExtractForbidRules(policy) # {}
  /\ envoy' = [rules |-> ExtractForbidRules(policy), source |-> policy]
  /\ UNCHANGED <<policy, gateway, applied, logs, job, output>>

\* Someone splices the file into the gateway's configuration.
Splice ==
  /\ gateway # envoy
  /\ gateway' = envoy
  /\ UNCHANGED <<policy, envoy, applied, logs, job, output, events>>

Next == \/ \E r \in Requests : Request(r)
        \/ Rotate
        \/ \E p \in ByHand : Edit(p)
        \/ \E agents \in AgentSets : Start("diff", agents) \/ Start("recommend", agents)
        \/ ReadHistorical
        \/ ReadCurrent
        \/ Apply
        \/ EmitEnvoyRbac
        \/ Splice

Spec == Init /\ [][Next]_vars

----------------------------------------------------------------------------
(* Properties.                                                             *)

\* As long as a fix that was applied stays in the policy file, the file denies
\* what the fix was printed for, whatever else is added or removed by hand.  It
\* holds for the identities declared as agents when it was printed: a fix for
\* User::"x" says nothing once x is declared an agent.
FixedStaysDenied ==
  \A f \in applied :
    f.policy \in policy =>
      Evaluate(policy, f.who, f.agents, f.policy.resource) = "Deny"

\* When a diff ends without an error, an identity of the current log that the
\* historical log has no line of is denied by the policy file, or a fix for it
\* was printed, for every operation: nobody is overlooked because of the others.
NewcomersAreReported ==
  (job.kind = "diff" /\ job.pc = "done") =>
    \A k \in DOMAIN job.current :
      LET r == ParseLine(job.current[k])
          on == EndpointResourceName(r.method, OperationKey(Inventory, r))
          unknown == \A j \in DOMAIN job.historical : job.historical[j].who # r.who
      IN (r.who # Absent /\ unknown) =>
           \/ Evaluate(job.policy, r.who, job.agents, on) = "Deny"
           \/ \E f \in output : f.who = r.who /\ f.policy.resource = on

\* What a policy says that names an endpoint without a condition on the request.
Plain(p) == p.holds /\ p.action \in {Anything, "CallEndpoint"}

\* The gateway denies nothing that the policy file it was configured from would
\* allow to a caller of either type, provided the file's forbids are plain.
DeniedIsForbidden ==
  \A r \in Requests :
    (Denies(gateway.rules, r) /\ \A p \in gateway.source : IsTranslated(p) => Plain(p)) =>
      \E type \in {"Agent", "User"} :
        Authorize(gateway.source, [type |-> type, name |-> r.who],
                  EndpointResourceName(r.method, r.target.path)) = "Deny"

Literal(resource) == \A i \in DOMAIN resource.path : resource.path[i] \notin Params

\* When the filter was made from a policy file with a fix in it, the gateway
\* denies the request that the fix names: the whole way, from the finding to the
\* header match.  The fix has to name a path without parameters.
FixesReachTheGateway ==
  \A f \in applied :
    (f.policy \in gateway.source /\ Literal(f.policy.resource)) =>
      Denies(gateway.rules,
             [who |-> f.who, method |-> f.policy.resource.method,
              target |-> [path |-> f.policy.resource.path, query |-> ""]])

\* The same for every fix, as ROADMAP.md describes the filter (it implements
\* every forbid policy found): requests that fall under the operation of a fix
\* are denied to the identity it is for.
FixesStopTheirRequests ==
  \A f \in applied :
    f.policy \in gateway.source =>
      \A r \in Requests :
        (/\ r.who = f.who /\ r.target.query = "" /\ r.method = f.policy.resource.method
         /\ OperationKey(Inventory, [method |-> r.method, path |-> r.target.path])
              = f.policy.resource.path) =>
          Denies(gateway.rules, r)
=============================================================================
