---------------------------- MODULE MCPolicyLoop ----------------------------
EXTENDS PolicyLoop

MCParams == {"{id}"}
MCNumberOf == [s \in {"0", "1"} |-> IF s = "0" THEN 0 ELSE 1]
MCUpper == [m \in {"GET"} |-> "GET"]
MCStatuses == {200, 403}

Ask(who, path, query) ==
  [who |-> who, method |-> "GET", target |-> [path |-> path, query |-> query]]

MCRequests == {Ask("agent", <<"w", "0">>, ""), Ask("agent", <<"w", "1">>, ""),
               Ask("agent", <<"me">>, ""), Ask("agent", <<"me">>, "x"),
               Ask("two lines", <<"me">>, ""), Ask("agent", <<"two lines">>, "")}

MCInventory == <<[method |-> "GET", path |-> <<"w", "{id}">>]>>
MCAgentSets == {{}, {"agent"}}

\* permit(principal, action, resource), and a forbid for another action.
MCByHand ==
  {[effect |-> "permit", principal |-> Anything, action |-> Anything, resource |-> Anything, holds |-> TRUE],
   [effect |-> "permit", principal |-> [type |-> "Agent", name |-> "agent"], action |-> Anything,
    resource |-> EndpointResourceName("GET", <<"me">>), holds |-> TRUE],
   [effect |-> "forbid", principal |-> [type |-> "Agent", name |-> "agent"],
    action |-> "Audit", resource |-> EndpointResourceName("GET", <<"me">>), holds |-> TRUE]}
=============================================================================
