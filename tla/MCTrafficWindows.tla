-------------------------- MODULE MCTrafficWindows --------------------------
EXTENDS TrafficWindows

\* Two-bit ids: -2 .. 1.  "-2" and "1", at the two ends, are a difference of 3
\* apart, which wraps around to -1.
MCParams == {"{id}"}
MCNumberOf == [s \in {"-2", "-1", "0", "1"} |->
                 CASE s = "-2" -> -2 [] s = "-1" -> -1 [] s = "0" -> 0 [] s = "1" -> 1]
MCUpper == [m \in {"get", "GET"} |-> "GET"]
MCStatuses == {200, 404}

Ask(who, method, path) ==
  [who |-> who, method |-> method, status |-> 200,
   target |-> [path |-> path, query |-> ""]]

MCRequests == {Ask("agent", "GET", <<"w", "-2">>),
               Ask("agent", "GET", <<"w", "-1">>),
               Ask("agent", "GET", <<"w", "0">>),
               Ask("agent", "get", <<"w", "1", "">>),
               Ask("two lines", "GET", <<"w", "me">>)}

MCSpecs == {<<[method |-> "GET", path |-> <<"w", "{id}">>],
              [method |-> "GET", path |-> <<"w", "me">>]>>,
            <<[method |-> "GET", path |-> <<"w", "me">>]>>}
=============================================================================
