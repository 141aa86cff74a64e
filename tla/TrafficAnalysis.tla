-------------------------- MODULE TrafficAnalysis --------------------------
(***************************************************************************)
(* What core/src makes of an access log: the lines parse_access_log keeps  *)
(* (traffic.rs), the lifecycle report (lifecycle.rs), and the baselines,   *)
(* the runs of sequential ids and the first-time operations (baseline.rs). *)
(* All of it is a function of an inventory and of one or two logs.         *)
(*                                                                         *)
(* A path is the sequence of what stands between its slashes; "" stands    *)
(* for what a doubled or trailing slash leaves.  An endpoint is a record   *)
(* with a method and a path (its template).  The statistics kept as f64    *)
(* (rates, timing regularity) are left out.                                *)
(*                                                                         *)
(* Faulty variants of definitions stand before the definition they vary    *)
(* and are named after what is wrong with them; nothing else refers to     *)
(* them.                                                                   *)
(***************************************************************************)
EXTENDS Integers, SequencesExt

CONSTANTS Params,       \* segments of a template that start with a brace
          NumberOf,     \* segments that parse as i64, and their values
          Upper,        \* the spellings of methods, and their upper case
          Statuses,     \* status codes that fit in u16
          IdLimit,      \* ids are from -IdLimit up to IdLimit - 1 (2^63 in the code)
          MinRun,       \* BOLA_MIN_RUN_LENGTH
          Absent        \* in place of a field that a line lacks

ASSUME TrafficAnalysisAssumption ==
         /\ IdLimit \in Nat \ {0}
         /\ MinRun \in Nat \ {0, 1}
         /\ \A s \in DOMAIN NumberOf : NumberOf[s] \in -IdLimit .. (IdLimit - 1)

----------------------------------------------------------------------------
(* traffic.rs.                                                             *)

\* A line is skipped unless it has a method, a path and a status that fits.
Readable(line) == /\ line.method # Absent
                  /\ line.target # Absent
                  /\ line.status \in Statuses

\* The method in upper case, the path without its query.
ParseLine(line) == [method |-> Upper[line.method], path |-> line.target.path,
                    status |-> line.status, at |-> line.at, who |-> line.who]

UnreadableEndsTheLog(text) ==
  [i \in {j \in DOMAIN text : \A k \in 1..j : Readable(text[k])} |-> ParseLine(text[i])]

\* What has been parsed of a log: the records at the numbers of their lines.
ParseAccessLog(text) ==
  [i \in {j \in DOMAIN text : Readable(text[j])} |-> ParseLine(text[i])]

----------------------------------------------------------------------------
(* lifecycle.rs.                                                           *)

Segments(path) == SelectSeq(path, LAMBDA s : s # "")

PathMatchesTemplate(observed, template) ==
  LET o == Segments(observed)
      t == Segments(template)
  IN /\ Len(o) = Len(t)
     /\ \A i \in DOMAIN t : t[i] \in Params \/ o[i] = t[i]

Hits(r, e) == r.method = e.method /\ PathMatchesTemplate(r.path, e.path)

\* How often each endpoint (by its place in the inventory) was called: active
\* those with a count, zombie the others.  Shadow are the method and path pairs
\* of the log that no endpoint matched, with their counts.
BuildLifecycleReport(inventory, traffic) ==
  LET count == [i \in DOMAIN inventory |->
                  Cardinality({k \in DOMAIN traffic : Hits(traffic[k], inventory[i])})]
      Key(k) == <<traffic[k].method, traffic[k].path>>
      missed == {k \in DOMAIN traffic :
                   \A i \in DOMAIN inventory : ~Hits(traffic[k], inventory[i])}
  IN [active |-> [i \in {j \in DOMAIN inventory : count[j] > 0} |-> count[i]],
      zombie |-> {i \in DOMAIN inventory : count[i] = 0},
      shadow |-> [key \in {Key(k) : k \in missed} |->
                    Cardinality({k \in DOMAIN traffic : Key(k) = key})]]

----------------------------------------------------------------------------
(* baseline.rs.                                                            *)

Identities(traffic) == {r.who : r \in ToSet(traffic)} \ {Absent}

\* One baseline per identity; records without an identity are excluded.
BuildBaselines(traffic, known_agents) ==
  LET By(w) == {k \in DOMAIN traffic : traffic[k].who = w}
      Times(w) == {traffic[k].at : k \in By(w)} \ {Absent}
  IN [w \in Identities(traffic) |->
       [known |-> w \in known_agents,
        total |-> Cardinality(By(w)),
        distinct |-> Cardinality({<<traffic[k].method, traffic[k].path>> : k \in By(w)}),
        errors |-> Cardinality({k \in By(w) : traffic[k].status >= 400}),
        first |-> IF Times(w) = {} THEN Absent ELSE Min(Times(w)),
        last |-> IF Times(w) = {} THEN Absent ELSE Max(Times(w))]]

\* The place of the one parameter of a template; 0 with none or several.
SingleNumericParamIndex(template) ==
  LET at == {i \in DOMAIN Segments(template) : Segments(template)[i] \in Params}
  IN IF Cardinality(at) = 1 THEN CHOOSE i \in at : TRUE ELSE 0

ExtractNumericSegment(path, i) ==
  LET s == Segments(path)
  IN IF i \in DOMAIN s /\ s[i] \in DOMAIN NumberOf THEN {NumberOf[s[i]]} ELSE {}

\* The difference of two ids.  One that does not fit wraps around, as in a
\* release build (a debug build ends there); so the two ends of the range, which
\* are no neighbours, have a difference of one.
Step(a, b) == CASE b - a >= IdLimit -> b - a - 2 * IdLimit
                [] b - a < -IdLimit -> b - a + 2 * IdLimit
                [] OTHER -> b - a

CountsTheLastRun(ids) ==
  LET run[i \in DOMAIN ids] ==
        IF i > 1 /\ Step(ids[i - 1], ids[i]) \in {1, -1} THEN run[i - 1] + 1 ELSE 1
  IN IF ids = <<>> THEN 0 ELSE run[Len(ids)]

CountsUpwardsOnly(ids) ==
  LET run[i \in DOMAIN ids] ==
        IF i > 1 /\ Step(ids[i - 1], ids[i]) = 1 THEN run[i - 1] + 1 ELSE 1
  IN IF ids = <<>> THEN 0 ELSE Max({run[i] : i \in DOMAIN ids})

\* run[i] is current after the i-th id, the result its largest value.
LongestSequentialRun(ids) ==
  LET run[i \in DOMAIN ids] ==
        IF i > 1 /\ Step(ids[i - 1], ids[i]) \in {1, -1} THEN run[i - 1] + 1 ELSE 1
  IN IF ids = <<>> THEN 0 ELSE Max({run[i] : i \in DOMAIN ids})

\* The n-th smallest of some numbers.
Nth(S, n) == CHOOSE i \in S : Cardinality({j \in S : j <= i}) = n

\* The ids an identity asked an endpoint for, in the order of the log.
AccessedIds(traffic, who, e) ==
  LET i == SingleNumericParamIndex(e.path)
      Ids(r) == ExtractNumericSegment(r.path, i)
      mine == {k \in DOMAIN traffic : /\ traffic[k].who = who
                                      /\ Hits(traffic[k], e)
                                      /\ Ids(traffic[k]) # {}}
  IN [n \in 1..Cardinality(mine) |-> CHOOSE id \in Ids(traffic[Nth(mine, n)]) : TRUE]

\* The findings: identity and endpoint.
DetectSequentialIdAccess(inventory, traffic) ==
  {[kind |-> "bola", who |-> p[1], method |-> p[2].method, path |-> p[2].path] :
     p \in {q \in Identities(traffic) \X ToSet(inventory) :
               /\ SingleNumericParamIndex(q[2].path) # 0
               /\ LongestSequentialRun(AccessedIds(traffic, q[1], q[2])) >= MinRun}}

\* The template a request falls under: the first endpoint that matches, or else
\* its own path.
OperationKey(inventory, r) ==
  LET i == SelectInSeq(inventory, LAMBDA e : Hits(r, e))
  IN IF i = 0 THEN r.path ELSE inventory[i].path

Operations(inventory, traffic) ==
  {[kind |-> "first", who |-> r.who, method |-> r.method, path |-> OperationKey(inventory, r)] :
     r \in {s \in ToSet(traffic) : s.who # Absent}}

ForgetsTheTemplate(inventory, historical, current) ==
  Operations(inventory, current) \ Operations(<<>>, historical)

DetectFirstTimeOperations(inventory, historical, current) ==
  Operations(inventory, current) \ Operations(inventory, historical)
=============================================================================
