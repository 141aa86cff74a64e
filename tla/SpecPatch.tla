----------------------------- MODULE SpecPatch ------------------------------
(***************************************************************************)
(* remediate_from_str of core/src/lib.rs: compute_fixes of remediate.rs    *)
(* chooses the fixes from the parsed document, and patch_yaml_text or      *)
(* patch_json_text of text_patch.rs writes them into its text: first every *)
(* fix is located in the original lines by indentation (YAML) or closing   *)
(* braces (JSON), then they are applied from the bottom up.                *)
(*                                                                         *)
(* A line is [ind, kind, key, val, comma, marks].  A "key" line holds a    *)
(* key and either a value of its own or "block", when its value is on the  *)
(* lines below; an "item" is an element of a list, or a line of a text in  *)
(* block style whose key is what a scan may take for one; "close" is a     *)
(* closing "}" or "]" of JSON, "comment" and "blank" are what they say.    *)
(* The marks are what else YAML may have on the line of a key: quotes      *)
(* around it and a comment after it.                                       *)
(***************************************************************************)
EXTENDS Naturals, Sequences, FiniteSetsExt

CONSTANTS Documents,  \* set of [format |-> "yaml" or "json", lines |-> ...]
          Paths,      \* the paths documents may declare, in byte order
          Methods,    \* the methods they may have, in alphabetical order
          Stem(_)     \* what precedes the first colon of a key

Line == [ind : Nat, kind : {"key", "item", "close", "comment", "blank"},
         key : STRING, val : STRING, comma : BOOLEAN, marks : SUBSET {"quoted", "commented"}]

\* The value "fix" is that of the lines the patch writes, and YAML has no commas.
ASSUME DocumentsAssumption ==
  /\ Paths \in Seq(STRING) /\ Methods \in Seq(STRING)
  /\ \A m, n \in DOMAIN Paths : m # n => Paths[m] # Paths[n]
  /\ \A m, n \in DOMAIN Methods : m # n => Methods[m] # Methods[n]
  /\ {"security", "operationId", "fix"} \subseteq STRING
  /\ \A d \in Documents :
       /\ d.format \in {"yaml", "json"} /\ d.lines \in Seq(Line)
       /\ \A n \in DOMAIN d.lines : /\ d.lines[n].val # "fix"
                                    /\ d.lines[n].comma => d.format = "json"

VARIABLES format,   \* which of the two functions runs
          text,     \* the original lines
          fixes,    \* the fixes to apply, in order
          next,     \* the next fix to locate
          located,  \* the targets found so far
          pending,  \* indices of targets not applied yet
          lines,    \* the text as patched so far
          phase     \* "locate", "apply" or "done"

vars == <<format, text, fixes, next, located, pending, lines, phase>>

Content(d) == {i \in DOMAIN d : d[i].kind \in {"key", "item"}}
IsKey(d, i, key) == d[i].kind = "key" /\ d[i].key = key

\* How many of a set of line or list numbers come no later than i.
Place(S, i) == Cardinality({j \in S : j <= i})
-----------------------------------------------------------------------------
(* What a document means: the nesting that indentation expresses.          *)

\* The line a line is nested in; 0 at the top level.
Parent(d, i) == Max({0} \cup {k \in Content(d) : k < i /\ d[k].ind < d[i].ind})
Children(d, i) == {j \in Content(d) : Parent(d, j) = i}

\* Lines at the top level, and members of a line.
Member(d, i, key) == {j \in Children(d, i) : IsKey(d, j, key)}

Operations(d) ==
  {i \in Content(d) : /\ \E n \in DOMAIN Methods : IsKey(d, i, Methods[n])
                      /\ Parent(d, Parent(d, i)) \in Member(d, 0, "paths")}

\* The value of a key: the one on its line, or all that is nested below it.
Below(d, i) == {j \in Content(d) : /\ i < j
                                   /\ \A k \in Content(d) : i < k /\ k <= j => d[k].ind > d[i].ind}
Value(d, i) == {<<0, "", d[i].val>>}
               \cup {<<d[j].ind - d[i].ind, d[j].key, d[j].val>> : j \in Below(d, i)}

Fields(d, i) == {<<d[j].key, Value(d, j)>> : j \in Children(d, i)}
Meaning(d) == {<<d[Parent(d, i)].key, d[i].key, Fields(d, i)>> : i \in Operations(d)}

\* A value is on one line or below it, the members of one object start in one
\* column and have different keys, and JSON members are separated by commas.
WellFormed(d, fmt) ==
  /\ \A i \in Content(d) : Parent(d, i) # 0 => d[Parent(d, i)].val = "block"
  /\ \A o \in {0} \cup {i \in Content(d) : d[i].val = "block"} :
       \A i, j \in Children(d, o) :
         d[i].ind = d[j].ind /\ (i # j => d[i].kind = "item" \/ d[i].key # d[j].key)
  /\ fmt = "json" =>
       \A i \in DOMAIN d : d[i].val # "block" =>
         d[i].comma = (i < Len(d) /\ d[i+1].kind # "close")
-----------------------------------------------------------------------------
(* compute_fixes *)

\* extract_security: some requirement names a scheme.
NamesScheme(value) == \E x \in value : x[3] \in {"scheme", "fix"}

\* The operation's own security counts, and the document's only if it has none.
Authenticated(d, i) ==
  \E j \in (IF Member(d, i, "security") # {}
            THEN Member(d, i, "security") ELSE Member(d, 0, "security")) :
    NamesScheme(Value(d, j))

\* /components/securitySchemes names a scheme.
Declared(d) ==
  \E c \in Member(d, 0, "components") : \E s \in Member(d, c, "securitySchemes") :
    \E j \in Children(d, s) : d[j].kind = "key"

Needed(d, fix) ==
  \E i \in Operations(d) :
    /\ d[i].key = fix.method /\ d[Parent(d, i)].key = fix.path
    /\ \/ fix.key = "security" /\ ~Authenticated(d, i) /\ Declared(d)
       \/ /\ fix.key = "operationId"
          /\ Member(d, i, "summary") = {} /\ Member(d, i, "operationId") = {}

\* Every fix there could be, in the order of the inventory's endpoints (path,
\* then method) and of each endpoint's risk factors.
Candidates ==
  [n \in 1..(2 * Len(Paths) * Len(Methods)) |->
     [path   |-> Paths[(n - 1) \div (2 * Len(Methods)) + 1],
      method |-> Methods[(((n - 1) \div 2) % Len(Methods)) + 1],
      key    |-> IF n % 2 = 1 THEN "security" ELSE "operationId"]]

ComputeFixes(d) ==
  LET chosen == {n \in DOMAIN Candidates : Needed(d, Candidates[n])}
  IN [k \in 1..Cardinality(chosen) |-> Candidates[CHOOSE n \in chosen : Place(chosen, n) = k]]

-----------------------------------------------------------------------------
(* How the scans read a line.                                              *)

\* yaml_key_matches takes what precedes the first colon and strips quotes only
\* if both are there; in JSON a line may start with the name in quotes, which
\* strings in lists do, too.
Reads(d, fmt, i, key) ==
  \/ /\ fmt = "yaml" /\ d[i].kind \in {"key", "item"} /\ Stem(d[i].key) = key
     /\ "quoted" \in d[i].marks => d[i].key = key
  \/ fmt = "json" /\ (IsKey(d, i, key) \/ (d[i].kind = "item" /\ d[i].val = key))

\* The line is taken for that of the paths: "paths:" and nothing else, or one
\* with an opening brace.
OpensPaths(d, fmt, i) ==
  /\ IsKey(d, i, "paths")
  /\ fmt = "yaml" => d[i].ind = 0 /\ d[i].val = "block" /\ d[i].marks = {}
  /\ fmt = "json" => \/ d[i].val = "{}"
                     \/ d[i].val = "block" /\ \A j \in Children(d, i) : d[j].kind = "key"
-----------------------------------------------------------------------------
(* The documents the patch is written for, in block style or pretty-printed. *)

\* The elements of lists have no key.
ItemsHaveNoKeys(d) == \A i \in Content(d) : d[i].kind = "item" => d[i].key = ""

\* Every member is indented by the same step, in YAML from the first column.
EvenlyIndented(d, fmt) ==
  LET nested == {i \in Content(d) : Parent(d, i) # 0}
      Step(i) == d[i].ind - d[Parent(d, i)].ind
  IN  /\ \E step \in {Step(i) : i \in nested} \cup {0} : \A i \in nested : Step(i) = step
      /\ fmt = "yaml" => \A i \in Content(d) \ nested : d[i].ind = 0

\* Comments and closing braces are no further left than what comes after them.
Sheltered(d) ==
  \A c \in DOMAIN d : d[c].kind \in {"comment", "close"} =>
    \A j \in Content(d) : c < j => \E k \in Content(d) : c < k /\ k <= j /\ d[k].ind <= d[c].ind

\* A block is closed before what comes after it, an object by a brace.
Closes(d, i, c) == /\ d[c].kind = "close" /\ d[c].ind <= d[i].ind
                   /\ (\A k \in Children(d, i) : d[k].kind = "key") => d[c].val = "}"
Closed(d) ==
  \A i, j \in Content(d) : d[i].val = "block" /\ i < j /\ d[j].ind <= d[i].ind =>
    \E c \in i..j : Closes(d, i, c)

\* The paths are the first lines that can be taken for them, and below them the
\* lines that read as a path are the paths of that name: no colon cuts one
\* short, and nothing deeper has the name of one.
PathsStandOut(d, fmt) ==
  /\ fmt = "json" => \A i \in Content(d) : OpensPaths(d, fmt, i) =>
                       \E j \in Member(d, 0, "paths") : j <= i
  /\ \A i \in Member(d, 0, "paths") :
       /\ Children(d, i) # {} => OpensPaths(d, fmt, i)
       /\ \A j \in Children(d, i) : d[j].kind = "key"
       /\ \A j \in Below(d, i), n \in DOMAIN Paths :
            Reads(d, fmt, j, Paths[n]) <=> Parent(d, j) = i /\ IsKey(d, j, Paths[n])

\* The members of a path, and those of an operation, read as what they are.
MembersReadTrue(d, fmt) ==
  \A o \in Operations(d) :
    /\ \A j \in Children(d, Parent(d, o)), n \in DOMAIN Methods :
         Reads(d, fmt, j, Methods[n]) <=> IsKey(d, j, Methods[n])
    /\ \A j \in Children(d, o), key \in {"security", "operationId"} :
         Reads(d, fmt, j, key) <=> IsKey(d, j, key)

\* An operation has members, in JSON from the next line on, and a security that
\* names no scheme is on one line.
OperationsAreOpen(d, fmt) ==
  \A i \in Operations(d) :
    /\ \E j \in Children(d, i) : fmt = "json" => j = i + 1
    /\ \A j \in Children(d, i) : d[j].kind = "key"
    /\ \A j \in Member(d, i, "security") : ~Authenticated(d, i) => d[j].val # "block"

Regular(d, fmt) ==
  /\ WellFormed(d, fmt) /\ ItemsHaveNoKeys(d) /\ EvenlyIndented(d, fmt) /\ Sheltered(d)
  /\ (fmt = "json" => Closed(d)) /\ PathsStandOut(d, fmt)
  /\ MembersReadTrue(d, fmt) /\ OperationsAreOpen(d, fmt)
-----------------------------------------------------------------------------
\* apply_fixes on the parsed document: security is overwritten, operationId
\* only added.
FixedFields(fields, keys) ==
  LET kept == {f \in fields : f[1] \notin keys \ {"operationId"}}
  IN  kept \cup {<<k, {<<0, "", "fix">>}>> : k \in {k \in keys : \A f \in kept : f[1] # k}}

ApplyFixes(meaning, fs) ==
  {<<m[1], m[2], FixedFields(m[3], {fs[n].key : n \in {n \in DOMAIN fs :
                                      fs[n].path = m[1] /\ fs[n].method = m[2]}})>> : m \in meaning}
-----------------------------------------------------------------------------
(* find_yaml_operation_line and find_json_operation_line                   *)

\* The first of the lines that match, if no line that ends the block comes
\* before it; 0 otherwise.
FirstBefore(matches, stops) ==
  IF matches # {} /\ \A s \in stops : Min(matches) < s THEN Min(matches) ELSE 0

After(d, i) == (i + 1)..Len(d)

\* Lines that end a block of the given indentation: in YAML any line no deeper
\* than that, comments included; in JSON a closing brace.
Stops(d, fmt, from, ind) ==
  {i \in After(d, from) : /\ d[i].ind <= ind
                          /\ IF fmt = "yaml" THEN d[i].kind # "blank"
                             ELSE d[i].kind = "close" /\ d[i].val = "}"}

PathsLine(d, fmt) == FirstBefore({i \in DOMAIN d : OpensPaths(d, fmt, i)}, {})

\* A path is looked for at any depth: path_indent is whatever the line has.
\* In JSON only "}" without a comma ends the search.
PathLine(d, fmt, path) ==
  LET top == PathsLine(d, fmt) IN
    IF top = 0 THEN 0
    ELSE FirstBefore({i \in After(d, top) : Reads(d, fmt, i, path)},
                     {i \in Stops(d, fmt, top, d[top].ind) : ~d[i].comma})

\* The column of the methods of the path on line i, and of their fields.
Column(d, fmt, i, level) ==
  LET base == d[PathsLine(d, fmt)].ind IN base + level * (d[i].ind - base)

MethodLine(d, fmt, path, method) ==
  LET p == PathLine(d, fmt, path) IN
    IF p = 0 THEN 0
    ELSE FirstBefore({i \in After(d, p) : /\ Reads(d, fmt, i, method)
                                          /\ d[i].ind = Column(d, fmt, p, 2)},
                     Stops(d, fmt, p, d[p].ind))

\* Faulty variants of definitions stand before the definition they vary and
\* are named after what is wrong with them; nothing else refers to them.
FieldLineOfPath(d, fmt, fix) ==
  LET p == PathLine(d, fmt, fix.path)
      m == MethodLine(d, fmt, fix.path, fix.method)
  IN  FirstBefore({i \in After(d, m) : /\ Reads(d, fmt, i, fix.key)
                                       /\ d[i].ind = Column(d, fmt, p, 3)},
                  Stops(d, fmt, m, d[p].ind))

\* The line of the operation that has the key, or 0.
FieldLine(d, fmt, fix) ==
  LET p == PathLine(d, fmt, fix.path)
      m == MethodLine(d, fmt, fix.path, fix.method)
  IN  FirstBefore({i \in After(d, m) : /\ Reads(d, fmt, i, fix.key)
                                       /\ d[i].ind = Column(d, fmt, p, 3)},
                  Stops(d, fmt, m, d[m].ind))

\* Target::Replace or Target::InsertAfter, with body_indent and the key.
Target(d, fmt, fix) ==
  LET field == FieldLine(d, fmt, fix)
      at == IF field = 0 THEN MethodLine(d, fmt, fix.path, fix.method) ELSE field
  IN  [op |-> IF field = 0 THEN "insert" ELSE "replace", at |-> at,
       ind |-> Column(d, fmt, PathLine(d, fmt, fix.path), 3), key |-> fix.key]
-----------------------------------------------------------------------------
Init == \E d \in Documents :
          /\ format = d.format /\ text = d.lines /\ lines = d.lines
          /\ fixes = ComputeFixes(d.lines)
          /\ next = 1 /\ located = <<>> /\ pending = {} /\ phase = "locate"

\* One fix is located in the original text, or silently skipped.
Locate ==
  /\ phase = "locate" /\ next <= Len(fixes)
  /\ LET fix == fixes[next] IN
       located' = IF MethodLine(text, format, fix.path, fix.method) = 0 THEN located
                  ELSE Append(located, Target(text, format, fix))
  /\ next' = next + 1
  /\ UNCHANGED <<format, text, fixes, pending, lines, phase>>

SortZeroBased ==
  /\ phase = "locate" /\ next > Len(fixes)
  /\ phase' = "apply"
  /\ pending' = {i - 1 : i \in DOMAIN located}
  /\ UNCHANGED <<format, text, fixes, next, located, lines>>

Sort ==
  /\ phase = "locate" /\ next > Len(fixes)
  /\ phase' = "apply"
  /\ pending' = DOMAIN located
  /\ UNCHANGED <<format, text, fixes, next, located, lines>>

TopComesFirst(i) ==
  \A j \in pending : \/ located[j].at > located[i].at
                     \/ located[j].at = located[i].at /\ i <= j

\* sort_by_key(Reverse(idx)) is stable: from the bottom up, and targets on one
\* line in the order in which they were located.
ComesFirst(i) ==
  \A j \in pending : \/ located[j].at < located[i].at
                     \/ located[j].at = located[i].at /\ i <= j

Written(t, comma) ==
  [ind |-> t.ind, kind |-> "key", key |-> t.key, val |-> "fix", comma |-> comma, marks |-> {}]

ApplyOverwrites(i) ==
  /\ phase = "apply" /\ i \in pending /\ ComesFirst(i)
  /\ LET t == located[i] IN
       \/ /\ t.op = "replace"
          /\ lines' = [lines EXCEPT ![t.at] = Written(t, @.comma)]
       \/ /\ t.op = "insert"
          /\ lines' = SubSeq(lines, 1, t.at) \o <<Written(t, format = "json")>>
                      \o SubSeq(lines, t.at + 2, Len(lines))
  /\ pending' = pending \ {i}
  /\ UNCHANGED <<format, text, fixes, next, located, phase>>

Apply(i) ==
  /\ phase = "apply" /\ i \in pending /\ ComesFirst(i)
  /\ LET t == located[i] IN
       \/ /\ t.op = "replace"
          /\ lines' = [lines EXCEPT ![t.at] = Written(t, @.comma)]
       \/ /\ t.op = "insert"
          /\ lines' = SubSeq(lines, 1, t.at) \o <<Written(t, format = "json")>>
                      \o SubSeq(lines, t.at + 1, Len(lines))
  /\ pending' = pending \ {i}
  /\ UNCHANGED <<format, text, fixes, next, located, phase>>

Finish == /\ phase = "apply" /\ pending = {}
          /\ phase' = "done"
          /\ UNCHANGED <<format, text, fixes, next, located, pending, lines>>

Next == Locate \/ Sort \/ (\E i \in pending : Apply(i)) \/ Finish

Spec == Init /\ [][Next]_vars
-----------------------------------------------------------------------------
(* Properties *)

TypeOK == /\ format \in {"yaml", "json"}
          /\ text \in Seq(Line) /\ lines \in Seq(Line)
          /\ next \in 1..(Len(fixes) + 1)
          /\ \A i \in DOMAIN located : located[i].at \in DOMAIN text
          /\ pending \subseteq DOMAIN located
          /\ phase \in {"locate", "apply", "done"}

\* Why the fixes may be located all at once in the original text: whatever has
\* been applied, the text above each target still to come is the original one,
\* so that its index is still that of the place it was found in.
TargetsStayPut ==
  \A i \in pending : \A n \in 1..(located[i].at - 1) : lines[n] = text[n]

\* "Everything else in the file -- comments, key order, quote style -- is
\* untouched": without the lines written and the lines they replace, the text
\* before and after is the same, line by line.
OthersUntouched ==
  phase = "done" =>
    LET replaced == {located[i].at : i \in {i \in DOMAIN located : located[i].op = "replace"}}
        kept == DOMAIN text \ replaced
        rest == {m \in DOMAIN lines : lines[m].val # "fix"}
    IN  /\ Cardinality(rest) = Cardinality(kept)
        /\ \A n \in kept, m \in rest : Place(rest, m) = Place(kept, n) => lines[m] = text[n]

\* The patched text is a document again, and it means what applying the fixes
\* to the parsed document gives: each fix is in its own operation, none is
\* missing, none is there twice and nothing else has another meaning.
PatchMeansFixes ==
  phase = "done" =>
    /\ WellFormed(lines, format)
    /\ Meaning(lines) = ApplyFixes(Meaning(text), fixes)
=============================================================================
