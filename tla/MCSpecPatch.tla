---------------------------- MODULE MCSpecPatch -----------------------------
(***************************************************************************)
(* SpecPatch on documents written the way people and tools write them:     *)
(* each member of an object on a line of its own, indented by a fixed      *)
(* step, with comments and blank lines in YAML, and with the keys the      *)
(* fixes look for also present where they mean something else.             *)
(***************************************************************************)
EXTENDS SpecPatch, SequencesExt

PathNames == <<"/a", "/b">>
MCStem(key) == IF key = "/a:x" THEN "/a" ELSE key
MethodNames == <<"get", "post">>

M(kind, key, val, sub) ==
  [kind |-> kind, key |-> key, val |-> val, sub |-> sub, marks |-> {}]
Key(key, val) == M("key", key, val, <<>>)
Obj(key, sub) == M("key", key, "block", sub)
Item(val) == M("item", "", val, <<>>)
Blank == M("blank", "", "", <<>>)
Comment == M("comment", "", "", <<>>)
LeftComment == M("comment", "", "left", <<>>)
Marked(m, mark) == [m EXCEPT !.marks = {mark}]

L(m, ind, comma) == [ind |-> ind, kind |-> m.kind, key |-> m.key, val |-> m.val,
                     comma |-> comma, marks |-> m.marks]
Close(ind, val, comma) == L(M("close", "", val, <<>>), ind, comma)

RECURSIVE Yaml(_, _, _)
Yaml(members, ind, step) ==
  FlattenSeq([n \in DOMAIN members |->
    LET m == members[n] IN
      <<L(m, IF m = LeftComment THEN 0 ELSE ind, FALSE)>> \o Yaml(m.sub, ind + step, step)])

RECURSIVE Json(_, _, _)
Json(members, ind, step) ==
  LET IsMember(m) == m.kind \in {"key", "item"}
      ms == SelectSeq(members, IsMember)
  IN  FlattenSeq([n \in DOMAIN ms |->
        LET comma == n < Len(ms) IN
          IF ms[n].val # "block" THEN <<L(ms[n], ind, comma)>>
          ELSE <<L(ms[n], ind, FALSE)>> \o Json(ms[n].sub, ind + step, step)
               \o <<Close(ind, IF ms[n].sub[1].kind = "item" THEN "]" ELSE "}", comma)>>])

Render(members, fmt, step) ==
  [format |-> fmt,
   lines |-> IF fmt = "yaml" THEN Yaml(members, 0, step)
             ELSE Json(members, step, step) \o <<Close(0, "}", FALSE)>>]

\* Bodies of an operation.
Open == <<Obj("responses", <<Key("security", "text")>>)>>
OptOut == <<Comment, Key("security", "[]"), Obj("responses", <<Key("get", "text")>>)>>
Secured == <<Key("summary", "text"), Obj("security", <<Item("scheme")>>), Obj("responses", <<Key("200", "text")>>)>>
Named == <<Obj("responses", <<Key("operationId", "text")>>), Blank, Key("operationId", "text"), Key("security", "[]")>>
Bodies == {Open, OptOut, Secured, Named}

PathItem(a, b) == Obj("/a", <<Obj("parameters", <<Item("get")>>), Obj("post", a), Comment, Obj("get", b)>>)
Other(c) == Marked(Obj("/b", <<Key("summary", "text"), Obj("get", c)>>), "quoted")

Header(secured) == <<Key("openapi", "text"), Comment>>
                   \o (IF secured THEN <<Obj("security", <<Item("scheme")>>)>> ELSE <<>>)
Schemes(declared) == Obj("components", <<Obj("schemas", <<Obj("/b", <<Obj("get", Named)>>),
                                                          Obj("enum", <<Item("/a")>>)>>)>>
                     \o (IF declared THEN <<Obj("securitySchemes", <<Key("scheme", "text")>>)>> ELSE <<>>))

\* Every choice of bodies and order, in both formats; the step differs with
\* the document's own security, which needs a declared scheme.
Tidy ==
  {Render(Header(kind = "secured") \o <<Obj("paths", items), Schemes(kind # "bare")>>,
          fmt, IF kind = "open" THEN 4 ELSE 2) :
     kind \in {"secured", "open", "bare"}, fmt \in {"yaml", "json"},
     items \in UNION {{<<PathItem(a, b), Other(c)>>, <<Other(c), Blank, PathItem(a, b)>>} :
                        a \in Bodies, b \in Bodies, c \in Bodies}}

\* A comment in the first column between two paths.
Commented ==
  {Render(Header(FALSE) \o <<Obj("paths", <<Other(c), LeftComment, PathItem(a, b)>>), Schemes(TRUE)>>,
          "yaml", 2) : a \in Bodies, b \in Bodies, c \in Bodies}

\* Lines the scans read as something else: a path cut short at its colon, a
\* string in a list that is the name of a path, a comment after "paths:".
Misread ==
  {Render(<<Obj("paths", <<Obj("/a:x", <<Obj("get", Open)>>), PathItem(Open, Open)>>), Schemes(TRUE)>>, "yaml", 2),
   Render(<<Obj("paths", <<Obj("/early", <<Obj("enum", <<Item("/a")>>)>>), PathItem(Open, Open)>>),
            Schemes(TRUE)>>, "json", 2),
   Render(<<Marked(Obj("paths", <<PathItem(Open, Open)>>), "commented"), Schemes(TRUE)>>, "yaml", 2)}

\* The scan finds the lines of all operations.
FindsAll(d) ==
  \A i \in Operations(d.lines) :
    MethodLine(d.lines, d.format, d.lines[Parent(d.lines, i)].key, d.lines[i].key) = i

\* Only the first are regular, and in the last the scan goes wrong.
ASSUME TidyIsRegular ==
  /\ \A d \in Tidy : Regular(d.lines, d.format)
  /\ \A d \in Commented : ~Regular(d.lines, d.format)
  /\ \A d \in Misread : ~Regular(d.lines, d.format) /\ ~FindsAll(d)
=============================================================================
