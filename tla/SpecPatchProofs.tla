-------------------------- MODULE SpecPatchProofs ---------------------------
(***************************************************************************)
(* Proofs about SpecPatch, for any set of documents.                       *)
(***************************************************************************)
EXTENDS SpecPatch, FiniteSetTheorems, FunctionTheorems, SequenceTheorems,
        WellFoundedInduction, TLAPS

\* A nonempty set of numbers has its minimum among its members.
LEMMA MinIsMember ==
  ASSUME NEW S \in SUBSET Nat, S # {}
  PROVE  Min(S) \in S
<1>1. PICK x \in S : \A y \in S : <<y, x>> \notin OpToRel(<, Nat)
  BY NatLessThanWellFounded, WFMin
<1>2. \A y \in S : x <= y
  <2> SUFFICES ASSUME NEW y \in S, y < x PROVE FALSE
    OBVIOUS
  <2>1. <<y, x>> \in OpToRel(<, Nat)
    BY DEF OpToRel
  <2> QED BY <1>1, <2>1
<1> QED BY <1>2 DEF Min

\* What the scans find is one of the lines they look for.
LEMMA FirstIsMember ==
  ASSUME NEW S \in SUBSET Nat, NEW stops, FirstBefore(S, stops) # 0
  PROVE  FirstBefore(S, stops) \in S
BY MinIsMember DEF FirstBefore

\* A target lies in the document.
LEMMA TargetInText ==
  ASSUME NEW d \in Seq(Line), NEW fmt, NEW fix,
         MethodLine(d, fmt, fix.path, fix.method) # 0
  PROVE  Target(d, fmt, fix).at \in 1..Len(d)
<1> DEFINE p == PathLine(d, fmt, fix.path)
           m == MethodLine(d, fmt, fix.path, fix.method)
           tops == {i \in DOMAIN d : OpensPaths(d, fmt, i)}
           paths == {i \in After(d, PathsLine(d, fmt)) : Reads(d, fmt, i, fix.path)}
           methods == {i \in After(d, p) : /\ Reads(d, fmt, i, fix.method)
                                           /\ d[i].ind = Column(d, fmt, p, 2)}
           fields == {i \in After(d, m) : /\ Reads(d, fmt, i, fix.key)
                                          /\ d[i].ind = Column(d, fmt, p, 3)}
<1>1. p # 0
  BY DEF MethodLine
<1>2. PathsLine(d, fmt) \in 1..Len(d)
  <2>1. PathsLine(d, fmt) # 0
    BY <1>1 DEF PathLine
  <2>2. tops \in SUBSET Nat
    OBVIOUS
  <2> QED BY <2>1, <2>2, FirstIsMember DEF PathsLine
<1>3. p \in 1..Len(d)
  <2>1. paths \in SUBSET (1..Len(d))
    BY <1>2 DEF After
  <2>2. p = FirstBefore(paths, {i \in Stops(d, fmt, PathsLine(d, fmt), d[PathsLine(d, fmt)].ind)
                                  : ~d[i].comma})
    BY <1>2 DEF PathLine
  <2>3. p \in paths
    BY <1>1, <2>1, <2>2, FirstIsMember
  <2> QED BY <2>1, <2>3
<1>4. m \in 1..Len(d)
  <2>1. methods \in SUBSET (1..Len(d))
    BY <1>3 DEF After
  <2>2. m = FirstBefore(methods, Stops(d, fmt, p, d[p].ind))
    BY <1>1 DEF MethodLine
  <2>3. m \in methods
    BY <2>1, <2>2, FirstIsMember
  <2> QED BY <2>1, <2>3
<1>5. FieldLine(d, fmt, fix) # 0 => FieldLine(d, fmt, fix) \in 1..Len(d)
  <2>1. fields \in SUBSET (1..Len(d))
    BY <1>4 DEF After
  <2>2. FieldLine(d, fmt, fix) = FirstBefore(fields, Stops(d, fmt, m, d[m].ind))
    BY DEF FieldLine
  <2> QED BY <2>1, <2>2, FirstIsMember
<1> QED BY <1>4, <1>5 DEF Target

\* Inserting after line n leaves lines 1 to n where they are.
LEMMA InsertKeepsPrefix ==
  ASSUME NEW S, NEW s \in Seq(S), NEW n \in 1..Len(s), NEW e \in S
  PROVE  LET t == SubSeq(s, 1, n) \o <<e>> \o SubSeq(s, n + 1, Len(s)) IN
           /\ t \in Seq(S)
           /\ Len(t) = Len(s) + 1
           /\ \A k \in 1..n : t[k] = s[k]
<1> DEFINE a == SubSeq(s, 1, n)
           b == a \o <<e>>
           c == SubSeq(s, n + 1, Len(s))
<1>1. /\ a \in Seq(S) /\ Len(a) = n
      /\ \A k \in 1..n : a[k] = s[k]
  BY SubSeqProperties, SMTT(30)
<1>2. /\ c \in Seq(S) /\ Len(c) = Len(s) - n
  <2>1. \A i \in (n + 1)..Len(s) : s[i] \in S
    OBVIOUS
  <2>2. c \in Seq(S) /\ Len(c) = IF n + 1 <= Len(s) THEN Len(s) - (n + 1) + 1 ELSE 0
    BY <2>1, SubSeqProperties, SMTT(30)
  <2> QED BY <2>2
<1>3. /\ b \in Seq(S) /\ Len(b) = n + 1
      /\ \A k \in 1..n : b[k] = s[k]
  BY <1>1
<1>4. /\ b \o c \in Seq(S) /\ Len(b \o c) = Len(s) + 1
      /\ \A k \in 1..n : (b \o c)[k] = s[k]
  <2> HIDE DEF a, b, c
  <2> QED BY <1>2, <1>3, ConcatProperties
<1> QED BY <1>4

-----------------------------------------------------------------------------
\* Targets lie inside the original text, and the patched text is never shorter.
Bounded == /\ text \in Seq(Line)
           /\ \E S : lines \in Seq(S)
           /\ Len(text) <= Len(lines)
           /\ \E S : located \in Seq(S)
           /\ \A i \in DOMAIN located : located[i].at \in 1..Len(text)
           /\ pending \subseteq DOMAIN located
           /\ phase = "locate" => lines = text

\* Nothing is located yet, and the text is the original.
LEMMA InitBounded == Init => Bounded /\ TargetsStayPut
BY DocumentsAssumption DEF Init, Bounded, TargetsStayPut

\* Every target that is located lies in the text.
LEMMA LocateStep ==
  ASSUME Bounded, TargetsStayPut, Locate
  PROVE  Bounded' /\ TargetsStayPut'
<1>1. CASE located' = located
  BY <1>1 DEF Bounded, TargetsStayPut, Locate
<1>2. CASE located' # located
  <2> DEFINE t == Target(text, format, fixes[next])
  <2>1. located' = Append(located, t) /\ t.at \in 1..Len(text)
    BY <1>2, TargetInText DEF Bounded, Locate
  <2>2. PICK S : located \in Seq(S)
    BY DEF Bounded
  <2>3. located' \in Seq(S \cup {t})
    <3>1. located \in Seq(S \cup {t})
      BY <2>2
    <3> QED BY <2>1, <3>1
  <2>4. \A i \in DOMAIN located' : located'[i].at \in 1..Len(text)
    BY <2>1, <2>2 DEF Bounded
  <2>5. \A i \in DOMAIN located : i \in DOMAIN located' /\ located'[i] = located[i]
    BY <2>1, <2>2
  <2> QED BY <2>3, <2>4, <2>5 DEF Bounded, TargetsStayPut, Locate
<1> QED BY <1>1, <1>2

\* The target applied is the lowest, so nothing above another one moves.
LEMMA ApplyStep ==
  ASSUME Bounded, TargetsStayPut, NEW i \in pending, Apply(i)
  PROVE  Bounded' /\ TargetsStayPut'
<1> DEFINE t == located[i]
<1>0. /\ i \in pending /\ pending' = pending \ {i} /\ phase = "apply" /\ ComesFirst(i)
      /\ UNCHANGED <<text, located, phase>>
  BY DEF Apply
<1>1. PICK S : lines \in Seq(S)
  BY DEF Bounded
<1>2. t.at \in 1..Len(lines) /\ t.at \in 1..Len(text) /\ Len(text) \in Nat
  BY <1>1 DEF Bounded
<1>3. \A j \in pending : located[j].at <= t.at
  <2> SUFFICES ASSUME NEW j \in pending PROVE located[j].at <= t.at
    OBVIOUS
  <2>1. located[j].at \in Nat /\ t.at \in Nat
    BY <1>2 DEF Bounded
  <2>2. located[j].at < t.at \/ located[j].at = t.at
    BY <1>0 DEF ComesFirst
  <2> HIDE DEF t
  <2> QED BY <2>1, <2>2
<1>4. /\ \E R : lines' \in Seq(R)
      /\ Len(lines') >= Len(lines)
      /\ \A n \in 1..(t.at - 1) : lines'[n] = lines[n]
  <2>1. CASE lines' = [lines EXCEPT ![t.at] = Written(t, @.comma)]
    <3> DEFINE w == Written(t, lines[t.at].comma)
    <3>1. lines \in Seq(S \cup {w}) /\ w \in S \cup {w}
      BY <1>1
    <3> HIDE DEF w
    <3>2. lines' = [lines EXCEPT ![t.at] = w]
      BY <2>1 DEF w
    <3>3. lines' \in Seq(S \cup {w}) /\ Len(lines') = Len(lines)
      BY <1>2, <3>1, <3>2
    <3>4. \A n \in 1..(t.at - 1) : lines'[n] = lines[n]
      BY <1>1, <1>2, <3>2
    <3> QED BY <1>1, <3>3, <3>4
  <2>2. CASE lines' = SubSeq(lines, 1, t.at) \o <<Written(t, format = "json")>>
                      \o SubSeq(lines, t.at + 1, Len(lines))
    <3> DEFINE w == Written(t, format = "json")
    <3>1. lines \in Seq(S \cup {w}) /\ w \in S \cup {w}
      BY <1>1
    <3> HIDE DEF w
    <3>2. lines' = SubSeq(lines, 1, t.at) \o <<w>> \o SubSeq(lines, t.at + 1, Len(lines))
      BY <2>2 DEF w
    <3>3. /\ lines' \in Seq(S \cup {w}) /\ Len(lines') = Len(lines) + 1
          /\ \A n \in 1..t.at : lines'[n] = lines[n]
      <4>1. t.at \in 1..Len(lines)
        BY <1>2
      <4> HIDE DEF t
      <4> QED BY <3>1, <3>2, <4>1, InsertKeepsPrefix, ZenonT(40)
    <3> QED BY <1>1, <1>2, <3>3
  <2> QED BY <2>1, <2>2 DEF Apply
<1>5. Len(lines) \in Nat /\ Len(lines') \in Nat
  BY <1>1, <1>4
<1>6. Bounded'
  <2>1. Len(text) <= Len(lines') /\ pending' \subseteq DOMAIN located
    <3>1. Len(text) \in Nat /\ Len(text) <= Len(lines) /\ pending \subseteq DOMAIN located
      BY <1>2 DEF Bounded
    <3> QED BY <1>0, <1>4, <1>5, <3>1
  <2>2. /\ text' \in Seq(Line) /\ \E R : located' \in Seq(R)
        /\ \A j \in DOMAIN located' : located'[j].at \in 1..Len(text')
    BY <1>0 DEF Bounded
  <2> QED BY <1>0, <1>4, <2>1, <2>2 DEF Bounded
<1>7. TargetsStayPut'
  <2> SUFFICES ASSUME NEW j \in pending', NEW n \in 1..(located[j].at - 1)
               PROVE  lines'[n] = text[n]
    BY DEF TargetsStayPut, Apply
  <2>1. j \in pending /\ located[j].at \in Nat
    BY <1>0 DEF Bounded
  <2>2. lines[n] = text[n]
    BY <2>1 DEF TargetsStayPut
  <2>3. n \in 1..(t.at - 1)
    BY <1>2, <1>3, <2>1
  <2> QED BY <1>4, <2>2, <2>3
<1> QED BY <1>6, <1>7

\* Every step keeps the bounds and the text above the targets.
LEMMA StepBounded ==
  ASSUME Bounded, TargetsStayPut, [Next]_vars
  PROVE  Bounded' /\ TargetsStayPut'
<1>1. CASE Locate
  BY <1>1, LocateStep
<1>2. CASE Sort
  <2>1. \A i \in DOMAIN located : \A n \in 1..(located[i].at - 1) : lines[n] = text[n]
    BY <1>2 DEF Bounded, Sort
  <2> QED BY <1>2, <2>1 DEF Bounded, TargetsStayPut, Sort
<1>3. CASE \E i \in pending : Apply(i)
  BY <1>3, ApplyStep
<1>4. CASE Finish
  BY <1>4 DEF Bounded, TargetsStayPut, Finish
<1>5. CASE UNCHANGED vars
  BY <1>5 DEF Bounded, TargetsStayPut, vars
<1> QED BY <1>1, <1>2, <1>3, <1>4, <1>5 DEF Next

\* For every document and every list of fixes, patch_yaml_text and
\* patch_json_text may locate all fixes at once: none that is applied moves
\* anything above one still to come.
THEOREM TargetsAlwaysStayPut == Spec => []TargetsStayPut
<1>1. Init => Bounded /\ TargetsStayPut
  BY InitBounded
<1>2. (Bounded /\ TargetsStayPut) /\ [Next]_vars => (Bounded /\ TargetsStayPut)'
  BY StepBounded
<1> QED BY <1>1, <1>2, PTL DEF Spec

\* Numbers of a finite set are told apart by how many of it are no greater, and
\* every count up to its size occurs.
LEMMA Ranks ==
  ASSUME NEW S \in SUBSET Nat, IsFiniteSet(S)
  PROVE  /\ \A i, k \in S : Cardinality({j \in S : j <= i}) = Cardinality({j \in S : j <= k}) => i = k
         /\ \A n \in 1..Cardinality(S) : \E i \in S : Cardinality({j \in S : j <= i}) = n
<1> DEFINE below == [i \in S |-> {j \in S : j <= i}]
           rank == [i \in S |-> Cardinality(below[i])]
           N == Cardinality(S)
<1>1. N \in Nat
  BY FS_CardinalityType
<1>2. \A i \in S : below[i] \in SUBSET S /\ i \in below[i] /\ below[i] = {j \in S : j <= i}
  OBVIOUS
<1>3. \A i, k \in S : i <= k => below[i] \subseteq below[k]
  <2>1. \A i, j, k \in S : i <= k /\ j <= i => j <= k
    OBVIOUS
  <2> QED BY <2>1
<1>4. \A i, k \in S : i < k => below[i] # below[k]
  OBVIOUS
<1> HIDE DEF below, N
<1>5. \A i \in S : IsFiniteSet(below[i]) /\ Cardinality(below[i]) \in 1..N
  <2> SUFFICES ASSUME NEW i \in S PROVE IsFiniteSet(below[i]) /\ Cardinality(below[i]) \in 1..N
    OBVIOUS
  <2>1. IsFiniteSet(below[i]) /\ Cardinality(below[i]) <= N
    BY <1>2, FS_Subset DEF N
  <2>2. Cardinality(below[i]) \in Nat
    BY <2>1, FS_CardinalityType
  <2>3. Cardinality(below[i]) # 0
    BY <1>2, <2>1, FS_EmptySet
  <2> QED BY <1>1, <2>1, <2>2, <2>3
<1>6. \A i, k \in S : i < k => rank[i] # rank[k]
  <2> SUFFICES ASSUME NEW i \in S, NEW k \in S, i < k, rank[i] = rank[k] PROVE FALSE
    OBVIOUS
  <2>1. below[i] \in SUBSET below[k] /\ Cardinality(below[k]) = Cardinality(below[i])
    BY <1>3
  <2>2. below[k] = below[i]
    BY <1>5, <2>1, FS_Subset
  <2> QED BY <1>4, <2>2
<1>7. rank \in [S -> 1..N]
  BY <1>5
<1>8. \A i \in S : rank[i] = Cardinality({j \in S : j <= i})
  BY <1>2
<1> HIDE DEF rank
<1>9. \A i, k \in S : rank[i] = rank[k] => i = k
  <2> SUFFICES ASSUME NEW i \in S, NEW k \in S, i # k PROVE rank[i] # rank[k]
    OBVIOUS
  <2>1. i < k \/ k < i
    OBVIOUS
  <2> QED BY <1>6, <2>1
<1>10. rank \in Injection(S, 1..N)
  BY <1>7, <1>9 DEF Injection, IsInjective
<1>11. IsFiniteSet(1..N) /\ Cardinality(1..N) = N
  BY <1>1, FS_Interval
<1>12. rank \in Surjection(S, 1..N)
  BY <1>10, <1>11, FS_Injection DEF N
<1>13. \A n \in 1..N : \E i \in S : rank[i] = n
  BY <1>12 DEF Surjection
<1> QED BY <1>8, <1>9, <1>13 DEF N

-----------------------------------------------------------------------------
(* Types.                                                                  *)

\* Nothing after the line that is taken for "paths" is further left: in JSON,
\* that line is a member of the document itself.  Otherwise
\* path_indent - paths_indent is no indentation.
Outermost(d, fmt) ==
  fmt = "json" =>
    \A j \in Content(d) :
      PathsLine(d, fmt) \in 1..(j - 1) => d[PathsLine(d, fmt)].ind <= d[j].ind

PathsAreOutermost == \A d \in Documents : Outermost(d.lines, d.format)

\* A path is found below the line of "paths", on a line that ends no block.
LEMMA PathIsBelowPaths ==
  ASSUME NEW d \in Seq(Line), NEW fmt \in {"yaml", "json"}, NEW path,
         \A n \in DOMAIN d : d[n].comma => fmt = "json",
         PathLine(d, fmt, path) # 0
  PROVE  /\ PathsLine(d, fmt) \in 1..Len(d) /\ IsKey(d, PathsLine(d, fmt), "paths")
         /\ PathLine(d, fmt, path) \in 1..Len(d) /\ PathLine(d, fmt, path) \in Content(d)
         /\ PathsLine(d, fmt) \in 1..(PathLine(d, fmt, path) - 1)
         /\ fmt = "yaml" => d[PathsLine(d, fmt)].ind < d[PathLine(d, fmt, path)].ind
<1> DEFINE top == PathsLine(d, fmt)
           p == PathLine(d, fmt, path)
           tops == {i \in DOMAIN d : OpensPaths(d, fmt, i)}
           paths == {i \in After(d, top) : Reads(d, fmt, i, path)}
           ends == {i \in Stops(d, fmt, top, d[top].ind) : ~d[i].comma}
<1>1. top \in tops
  <2>1. top # 0
    BY DEF PathLine
  <2>2. tops \in SUBSET Nat
    OBVIOUS
  <2> QED BY <2>1, <2>2, FirstIsMember DEF PathsLine
<1>2. p = FirstBefore(paths, ends)
  BY DEF PathLine
<1>3. paths \in SUBSET Nat
  BY <1>1 DEF After
<1>4. p \in paths
  BY <1>2, <1>3, FirstIsMember
<1>5. top \in 1..Len(d) /\ p \in 1..Len(d) /\ p \in After(d, top)
  BY <1>1, <1>4 DEF After
<1>6. /\ IsKey(d, top, "paths") /\ (fmt = "yaml" => d[top].ind = 0)
      /\ p \in Content(d) /\ d[p].kind # "blank"
  <2>1. OpensPaths(d, fmt, top) /\ Reads(d, fmt, p, path)
    BY <1>1, <1>4
  <2>2. d[p].kind \in {"key", "item"}
    BY <2>1 DEF Reads, IsKey
  <2>3. IsKey(d, top, "paths") /\ (fmt = "yaml" => d[top].ind = 0)
    BY <2>1 DEF OpensPaths
  <2> HIDE DEF top, p
  <2> QED BY <1>5, <2>2, <2>3 DEF Content
<1>7. ASSUME fmt = "yaml" PROVE d[top].ind < d[p].ind
  <2>1. d[top].ind = 0 /\ d[p].ind \in Nat /\ ~d[p].comma /\ d[p].kind # "blank"
    <3>1. d[top].ind = 0 /\ ~d[p].comma /\ d[p].kind # "blank"
      BY <1>5, <1>6, <1>7
    <3>2. d[p] \in Line
      BY <1>5
    <3>3. d[p].ind \in Nat
      BY <3>2 DEF Line
    <3> QED BY <3>1, <3>3
  <2>2. d[p].ind = 0 => p \in ends
    BY <1>5, <1>7, <2>1 DEF Stops
  <2>3. p \notin ends
    <3>1. p = Min(paths) /\ \A s \in ends : Min(paths) < s
      BY <1>2 DEF FirstBefore
    <3>2. p \in Nat
      BY <1>5
    <3> HIDE DEF p, ends, paths
    <3> QED BY <3>1, <3>2
  <2> QED BY <2>1, <2>2, <2>3
<1>8. top \in 1..(p - 1)
  BY <1>5 DEF After
<1> QED BY <1>5, <1>6, <1>7, <1>8

\* The column of the fields of an operation.
LEMMA ColumnIsNat ==
  ASSUME NEW d \in Seq(Line), NEW fmt \in {"yaml", "json"}, NEW path,
         \A n \in DOMAIN d : d[n].comma => fmt = "json",
         Outermost(d, fmt), PathLine(d, fmt, path) # 0
  PROVE  Column(d, fmt, PathLine(d, fmt, path), 3) \in Nat
<1> DEFINE top == PathsLine(d, fmt)
           p == PathLine(d, fmt, path)
<1>1. /\ top \in DOMAIN d /\ top \in 1..(p - 1) /\ p \in DOMAIN d /\ p \in Content(d)
      /\ fmt = "yaml" => d[top].ind < d[p].ind
  BY PathIsBelowPaths
<1>2. d[top].ind \in Nat /\ d[p].ind \in Nat
  <2>1. d[top] \in Line /\ d[p] \in Line
    BY <1>1
  <2> HIDE DEF top, p
  <2> QED BY <2>1 DEF Line
<1>3. d[top].ind <= d[p].ind
  BY <1>1, <1>2 DEF Outermost
<1> HIDE DEF top, p
<1>4. d[top].ind + 3 * (d[p].ind - d[top].ind) \in Nat
  BY <1>2, <1>3
<1> QED BY <1>4 DEF Column, top, p

\* Every fix writes a key.
LEMMA FixesWriteKeys == \A n \in DOMAIN Candidates : Candidates[n].key \in STRING
<1> SUFFICES ASSUME NEW n \in DOMAIN Candidates PROVE Candidates[n].key \in STRING
  OBVIOUS
<1> DEFINE key == IF n % 2 = 1 THEN "security" ELSE "operationId"
<1>1. Candidates[n].key = key
  BY Zenon DEF Candidates
<1>2. key \in STRING
  BY DocumentsAssumption
<1> QED BY <1>1, <1>2, Zenon

\* The fixes are a list, and each of them writes a key.
LEMMA FixesAreListed ==
  ASSUME NEW d
  PROVE  /\ \E S : ComputeFixes(d) \in Seq(S)
         /\ \A k \in DOMAIN ComputeFixes(d) : ComputeFixes(d)[k].key \in STRING
<1> DEFINE chosen == {n \in DOMAIN Candidates : Needed(d, Candidates[n])}
           N == 2 * Len(Paths) * Len(Methods)
<1>1. N \in Nat
  <2>1. Len(Paths) \in Nat /\ Len(Methods) \in Nat
    BY DocumentsAssumption
  <2>2. \A a, b \in Nat : 2 * a * b \in Nat
    OBVIOUS
  <2> QED BY <2>1, <2>2
<1>2. DOMAIN Candidates = 1..N
  BY DEF Candidates
<1>3. IsFiniteSet(chosen) /\ chosen \in SUBSET Nat
  <2>1. IsFiniteSet(1..N)
    BY <1>1, FS_Interval
  <2>2. chosen \in SUBSET (1..N)
    BY <1>2
  <2>3. IsFiniteSet(chosen)
    BY <2>1, <2>2, FS_Subset
  <2>4. 1..N \subseteq Nat
    BY <1>1
  <2> QED BY <2>2, <2>3, <2>4
<1>4. \A n \in chosen : Candidates[n].key \in STRING
  BY FixesWriteKeys
<1>5. ComputeFixes(d) = [k \in 1..Cardinality(chosen) |->
                           Candidates[CHOOSE n \in chosen : Place(chosen, n) = k]]
  BY Zenon DEF ComputeFixes
<1> HIDE DEF chosen, N
<1>6. Cardinality(chosen) \in Nat
  BY <1>3, FS_CardinalityType
<1>7. ASSUME NEW k \in 1..Cardinality(chosen)
      PROVE  (CHOOSE n \in chosen : Place(chosen, n) = k) \in chosen
  BY <1>3, Ranks DEF Place
<1>8. \A k \in 1..Cardinality(chosen) : ComputeFixes(d)[k].key \in STRING
  BY <1>4, <1>5, <1>7
<1>9. ComputeFixes(d) \in Seq({ComputeFixes(d)[k] : k \in 1..Cardinality(chosen)})
  <2> DEFINE fs == ComputeFixes(d)
             n == Cardinality(chosen)
  <2>1. fs = [k \in 1..n |-> fs[k]]
    BY <1>5
  <2> HIDE DEF fs, n
  <2>2. [k \in 1..n |-> fs[k]] \in Seq({fs[k] : k \in 1..n})
    BY <1>6 DEF n
  <2> QED BY <2>1, <2>2 DEF fs, n
<1> QED BY <1>5, <1>8, <1>9

Fixing == /\ \E S : fixes \in Seq(S)
          /\ \A n \in DOMAIN fixes : fixes[n].key \in STRING
          /\ next \in 1..(Len(fixes) + 1)

Original == /\ format \in {"yaml", "json"} /\ text \in Seq(Line)
            /\ \A n \in DOMAIN text : text[n].val # "fix" /\ (text[n].comma => format = "json")
            /\ Outermost(text, format)

Typed == /\ Original /\ Fixing
         /\ lines \in Seq(Line)
         /\ \A i \in DOMAIN located : located[i].ind \in Nat /\ located[i].key \in STRING
         /\ phase \in {"locate", "apply", "done"}

\* What is written is a line, marked as such.
LEMMA WrittenIsLine ==
  ASSUME NEW t, t.ind \in Nat, t.key \in STRING, NEW comma \in BOOLEAN
  PROVE  Written(t, comma) \in Line /\ Written(t, comma).val = "fix"
<1>1. "fix" \in STRING
  BY DocumentsAssumption
<1> QED BY <1>1 DEF Written, Line

\* The documents have their types.
LEMMA InitTyped == PathsAreOutermost /\ Init => Typed
<1> SUFFICES ASSUME PathsAreOutermost, Init PROVE Typed
  OBVIOUS
<1>1. PICK d \in Documents : format = d.format /\ text = d.lines /\ lines = d.lines
                             /\ fixes = ComputeFixes(d.lines)
  BY DEF Init
<1>2. Original /\ lines \in Seq(Line)
  <2>1. /\ d.format \in {"yaml", "json"} /\ d.lines \in Seq(Line)
        /\ \A n \in DOMAIN d.lines : d.lines[n].val # "fix" /\ (d.lines[n].comma => d.format = "json")
    <3>1. d.format \in {"yaml", "json"} /\ d.lines \in Seq(Line)
      BY DocumentsAssumption
    <3>2. \A n \in DOMAIN d.lines : d.lines[n].val # "fix"
      BY DocumentsAssumption
    <3>3. \A n \in DOMAIN d.lines : d.lines[n].comma => d.format = "json"
      BY DocumentsAssumption, Zenon
    <3> QED BY <3>1, <3>2, <3>3, Zenon
  <2>2. Outermost(d.lines, d.format)
    BY Zenon DEF PathsAreOutermost
  <2>3. /\ format \in {"yaml", "json"} /\ text \in Seq(Line) /\ lines \in Seq(Line)
        /\ \A n \in DOMAIN text : text[n].val # "fix" /\ (text[n].comma => format = "json")
    BY <1>1, <2>1
  <2>4. Outermost(text, format)
    BY <1>1, <2>2, Zenon
  <2> QED BY <2>3, <2>4 DEF Original
<1>3. Fixing
  <2>1. next = 1 /\ \E S : fixes \in Seq(S)
    BY <1>1, FixesAreListed DEF Init
  <2>2. next \in 1..(Len(fixes) + 1)
    BY <2>1
  <2>3. \A n \in DOMAIN fixes : fixes[n].key \in STRING
    BY <1>1, FixesAreListed
  <2> QED BY <2>1, <2>2, <2>3 DEF Fixing
<1>4. located = <<>> /\ phase = "locate"
  BY DEF Init
<1>5. \A i \in DOMAIN located : located[i].ind \in Nat /\ located[i].key \in STRING
  BY <1>4
<1> QED BY <1>2, <1>3, <1>4, <1>5 DEF Typed

\* Every target that is located has a column and a key.
LEMMA LocateTyped == Bounded /\ Typed /\ Locate => Typed'
<1> SUFFICES ASSUME Bounded, Typed, Locate PROVE Typed'
  OBVIOUS
<1> DEFINE fix == fixes[next]
           t == Target(text, format, fix)
<1>1. /\ UNCHANGED <<format, text, fixes, lines, phase>>
      /\ next <= Len(fixes) /\ next' = next + 1
      /\ \/ located' = located
         \/ /\ located' = Append(located, t)
            /\ MethodLine(text, format, fix.path, fix.method) # 0
  BY DEF Locate
<1>2. Original'
  BY <1>1 DEF Typed, Original
<1>3. Fixing' /\ fix.key \in STRING
  <2>1. Len(fixes) \in Nat /\ next \in DOMAIN fixes
    BY <1>1 DEF Typed, Fixing
  <2>2. next' \in 1..(Len(fixes') + 1)
    BY <1>1, <2>1 DEF Typed, Fixing
  <2> QED BY <1>1, <2>1, <2>2 DEF Typed, Fixing
<1>4. MethodLine(text, format, fix.path, fix.method) # 0 => t.ind \in Nat /\ t.key \in STRING
  <2> SUFFICES ASSUME MethodLine(text, format, fix.path, fix.method) # 0
               PROVE  t.ind \in Nat /\ t.key \in STRING
    OBVIOUS
  <2>1. PathLine(text, format, fix.path) # 0
    BY DEF MethodLine
  <2>2. Column(text, format, PathLine(text, format, fix.path), 3) \in Nat
    BY <2>1, ColumnIsNat DEF Typed, Original
  <2>3. t.ind = Column(text, format, PathLine(text, format, fix.path), 3) /\ t.key = fix.key
    BY DEF Target
  <2> QED BY <1>3, <2>2, <2>3
<1>5. \A i \in DOMAIN located' : located'[i].ind \in Nat /\ located'[i].key \in STRING
  <2>1. PICK S : located \in Seq(S)
    BY DEF Bounded
  <2>2. CASE located' = located
    BY <2>2 DEF Typed
  <2>3. CASE located' # located
    <3>1. located' = Append(located, t) /\ t.ind \in Nat /\ t.key \in STRING
      BY <1>1, <1>4, <2>3
    <3> HIDE DEF t
    <3> QED BY <2>1, <3>1 DEF Typed
  <2> QED BY <2>2, <2>3
<1> QED BY <1>1, <1>2, <1>3, <1>5 DEF Typed

\* Applying a target leaves a list of lines.
LEMMA ApplyTyped ==
  ASSUME Bounded, Typed, NEW i \in pending, Apply(i)
  PROVE  Typed'
<1> DEFINE t == located[i]
<1>1. UNCHANGED <<format, text, fixes, next, located, phase>>
  BY DEF Apply
<1>2. Original' /\ Fixing'
  BY <1>1 DEF Typed, Original, Fixing
<1>3. /\ t.ind \in Nat /\ t.key \in STRING /\ t.at \in 1..Len(lines)
      /\ lines \in Seq(Line)
  BY DEF Bounded, Typed
<1>4. lines' \in Seq(Line)
  <2>1. CASE lines' = [lines EXCEPT ![t.at] = Written(t, @.comma)]
    <3>1. lines[t.at] \in Line
      BY <1>3
    <3>2. lines[t.at].comma \in BOOLEAN
      BY <3>1 DEF Line
    <3> DEFINE w == Written(t, lines[t.at].comma)
    <3>3. w \in Line
      BY <1>3, <3>2, WrittenIsLine
    <3>4. lines' = [lines EXCEPT ![t.at] = w]
      BY <2>1
    <3> HIDE DEF w, t
    <3> QED BY <1>3, <3>3, <3>4
  <2>2. CASE lines' = SubSeq(lines, 1, t.at) \o <<Written(t, format = "json")>>
                      \o SubSeq(lines, t.at + 1, Len(lines))
    <3> DEFINE w == Written(t, format = "json")
    <3>1. w \in Line
      BY <1>3, WrittenIsLine
    <3> HIDE DEF w, t
    <3> QED BY <1>3, <2>2, <3>1, InsertKeepsPrefix DEF w
  <2> QED BY <2>1, <2>2 DEF Apply
<1> QED BY <1>1, <1>2, <1>4 DEF Typed

\* Every step keeps the types.
LEMMA StepTyped == Bounded /\ Typed /\ [Next]_vars => Typed'
<1> SUFFICES ASSUME Bounded, Typed, [Next]_vars PROVE Typed'
  OBVIOUS
<1>1. CASE Locate
  BY <1>1, LocateTyped
<1>2. CASE Sort
  BY <1>2 DEF Typed, Original, Fixing, Sort
<1>3. CASE \E i \in pending : Apply(i)
  BY <1>3, ApplyTyped
<1>4. CASE Finish
  BY <1>4 DEF Typed, Original, Fixing, Finish
<1>5. CASE UNCHANGED vars
  BY <1>5 DEF Typed, Original, Fixing, vars
<1> QED BY <1>1, <1>2, <1>3, <1>4, <1>5 DEF Next

\* Whatever is patched into documents whose "paths" is their own, the result is
\* made of lines, and every target lies in the text it was located in.
THEOREM PatchTypes == PathsAreOutermost => (Spec => []TypeOK)
<1> SUFFICES ASSUME PathsAreOutermost PROVE Spec => []TypeOK
  OBVIOUS
<1>1. Init => Bounded /\ TargetsStayPut /\ Typed
  BY InitBounded, InitTyped
<1>2. (Bounded /\ TargetsStayPut /\ Typed) /\ [Next]_vars => (Bounded /\ TargetsStayPut /\ Typed)'
  BY StepBounded, StepTyped
<1>3. Bounded /\ Typed => TypeOK
  BY DEF Bounded, Typed, Original, Fixing, TypeOK
<1> QED BY <1>1, <1>2, <1>3, PTL DEF Spec

-----------------------------------------------------------------------------
(* What is not written stays.                                              *)

\* Two sets of numbers in the same order: h takes one to the other.
LEMMA SamePlaces ==
  ASSUME NEW K \in SUBSET Nat, NEW R \in SUBSET Nat, IsFiniteSet(K),
         NEW h \in [K -> R],
         \A m, n \in K : m < n => h[m] < h[n],
         \A r \in R : \E n \in K : h[n] = r
  PROVE  /\ IsFiniteSet(R) /\ Cardinality(R) = Cardinality(K)
         /\ \A n \in K, r \in R : Place(R, r) = Place(K, n) => r = h[n]
<1>1. \A m, n \in K : h[m] = h[n] => m = n
  <2> SUFFICES ASSUME NEW m \in K, NEW n \in K, m # n PROVE h[m] # h[n]
    OBVIOUS
  <2>1. m \in Nat /\ n \in Nat /\ h[m] \in Nat /\ h[n] \in Nat
    OBVIOUS
  <2>2. m < n \/ n < m
    BY <2>1
  <2> QED BY <2>1, <2>2
<1>2. \A m, n \in K : m <= n <=> h[m] <= h[n]
  <2> SUFFICES ASSUME NEW m \in K, NEW n \in K PROVE m <= n <=> h[m] <= h[n]
    OBVIOUS
  <2>1. m \in Nat /\ n \in Nat /\ h[m] \in Nat /\ h[n] \in Nat
    OBVIOUS
  <2>2. m < n \/ m = n \/ n < m
    BY <2>1
  <2> QED BY <2>1, <2>2
<1>3. h \in Bijection(K, R)
  BY <1>1 DEF Bijection, Injection, IsInjective, Surjection
<1>4. IsFiniteSet(R) /\ Cardinality(R) = Cardinality(K)
  BY <1>3, FS_Bijection DEF ExistsBijection
<1>5. ASSUME NEW n \in K PROVE Place(R, h[n]) = Place(K, n)
  <2> DEFINE A == {j \in K : j <= n}
             B == {r \in R : r <= h[n]}
             g == [j \in A |-> h[j]]
  <2>1. g \in [A -> B] /\ \A j \in A : g[j] = h[j]
    BY <1>2
  <2>2. \A r \in B : \E j \in A : g[j] = r
    <3> SUFFICES ASSUME NEW r \in B PROVE \E j \in A : g[j] = r
      OBVIOUS
    <3>1. PICK j \in K : h[j] = r
      OBVIOUS
    <3>2. j \in A
      BY <1>2, <3>1
    <3> QED BY <2>1, <3>1, <3>2
  <2>3. \A j, k \in A : g[j] = g[k] => j = k
    BY <1>1, <2>1
  <2>4. A \in SUBSET K /\ IsFiniteSet(A)
    BY FS_Subset
  <2> HIDE DEF A, B, g
  <2>5. g \in Bijection(A, B)
    BY <2>1, <2>2, <2>3 DEF Bijection, Injection, IsInjective, Surjection
  <2>6. Cardinality(B) = Cardinality(A)
    BY <2>4, <2>5, FS_Bijection DEF ExistsBijection
  <2> QED BY <2>6 DEF Place, A, B
<1>6. \A r, q \in R : Place(R, r) = Place(R, q) => r = q
  BY <1>4, Ranks DEF Place
<1>7. \A n \in K : h[n] \in R
  OBVIOUS
<1> QED BY <1>4, <1>5, <1>6, <1>7

\* The lines written over so far.
Applied == IF phase = "locate" THEN {} ELSE DOMAIN located \ pending
Replaced == {located[i].at : i \in {i \in Applied : located[i].op = "replace"}}

Insertions == {i \in Applied : located[i].op = "insert"}

\* Where each line of the original text is now, and the line that each insertion
\* made: a line written over has kept its place in the order, what was inserted
\* is right below its target, and nothing has moved down to the next target.
Traces(h, g) ==
  /\ h \in [DOMAIN text -> DOMAIN lines]
  /\ \A m, n \in DOMAIN text : m < n => h[m] < h[n]
  /\ \A n \in Replaced : \E i \in Applied :
       /\ located[i].op = "replace" /\ located[i].at = n
       /\ lines[h[n]] = Written(located[i], text[n].comma)
  /\ \A n \in DOMAIN text \ Replaced : lines[h[n]] = text[n]
  /\ \A k \in DOMAIN lines : (\A n \in DOMAIN text : h[n] # k) => \E i \in Insertions : g[i] = k
  /\ \A i \in Insertions :
       /\ g[i] \in DOMAIN lines /\ lines[g[i]] = Written(located[i], format = "json")
       /\ h[located[i].at] < g[i] /\ \A n \in DOMAIN text : located[i].at < n => g[i] < h[n]
  /\ \A i, j \in Insertions : g[i] = g[j] => i = j
  /\ \A i \in pending : \A n \in 1..located[i].at : h[n] = n
  /\ \A i \in pending, j \in Applied : located[i].at <= located[j].at

Unwritten == \A n \in DOMAIN text : text[n].val # "fix"

Traced == /\ \A i \in DOMAIN located : located[i].at \in DOMAIN text
          /\ phase = "locate" => lines = text /\ pending = {}
          /\ phase \in {"locate", "apply", "done"}
          /\ phase = "done" => pending = {}
          /\ Unwritten
          /\ \E h, g : Traces(h, g)

\* What was written is marked as such.
LEMMA WrittenIsMarked ==
  ASSUME NEW h, NEW g, Traces(h, g)
  PROVE  /\ \A n \in Replaced : lines[h[n]].val = "fix"
         /\ \A k \in DOMAIN lines : (\A n \in DOMAIN text : h[n] # k) => lines[k].val = "fix"
<1>1. \A t, comma : Written(t, comma).val = "fix"
  BY DEF Written
<1>2. \A n \in Replaced : lines[h[n]].val = "fix"
  BY <1>1 DEF Traces
<1>3. \A k \in DOMAIN lines : (\A n \in DOMAIN text : h[n] # k) => lines[k].val = "fix"
  <2> SUFFICES ASSUME NEW k \in DOMAIN lines, \A n \in DOMAIN text : h[n] # k
               PROVE  lines[k].val = "fix"
    OBVIOUS
  <2>1. PICK i \in Insertions : g[i] = k
    BY DEF Traces
  <2>2. lines[g[i]] = Written(located[i], format = "json")
    BY DEF Traces
  <2> QED BY <1>1, <2>1, <2>2
<1> QED BY <1>2, <1>3

\* At the end, what was not written is what was not replaced.
LEMMA TracedMeansUntouched == Bounded /\ Traced => OthersUntouched
<1> SUFFICES ASSUME Bounded, Traced, phase = "done"
             PROVE  LET replaced == {located[i].at : i \in {i \in DOMAIN located : located[i].op = "replace"}}
                        kept == DOMAIN text \ replaced
                        rest == {m \in DOMAIN lines : lines[m].val # "fix"}
                    IN  /\ Cardinality(rest) = Cardinality(kept)
                        /\ \A n \in kept, m \in rest :
                             Place(rest, m) = Place(kept, n) => lines[m] = text[n]
  BY DEF OthersUntouched
<1> DEFINE kept == DOMAIN text \ Replaced
           rest == {m \in DOMAIN lines : lines[m].val # "fix"}
<1>1. Applied = DOMAIN located
  BY DEF Traced, Applied
<1>2. Replaced = {located[i].at : i \in {i \in DOMAIN located : located[i].op = "replace"}}
  BY <1>1 DEF Replaced
<1>3. PICK h, f : Traces(h, f)
  BY DEF Traced
<1>4. /\ kept \in SUBSET Nat /\ rest \in SUBSET Nat /\ IsFiniteSet(kept)
  <2>1. text \in Seq(Line)
    BY DEF Bounded
  <2>2. PICK S : lines \in Seq(S)
    BY DEF Bounded
  <2>3. DOMAIN text = 1..Len(text) /\ Len(text) \in Nat /\ DOMAIN lines = 1..Len(lines) /\ Len(lines) \in Nat
    BY <2>1, <2>2
  <2>4. IsFiniteSet(DOMAIN text)
    BY <2>3, FS_Interval
  <2>5. IsFiniteSet(kept)
    BY <2>4, FS_Subset
  <2> QED BY <2>3, <2>5
<1> DEFINE g == [n \in kept |-> h[n]]
<1>5. g \in [kept -> rest] /\ \A n \in kept : g[n] = h[n] /\ lines[g[n]] = text[n]
  BY <1>3 DEF Traces, Traced, Unwritten
<1>6. \A m, n \in kept : m < n => g[m] < g[n]
  BY <1>3, <1>5 DEF Traces
<1>7. \A r \in rest : \E n \in kept : g[n] = r
  <2> SUFFICES ASSUME NEW r \in rest PROVE \E n \in kept : g[n] = r
    OBVIOUS
  <2>1. PICK n \in DOMAIN text : h[n] = r
    BY <1>3, WrittenIsMarked
  <2>2. n \in kept
    BY <1>3, <2>1, WrittenIsMarked
  <2> QED BY <1>5, <2>1, <2>2
<1> HIDE DEF kept, rest, g
<1>8. /\ Cardinality(rest) = Cardinality(kept)
      /\ \A n \in kept, r \in rest : Place(rest, r) = Place(kept, n) => r = g[n]
  BY <1>4, <1>5, <1>6, <1>7, SamePlaces
<1>9. \A n \in kept, m \in rest : Place(rest, m) = Place(kept, n) => lines[m] = text[n]
  BY <1>5, <1>8
<1> QED BY <1>2, <1>8, <1>9, Zenon DEF kept, rest

\* Every line is where it was.
LEMMA InitTraced == Init => Traced
<1> SUFFICES ASSUME Init PROVE Traced
  OBVIOUS
<1>1. PICK d \in Documents : text = d.lines
  BY DEF Init
<1>2. Unwritten /\ text \in Seq(Line)
  BY <1>1, DocumentsAssumption DEF Unwritten
<1>3. lines = text /\ pending = {} /\ located = <<>> /\ phase = "locate"
  BY DEF Init
<1>4. Replaced = {} /\ Insertions = {} /\ Applied = {}
  BY <1>3 DEF Replaced, Insertions, Applied
<1>5. Traces([n \in DOMAIN text |-> n], <<>>)
  BY <1>2, <1>3, <1>4 DEF Traces
<1> QED BY <1>2, <1>3, <1>5 DEF Traced

\* Locating moves nothing.
LEMMA LocateTraced == Bounded /\ Bounded' /\ Traced /\ Locate => Traced'
<1> SUFFICES ASSUME Bounded, Bounded', Traced, Locate PROVE Traced'
  OBVIOUS
<1>1. UNCHANGED <<text, lines, pending, phase>> /\ phase = "locate" /\ pending = {}
  BY DEF Locate, Traced
<1>2. /\ Replaced = {} /\ Insertions = {} /\ Applied = {}
      /\ Replaced' = {} /\ Insertions' = {} /\ Applied' = {}
  BY <1>1 DEF Replaced, Insertions, Applied
<1>3. \A h, g : Traces(h, g) => Traces(h, g)'
  BY <1>1, <1>2 DEF Traces
<1>4. (\E h, g : Traces(h, g))'
  BY <1>3 DEF Traced
<1>5. (\A i \in DOMAIN located : located[i].at \in DOMAIN text)'
  BY DEF Bounded
<1> QED BY <1>1, <1>4, <1>5 DEF Traced, Unwritten

\* Sorting moves nothing, and every target is still to come.
LEMMA SortTraced == Bounded /\ Traced /\ Sort => Traced'
<1> SUFFICES ASSUME Bounded, Traced, Sort PROVE Traced'
  OBVIOUS
<1>1. /\ UNCHANGED <<text, lines, located>> /\ lines = text /\ text \in Seq(Line)
      /\ pending' = DOMAIN located /\ phase' = "apply"
  BY DEF Sort, Traced, Bounded
<1>2. Replaced' = {} /\ Insertions' = {} /\ Applied' = {}
  BY <1>1 DEF Replaced, Insertions, Applied
<1>3. \A i \in DOMAIN located : located[i].at \in DOMAIN text
  BY DEF Traced
<1>4. Traces([n \in DOMAIN text |-> n], <<>>)'
  BY <1>1, <1>2, <1>3 DEF Traces
<1>5. (\E h, g : Traces(h, g))'
  BY <1>4
<1> QED BY <1>1, <1>3, <1>5 DEF Traced, Unwritten

\* Inserting e after line n: what comes after it moves down by one.
Inserted(s, n, e, r) ==
  /\ DOMAIN r = 1..(Len(s) + 1)
  /\ \A k \in 1..n : r[k] = s[k]
  /\ r[n + 1] = e
  /\ \A k \in (n + 1)..Len(s) : r[k + 1] = s[k]

\* SubSeq, an element and SubSeq are such an insertion.
LEMMA InsertMovesRest ==
  ASSUME NEW S, NEW s \in Seq(S), NEW n \in 1..Len(s), NEW e \in S
  PROVE  Inserted(s, n, e, SubSeq(s, 1, n) \o <<e>> \o SubSeq(s, n + 1, Len(s)))
<1> DEFINE a == SubSeq(s, 1, n)
           b == a \o <<e>>
           c == SubSeq(s, n + 1, Len(s))
           r == b \o c
<1> HIDE DEF r
<1>1. /\ a \in Seq(S) /\ Len(a) = n
      /\ \A k \in 1..n : a[k] = s[k]
  BY SubSeqProperties, SMTT(30)
<1>2. /\ c \in Seq(S) /\ Len(c) = Len(s) - n
      /\ \A k \in 1..(Len(s) - n) : c[k] = s[n + k]
  <2>1. \A i \in (n + 1)..Len(s) : s[i] \in S
    OBVIOUS
  <2>2. /\ c \in Seq(S) /\ Len(c) = IF n + 1 <= Len(s) THEN Len(s) - (n + 1) + 1 ELSE 0
        /\ \A k \in 1..Len(c) : c[k] = s[n + 1 + k - 1]
    BY <2>1, SubSeqProperties, SMTT(30)
  <2>3. Len(c) = Len(s) - n
    BY <2>2
  <2>4. \A k \in 1..(Len(s) - n) : n + 1 + k - 1 = n + k
    OBVIOUS
  <2> HIDE DEF c
  <2> QED BY <2>2, <2>3, <2>4
<1>3. /\ b \in Seq(S) /\ Len(b) = n + 1 /\ b[n + 1] = e
      /\ \A k \in 1..n : b[k] = s[k]
  <2> HIDE DEF a, c
  <2> QED BY <1>1
<1> HIDE DEF a, b, c
<1>4. r = b \o c
  BY DEF r
<1>5. n \in Nat /\ Len(s) \in Nat /\ n <= Len(s) /\ Len(b) + Len(c) = Len(s) + 1
  BY <1>2, <1>3
<1>6. /\ r \in Seq(S) /\ Len(r) = Len(s) + 1
      /\ \A k \in 1..(Len(s) + 1) : r[k] = IF k <= n + 1 THEN b[k] ELSE c[k - (n + 1)]
  <2>1. b \in Seq(S) /\ c \in Seq(S)
    BY <1>2, <1>3
  <2>2. /\ b \o c \in Seq(S)
        /\ Len(b \o c) = Len(b) + Len(c)
        /\ \A k \in 1..(Len(b) + Len(c)) :
             (b \o c)[k] = IF k <= Len(b) THEN b[k] ELSE c[k - Len(b)]
    BY <2>1, ConcatProperties, Zenon
  <2>3. Len(b) = n + 1
    BY <1>3
  <2> QED BY <1>4, <1>5, <2>2, <2>3, Zenon
<1>7. DOMAIN r = 1..(Len(s) + 1)
  <2>1. r \in Seq(S) /\ Len(r) = Len(s) + 1
    BY <1>6
  <2>2. DOMAIN r = 1..Len(r)
    BY <2>1
  <2> QED BY <2>1, <2>2
<1>8. \A k \in 1..n : r[k] = s[k]
  <2>1. \A k \in 1..n : k \in 1..(Len(s) + 1) /\ k <= n + 1
    BY <1>5
  <2> QED BY <1>3, <1>6, <2>1
<1>9. r[n + 1] = e
  <2>1. n + 1 \in 1..(Len(s) + 1) /\ n + 1 <= n + 1
    BY <1>5
  <2> QED BY <1>3, <1>6, <2>1
<1>10. \A k \in (n + 1)..Len(s) : r[k + 1] = s[k]
  <2> SUFFICES ASSUME NEW k \in (n + 1)..Len(s) PROVE r[k + 1] = s[k]
    OBVIOUS
  <2>1. /\ k + 1 \in 1..(Len(s) + 1) /\ ~(k + 1 <= n + 1) /\ k - n \in 1..(Len(s) - n)
        /\ k + 1 - (n + 1) = k - n /\ n + (k - n) = k
    BY <1>5
  <2>2. r[k + 1] = c[k - n]
    <3>1. \A m \in 1..(Len(s) + 1) : ~(m <= n + 1) => r[m] = c[m - (n + 1)]
      BY <1>6
    <3> DEFINE m == k + 1
    <3>2. m \in 1..(Len(s) + 1) /\ ~(m <= n + 1) /\ m - (n + 1) = k - n
      BY <2>1
    <3> HIDE DEF m
    <3>3. r[m] = c[k - n]
      BY <3>1, <3>2
    <3> QED BY <3>3 DEF m
  <2>3. c[k - n] = s[n + (k - n)]
    BY <1>2, <2>1, Zenon
  <2> QED BY <2>1, <2>2, <2>3
<1>11. Inserted(s, n, e, r)
  BY <1>7, <1>8, <1>9, <1>10, Zenon DEF Inserted
<1> QED BY <1>11 DEF r, a, b, c

\* What both kinds of targets have in common when they are applied.
ApplyingAt(i, h, g) ==
  /\ Traces(h, g) /\ i \in pending /\ located[i].at \in DOMAIN text
  /\ DOMAIN lines = 1..Len(lines) /\ Len(lines) \in Nat
  /\ DOMAIN text = 1..Len(text) /\ Len(text) \in Nat
  /\ UNCHANGED <<format, text, located, phase>> /\ phase = "apply" /\ pending' = pending \ {i}
  /\ Applied' = Applied \cup {i} /\ i \notin Applied
  /\ \A j \in pending : /\ located[j].at \in DOMAIN text /\ located[j].at <= located[i].at
                        /\ j \in DOMAIN located
  /\ \A j \in Applied : located[j].at \in DOMAIN text /\ located[i].at <= located[j].at
  /\ \A n \in DOMAIN text : h[n] \in Nat /\ (n <= located[i].at => h[n] = n)

\* The target applied is the lowest of those to come.
LEMMA ApplyingHits ==
  ASSUME Bounded, Traced, NEW i \in pending, Apply(i)
  PROVE  \E h, g : ApplyingAt(i, h, g)
<1> DEFINE t == located[i]
<1>1. /\ UNCHANGED <<format, text, located, phase>> /\ pending' = pending \ {i} /\ phase = "apply"
      /\ ComesFirst(i)
  BY DEF Apply
<1>2. PICK h, g : Traces(h, g)
  BY DEF Traced
<1>3. PICK S : lines \in Seq(S)
  BY DEF Bounded
<1>4. /\ DOMAIN lines = 1..Len(lines) /\ Len(lines) \in Nat
      /\ DOMAIN text = 1..Len(text) /\ Len(text) \in Nat
  BY <1>3 DEF Bounded
<1>5. /\ \A j \in pending : j \in DOMAIN located /\ located[j].at \in DOMAIN text
      /\ t.at \in DOMAIN text /\ t.at \in Nat /\ i \in DOMAIN located
  BY <1>4 DEF Traced, Bounded
<1>6. \A j \in pending : located[j].at <= t.at
  <2> SUFFICES ASSUME NEW j \in pending PROVE located[j].at <= t.at
    OBVIOUS
  <2>1. located[j].at \in Nat /\ t.at \in Nat
    BY <1>4, <1>5
  <2>2. located[j].at < t.at \/ located[j].at = t.at
    BY <1>1 DEF ComesFirst
  <2> HIDE DEF t
  <2> QED BY <2>1, <2>2
<1>7. \A n \in DOMAIN text : h[n] \in Nat /\ (n <= t.at => h[n] = n)
  <2>1. h \in [DOMAIN text -> DOMAIN lines] /\ \A n \in 1..t.at : h[n] = n
    BY <1>2 DEF Traces
  <2> HIDE DEF t
  <2> QED BY <1>4, <1>5, <2>1
<1>8. Applied' = Applied \cup {i} /\ i \notin Applied /\ Applied \subseteq DOMAIN located
  BY <1>1, <1>5 DEF Applied
<1>9. \A j \in Applied : located[j].at \in DOMAIN text /\ t.at <= located[j].at
  BY <1>2, <1>8 DEF Traces, Traced
<1>10. ApplyingAt(i, h, g)
  BY <1>1, <1>2, <1>4, <1>5, <1>6, <1>7, <1>8, <1>9 DEF ApplyingAt
<1> QED BY <1>10

\* A replacement hits the line it was located at.
LEMMA ReplaceTraced ==
  ASSUME NEW i, NEW h, NEW g, ApplyingAt(i, h, g), located[i].op = "replace",
         lines' = [lines EXCEPT ![located[i].at] = Written(located[i], @.comma)]
  PROVE  Traces(h, g)'
<1> DEFINE t == located[i]
           a == t.at
           w == Written(t, lines[a].comma)
<1>1. /\ Traces(h, g) /\ i \in pending /\ a \in DOMAIN text
      /\ UNCHANGED <<format, text, located, phase>> /\ pending' = pending \ {i}
      /\ Applied' = Applied \cup {i} /\ i \notin Applied
      /\ \A j \in pending : located[j].at <= a
      /\ \A j \in Applied : located[j].at \in DOMAIN text /\ a <= located[j].at
  BY DEF ApplyingAt
<1>2. /\ DOMAIN lines = 1..Len(lines) /\ Len(lines) \in Nat
      /\ DOMAIN text = 1..Len(text) /\ Len(text) \in Nat
      /\ \A n \in DOMAIN text : h[n] \in Nat /\ (n <= a => h[n] = n)
  BY DEF ApplyingAt
<1>3. /\ h \in [DOMAIN text -> DOMAIN lines]
      /\ \A m, n \in DOMAIN text : m < n => h[m] < h[n]
  BY <1>1 DEF Traces
<1>4. lines' = [lines EXCEPT ![a] = w]
  OBVIOUS
<1>5. t.op = "replace" /\ located' = located /\ format' = format /\ text' = text
  BY <1>1
<1>6. Insertions' = Insertions /\ Replaced' = Replaced \cup {a}
  BY <1>1, <1>5 DEF Insertions, Replaced
<1>7. Replaced \subseteq DOMAIN text
  BY <1>1 DEF Replaced
<1>8. lines[h[a]].comma = text[a].comma /\ h[a] = a
  <2>1. \A u, comma : Written(u, comma).comma = comma
    BY DEF Written
  <2>2. h[a] = a
    BY <1>1, <1>2
  <2>3. CASE a \in Replaced
    <3>1. PICK j \in Applied : lines[h[a]] = Written(located[j], text[a].comma)
      BY <1>1, <2>3 DEF Traces
    <3> QED BY <2>1, <2>2, <3>1
  <2>4. CASE a \notin Replaced
    <3>1. lines[h[a]] = text[a]
      BY <1>1, <2>4 DEF Traces
    <3> QED BY <2>2, <3>1
  <2> QED BY <2>2, <2>3, <2>4
<1>9. w = Written(t, text[a].comma)
  BY <1>8
<1> HIDE DEF w, a
<1>10. a \in DOMAIN lines
  BY <1>1, <1>3, <1>8
<1>11. DOMAIN lines' = DOMAIN lines /\ lines'[a] = w
      /\ \A k \in DOMAIN lines : k # a => lines'[k] = lines[k]
  BY <1>4, <1>10
<1>12. \A n \in DOMAIN text : n # a => h[n] # a
  BY <1>1, <1>2, <1>3, <1>8
<1>13. ASSUME NEW n \in Replaced'
       PROVE  \E j \in Applied' : /\ located[j].op = "replace" /\ located[j].at = n
                                  /\ lines'[h[n]] = Written(located[j], text[n].comma)
  <2>1. CASE n = a
    <3>1. lines'[h[n]] = Written(t, text[n].comma) /\ t.at = n
      BY <1>8, <1>9, <1>11, <2>1 DEF a
    <3> QED BY <1>1, <1>5, <3>1
  <2>2. CASE n # a
    <3>1. n \in Replaced
      BY <1>6, <2>2
    <3>2. PICK j \in Applied : /\ located[j].op = "replace" /\ located[j].at = n
                              /\ lines[h[n]] = Written(located[j], text[n].comma)
      BY <1>1, <3>1 DEF Traces
    <3>3. lines'[h[n]] = lines[h[n]]
      BY <1>3, <1>7, <1>11, <1>12, <2>2, <3>1
    <3> QED BY <1>1, <3>2, <3>3
  <2> QED BY <2>1, <2>2
<1>14. \A n \in DOMAIN text \ Replaced' : lines'[h[n]] = text[n]
  <2>1. \A n \in DOMAIN text \ Replaced : lines[h[n]] = text[n]
    BY <1>1 DEF Traces
  <2> QED BY <1>3, <1>6, <1>11, <1>12, <2>1
<1>15. \A k \in DOMAIN lines' : (\A n \in DOMAIN text : h[n] # k) => \E j \in Insertions : g[j] = k
  BY <1>1, <1>11 DEF Traces
<1>16. ASSUME NEW j \in Insertions
       PROVE  /\ g[j] \in DOMAIN lines' /\ lines'[g[j]] = Written(located[j], format = "json")
              /\ h[located[j].at] < g[j] /\ \A n \in DOMAIN text : located[j].at < n => g[j] < h[n]
  <2>1. /\ g[j] \in DOMAIN lines /\ lines[g[j]] = Written(located[j], format = "json")
        /\ h[located[j].at] < g[j] /\ \A n \in DOMAIN text : located[j].at < n => g[j] < h[n]
    BY <1>1 DEF Traces
  <2>2. located[j].at \in DOMAIN text /\ a <= located[j].at
    BY <1>1 DEF Insertions
  <2>3. g[j] # a
    <3>1. h[a] <= h[located[j].at]
      <4> DEFINE b == located[j].at
      <4>1. a \in Nat /\ b \in Nat /\ b \in DOMAIN text /\ a <= b
        BY <1>1, <1>2, <2>2
      <4> HIDE DEF b
      <4>2. h[a] <= h[b]
        BY <1>1, <1>2, <1>3, <4>1
      <4> QED BY <4>2 DEF b
    <3>2. g[j] \in Nat /\ h[located[j].at] \in Nat /\ a \in Nat
      BY <1>1, <1>2, <2>1, <2>2
    <3> QED BY <1>8, <2>1, <3>1, <3>2
  <2> QED BY <1>11, <2>1, <2>3
<1>17. \A j \in pending' : \A n \in 1..located[j].at : h[n] = n
  BY <1>1 DEF Traces
<1>18. \A j \in pending', k \in Applied' : located[j].at <= located[k].at
  BY <1>1 DEF Traces, a
<1>19. \A j, k \in Insertions : g[j] = g[k] => j = k
  BY <1>1 DEF Traces
<1> QED BY <1>3, <1>5, <1>6, <1>11, <1>13, <1>14, <1>15, <1>16, <1>17, <1>18, <1>19 DEF Traces

\* An insertion moves the rest, what was inserted before included.
LEMMA InsertTraced ==
  ASSUME NEW i, NEW h, NEW g, ApplyingAt(i, h, g), located[i].op = "insert",
         Inserted(lines, located[i].at, Written(located[i], format = "json"), lines')
  PROVE  (\E f, e : Traces(f, e))'
<1> DEFINE t == located[i]
           a == t.at
           w == Written(t, format = "json")
           f == [n \in DOMAIN text |-> IF n <= a THEN n ELSE h[n] + 1]
           e == [j \in Applied \cup {i} |-> IF j = i THEN a + 1 ELSE g[j] + 1]
<1>1. /\ Traces(h, g) /\ i \in pending /\ a \in DOMAIN text
      /\ UNCHANGED <<format, text, located, phase>> /\ pending' = pending \ {i}
      /\ Applied' = Applied \cup {i} /\ i \notin Applied
      /\ \A j \in pending : located[j].at \in DOMAIN text /\ located[j].at <= a
      /\ \A j \in Applied : located[j].at \in DOMAIN text /\ a <= located[j].at
  BY DEF ApplyingAt
<1>2. /\ DOMAIN lines = 1..Len(lines) /\ Len(lines) \in Nat
      /\ DOMAIN text = 1..Len(text) /\ Len(text) \in Nat
      /\ \A n \in DOMAIN text : h[n] \in Nat /\ (n <= a => h[n] = n)
  BY DEF ApplyingAt
<1>3. /\ h \in [DOMAIN text -> DOMAIN lines]
      /\ \A m, n \in DOMAIN text : m < n => h[m] < h[n]
  BY <1>1 DEF Traces
<1>4. located' = located /\ format' = format /\ text' = text /\ t.op = "insert"
  BY <1>1
<1>5. /\ Insertions' = Insertions \cup {i} /\ Insertions \subseteq Applied /\ i \notin Insertions
      /\ Replaced' = Replaced /\ Replaced \subseteq DOMAIN text
  BY <1>1, <1>4 DEF Insertions, Replaced
<1>6. /\ DOMAIN lines' = 1..(Len(lines) + 1)
      /\ \A k \in 1..a : lines'[k] = lines[k]
      /\ lines'[a + 1] = w
      /\ \A k \in (a + 1)..Len(lines) : lines'[k + 1] = lines[k]
  BY Zenon DEF Inserted
<1> HIDE DEF w, a
<1>7. a \in Nat /\ a > 0 /\ h[a] = a /\ a \in 1..Len(lines) /\ \A n \in DOMAIN text : n \in Nat
  BY <1>1, <1>2, <1>3
<1>8. \A n \in DOMAIN text : n > a => h[n] > a /\ h[n] \in 1..Len(lines)
  BY <1>1, <1>2, <1>3, <1>7
<1>9. \A n \in DOMAIN text : f[n] = (IF n <= a THEN h[n] ELSE h[n] + 1)
                             /\ (n <= a => h[n] = n /\ f[n] = n)
  BY <1>2
<1>10. f \in [DOMAIN text -> DOMAIN lines']
  <2>1. \A n \in DOMAIN text : f[n] \in 1..(Len(lines) + 1)
    BY <1>2, <1>3, <1>7, <1>9
  <2> QED BY <1>6, <2>1
<1>11. e[i] = a + 1 /\ \A j \in Insertions : e[j] = g[j] + 1
  BY <1>5
<1> HIDE DEF f, e
<1>12. \A n \in DOMAIN text : lines'[f[n]] = lines[h[n]]
  <2> SUFFICES ASSUME NEW n \in DOMAIN text PROVE lines'[f[n]] = lines[h[n]]
    OBVIOUS
  <2>1. CASE n <= a
    BY <1>2, <1>6, <1>7, <1>9, <2>1
  <2>2. CASE n > a
    <3>1. h[n] \in (a + 1)..Len(lines) /\ f[n] = h[n] + 1
      BY <1>2, <1>7, <1>8, <1>9, <2>2
    <3> QED BY <1>6, <3>1
  <2> QED BY <1>2, <1>7, <2>1, <2>2
<1>13. \A m, n \in DOMAIN text : m < n => f[m] < f[n]
  BY <1>2, <1>3, <1>7, <1>8, <1>9
<1>14. ASSUME NEW n \in Replaced
       PROVE  \E j \in Applied \cup {i} : /\ located[j].op = "replace" /\ located[j].at = n
                                         /\ lines'[f[n]] = Written(located[j], text[n].comma)
  BY <1>1, <1>5, <1>12 DEF Traces
<1>15. \A n \in DOMAIN text \ Replaced : lines'[f[n]] = text[n]
  BY <1>1, <1>12 DEF Traces
<1>16. ASSUME NEW j \in Insertions
       PROVE  /\ g[j] \in Nat /\ g[j] \in (a + 1)..Len(lines) /\ lines[g[j]] = Written(located[j], format = "json")
              /\ h[located[j].at] < g[j] /\ \A n \in DOMAIN text : located[j].at < n => g[j] < h[n]
              /\ located[j].at \in DOMAIN text /\ a <= located[j].at
  <2>1. /\ g[j] \in DOMAIN lines /\ lines[g[j]] = Written(located[j], format = "json")
        /\ h[located[j].at] < g[j] /\ \A n \in DOMAIN text : located[j].at < n => g[j] < h[n]
    BY <1>1 DEF Traces
  <2>2. located[j].at \in DOMAIN text /\ a <= located[j].at
    BY <1>1, <1>5
  <2> DEFINE b == located[j].at
             c == g[j]
  <2>3. c \in 1..Len(lines) /\ h[b] < c /\ b \in DOMAIN text /\ a <= b
    BY <1>2, <2>1, <2>2
  <2> HIDE DEF b, c
  <2>4. c \in Nat /\ c \in (a + 1)..Len(lines)
    <3>1. a <= h[b]
      BY <1>2, <1>7, <1>8, <2>3
    <3> QED BY <1>2, <1>7, <2>3, <3>1
  <2> QED BY <2>1, <2>2, <2>4 DEF c
<1>17. ASSUME NEW k \in DOMAIN lines', \A n \in DOMAIN text : f[n] # k
       PROVE  \E j \in Insertions \cup {i} : e[j] = k
  <2>1. k \in 1..a \/ k = a + 1 \/ (k \in (a + 2)..(Len(lines) + 1) /\ k - 1 \in (a + 1)..Len(lines))
    BY <1>2, <1>6, <1>7
  <2>2. CASE k \in 1..a
    <3>1. k \in DOMAIN text /\ f[k] = k
      BY <1>1, <1>2, <1>7, <1>9, <2>2
    <3> QED BY <1>17, <3>1
  <2>3. CASE k = a + 1
    BY <1>11, <2>3
  <2>4. CASE k \in (a + 2)..(Len(lines) + 1) /\ k - 1 \in (a + 1)..Len(lines)
    <3>1. k - 1 \in DOMAIN lines /\ (k - 1) + 1 = k
      BY <1>2, <1>7, <2>4
    <3>2. \A n \in DOMAIN text : h[n] # k - 1
      <4> SUFFICES ASSUME NEW n \in DOMAIN text, h[n] = k - 1 PROVE FALSE
        OBVIOUS
      <4>1. n > a
        BY <1>2, <1>7, <2>4
      <4>2. f[n] = k
        BY <1>2, <1>7, <1>9, <2>4, <4>1
      <4> QED BY <1>17, <4>2
    <3>3. PICK j \in Insertions : g[j] = k - 1
      BY <1>1, <3>1, <3>2 DEF Traces
    <3>4. e[j] = k
      BY <1>11, <3>1, <3>3
    <3> QED BY <3>4
  <2> QED BY <2>1, <2>2, <2>3, <2>4
<1>18. ASSUME NEW j \in Insertions \cup {i}
       PROVE  /\ e[j] \in DOMAIN lines' /\ lines'[e[j]] = Written(located[j], format = "json")
              /\ f[located[j].at] < e[j] /\ \A n \in DOMAIN text : located[j].at < n => e[j] < f[n]
  <2>1. CASE j = i
    <3>1. e[j] = a + 1 /\ located[j].at = a /\ f[a] = a /\ lines'[a + 1] = Written(located[j], format = "json")
      BY <1>1, <1>6, <1>7, <1>9, <1>11, <2>1 DEF w, a
    <3>2. a + 1 \in DOMAIN lines'
      BY <1>2, <1>6, <1>7
    <3>3. \A n \in DOMAIN text : a < n => a + 1 < f[n]
      BY <1>2, <1>7, <1>8, <1>9
    <3> QED BY <1>7, <3>1, <3>2, <3>3
  <2>2. CASE j \in Insertions
    <3> DEFINE b == located[j].at
               c == g[j]
    <3>1. /\ c \in Nat /\ c \in (a + 1)..Len(lines) /\ e[j] = c + 1 /\ h[b] < c
          /\ \A n \in DOMAIN text : b < n => c < h[n]
          /\ b \in DOMAIN text /\ a <= b /\ lines[c] = Written(located[j], format = "json")
      BY <1>11, <1>16, <2>2
    <3> HIDE DEF b, c
    <3>2. c + 1 \in DOMAIN lines' /\ lines'[c + 1] = lines[c]
      BY <1>2, <1>6, <1>7, <3>1
    <3>3. f[b] < c + 1
      BY <1>2, <1>7, <1>9, <3>1
    <3>4. \A n \in DOMAIN text : b < n => c + 1 < f[n]
      BY <1>2, <1>7, <1>9, <3>1
    <3> QED BY <3>1, <3>2, <3>3, <3>4 DEF b
  <2> QED BY <2>1, <2>2
<1>19. \A j, k \in Insertions \cup {i} : e[j] = e[k] => j = k
  <2>1. \A j, k \in Insertions : g[j] = g[k] => j = k
    BY <1>1 DEF Traces
  <2>2. \A j \in Insertions : g[j] \in Nat /\ g[j] > a
    BY <1>7, <1>16
  <2> QED BY <1>7, <1>11, <2>1, <2>2
<1>20. \A j \in pending' : \A n \in 1..located[j].at : f[n] = n
  <2> SUFFICES ASSUME NEW j \in pending', NEW n \in 1..located[j].at PROVE f[n] = n
    OBVIOUS
  <2>1. located[j].at \in DOMAIN text /\ located[j].at <= a
    BY <1>1
  <2>2. n \in DOMAIN text /\ n <= a
    BY <1>2, <1>7, <2>1
  <2> QED BY <1>9, <2>2
<1>21. \A j \in pending', k \in Applied' : located[j].at <= located[k].at
  BY <1>1 DEF Traces, a
<1>22. PICK x, y : x = f /\ y = e
  OBVIOUS
<1>23. Traces(x, y)'
  BY <1>1, <1>4, <1>5, <1>10, <1>13, <1>14, <1>15, <1>17, <1>18, <1>19, <1>20, <1>21, <1>22 DEF Traces
<1> QED BY <1>23

\* Either way every line keeps its trace.
LEMMA ApplyTraced ==
  ASSUME Bounded, Traced, NEW i \in pending, Apply(i)
  PROVE  Traced'
<1> DEFINE t == located[i]
<1>1. PICK h, g : ApplyingAt(i, h, g)
  BY ApplyingHits
<1>2. (\E f, e : Traces(f, e))'
  <2>1. CASE t.op = "replace" /\ lines' = [lines EXCEPT ![t.at] = Written(t, @.comma)]
    BY <1>1, <2>1, ReplaceTraced
  <2>2. CASE t.op = "insert" /\ lines' = SubSeq(lines, 1, t.at) \o <<Written(t, format = "json")>>
                      \o SubSeq(lines, t.at + 1, Len(lines))
    <3> DEFINE w == Written(t, format = "json")
               a == t.at
    <3>1. lines' = SubSeq(lines, 1, a) \o <<w>> \o SubSeq(lines, a + 1, Len(lines))
      BY <2>2
    <3>2. a \in 1..Len(lines)
      <4>1. a \in DOMAIN text /\ DOMAIN text = 1..Len(text) /\ Len(text) \in Nat /\ Len(lines) \in Nat
        BY <1>1 DEF ApplyingAt
      <4> QED BY <4>1 DEF Bounded
    <3> HIDE DEF a, w
    <3>3. PICK S : lines \in Seq(S) /\ w \in S
      <4>1. PICK R : lines \in Seq(R)
        BY DEF Bounded
      <4>2. lines \in Seq(R \cup {w}) /\ w \in R \cup {w}
        BY <4>1
      <4> QED BY <4>2
    <3>4. Inserted(lines, a, w, lines')
      BY <3>1, <3>2, <3>3, InsertMovesRest
    <3> QED BY <1>1, <2>2, <3>4, InsertTraced DEF a, w
  <2> QED BY <2>1, <2>2 DEF Apply
<1>3. /\ UNCHANGED <<text, located, phase>> /\ pending' = pending \ {i} /\ phase = "apply"
  BY <1>1 DEF ApplyingAt
<1> QED BY <1>2, <1>3 DEF Traced, Unwritten

\* Every step leaves each original line its trace.
LEMMA StepTraced == Bounded /\ Bounded' /\ Traced /\ [Next]_vars => Traced'
<1> SUFFICES ASSUME Bounded, Bounded', Traced, [Next]_vars PROVE Traced'
  OBVIOUS
<1>1. CASE Locate
  BY <1>1, LocateTraced
<1>2. CASE Sort
  BY <1>2, SortTraced
<1>3. CASE \E i \in pending : Apply(i)
  BY <1>3, ApplyTraced
<1>4. CASE Finish
  <2>1. UNCHANGED <<format, text, lines, located, pending>> /\ phase = "apply" /\ phase' = "done" /\ pending = {}
    BY <1>4 DEF Finish
  <2>2. Replaced' = Replaced /\ Insertions' = Insertions /\ Applied' = Applied
    BY <2>1 DEF Replaced, Insertions, Applied
  <2>3. \A h, g : Traces(h, g) => Traces(h, g)'
    BY <2>1, <2>2 DEF Traces
  <2> QED BY <2>1, <2>3 DEF Traced, Unwritten
<1>5. CASE UNCHANGED vars
  <2>1. UNCHANGED <<format, text, lines, located, pending, phase>>
    BY <1>5 DEF vars
  <2>2. Replaced' = Replaced /\ Insertions' = Insertions /\ Applied' = Applied
    BY <2>1 DEF Replaced, Insertions, Applied
  <2>3. \A h, g : Traces(h, g) => Traces(h, g)'
    BY <2>1, <2>2 DEF Traces
  <2> QED BY <2>1, <2>3 DEF Traced, Unwritten
<1> QED BY <1>1, <1>2, <1>3, <1>4, <1>5 DEF Next

\* For every document and every list of fixes: without the lines patch_yaml_text
\* or patch_json_text has written, the text is the original without the lines
\* they replace.
THEOREM OthersAreUntouched == Spec => []OthersUntouched
<1>1. Init => Bounded /\ TargetsStayPut /\ Traced
  BY InitBounded, InitTraced
<1>2. (Bounded /\ TargetsStayPut /\ Traced) /\ [Next]_vars => (Bounded /\ TargetsStayPut /\ Traced)'
  BY StepBounded, StepTraced
<1>3. Bounded /\ Traced => OthersUntouched
  BY TracedMeansUntouched
<1> QED BY <1>1, <1>2, <1>3, PTL DEF Spec

-----------------------------------------------------------------------------
\* The structure of a text: maxima, laid-out lines, parents.

\* A set of numbers up to a bound has its maximum among its members.
LEMMA MaxIsMember ==
  ASSUME NEW n \in Nat, NEW S \in SUBSET (0..n), S # {}
  PROVE  Max(S) \in S /\ \A x \in S : x <= Max(S)
<1> DEFINE gaps == {g \in 0..n : n - g \in S}
<1>1. \A x \in S : x \in 0..n /\ n - x \in 0..n /\ n - (n - x) = x
  OBVIOUS
<1>2. \A g \in gaps : g \in 0..n /\ n - g \in S
  OBVIOUS
<1>3. \A x \in S : n - x \in gaps
  <2> SUFFICES ASSUME NEW x \in S PROVE n - x \in gaps
    OBVIOUS
  <2> DEFINE g == n - x
  <2>1. g \in 0..n /\ n - g \in S
    BY <1>1
  <2> HIDE DEF g
  <2>2. g \in gaps
    BY <2>1
  <2> QED BY <2>2 DEF g
<1> HIDE DEF gaps
<1>4. gaps \in SUBSET Nat /\ gaps # {}
  <2> SUFFICES gaps # {}
    BY <1>2
  <2>1. PICK x \in S : TRUE
    OBVIOUS
  <2> QED BY <1>3, <2>1
<1>5. PICK g \in gaps : \A y \in gaps : <<y, g>> \notin OpToRel(<, Nat)
  BY <1>4, NatLessThanWellFounded, WFMin
<1>6. g \in 0..n /\ n - g \in S
  BY <1>2, <1>5
<1>7. \A x \in S : x <= n - g
  <2> SUFFICES ASSUME NEW x \in S, n - g < x PROVE FALSE
    BY <1>1, <1>6
  <2>1. n - x < g
    BY <1>1, <1>6
  <2>2. n - x \in gaps
    BY <1>3
  <2>3. <<n - x, g>> \in OpToRel(<, Nat)
    BY <1>4, <1>5, <2>1, <2>2 DEF OpToRel
  <2> QED BY <1>5, <2>2, <2>3
<1>8. \E m \in S : \A x \in S : m >= x
  BY <1>1, <1>6, <1>7
<1>9. Max(S) \in S /\ \A x \in S : Max(S) >= x
  BY <1>8 DEF Max
<1> QED BY <1>1, <1>9

\* A text: lines with their columns.
Laid(d) == /\ Len(d) \in Nat /\ DOMAIN d = 1..Len(d)
           /\ \A n \in DOMAIN d : d[n].ind \in Nat

\* A sequence of lines is one.
LEMMA SeqIsLaid == ASSUME NEW d \in Seq(Line) PROVE Laid(d)
<1>1. Len(d) \in Nat /\ DOMAIN d = 1..Len(d)
  OBVIOUS
<1>2. \A n \in DOMAIN d : d[n] \in Line
  OBVIOUS
<1> QED BY <1>1, <1>2 DEF Laid, Line

\* Line q is the last one before line i that is further left, or 0 if none is.
Encloses(d, i, q) ==
  /\ q = 0 \/ (q \in Content(d) /\ d[q].ind < d[i].ind)
  /\ q < i
  /\ \A k \in Content(d) : q < k /\ k < i => d[i].ind <= d[k].ind

\* The lines with content are lines.
LEMMA ContentIsNat ==
  ASSUME NEW d, Laid(d), NEW i \in Content(d)
  PROVE  i \in DOMAIN d /\ i \in Nat /\ i > 0 /\ d[i].ind \in Nat
BY DEF Laid, Content

\* That is the line it is nested in.
LEMMA ParentEncloses ==
  ASSUME NEW d, Laid(d), NEW i \in Content(d)
  PROVE  Encloses(d, i, Parent(d, i))
<1> DEFINE outer == {k \in Content(d) : k < i /\ d[k].ind < d[i].ind}
           S == {0} \cup outer
           q == Max(S)
<1>1. i \in Nat /\ i > 0 /\ d[i].ind \in Nat
  BY ContentIsNat
<1>2. \A k \in Content(d) : k \in Nat /\ k > 0 /\ d[k].ind \in Nat
  BY ContentIsNat
<1>3. S \in SUBSET (0..i) /\ S # {}
  <2>1. \A k \in outer : k \in 0..i
    BY <1>1, <1>2
  <2>2. 0 \in 0..i
    BY <1>1
  <2> HIDE DEF outer
  <2> QED BY <2>1, <2>2
<1>4. q \in S /\ \A x \in S : x <= q
  <2> HIDE DEF S
  <2> QED BY <1>1, <1>3, MaxIsMember
<1>5. Parent(d, i) = q
  BY Zenon DEF Parent
<1> HIDE DEF q
<1>6. q = 0 \/ (q \in Content(d) /\ d[q].ind < d[i].ind /\ q < i)
  BY <1>4
<1>7. q < i
  BY <1>1, <1>6
<1>8. \A k \in Content(d) : q < k /\ k < i => d[i].ind <= d[k].ind
  <2> SUFFICES ASSUME NEW k \in Content(d), q < k, k < i, ~(d[i].ind <= d[k].ind) PROVE FALSE
    OBVIOUS
  <2>1. k \in S
    BY <1>1, <1>2
  <2>2. k <= q
    <3> HIDE DEF S, outer
    <3> QED BY <1>4, <2>1
  <2>3. q \in Nat /\ k \in Nat
    <3> HIDE DEF S, outer
    <3> QED BY <1>2, <1>6
  <2> QED BY <2>2, <2>3
<1> QED BY <1>5, <1>6, <1>7, <1>8, Zenon DEF Encloses

\* And there is only one.
LEMMA EnclosesIsParent ==
  ASSUME NEW d, Laid(d), NEW i \in Content(d), NEW q, Encloses(d, i, q)
  PROVE  q = Parent(d, i)
<1> DEFINE p == Parent(d, i)
<1>1. Encloses(d, i, p)
  BY ParentEncloses
<1> HIDE DEF p
<1>2. \A k \in Content(d) : k \in Nat /\ k > 0 /\ d[k].ind \in Nat
  BY ContentIsNat
<1>3. p \in Nat /\ q \in Nat /\ d[i].ind \in Nat
  BY <1>1, <1>2 DEF Encloses
<1>4. p = q
  BY <1>1, <1>2, <1>3 DEF Encloses
<1> QED BY <1>4 DEF p

\* What is nested in a line is below it.
LEMMA ChildIsBelow ==
  ASSUME NEW d, Laid(d), NEW i \in Content(d), NEW j \in Content(d), Parent(d, j) = i
  PROVE  j \in Below(d, i) /\ i < j /\ d[i].ind < d[j].ind
<1>1. Encloses(d, j, i)
  BY ParentEncloses
<1>2. \A k \in Content(d) : k \in Nat /\ k > 0 /\ d[k].ind \in Nat
  BY ContentIsNat
<1>3. i < j /\ d[i].ind < d[j].ind
  BY <1>1, <1>2 DEF Encloses
<1>4. \A k \in Content(d) : i < k /\ k <= j => d[k].ind > d[i].ind
  BY <1>1, <1>2, <1>3 DEF Encloses
<1> QED BY <1>3, <1>4 DEF Below

\* A line below another is nested in it or in one that is below it, too.
LEMMA BelowIsNested ==
  ASSUME NEW d, Laid(d), NEW i \in Content(d), NEW j \in Below(d, i)
  PROVE  Parent(d, j) = i \/ Parent(d, j) \in Below(d, i)
<1>1. \A k \in Content(d) : k \in Nat /\ k > 0 /\ d[k].ind \in Nat
  BY ContentIsNat
<1>2. j \in Content(d) /\ i < j /\ \A k \in Content(d) : i < k /\ k <= j => d[k].ind > d[i].ind
  BY DEF Below
<1> DEFINE p == Parent(d, j)
<1>3. Encloses(d, j, p)
  BY <1>2, ParentEncloses
<1> HIDE DEF p
<1>4. i <= p /\ p \in Content(d)
  BY <1>1, <1>2, <1>3 DEF Encloses
<1>5. p < j
  BY <1>3 DEF Encloses
<1>6. p = i \/ p \in Below(d, i)
  BY <1>1, <1>2, <1>4, <1>5 DEF Below
<1> QED BY <1>6 DEF p

\* If anything is below a line, the first such line is nested in it.
LEMMA BelowMeansChild ==
  ASSUME NEW d, Laid(d), NEW i \in Content(d), Below(d, i) # {}
  PROVE  \E j \in Content(d) : Parent(d, j) = i
<1> DEFINE S == Below(d, i)
<1>1. \A k \in Content(d) : k \in Nat /\ k > 0 /\ d[k].ind \in Nat
  BY ContentIsNat
<1>2. S \in SUBSET Nat /\ S # {}
  BY <1>1 DEF Below
<1>3. PICK j \in S : \A y \in S : <<y, j>> \notin OpToRel(<, Nat)
  BY <1>2, NatLessThanWellFounded, WFMin
<1>4. Parent(d, j) \notin S
  <2> SUFFICES ASSUME Parent(d, j) \in S PROVE FALSE
    OBVIOUS
  <2>1. Encloses(d, j, Parent(d, j))
    BY <1>3, ParentEncloses DEF Below
  <2>2. Parent(d, j) < j
    BY <2>1 DEF Encloses
  <2>3. <<Parent(d, j), j>> \in OpToRel(<, Nat)
    BY <1>2, <1>3, <2>2 DEF OpToRel
  <2> QED BY <1>3, <2>3
<1>5. Parent(d, j) = i
  BY <1>3, <1>4, BelowIsNested
<1> QED BY <1>3, <1>5 DEF Below

-----------------------------------------------------------------------------
\* A patched text carries the structure of the text it was made from.

\* Every line of the text T is line h[n] of the text L, and has another value only
\* if it was written over.
Carries(T, L, h, rep) ==
  /\ \A n \in DOMAIN T : h[n] \in DOMAIN L
  /\ \A m, n \in DOMAIN T : m < n => h[m] < h[n]
  /\ \A n \in DOMAIN T :
       /\ L[h[n]].ind = T[n].ind /\ L[h[n]].kind = T[n].kind /\ L[h[n]].key = T[n].key
       /\ L[h[n]].val = IF n \in rep THEN "fix" ELSE T[n].val

\* The other lines are members written into operations of T, each right below
\* its operation's line and in the column of the operation's other members.
Added(T, L, h) == {w \in DOMAIN L : \A n \in DOMAIN T : h[n] # w}
Adds(T, L, h, op) ==
  \A w \in Added(T, L, h) :
    /\ op[w] \in Operations(T) /\ Children(T, op[w]) # {}
    /\ h[op[w]] < w /\ \A n \in DOMAIN T : op[w] < n => w < h[n]
    /\ L[w].kind = "key" /\ L[w].val = "fix" /\ L[w].ind > T[op[w]].ind
    /\ \A j \in Children(T, op[w]) : L[w].ind = T[j].ind

\* What was written over are members of operations with a value of their own.
Overwrites(T, rep) ==
  \A n \in rep : /\ n \in Content(T) /\ Parent(T, n) \in Operations(T)
                 /\ T[n].kind = "key" /\ Below(T, n) = {}

Patched(T, L, h, rep, op) ==
  Laid(T) /\ Laid(L) /\ Carries(T, L, h, rep) /\ Adds(T, L, h, op) /\ Overwrites(T, rep)

Carried(h, q) == IF q = 0 THEN 0 ELSE h[q]

\* Lines keep their order, and content remains content.
LEMMA LinesAreCarried ==
  ASSUME NEW T, NEW L, NEW h, NEW rep, NEW op, Patched(T, L, h, rep, op)
  PROVE  /\ \A n \in DOMAIN T : n \in Nat /\ n > 0 /\ h[n] \in DOMAIN L /\ h[n] \in Nat /\ h[n] > 0
         /\ \A m, n \in DOMAIN T : m < n <=> h[m] < h[n]
         /\ \A m, n \in DOMAIN T : h[m] = h[n] => m = n
         /\ \A n \in DOMAIN T : n \in Content(T) <=> h[n] \in Content(L)
         /\ \A w \in Added(T, L, h) : w \in Content(L) /\ op[w] \in Content(T) /\ op[w] \in DOMAIN T
         /\ \A k \in Content(L) : k \in Added(T, L, h) \/ \E n \in Content(T) : k = h[n]
<1>1. \A n \in DOMAIN T : n \in Nat /\ n > 0 /\ h[n] \in DOMAIN L /\ h[n] \in Nat /\ h[n] > 0
  BY DEF Patched, Carries, Laid
<1>2. \A m, n \in DOMAIN T : m < n => h[m] < h[n]
  BY DEF Patched, Carries
<1>3. \A m, n \in DOMAIN T : h[m] < h[n] => m < n
  BY <1>1, <1>2
<1>4. \A m, n \in DOMAIN T : h[m] = h[n] => m = n
  BY <1>1, <1>2
<1>5. \A n \in DOMAIN T : n \in Content(T) <=> h[n] \in Content(L)
  BY <1>1 DEF Patched, Carries, Content
<1>6. \A w \in Added(T, L, h) : w \in Content(L) /\ op[w] \in Content(T) /\ op[w] \in DOMAIN T
  BY DEF Patched, Adds, Added, Content, Operations
<1>7. \A k \in Content(L) : k \in Added(T, L, h) \/ \E n \in Content(T) : k = h[n]
  <2> SUFFICES ASSUME NEW k \in Content(L), k \notin Added(T, L, h)
               PROVE  \E n \in Content(T) : k = h[n]
    OBVIOUS
  <2>1. PICK n \in DOMAIN T : h[n] = k
    BY DEF Added, Content
  <2> QED BY <1>5, <2>1
<1> QED BY <1>1, <1>2, <1>3, <1>4, <1>5, <1>6, <1>7

\* A line is nested in the line it was nested in.
LEMMA ParentIsCarried ==
  ASSUME NEW T, NEW L, NEW h, NEW rep, NEW op, Patched(T, L, h, rep, op),
         NEW n \in Content(T)
  PROVE  Parent(L, h[n]) = Carried(h, Parent(T, n))
<1> DEFINE q == Parent(T, n)
           c == Carried(h, q)
<1>1. Encloses(T, n, q) /\ Laid(T) /\ Laid(L)
  BY ParentEncloses DEF Patched
<1> HIDE DEF q
<1>2. /\ n \in DOMAIN T /\ h[n] \in Content(L)
      /\ \A k \in Content(T) : k \in DOMAIN T
  BY LinesAreCarried DEF Content
<1>3. q \in Nat /\ c \in Nat
  BY <1>1, <1>2, LinesAreCarried DEF Encloses, Carried
<1>4. c = 0 \/ (c \in Content(L) /\ L[c].ind < L[h[n]].ind)
  <2>1. CASE q = 0
    BY <2>1 DEF Carried
  <2>2. CASE q # 0
    <3>1. c = h[q] /\ q \in Content(T) /\ q \in DOMAIN T /\ T[q].ind < T[n].ind
      BY <1>1, <1>2, <2>2 DEF Carried, Encloses
    <3>2. L[h[q]].ind = T[q].ind /\ L[h[n]].ind = T[n].ind
      BY <1>2, <3>1 DEF Patched, Carries
    <3>3. h[q] \in Content(L)
      BY <3>1, LinesAreCarried
    <3> HIDE DEF c
    <3> QED BY <3>1, <3>2, <3>3
  <2> QED BY <2>1, <2>2
<1>5. c < h[n]
  BY <1>1, <1>2, LinesAreCarried DEF Carried, Encloses
<1>6. ASSUME NEW k \in Content(L), c < k, k < h[n]
      PROVE  L[h[n]].ind <= L[k].ind
  <2>1. L[h[n]].ind = T[n].ind /\ T[n].ind \in Nat
    BY <1>2, ContentIsNat DEF Patched, Carries
  <2>2. ASSUME NEW m \in Content(T), k = h[m]
        PROVE  L[h[n]].ind <= L[k].ind
    <3>1. m \in DOMAIN T /\ m \in Nat /\ m > 0 /\ m < n
      BY <1>2, <1>6, <2>2, LinesAreCarried
    <3>2. q < m
      BY <1>1, <1>2, <1>3, <1>6, <2>2, <3>1, LinesAreCarried DEF Carried, Encloses
    <3>3. T[n].ind <= T[m].ind /\ L[h[m]].ind = T[m].ind
      BY <1>1, <3>1, <3>2 DEF Encloses, Patched, Carries
    <3> QED BY <2>1, <2>2, <3>3
  <2>3. ASSUME k \in Added(T, L, h)
        PROVE  L[h[n]].ind <= L[k].ind
    <3> DEFINE o == op[k]
    <3>1. /\ o \in Content(T) /\ o \in DOMAIN T /\ o \in Nat /\ k \in Nat
          /\ T[o].ind \in Nat /\ L[k].ind \in Nat
      BY <1>2, <2>3, LinesAreCarried, ContentIsNat DEF Patched
    <3>2. /\ h[o] < k /\ \A m \in DOMAIN T : o < m => k < h[m]
          /\ L[k].ind > T[o].ind /\ \A j \in Children(T, o) : L[k].ind = T[j].ind
      BY <2>3 DEF Patched, Adds
    <3> HIDE DEF o
    <3>3. o < n
      BY <1>2, <1>6, <3>1, <3>2, LinesAreCarried
    <3>4. q <= o
      BY <1>1, <1>2, <1>3, <1>6, <3>1, <3>2, LinesAreCarried DEF Carried, Encloses
    <3>5. CASE q = o
      <4>1. n \in Children(T, o)
        BY <3>5 DEF Children, q
      <4> QED BY <2>1, <3>2, <4>1
    <3>6. CASE q < o
      <4>1. T[n].ind <= T[o].ind
        BY <1>1, <3>1, <3>3, <3>6 DEF Encloses
      <4> QED BY <2>1, <3>1, <3>2, <4>1
    <3> QED BY <1>3, <3>1, <3>4, <3>5, <3>6
  <2> QED BY <2>2, <2>3, LinesAreCarried
<1>7. Encloses(L, h[n], c)
  BY <1>4, <1>5, <1>6 DEF Encloses
<1>8. c = Parent(L, h[n])
  BY <1>1, <1>2, <1>7, EnclosesIsParent
<1> QED BY <1>8 DEF q

\* A line that was added is nested in its operation.
LEMMA AddedIsNested ==
  ASSUME NEW T, NEW L, NEW h, NEW rep, NEW op, Patched(T, L, h, rep, op),
         NEW w \in Added(T, L, h)
  PROVE  Parent(L, w) = h[op[w]]
<1> DEFINE o == op[w]
<1>1. Laid(T) /\ Laid(L)
  BY DEF Patched
<1>2. /\ w \in Content(L) /\ o \in Content(T) /\ o \in DOMAIN T /\ h[o] \in Content(L)
      /\ w \in Nat /\ o \in Nat /\ h[o] \in Nat
  BY <1>1, LinesAreCarried, ContentIsNat
<1>3. /\ h[o] < w /\ \A m \in DOMAIN T : o < m => w < h[m]
      /\ L[w].ind > T[o].ind /\ L[h[o]].ind = T[o].ind
      /\ L[w].ind \in Nat /\ T[o].ind \in Nat
  BY <1>1, <1>2, ContentIsNat DEF Patched, Adds, Carries
<1>4. ASSUME NEW k \in Content(L), h[o] < k, k < w
      PROVE  L[w].ind <= L[k].ind
  <2>1. k \in Nat /\ L[k].ind \in Nat
    BY <1>1, ContentIsNat
  <2>2. k \in Added(T, L, h)
    <3> SUFFICES ASSUME NEW m \in Content(T), k = h[m] PROVE FALSE
      BY LinesAreCarried
    <3>1. m \in DOMAIN T /\ m \in Nat
      BY <1>1, ContentIsNat
    <3>2. o < m
      BY <1>2, <1>4, <3>1, LinesAreCarried
    <3> QED BY <1>2, <1>3, <1>4, <2>1, <3>1, <3>2
  <2> DEFINE p == op[k]
  <2>3. /\ h[p] < k /\ \A m \in DOMAIN T : p < m => k < h[m]
        /\ \A j \in Children(T, p) : L[k].ind = T[j].ind
    BY <2>2 DEF Patched, Adds
  <2>4. p \in DOMAIN T /\ p \in Nat /\ h[p] \in Nat
    BY <2>2, LinesAreCarried
  <2>5. ~(p < o)
    BY <1>2, <1>4, <2>1, <2>3
  <2>6. ~(o < p)
    BY <1>2, <1>3, <1>4, <2>1, <2>3, <2>4
  <2>7. p = o
    BY <1>2, <2>4, <2>5, <2>6
  <2>8. PICK j \in Children(T, o) : L[w].ind = T[j].ind
    BY DEF Patched, Adds
  <2> QED BY <1>3, <2>3, <2>7, <2>8
<1>5. Encloses(L, w, h[o])
  BY <1>2, <1>3, <1>4 DEF Encloses
<1> QED BY <1>1, <1>2, <1>5, EnclosesIsParent

\* The members of a line are what they were, and what was added.
LEMMA ChildrenAreCarried ==
  ASSUME NEW T, NEW L, NEW h, NEW rep, NEW op, Patched(T, L, h, rep, op)
  PROVE  /\ \A q \in Content(T) : Children(L, h[q]) = {h[n] : n \in Children(T, q)}
                                      \cup {w \in Added(T, L, h) : op[w] = q}
         /\ Children(L, 0) = {h[n] : n \in Children(T, 0)}
         /\ \A w \in Added(T, L, h) : Children(L, w) = {}
<1>1. \A n \in Content(T) : n \in DOMAIN T /\ n \in Nat /\ n > 0 /\ h[n] \in Nat /\ h[n] > 0
  BY LinesAreCarried DEF Content
<1>2. /\ \A n \in Content(T) : h[n] \in Content(L)
      /\ \A m, n \in Content(T) : h[m] = h[n] => m = n
  BY <1>1, LinesAreCarried
<1>3. \A n \in Content(T) : Parent(T, n) = 0 \/ Parent(T, n) \in Content(T)
  BY ParentEncloses DEF Patched, Encloses
<1>4. \A n \in Content(T) : Parent(L, h[n]) = IF Parent(T, n) = 0 THEN 0 ELSE h[Parent(T, n)]
  BY ParentIsCarried DEF Carried
<1>5. \A w \in Added(T, L, h) : /\ w \in Content(L) /\ op[w] \in Content(T)
                                /\ Parent(L, w) = h[op[w]]
  BY LinesAreCarried, AddedIsNested
<1>6. \A k \in Content(L) : k \in Added(T, L, h) \/ \E n \in Content(T) : k = h[n]
  BY LinesAreCarried
<1>7. ASSUME NEW q \in Content(T)
      PROVE  Children(L, h[q]) = {h[n] : n \in Children(T, q)}
                                 \cup {w \in Added(T, L, h) : op[w] = q}
  BY <1>1, <1>2, <1>3, <1>4, <1>5, <1>6 DEF Children
<1>8. Children(L, 0) = {h[n] : n \in Children(T, 0)}
  BY <1>1, <1>2, <1>3, <1>4, <1>5, <1>6 DEF Children
<1>9. ASSUME NEW w \in Added(T, L, h) PROVE Children(L, w) = {}
  <2>1. \A n \in Content(T) : h[n] # w
    BY <1>1 DEF Added
  <2>2. w # 0
    BY <1>5, ContentIsNat DEF Patched
  <2> QED BY <1>1, <1>2, <1>3, <1>4, <1>5, <1>6, <2>1, <2>2 DEF Children
<1> QED BY <1>7, <1>8, <1>9

\* An operation is two levels below the top.
LEMMA OperationIsNested ==
  ASSUME NEW T, Laid(T), NEW o \in Operations(T)
  PROVE  /\ o \in Content(T) /\ Parent(T, o) \in Content(T)
         /\ Parent(T, Parent(T, o)) \in Member(T, 0, "paths")
         /\ Parent(T, Parent(T, o)) \in Content(T) /\ Parent(T, Parent(T, Parent(T, o))) = 0
<1>1. o \in Content(T) /\ Parent(T, Parent(T, o)) \in Member(T, 0, "paths")
  BY DEF Operations
<1>2. Parent(T, Parent(T, o)) \in Content(T) /\ Parent(T, Parent(T, Parent(T, o))) = 0
  BY <1>1 DEF Member, Children
<1>3. Parent(T, 0) = 0
  <2> DEFINE S == {0} \cup {k \in Content(T) : k < 0 /\ T[k].ind < T[0].ind}
  <2>1. \A k \in Content(T) : k \in Nat
    BY ContentIsNat
  <2>2. S = {0}
    BY <2>1
  <2>3. Max({0}) \in {0}
    BY MaxIsMember
  <2> QED BY <2>2, <2>3 DEF Parent
<1>4. 0 \notin Content(T)
  BY ContentIsNat
<1>5. Parent(T, o) = 0 \/ Parent(T, o) \in Content(T)
  BY <1>1, ParentEncloses DEF Encloses
<1> QED BY <1>1, <1>2, <1>3, <1>4, <1>5

\* The operations are those there were.
LEMMA OperationsAreCarried ==
  ASSUME NEW T, NEW L, NEW h, NEW rep, NEW op, Patched(T, L, h, rep, op)
  PROVE  Operations(L) = {h[o] : o \in Operations(T)}
<1>1. Laid(T) /\ Laid(L)
  BY DEF Patched
<1>2. \A n \in Content(T) : /\ n \in DOMAIN T /\ n # 0 /\ h[n] # 0 /\ h[n] \in Content(L)
                            /\ Parent(L, h[n]) = Carried(h, Parent(T, n))
  BY LinesAreCarried, ParentIsCarried DEF Content
<1>3. \A n \in Content(T) : \A key : IsKey(L, h[n], key) <=> IsKey(T, n, key)
  BY <1>2 DEF Patched, Carries, IsKey
<1>4. ASSUME NEW o \in Operations(T) PROVE h[o] \in Operations(L)
  <2> DEFINE p == Parent(T, o)
             t == Parent(T, p)
  <2>1. /\ o \in Content(T) /\ p \in Content(T) /\ t \in Member(T, 0, "paths") /\ t \in Content(T)
        /\ Parent(T, t) = 0
    BY <1>1, OperationIsNested
  <2>2. Parent(L, h[o]) = h[p] /\ Parent(L, h[p]) = h[t] /\ Parent(L, h[t]) = 0
    BY <1>2, <2>1 DEF Carried
  <2>3. h[t] \in Member(L, 0, "paths")
    BY <1>2, <1>3, <2>1, <2>2 DEF Member, Children
  <2>4. \E n \in DOMAIN Methods : IsKey(L, h[o], Methods[n])
    BY <1>3, <2>1 DEF Operations
  <2> HIDE DEF p, t
  <2> QED BY <1>2, <2>1, <2>2, <2>3, <2>4 DEF Operations
<1>5. ASSUME NEW k \in Operations(L) PROVE \E o \in Operations(T) : k = h[o]
  <2> DEFINE p == Parent(L, k)
             t == Parent(L, p)
  <2>1. /\ k \in Content(L) /\ p \in Content(L) /\ t \in Member(L, 0, "paths") /\ t \in Content(L)
        /\ Parent(L, t) = 0
    BY <1>1, OperationIsNested
  <2> HIDE DEF p, t
  <2>2. k \notin Added(T, L, h)
    <3> SUFFICES ASSUME k \in Added(T, L, h) PROVE FALSE
      OBVIOUS
    <3> DEFINE o == op[k]
    <3>1. Parent(L, k) = h[o]
      BY AddedIsNested
    <3>2. o \in Operations(T) /\ p = h[o]
      BY <3>1 DEF Patched, Adds, p
    <3>3. o \in Content(T) /\ Parent(T, o) \in Content(T) /\ Parent(T, Parent(T, o)) \in Content(T)
      BY <1>1, <3>2, OperationIsNested
    <3>4. t = h[Parent(T, o)]
      BY <1>2, <3>2, <3>3 DEF t, Carried
    <3>5. Parent(L, t) = h[Parent(T, Parent(T, o))]
      BY <1>2, <3>3, <3>4 DEF Carried
    <3> QED BY <1>2, <2>1, <3>3, <3>5
  <2>3. PICK o \in Content(T) : k = h[o]
    BY <2>1, <2>2, LinesAreCarried
  <2>4. Parent(T, o) \in Content(T) /\ p = h[Parent(T, o)]
    <3>1. p = Carried(h, Parent(T, o)) /\ p # 0
      BY <1>1, <1>2, <2>1, <2>3, ContentIsNat DEF p
    <3>2. Parent(T, o) = 0 \/ Parent(T, o) \in Content(T)
      BY <1>1, ParentEncloses DEF Encloses
    <3> QED BY <3>1, <3>2 DEF Carried
  <2>5. /\ Parent(T, Parent(T, o)) \in Content(T) /\ t = h[Parent(T, Parent(T, o))]
    <3>1. t = Carried(h, Parent(T, Parent(T, o))) /\ t # 0
      BY <1>1, <1>2, <2>1, <2>4, ContentIsNat DEF t
    <3>2. Parent(T, Parent(T, o)) = 0 \/ Parent(T, Parent(T, o)) \in Content(T)
      BY <1>1, <2>4, ParentEncloses DEF Encloses
    <3> QED BY <3>1, <3>2 DEF Carried
  <2> DEFINE r == Parent(T, Parent(T, o))
  <2>6. Parent(T, r) = 0
    <3>1. Parent(L, t) = Carried(h, Parent(T, r))
      BY <1>2, <2>5
    <3>2. Parent(T, r) = 0 \/ Parent(T, r) \in Content(T)
      BY <1>1, <2>5, ParentEncloses DEF Encloses
    <3> QED BY <1>2, <2>1, <3>1, <3>2 DEF Carried
  <2>7. IsKey(T, r, "paths")
    BY <1>3, <2>1, <2>5 DEF Member
  <2>8. r \in Member(T, 0, "paths")
    BY <2>5, <2>6, <2>7 DEF Member, Children
  <2>9. \E n \in DOMAIN Methods : IsKey(T, o, Methods[n])
    BY <1>3, <2>3 DEF Operations
  <2> QED BY <2>3, <2>8, <2>9 DEF Operations
<1> QED BY <1>4, <1>5

\* Nothing below a member of an operation is an operation, nor is the member.
LEMMA NoOperationInField ==
  ASSUME NEW T, Laid(T), NEW o \in Operations(T), NEW j \in Children(T, o),
         NEW k \in Operations(T)
  PROVE  k # j /\ k \notin Below(T, j)
<1>1. \A i \in Content(T) : i \in Nat /\ i > 0 /\ T[i].ind \in Nat
  BY ContentIsNat
<1>2. /\ j \in Content(T) /\ Parent(T, j) = o /\ o \in Content(T)
      /\ Parent(T, o) \in Content(T) /\ Parent(T, Parent(T, o)) \in Content(T)
  BY OperationIsNested DEF Children
<1> DEFINE p == Parent(T, k)
           t == Parent(T, p)
<1>3. k \in Content(T) /\ p \in Content(T) /\ t \in Content(T) /\ Parent(T, t) = 0
  BY OperationIsNested
<1>4. ~(t = j \/ t \in Below(T, j))
  <2> SUFFICES ASSUME t = j \/ t \in Below(T, j) PROVE FALSE
    OBVIOUS
  <2> HIDE DEF t
  <2>1. CASE t = j
    BY <1>1, <1>2, <1>3, <2>1
  <2>2. CASE t \in Below(T, j)
    <3>1. Parent(T, t) = j \/ Parent(T, t) \in Below(T, j)
      BY <1>2, <2>2, BelowIsNested
    <3>2. 0 \notin Below(T, j)
      BY <1>1 DEF Below
    <3> QED BY <1>1, <1>2, <1>3, <3>1, <3>2
  <2> QED BY <2>1, <2>2
<1>5. ~(p = j \/ p \in Below(T, j))
  <2> SUFFICES ASSUME p = j \/ p \in Below(T, j) PROVE FALSE
    OBVIOUS
  <2>1. CASE p = j
    <3>1. t = o
      BY <1>2, <2>1
    <3> QED BY <1>1, <1>2, <1>3, <3>1
  <2>2. CASE p \in Below(T, j)
    BY <1>2, <1>4, <2>2, BelowIsNested
  <2> QED BY <2>1, <2>2
<1>6. k # j
  <2> SUFFICES ASSUME k = j PROVE FALSE
    OBVIOUS
  <2>1. p = o /\ t = Parent(T, o)
    BY <1>2
  <2> QED BY <1>1, <1>2, <1>3, <2>1
<1>7. k \notin Below(T, j)
  BY <1>2, <1>5, BelowIsNested
<1> QED BY <1>6, <1>7

\* What was below a member of an operation is below it, and no more.
LEMMA BelowIsCarried ==
  ASSUME NEW T, NEW L, NEW h, NEW rep, NEW op, Patched(T, L, h, rep, op),
         NEW o \in Operations(T), NEW j \in Children(T, o)
  PROVE  Below(L, h[j]) = {h[m] : m \in Below(T, j)}
<1>1. Laid(T) /\ Laid(L)
  BY DEF Patched
<1>2. \A m \in Content(T) : /\ m \in DOMAIN T /\ m \in Nat /\ h[m] \in Nat /\ h[m] \in Content(L)
                            /\ T[m].ind \in Nat /\ L[h[m]].ind = T[m].ind
  BY <1>1, LinesAreCarried, ContentIsNat DEF Patched, Carries
<1>3. \A m, n \in Content(T) : m < n <=> h[m] < h[n]
  BY <1>2, LinesAreCarried
<1>4. /\ \A k \in Content(L) : k \in Nat /\ L[k].ind \in Nat
      /\ \A k \in Content(L) : k \in Added(T, L, h) \/ \E n \in Content(T) : k = h[n]
  BY <1>1, LinesAreCarried, ContentIsNat
<1>5. j \in Content(T)
  BY DEF Children
<1>6. ASSUME NEW k \in Added(T, L, h), h[j] < k
      PROVE  /\ op[k] \in Operations(T) /\ op[k] \in Content(T) /\ j < op[k] /\ h[op[k]] < k
             /\ \A m \in Content(T) : op[k] < m => k < h[m]
             /\ T[op[k]].ind < L[k].ind
  <2> DEFINE p == op[k]
  <2>1. /\ p \in Operations(T) /\ p \in Content(T) /\ h[p] < k
        /\ \A m \in Content(T) : p < m => k < h[m]
        /\ T[p].ind < L[k].ind
    BY <1>2, <1>4, LinesAreCarried DEF Patched, Adds
  <2>2. p # j
    BY <1>1, <2>1, NoOperationInField
  <2>3. k \in Nat
    BY <1>4, LinesAreCarried
  <2> HIDE DEF p
  <2>4. j < p
    BY <1>2, <1>5, <1>6, <2>1, <2>2, <2>3
  <2> QED BY <2>1, <2>4 DEF p
<1>7. ASSUME NEW m \in Below(T, j) PROVE h[m] \in Below(L, h[j])
  <2>1. /\ m \in Content(T) /\ j < m
        /\ \A k \in Content(T) : j < k /\ k <= m => T[k].ind > T[j].ind
    BY DEF Below
  <2>2. ASSUME NEW k \in Content(L), h[j] < k, k <= h[m] PROVE L[k].ind > L[h[j]].ind
    <3>1. ASSUME NEW n \in Content(T), k = h[n] PROVE L[k].ind > L[h[j]].ind
      <4>1. j < n /\ n <= m
        BY <1>2, <1>3, <1>5, <2>1, <2>2, <3>1
      <4> QED BY <1>2, <1>5, <2>1, <3>1, <4>1
    <3>2. ASSUME k \in Added(T, L, h) PROVE L[k].ind > L[h[j]].ind
      <4>1. /\ op[k] \in Content(T) /\ j < op[k]
            /\ \A n \in Content(T) : op[k] < n => k < h[n]
            /\ T[op[k]].ind < L[k].ind /\ h[op[k]] < k
        BY <1>6, <2>2, <3>2
      <4> DEFINE p == op[k]
      <4> HIDE DEF p
      <4>2. p <= m
        <5>1. h[p] < h[m]
          BY <1>2, <1>4, <2>1, <2>2, <4>1 DEF p
        <5> QED BY <1>2, <1>3, <2>1, <4>1, <5>1 DEF p
      <4>3. T[p].ind > T[j].ind
        BY <2>1, <4>1, <4>2 DEF p
      <4> QED BY <1>2, <1>4, <1>5, <4>1, <4>3 DEF p
    <3> QED BY <1>4, <3>1, <3>2
  <2>3. h[m] \in Content(L) /\ h[j] < h[m]
    BY <1>2, <1>3, <1>5, <2>1
  <2> QED BY <2>2, <2>3 DEF Below
<1>8. ASSUME NEW k \in Below(L, h[j]) PROVE \E m \in Below(T, j) : k = h[m]
  <2>1. /\ k \in Content(L) /\ h[j] < k
        /\ \A x \in Content(L) : h[j] < x /\ x <= k => L[x].ind > L[h[j]].ind
    BY DEF Below
  <2>2. ASSUME NEW m \in Content(T), j < m, h[m] <= k PROVE m \in Below(T, j)
    <3> SUFFICES ASSUME NEW x \in Content(T), j < x, x <= m PROVE T[x].ind > T[j].ind
      BY <2>2 DEF Below
    <3>1. h[j] < h[x] /\ h[x] <= k
      BY <1>2, <1>3, <1>4, <1>5, <2>1, <2>2
    <3> QED BY <1>2, <1>5, <2>1, <3>1
  <2>3. k \notin Added(T, L, h)
    <3> SUFFICES ASSUME k \in Added(T, L, h) PROVE FALSE
      OBVIOUS
    <3>1. op[k] \in Operations(T) /\ op[k] \in Content(T) /\ j < op[k] /\ h[op[k]] < k
      BY <1>6, <2>1
    <3>2. op[k] \in Below(T, j)
      BY <1>2, <1>4, <2>1, <2>2, <3>1
    <3> QED BY <1>1, <3>1, <3>2, NoOperationInField
  <2>4. PICK m \in Content(T) : k = h[m]
    BY <1>4, <2>1, <2>3
  <2>5. j < m /\ h[m] <= k
    BY <1>2, <1>3, <1>5, <2>1, <2>4
  <2> QED BY <2>2, <2>4, <2>5
<1> QED BY <1>7, <1>8

\* Nothing is below a line that was added or written over.
LEMMA WrittenHaveNoneBelow ==
  ASSUME NEW T, NEW L, NEW h, NEW rep, NEW op, Patched(T, L, h, rep, op)
  PROVE  /\ \A w \in Added(T, L, h) : Below(L, w) = {}
         /\ \A n \in rep : Below(L, h[n]) = {}
<1>1. ASSUME NEW w \in Added(T, L, h) PROVE Below(L, w) = {}
  <2>1. Children(L, w) = {} /\ w \in Content(L)
    BY ChildrenAreCarried, LinesAreCarried
  <2> QED BY <2>1, BelowMeansChild DEF Patched, Children
<1>2. ASSUME NEW n \in rep PROVE Below(L, h[n]) = {}
  <2>1. /\ Parent(T, n) \in Operations(T) /\ n \in Children(T, Parent(T, n))
        /\ Below(T, n) = {}
    BY DEF Patched, Overwrites, Children
  <2> QED BY <2>1, BelowIsCarried
<1> QED BY <1>1, <1>2

\* The value of a key that was written.
FixValue == {<<0, "", "fix">>}

\* So the members of an operation have the values they had, or the fix.
LEMMA ValuesAreCarried ==
  ASSUME NEW T, NEW L, NEW h, NEW rep, NEW op, Patched(T, L, h, rep, op)
  PROVE  /\ \A o \in Operations(T) : \A j \in Children(T, o) :
              Value(L, h[j]) = IF j \in rep THEN FixValue ELSE Value(T, j)
         /\ \A w \in Added(T, L, h) : Value(L, w) = FixValue
<1>1. ASSUME NEW w \in Added(T, L, h) PROVE Value(L, w) = FixValue
  <2>1. Below(L, w) = {} /\ L[w].val = "fix"
    BY WrittenHaveNoneBelow DEF Patched, Adds
  <2> QED BY <2>1 DEF Value, FixValue
<1>2. ASSUME NEW o \in Operations(T), NEW j \in Children(T, o), j \in rep
      PROVE  Value(L, h[j]) = FixValue
  <2>1. Below(L, h[j]) = {}
    BY <1>2, WrittenHaveNoneBelow
  <2>2. L[h[j]].val = "fix"
    BY <1>2 DEF Patched, Carries, Children, Content
  <2> QED BY <2>1, <2>2 DEF Value, FixValue
<1>3. ASSUME NEW o \in Operations(T), NEW j \in Children(T, o), j \notin rep
      PROVE  Value(L, h[j]) = Value(T, j)
  <2>1. Below(L, h[j]) = {h[m] : m \in Below(T, j)}
    BY BelowIsCarried
  <2>2. \A n \in Content(T) : /\ L[h[n]].ind = T[n].ind /\ L[h[n]].key = T[n].key
                              /\ n \notin rep => L[h[n]].val = T[n].val
    BY DEF Patched, Carries, Content
  <2>3. j \in Content(T) /\ \A m \in Below(T, j) : m \in Content(T)
    BY DEF Children, Below
  <2>4. ASSUME NEW m \in Below(T, j) PROVE m \notin rep
    <3>1. Laid(T)
      BY DEF Patched
    <3>2. Parent(T, m) = j \/ Parent(T, m) \in Below(T, j)
      BY <2>3, <3>1, BelowIsNested
    <3>3. Parent(T, m) \notin Operations(T)
      BY <3>1, <3>2, NoOperationInField
    <3> QED BY <3>3 DEF Patched, Overwrites
  <2>5. {<<L[x].ind - L[h[j]].ind, L[x].key, L[x].val>> : x \in Below(L, h[j])}
        = {<<T[m].ind - T[j].ind, T[m].key, T[m].val>> : m \in Below(T, j)}
    BY <2>1, <2>2, <2>3, <2>4
  <2>6. L[h[j]].val = T[j].val
    BY <1>3, <2>2, <2>3
  <2> QED BY <2>5, <2>6, Zenon DEF Value
<1> QED BY <1>1, <1>2, <1>3

-----------------------------------------------------------------------------
\* A patched text is a document.

\* The lines written have the commas and keys that make L a document: a line
\* written over keeps its comma, and no member is added where its key is.
Separates(T, L, fmt, h, rep, op) ==
  /\ \A n \in DOMAIN T : L[h[n]].comma = T[n].comma
  /\ \A n \in rep : T[n].val # "block"
  /\ \A w \in Added(T, L, h) :
       /\ L[w].comma = (fmt = "json") /\ L[w].key # ""
       /\ \A j \in Children(T, op[w]) : T[j].key # L[w].key
       /\ fmt = "json" => op[w] + 1 \in Children(T, op[w])
       /\ \A x \in Added(T, L, h) : op[x] = op[w] /\ L[x].key = L[w].key => x = w

\* The members of one object are in one column and have different keys.
Uniform(d, o) ==
  \A i, j \in Children(d, o) :
    d[i].ind = d[j].ind /\ (i # j => d[i].kind = "item" \/ d[i].key # d[j].key)

\* The line after a line that ends in a comma is another member.
Delimited(d, i) == d[i].comma = (i < Len(d) /\ d[i+1].kind # "close")

\* WellFormed, by these names.
LEMMA WellFormedParts ==
  ASSUME NEW d, NEW fmt
  PROVE  WellFormed(d, fmt) <=>
           /\ \A i \in Content(d) : Parent(d, i) # 0 => d[Parent(d, i)].val = "block"
           /\ Uniform(d, 0) /\ \A o \in Content(d) : d[o].val = "block" => Uniform(d, o)
           /\ fmt = "json" => \A i \in DOMAIN d : d[i].val # "block" => Delimited(d, i)
<1>1. (\A o \in {0} \cup {i \in Content(d) : d[i].val = "block"} : Uniform(d, o))
      <=> Uniform(d, 0) /\ \A o \in Content(d) : d[o].val = "block" => Uniform(d, o)
  OBVIOUS
<1> QED BY <1>1, Zenon DEF WellFormed, Uniform, Delimited

\* A line with members is a block, and was not written over.
LEMMA BlocksAreCarried ==
  ASSUME NEW T, NEW L, NEW fmt, NEW h, NEW rep, NEW op, Patched(T, L, h, rep, op),
         WellFormed(T, fmt), NEW q \in Content(T), Children(T, q) # {}
  PROVE  q \notin rep /\ T[q].val = "block" /\ L[h[q]].val = "block"
<1>1. PICK n \in Content(T) : Parent(T, n) = q
  BY DEF Children
<1>2. n \in Below(T, q) /\ q # 0
  BY <1>1, ChildIsBelow, ContentIsNat DEF Patched
<1>3. q \notin rep
  BY <1>2 DEF Patched, Overwrites
<1>4. T[q].val = "block"
  BY <1>1, <1>2, WellFormedParts
<1> QED BY <1>3, <1>4 DEF Patched, Carries, Content

\* The patched text is a document again.
LEMMA PatchedIsWellFormed ==
  ASSUME NEW T, NEW L, NEW fmt, NEW h, NEW rep, NEW op, Patched(T, L, h, rep, op),
         WellFormed(T, fmt), Separates(T, L, fmt, h, rep, op),
         ItemsHaveNoKeys(T)
  PROVE  WellFormed(L, fmt)
<1>1. Laid(T) /\ Laid(L)
  BY DEF Patched
<1>2. \A m \in Content(T) : /\ m \in DOMAIN T /\ m # 0 /\ h[m] # 0 /\ h[m] \in Content(L)
                            /\ Parent(L, h[m]) = Carried(h, Parent(T, m))
  BY LinesAreCarried, ParentIsCarried DEF Content
<1>3. \A m \in DOMAIN T : /\ L[h[m]].ind = T[m].ind /\ L[h[m]].kind = T[m].kind
                          /\ L[h[m]].key = T[m].key
                          /\ L[h[m]].val = IF m \in rep THEN "fix" ELSE T[m].val
  BY DEF Patched, Carries
<1>4. \A w \in Added(T, L, h) :
        /\ w \in Content(L) /\ op[w] \in Content(T) /\ Parent(L, w) = h[op[w]]
        /\ L[w].val = "fix" /\ L[w].kind = "key" /\ Children(T, op[w]) # {}
        /\ \A j \in Children(T, op[w]) : L[w].ind = T[j].ind
  <2>1. \A w \in Added(T, L, h) : w \in Content(L) /\ op[w] \in Content(T)
    BY LinesAreCarried
  <2>2. \A w \in Added(T, L, h) : Parent(L, w) = h[op[w]]
    BY AddedIsNested
  <2>3. \A w \in Added(T, L, h) :
          /\ L[w].val = "fix" /\ L[w].kind = "key" /\ Children(T, op[w]) # {}
          /\ \A j \in Children(T, op[w]) : L[w].ind = T[j].ind
    BY DEF Patched, Adds
  <2> QED BY <2>1, <2>2, <2>3
<1>5. \A k \in Content(L) : k \in Added(T, L, h) \/ \E n \in Content(T) : k = h[n]
  BY LinesAreCarried
<1>6. ASSUME NEW i \in Content(L), Parent(L, i) # 0
      PROVE  L[Parent(L, i)].val = "block"
  <2>1. ASSUME i \in Added(T, L, h) PROVE L[Parent(L, i)].val = "block"
    BY <1>4, <2>1, BlocksAreCarried
  <2>2. ASSUME NEW n \in Content(T), i = h[n] PROVE L[Parent(L, i)].val = "block"
    <3>1. Parent(T, n) # 0 /\ Parent(L, i) = h[Parent(T, n)]
      BY <1>2, <1>6, <2>2 DEF Carried
    <3>2. Parent(T, n) \in Content(T)
      BY <1>1, <3>1, ParentEncloses DEF Encloses
    <3>3. n \in Children(T, Parent(T, n))
      BY DEF Children
    <3> QED BY <3>1, <3>2, <3>3, BlocksAreCarried
  <2> QED BY <1>5, <2>1, <2>2
<1>7. ASSUME NEW q, \A j \in Children(T, q) : j \in Content(T),
             Uniform(T, q), Children(L, IF q = 0 THEN 0 ELSE h[q]) \subseteq {h[n] : n \in Children(T, q)}
                                        \cup {w \in Added(T, L, h) : op[w] = q}
      PROVE  Uniform(L, Carried(h, q))
  <2> SUFFICES ASSUME NEW i \in Children(L, Carried(h, q)), NEW j \in Children(L, Carried(h, q))
               PROVE  L[i].ind = L[j].ind /\ (i # j => L[i].kind = "item" \/ L[i].key # L[j].key)
    BY DEF Uniform
  <2>1. /\ i \in {h[n] : n \in Children(T, q)} \cup {w \in Added(T, L, h) : op[w] = q}
        /\ j \in {h[n] : n \in Children(T, q)} \cup {w \in Added(T, L, h) : op[w] = q}
    BY <1>7 DEF Carried
  <2>2. \A m, n \in Children(T, q) : /\ T[m].ind = T[n].ind
                                     /\ m # n => T[m].kind = "item" \/ T[m].key # T[n].key
    BY <1>7 DEF Uniform
  <2>3. CASE (\E n \in Children(T, q) : i = h[n]) /\ (\E n \in Children(T, q) : j = h[n])
    BY <1>2, <1>3, <1>7, <2>2, <2>3
  <2>4. CASE (\E n \in Children(T, q) : i = h[n]) /\ (j \in Added(T, L, h) /\ op[j] = q)
    <3>1. PICK n \in Children(T, q) : i = h[n]
      BY <2>4
    <3>2. L[j].key # T[n].key /\ L[j].ind = T[n].ind
      BY <1>4, <2>4 DEF Separates
    <3>3. n \in DOMAIN T
      BY <1>2, <1>7
    <3> QED BY <1>3, <1>7, <3>1, <3>2, <3>3
  <2>5. CASE (i \in Added(T, L, h) /\ op[i] = q) /\ (\E n \in Children(T, q) : j = h[n])
    <3>1. PICK n \in Children(T, q) : j = h[n]
      BY <2>5
    <3>2. L[i].key # T[n].key /\ L[i].ind = T[n].ind
      BY <1>4, <2>5 DEF Separates
    <3>3. n \in DOMAIN T
      BY <1>2, <1>7
    <3> QED BY <1>3, <1>7, <3>1, <3>2, <3>3
  <2>6. CASE i \in Added(T, L, h) /\ op[i] = q /\ j \in Added(T, L, h) /\ op[j] = q
    <3>1. PICK n \in Children(T, q) : TRUE
      BY <1>4, <2>6
    <3>2. L[i].ind = T[n].ind /\ L[j].ind = T[n].ind
      BY <1>4, <2>6
    <3>3. i # j => L[i].key # L[j].key
      BY <2>6 DEF Separates
    <3> QED BY <3>2, <3>3
  <2> QED BY <2>1, <2>3, <2>4, <2>5, <2>6
<1>8. /\ Uniform(T, 0) /\ \A o \in Content(T) : T[o].val = "block" => Uniform(T, o)
      /\ fmt = "json" => \A i \in DOMAIN T : T[i].val # "block" => Delimited(T, i)
  BY WellFormedParts
<1>9. Uniform(L, 0)
  <2>1. Children(L, 0) = {h[n] : n \in Children(T, 0)}
    BY ChildrenAreCarried
  <2>2. \A j \in Children(T, 0) : j \in Content(T)
    BY DEF Children
  <2>3. Uniform(L, Carried(h, 0))
    BY <1>7, <1>8, <2>1, <2>2
  <2> QED BY <2>3 DEF Carried
<1>10. ASSUME NEW o \in Content(L), L[o].val = "block" PROVE Uniform(L, o)
  <2>1. PICK q \in Content(T) : o = h[q]
    BY <1>4, <1>5, <1>10
  <2>2. T[q].val = "block" /\ q # 0
    BY <1>2, <1>3, <1>10, <2>1
  <2>3. Children(L, h[q]) = {h[n] : n \in Children(T, q)} \cup {w \in Added(T, L, h) : op[w] = q}
    BY ChildrenAreCarried
  <2>4. \A j \in Children(T, q) : j \in Content(T)
    BY DEF Children
  <2>5. Uniform(L, Carried(h, q))
    BY <1>7, <1>8, <2>2, <2>3, <2>4
  <2> QED BY <2>1, <2>2, <2>5 DEF Carried
<1>11. ASSUME fmt = "json", NEW i \in DOMAIN L, L[i].val # "block" PROVE Delimited(L, i)
  <2>1. /\ \A n \in DOMAIN T : n \in Nat /\ h[n] \in DOMAIN L /\ h[n] \in Nat
        /\ \A m, n \in DOMAIN T : m < n <=> h[m] < h[n]
        /\ \A w \in Added(T, L, h) : op[w] \in DOMAIN T /\ op[w] \in Nat /\ op[w] \in Content(T)
    BY LinesAreCarried
  <2>2. /\ \A w \in Added(T, L, h) : h[op[w]] < w /\ \A n \in DOMAIN T : op[w] < n => w < h[n]
        /\ \A w \in Added(T, L, h) : op[w] + 1 \in Children(T, op[w])
    BY <1>11 DEF Patched, Adds, Separates
  <2>3. /\ DOMAIN T = 1..Len(T) /\ Len(T) \in Nat /\ DOMAIN L = 1..Len(L) /\ Len(L) \in Nat
        /\ i \in Nat
    BY <1>1 DEF Laid
  <2>4. \A k \in DOMAIN L : k \in Added(T, L, h) \/ \E n \in DOMAIN T : k = h[n]
    BY DEF Added
  <2>5. ASSUME i \in Added(T, L, h) PROVE Delimited(L, i)
    <3> DEFINE o == op[i]
               n == o + 1
    <3>1. /\ o \in DOMAIN T /\ o \in Nat /\ n \in Children(T, o) /\ n \in DOMAIN T /\ n \in Content(T)
          /\ h[o] < i /\ i < h[n] /\ h[o] \in Nat /\ h[n] \in Nat /\ h[n] \in DOMAIN L
      <4>1. n \in Children(T, o) /\ o \in DOMAIN T /\ o \in Nat /\ h[o] < i
        BY <2>1, <2>2, <2>5
      <4>2. n \in DOMAIN T /\ n \in Content(T) /\ o < n
        BY <4>1 DEF Children, Content
      <4> QED BY <2>1, <2>2, <2>5, <4>1, <4>2
    <3>2. L[i].comma = TRUE
      BY <1>11, <2>5 DEF Separates
    <3>3. i < Len(L) /\ i + 1 \in DOMAIN L
      BY <2>3, <3>1
    <3>4. L[i+1].kind # "close"
      <4>1. ASSUME i + 1 \in Added(T, L, h) PROVE L[i+1].kind # "close"
        BY <1>4, <4>1
      <4>2. ASSUME NEW m \in DOMAIN T, i + 1 = h[m] PROVE L[i+1].kind # "close"
        <5>1. ~(m < o) /\ m # o
          BY <2>1, <2>3, <3>1, <4>2
        <5>2. ~(n < m)
          <6>1. h[m] <= h[n]
            BY <2>3, <3>1, <4>2
          <6> QED BY <2>1, <3>1, <6>1
        <5>3. m = n
          BY <2>1, <3>1, <5>1, <5>2
        <5>4. T[n].kind # "close"
          BY <3>1 DEF Content
        <5> QED BY <1>3, <3>1, <4>2, <5>3, <5>4
      <4> QED BY <2>4, <3>3, <4>1, <4>2
    <3> QED BY <3>2, <3>3, <3>4 DEF Delimited
  <2>6. ASSUME NEW n \in DOMAIN T, i = h[n] PROVE Delimited(L, i)
    <3>1. T[n].val # "block" /\ L[i].comma = T[n].comma
      BY <1>3, <1>11, <2>6 DEF Separates
    <3>2. Delimited(T, n)
      BY <1>8, <1>11, <3>1
    <3>3. i + 1 \notin Added(T, L, h)
      <4> SUFFICES ASSUME i + 1 \in Added(T, L, h) PROVE FALSE
        OBVIOUS
      <4> DEFINE o == op[i + 1]
      <4>1. /\ o \in DOMAIN T /\ o \in Nat /\ o \in Content(T) /\ h[o] < i + 1
            /\ \A m \in DOMAIN T : o < m => i + 1 < h[m]
        BY <2>1, <2>2
      <4> HIDE DEF o
      <4>2. o = n
        BY <2>1, <2>3, <2>6, <4>1
      <4>3. T[o].val = "block"
        BY <1>4, <4>1, BlocksAreCarried DEF o
      <4> QED BY <3>1, <4>2, <4>3
    <3>4. CASE n < Len(T)
      <4>1. n + 1 \in DOMAIN T /\ n < n + 1 /\ n \in Nat
        BY <2>1, <2>3, <3>4
      <4>2. h[n + 1] \in DOMAIN L /\ h[n + 1] \in Nat /\ i < h[n + 1]
        BY <2>1, <2>6, <4>1
      <4>3. i + 1 \in DOMAIN L /\ i < Len(L)
        BY <2>3, <4>2
      <4>4. PICK m \in DOMAIN T : i + 1 = h[m]
        BY <2>4, <3>3, <4>3
      <4>5. n < m /\ ~(n + 1 < m) /\ m \in Nat
        BY <2>1, <2>3, <2>6, <4>1, <4>2, <4>4
      <4>6. m = n + 1
        BY <4>1, <4>5
      <4>7. L[i+1].kind = T[n+1].kind
        BY <1>3, <4>4, <4>6
      <4> QED BY <3>1, <3>2, <3>4, <4>3, <4>7 DEF Delimited
    <3>5. CASE ~(n < Len(T))
      <4>1. ~(i < Len(L))
        <5> SUFFICES ASSUME i < Len(L) PROVE FALSE
          OBVIOUS
        <5>1. i + 1 \in DOMAIN L
          BY <2>3
        <5>2. PICK m \in DOMAIN T : i + 1 = h[m]
          BY <2>4, <3>3, <5>1
        <5>3. n < m
          BY <2>1, <2>3, <2>6, <5>2
        <5> QED BY <2>1, <2>3, <3>5, <5>3
      <4> QED BY <3>1, <3>2, <3>5, <4>1 DEF Delimited
    <3> QED BY <3>4, <3>5
  <2> QED BY <2>4, <2>5, <2>6
<1> QED BY <1>6, <1>9, <1>10, <1>11, WellFormedParts

-----------------------------------------------------------------------------
\* A patched text means what the fixes mean.

\* The keys that fixes write into an operation.
KeysFor(T, o, fs) ==
  {fs[n].key : n \in {n \in DOMAIN fs : fs[n].path = T[Parent(T, o)].key /\ fs[n].method = T[o].key}}

\* The lines written are those fixes, no more and no less.
Fulfils(T, L, h, rep, op, fs) ==
  /\ \A n \in rep : T[n].key \in KeysFor(T, Parent(T, n), fs)
  /\ \A w \in Added(T, L, h) : L[w].key \in KeysFor(T, op[w], fs)
  /\ \A o \in Operations(T) : \A key \in KeysFor(T, o, fs) :
       /\ \/ \E n \in rep : Parent(T, n) = o /\ T[n].key = key
          \/ \E w \in Added(T, L, h) : op[w] = o /\ L[w].key = key
       /\ \A n \in Children(T, o) : T[n].key = key => n \in rep /\ key # "operationId"

\* The fields of an operation are those that apply_fixes gives it.
LEMMA FieldsAreFixed ==
  ASSUME NEW T, NEW L, NEW h, NEW rep, NEW op, NEW fs, Patched(T, L, h, rep, op),
         Fulfils(T, L, h, rep, op, fs), NEW o \in Operations(T)
  PROVE  Fields(L, h[o]) = FixedFields(Fields(T, o), KeysFor(T, o, fs))
<1> DEFINE keys == KeysFor(T, o, fs)
           fields == Fields(T, o)
           kept == {f \in fields : f[1] \notin keys \ {"operationId"}}
           rest == {<<T[n].key, Value(T, n)>> : n \in Children(T, o) \ rep}
           made == {<<k, FixValue>> : k \in keys}
<1>1. o \in Content(T)
  BY DEF Operations
<1>2. Children(L, h[o]) = {h[n] : n \in Children(T, o)} \cup {w \in Added(T, L, h) : op[w] = o}
  BY <1>1, ChildrenAreCarried
<1>3. /\ \A n \in Children(T, o) : /\ L[h[n]].key = T[n].key
                                   /\ Value(L, h[n]) = IF n \in rep THEN FixValue ELSE Value(T, n)
      /\ \A w \in Added(T, L, h) : Value(L, w) = FixValue
  <2>1. \A n \in Children(T, o) : L[h[n]].key = T[n].key
    BY DEF Patched, Carries, Children, Content
  <2> QED BY <2>1, ValuesAreCarried
<1>4. /\ \A n \in rep : Parent(T, n) = o => T[n].key \in keys /\ n \in Children(T, o)
      /\ \A w \in Added(T, L, h) : op[w] = o => L[w].key \in keys
      /\ \A key \in keys :
           /\ \/ \E n \in rep : Parent(T, n) = o /\ T[n].key = key
              \/ \E w \in Added(T, L, h) : op[w] = o /\ L[w].key = key
           /\ \A n \in Children(T, o) : T[n].key = key => n \in rep /\ key # "operationId"
  BY DEF Fulfils, Patched, Overwrites, Children
<1>5. \A n \in Children(T, o) : n \in rep => T[n].key \in keys
  BY <1>4 DEF Children
<1> HIDE DEF keys
<1>6. Fields(L, h[o]) = rest \cup made
  <2>1. Fields(L, h[o]) = {<<L[j].key, Value(L, j)>> : j \in Children(L, h[o])}
    BY Zenon DEF Fields
  <2>2. ASSUME NEW f \in Fields(L, h[o]) PROVE f \in rest \cup made
    <3>1. PICK j \in Children(L, h[o]) : f = <<L[j].key, Value(L, j)>>
      BY <2>1
    <3>2. CASE j \in Added(T, L, h) /\ op[j] = o
      BY <1>3, <1>4, <3>1, <3>2
    <3>3. CASE \E n \in Children(T, o) : j = h[n]
      <4>1. PICK n \in Children(T, o) : j = h[n]
        BY <3>3
      <4>2. CASE n \in rep
        BY <1>3, <1>5, <3>1, <4>1, <4>2
      <4>3. CASE n \notin rep
        BY <1>3, <3>1, <4>1, <4>3
      <4> QED BY <4>2, <4>3
    <3> QED BY <1>2, <3>2, <3>3
  <2>3. ASSUME NEW f \in rest PROVE f \in Fields(L, h[o])
    <3>1. PICK n \in Children(T, o) \ rep : f = <<T[n].key, Value(T, n)>>
      OBVIOUS
    <3>2. h[n] \in Children(L, h[o])
      BY <1>2
    <3> QED BY <1>3, <2>1, <3>1, <3>2
  <2>4. ASSUME NEW f \in made PROVE f \in Fields(L, h[o])
    <3>1. PICK key \in keys : f = <<key, FixValue>>
      OBVIOUS
    <3>2. ASSUME NEW n \in rep, Parent(T, n) = o, T[n].key = key PROVE f \in Fields(L, h[o])
      <4>1. n \in Children(T, o) /\ h[n] \in Children(L, h[o])
        BY <1>2, <1>4, <3>2
      <4> QED BY <1>3, <2>1, <3>1, <3>2, <4>1
    <3>3. ASSUME NEW w \in Added(T, L, h), op[w] = o, L[w].key = key PROVE f \in Fields(L, h[o])
      <4>1. w \in Children(L, h[o])
        BY <1>2, <3>3
      <4> QED BY <1>3, <2>1, <3>1, <3>3, <4>1
    <3> QED BY <1>4, <3>1, <3>2, <3>3
  <2> HIDE DEF rest, made
  <2> QED BY <2>2, <2>3, <2>4
<1>7. kept = rest
  <2>1. fields = {<<T[n].key, Value(T, n)>> : n \in Children(T, o)}
    BY Zenon DEF Fields
  <2>2. ASSUME NEW n \in Children(T, o) PROVE T[n].key \notin keys \ {"operationId"} <=> n \notin rep
    BY <1>4, <1>5
  <2> HIDE DEF fields
  <2> QED BY <2>1, <2>2
<1>8. \A k \in keys : \A f \in kept : f[1] # k
  <2> SUFFICES ASSUME NEW k \in keys, NEW n \in Children(T, o) \ rep PROVE T[n].key # k
    BY <1>7
  <2> QED BY <1>4
<1>9. FixedFields(fields, keys) = kept \cup {<<k, FixValue>> : k \in {k \in keys : \A f \in kept : f[1] # k}}
  BY Zenon DEF FixedFields, FixValue
<1>10. {k \in keys : \A f \in kept : f[1] # k} = keys
  BY <1>8
<1>11. FixedFields(fields, keys) = rest \cup made
  BY <1>7, <1>9, <1>10
<1> QED BY <1>6, <1>11 DEF keys

\* The patched text means what apply_fixes gives.
LEMMA MeaningIsFixed ==
  ASSUME NEW T, NEW L, NEW h, NEW rep, NEW op, NEW fs, Patched(T, L, h, rep, op),
         Fulfils(T, L, h, rep, op, fs)
  PROVE  Meaning(L) = ApplyFixes(Meaning(T), fs)
<1> DEFINE Before(o) == <<T[Parent(T, o)].key, T[o].key, Fields(T, o)>>
           Later(o) == <<T[Parent(T, o)].key, T[o].key, FixedFields(Fields(T, o), KeysFor(T, o, fs))>>
           Fixed(m) == <<m[1], m[2], FixedFields(m[3], {fs[n].key : n \in {n \in DOMAIN fs :
                                      fs[n].path = m[1] /\ fs[n].method = m[2]}})>>
<1>1. \A o \in Operations(T) : Fixed(Before(o)) = Later(o)
  BY Zenon DEF KeysFor
<1>2. Meaning(T) = {Before(o) : o \in Operations(T)}
  BY Zenon DEF Meaning
<1>3. ApplyFixes(Meaning(T), fs) = {Fixed(m) : m \in Meaning(T)}
  BY Zenon DEF ApplyFixes
<1>4. \A o \in Operations(T) : <<L[Parent(L, h[o])].key, L[h[o]].key, Fields(L, h[o])>> = Later(o)
  <2> SUFFICES ASSUME NEW o \in Operations(T)
               PROVE  <<L[Parent(L, h[o])].key, L[h[o]].key, Fields(L, h[o])>> = Later(o)
    OBVIOUS
  <2>1. Laid(T)
    BY DEF Patched
  <2>2. o \in Content(T) /\ Parent(T, o) \in Content(T) /\ Parent(T, o) # 0
    BY <2>1, OperationIsNested, ContentIsNat
  <2>3. Parent(L, h[o]) = h[Parent(T, o)]
    BY <2>2, ParentIsCarried DEF Carried
  <2>4. L[h[o]].key = T[o].key /\ L[h[Parent(T, o)]].key = T[Parent(T, o)].key
    BY <2>2 DEF Patched, Carries, Content
  <2>5. Fields(L, h[o]) = FixedFields(Fields(T, o), KeysFor(T, o, fs))
    BY FieldsAreFixed
  <2> QED BY <2>3, <2>4, <2>5
<1>5. Meaning(L) = {<<L[Parent(L, i)].key, L[i].key, Fields(L, i)>> : i \in Operations(L)}
  BY Zenon DEF Meaning
<1>6. Operations(L) = {h[o] : o \in Operations(T)}
  BY OperationsAreCarried
<1>7. Meaning(L) = {<<L[Parent(L, h[o])].key, L[h[o]].key, Fields(L, h[o])>> : o \in Operations(T)}
  BY <1>5, <1>6
<1>8. Meaning(L) = {Later(o) : o \in Operations(T)}
  <2> HIDE DEF Later
  <2> QED BY <1>4, <1>7
<1>9. ApplyFixes(Meaning(T), fs) = {Fixed(Before(o)) : o \in Operations(T)}
  <2> HIDE DEF Fixed, Before
  <2> QED BY <1>2, <1>3
<1>10. ApplyFixes(Meaning(T), fs) = {Later(o) : o \in Operations(T)}
  <2> HIDE DEF Fixed, Before, Later
  <2> QED BY <1>1, <1>9
<1> QED BY <1>8, <1>10

-----------------------------------------------------------------------------
\* The scans find the paths, the path and the operation they look for.

\* A match with none before it and no stop up to it is found.
LEMMA FirstIsFound ==
  ASSUME NEW S \in SUBSET Nat, NEW stops, NEW x \in S, \A y \in S : x <= y,
         \A s \in stops : x < s
  PROVE  FirstBefore(S, stops) = x
<1>1. Min(S) \in S /\ \A y \in S : Min(S) <= y
  <2>1. \E m \in S : \A y \in S : m <= y
    OBVIOUS
  <2> QED BY <2>1 DEF Min
<1>2. Min(S) = x
  <2>1. Min(S) \in Nat /\ x \in Nat /\ Min(S) <= x /\ x <= Min(S)
    BY <1>1
  <2> QED BY <2>1
<1> QED BY <1>2 DEF FirstBefore

\* If every match has a stop up to it, none is found.
LEMMA NothingIsFound ==
  ASSUME NEW S \in SUBSET Nat, NEW stops \in SUBSET Nat,
         \A x \in S : \E s \in stops : s <= x
  PROVE  FirstBefore(S, stops) = 0
<1> SUFFICES ASSUME S # {}, \A s \in stops : Min(S) < s PROVE FALSE
  BY DEF FirstBefore
<1>1. Min(S) \in S /\ Min(S) \in Nat
  BY MinIsMember
<1> QED BY <1>1

\* The members of an object are told apart by their keys.
LEMMA MembersAreUnique ==
  ASSUME NEW d, NEW fmt, Laid(d), WellFormed(d, fmt), NEW q \in {0} \cup Content(d), NEW key,
         NEW i \in Member(d, q, key), NEW j \in Member(d, q, key)
  PROVE  i = j
<1>1. Uniform(d, q)
  <2>1. CASE q = 0
    BY <2>1, WellFormedParts
  <2>2. CASE q # 0
    <3>1. i \in Content(d) /\ Parent(d, i) = q
      BY DEF Member, Children
    <3>2. d[q].val = "block"
      BY <2>2, <3>1, WellFormedParts
    <3> QED BY <2>2, <3>2, WellFormedParts
  <2> QED BY <2>1, <2>2
<1> QED BY <1>1 DEF Uniform, Member, IsKey

\* And they are in one column.
LEMMA MembersShareColumn ==
  ASSUME NEW d, NEW fmt, Laid(d), WellFormed(d, fmt), NEW q \in Content(d),
         NEW i \in Children(d, q), NEW j \in Children(d, q)
  PROVE  d[i].ind = d[j].ind
<1>1. i \in Content(d) /\ Parent(d, i) = q /\ q # 0
  BY ContentIsNat DEF Children
<1>2. d[q].val = "block"
  BY <1>1, WellFormedParts
<1>3. Uniform(d, q)
  BY <1>2, WellFormedParts
<1> QED BY <1>3 DEF Uniform

\* No line that ends a block comes before what is below it.
LEMMA NoStopInside ==
  ASSUME NEW d \in Seq(Line), NEW fmt \in {"yaml", "json"}, Sheltered(d),
         NEW i \in Content(d), NEW j \in Below(d, i),
         NEW s \in Stops(d, fmt, i, d[i].ind)
  PROVE  j < s
<1>1. Laid(d)
  BY SeqIsLaid
<1>2. \A k \in Content(d) : k \in Nat /\ d[k].ind \in Nat
  BY <1>1, ContentIsNat
<1>3. /\ j \in Content(d) /\ i < j
      /\ \A k \in Content(d) : i < k /\ k <= j => d[k].ind > d[i].ind
  BY DEF Below
<1>4. /\ s \in DOMAIN d /\ s \in Nat /\ i < s /\ d[s].ind <= d[i].ind /\ d[s].ind \in Nat
      /\ d[s].kind # "blank"
  <2>1. s \in (i + 1)..Len(d) /\ d[s].ind <= d[i].ind /\ d[s].kind # "blank"
    BY DEF Stops, After
  <2> QED BY <1>1, <1>2, <2>1 DEF Laid
<1> SUFFICES ASSUME s <= j PROVE FALSE
  BY <1>2, <1>3, <1>4
<1>5. s \notin Content(d)
  BY <1>2, <1>3, <1>4
<1>6. d[s].kind \in {"comment", "close"}
  <2>1. d[s] \in Line
    BY <1>4
  <2>2. d[s].kind \in {"key", "item", "close", "comment", "blank"}
    BY <2>1 DEF Line
  <2> QED BY <1>4, <1>5, <2>2 DEF Content
<1>7. s < j
  BY <1>2, <1>3, <1>4, <1>5
<1>8. PICK k \in Content(d) : s < k /\ k <= j /\ d[k].ind <= d[s].ind
  BY <1>3, <1>4, <1>6, <1>7 DEF Sheltered
<1> QED BY <1>2, <1>3, <1>4, <1>8

\* A line that reads as a key has content.
LEMMA ReadIsContent ==
  ASSUME NEW d, Laid(d), NEW fmt, NEW q \in Content(d), NEW key,
         NEW y \in (q + 1)..Len(d), Reads(d, fmt, y, key)
  PROVE  y \in Content(d) /\ q < y
<1>1. y \in DOMAIN d /\ q < y
  BY ContentIsNat DEF Laid
<1>2. d[y].kind \in {"key", "item"}
  BY DEF Reads, IsKey
<1> QED BY <1>1, <1>2 DEF Content

\* The first line in the column of a member that reads as its key, after the line
\* it is nested in, is the member.
LEMMA MemberComesFirst ==
  ASSUME NEW d, NEW fmt, Laid(d), WellFormed(d, fmt), NEW q \in Content(d), NEW key,
         NEW i \in Member(d, q, key), NEW ind, ind = d[i].ind,
         \A k \in Children(d, q) : Reads(d, fmt, k, key) <=> IsKey(d, k, key)
  PROVE  LET S == {k \in After(d, q) : Reads(d, fmt, k, key) /\ d[k].ind = ind} IN
           i \in S /\ S \in SUBSET Nat /\ \A y \in S : i <= y
<1> DEFINE S == {k \in After(d, q) : Reads(d, fmt, k, key) /\ d[k].ind = ind}
<1>1. \A k \in Content(d) : k \in Nat /\ k > 0 /\ d[k].ind \in Nat /\ k \in DOMAIN d
  BY ContentIsNat
<1>2. i \in Content(d) /\ Parent(d, i) = q /\ Reads(d, fmt, i, key)
  BY DEF Member, Children
<1>3. Encloses(d, i, q)
  BY <1>2, ParentEncloses
<1>4. \A y \in S : y \in Content(d) /\ q < y /\ Reads(d, fmt, y, key) /\ d[y].ind = d[i].ind
  <2>1. \A y \in S : y \in (q + 1)..Len(d) /\ Reads(d, fmt, y, key) /\ d[y].ind = d[i].ind
    BY DEF After
  <2> QED BY <1>1, <2>1, ReadIsContent
<1>5. i \in S
  <2>1. q < i /\ q \in Nat /\ i \in Nat /\ i \in 1..Len(d) /\ Len(d) \in Nat
    BY <1>1, <1>2, <1>3 DEF Encloses, Laid
  <2>2. i \in After(d, q)
    BY <2>1 DEF After
  <2> QED BY <1>2, <2>2
<1>6. ASSUME NEW y \in S PROVE i <= y
  <2> SUFFICES ASSUME y < i PROVE FALSE
    BY <1>1, <1>2, <1>4
  <2>1. y \in Content(d) /\ q < y /\ Reads(d, fmt, y, key) /\ d[y].ind = d[i].ind
    BY <1>4
  <2>2. Encloses(d, y, q)
    <3>1. \A k \in Content(d) : q < k /\ k < y => d[y].ind <= d[k].ind
      BY <1>1, <1>2, <1>3, <2>1 DEF Encloses
    <3> QED BY <1>3, <2>1, <3>1 DEF Encloses
  <2>3. Parent(d, y) = q
    BY <2>1, <2>2, EnclosesIsParent
  <2>4. y \in Member(d, q, key)
    BY <2>1, <2>3 DEF Member, Children
  <2>5. y = i
    BY <2>4, MembersAreUnique
  <2> QED BY <1>1, <1>2, <2>5
<1>7. S \in SUBSET Nat
  BY <1>1, <1>4
<1> QED BY <1>5, <1>6, <1>7

\* In a regular document the line of "paths" is that of the paths.
LEMMA PathsAreFound ==
  ASSUME NEW d \in Seq(Line), NEW fmt \in {"yaml", "json"}, Regular(d, fmt),
         NEW t \in Member(d, 0, "paths"), Children(d, t) # {}
  PROVE  PathsLine(d, fmt) = t
<1> DEFINE S == {i \in DOMAIN d : OpensPaths(d, fmt, i)}
<1>1. Laid(d)
  BY SeqIsLaid
<1>2. \A k \in Content(d) : k \in Nat /\ k > 0 /\ d[k].ind \in Nat /\ k \in DOMAIN d
  BY <1>1, ContentIsNat
<1>3. /\ WellFormed(d, fmt) /\ PathsStandOut(d, fmt)
      /\ fmt = "yaml" => \A i \in Content(d) : Parent(d, i) = 0 => d[i].ind = 0
  BY DEF Regular, EvenlyIndented
<1>4. t \in Content(d) /\ Parent(d, t) = 0 /\ IsKey(d, t, "paths")
  BY DEF Member, Children
<1>5. OpensPaths(d, fmt, t)
  BY <1>3 DEF PathsStandOut
<1>6. t \in S
  BY <1>2, <1>4, <1>5
<1>7. ASSUME NEW y \in S PROVE t <= y
  <2>1. y \in Content(d) /\ IsKey(d, y, "paths") /\ OpensPaths(d, fmt, y)
    BY DEF OpensPaths, Content, IsKey
  <2>2. CASE fmt = "yaml"
    <3>1. d[y].ind = 0 /\ Encloses(d, y, Parent(d, y))
      BY <1>1, <2>1, <2>2, ParentEncloses DEF OpensPaths
    <3>2. Parent(d, y) = 0
      BY <1>2, <3>1 DEF Encloses
    <3>3. y \in Member(d, 0, "paths")
      BY <2>1, <3>2 DEF Member, Children
    <3>4. y = t
      BY <1>1, <1>3, <3>3, MembersAreUnique
    <3> QED BY <1>2, <1>4, <3>4
  <2>3. CASE fmt = "json"
    <3>1. PICK j \in Member(d, 0, "paths") : j <= y
      BY <1>3, <2>1, <2>3 DEF PathsStandOut
    <3>2. j = t
      BY <1>1, <1>3, <3>1, MembersAreUnique
    <3> QED BY <3>1, <3>2
  <2> QED BY <2>2, <2>3
<1>8. S \in SUBSET Nat
  BY <1>1 DEF Laid
<1>9. FirstBefore(S, {}) = t
  <2> HIDE DEF S
  <2> QED BY <1>6, <1>7, <1>8, FirstIsFound
<1> QED BY <1>9, Zenon DEF PathsLine

\* And a path is found.
LEMMA PathIsFound ==
  ASSUME NEW d \in Seq(Line), NEW fmt \in {"yaml", "json"}, Regular(d, fmt),
         NEW t \in Member(d, 0, "paths"), NEW p \in Children(d, t),
         NEW n \in DOMAIN Paths, d[p].key = Paths[n]
  PROVE  PathLine(d, fmt, d[p].key) = p /\ PathsLine(d, fmt) = t
<1> DEFINE path == d[p].key
           S == {i \in After(d, t) : Reads(d, fmt, i, path)}
           stops == {i \in Stops(d, fmt, t, d[t].ind) : ~d[i].comma}
<1>1. Laid(d)
  BY SeqIsLaid
<1>2. \A k \in Content(d) : k \in Nat /\ k > 0 /\ d[k].ind \in Nat /\ k \in DOMAIN d
  BY <1>1, ContentIsNat
<1>3. WellFormed(d, fmt) /\ PathsStandOut(d, fmt) /\ Sheltered(d)
  BY DEF Regular
<1>4. /\ t \in Content(d) /\ p \in Content(d) /\ Parent(d, p) = t /\ t # 0
      /\ IsKey(d, p, path)
  <2>1. t \in Content(d) /\ p \in Content(d) /\ Parent(d, p) = t
    BY DEF Member, Children
  <2>2. d[p].kind = "key"
    BY <1>3 DEF PathsStandOut
  <2> QED BY <1>2, <2>1, <2>2 DEF IsKey
<1>5. PathsLine(d, fmt) = t
  BY PathsAreFound
<1>6. p \in Below(d, t) /\ t < p /\ \A k \in Content(d) : t < k /\ k <= p => d[k].ind > d[t].ind
  BY <1>1, <1>4, ChildIsBelow DEF Below
<1>7. \A s \in stops : p < s
  BY <1>3, <1>4, <1>6, NoStopInside
<1>8. S \in SUBSET Nat /\ S \subseteq Content(d) /\ \A y \in S : t < y
  <2>1. \A y \in S : y \in (t + 1)..Len(d) /\ Reads(d, fmt, y, path)
    BY DEF After
  <2>2. \A y \in S : y \in Content(d) /\ t < y
    BY <1>1, <1>4, <2>1, ReadIsContent
  <2> QED BY <1>2, <2>2
<1>9. p \in S
  <2>1. t < p /\ t \in Nat /\ p \in Nat /\ p \in 1..Len(d) /\ Len(d) \in Nat
    BY <1>1, <1>2, <1>4, <1>6 DEF Laid
  <2>2. p \in After(d, t)
    BY <2>1 DEF After
  <2>3. Reads(d, fmt, p, path)
    BY <1>3, <1>4, <1>6 DEF PathsStandOut
  <2> QED BY <2>2, <2>3
<1>10. ASSUME NEW y \in S PROVE p <= y
  <2> SUFFICES ASSUME y < p PROVE FALSE
    BY <1>2, <1>4, <1>8
  <2>1. y \in Content(d) /\ t < y /\ Reads(d, fmt, y, path)
    BY <1>8
  <2>2. y \in Below(d, t)
    BY <1>2, <1>4, <1>6, <2>1 DEF Below
  <2>3. Parent(d, y) = t /\ IsKey(d, y, path)
    BY <1>3, <2>1, <2>2 DEF PathsStandOut
  <2>4. y \in Member(d, t, path) /\ p \in Member(d, t, path)
    BY <1>4, <2>1, <2>3 DEF Member, Children
  <2>5. y = p
    BY <1>1, <1>3, <1>4, <2>4, MembersAreUnique
  <2> QED BY <1>2, <1>4, <2>5
<1>11. FirstBefore(S, stops) = p
  <2> HIDE DEF S, stops
  <2> QED BY <1>7, <1>8, <1>9, <1>10, FirstIsFound
<1> QED BY <1>4, <1>5, <1>11, Zenon DEF PathLine

-----------------------------------------------------------------------------
\* The scans place a fix in its operation.

\* One step for all that is nested.
LEMMA OneStep ==
  ASSUME NEW d, Laid(d), NEW fmt, Regular(d, fmt)
  PROVE  \E step \in Int : \A i \in Content(d) : Parent(d, i) # 0 => d[i].ind = d[Parent(d, i)].ind + step
<1> DEFINE nested == {i \in Content(d) : Parent(d, i) # 0}
           Step(i) == d[i].ind - d[Parent(d, i)].ind
<1>1. PICK step \in {Step(i) : i \in nested} \cup {0} : \A i \in nested : Step(i) = step
  BY Zenon DEF Regular, EvenlyIndented
<1>2. \A i \in nested : d[i].ind \in Nat /\ d[Parent(d, i)].ind \in Nat
  BY ParentEncloses, ContentIsNat DEF Encloses
<1>3. \A i \in nested : Step(i) \in Int /\ d[i].ind = d[Parent(d, i)].ind + Step(i)
  BY <1>2
<1>4. step \in Int
  <2> HIDE DEF Step, nested
  <2> QED BY <1>1, <1>3
<1>5. \A i \in nested : d[i].ind = d[Parent(d, i)].ind + step
  <2> HIDE DEF Step
  <2> QED BY <1>1, <1>3
<1> QED BY <1>4, <1>5

\* The columns of the methods of a path and of their fields.
LEMMA ColumnsAreRight ==
  ASSUME NEW d \in Seq(Line), NEW fmt \in {"yaml", "json"}, Regular(d, fmt),
         NEW t \in Member(d, 0, "paths"), NEW p \in Children(d, t), PathsLine(d, fmt) = t,
         NEW i \in Children(d, p)
  PROVE  /\ d[i].ind = Column(d, fmt, p, 2)
         /\ \A j \in Children(d, i) : d[j].ind = Column(d, fmt, p, 3)
<1>1. Laid(d)
  BY SeqIsLaid
<1>2. \A k \in Content(d) : k \in Nat /\ k > 0 /\ d[k].ind \in Nat
  BY <1>1, ContentIsNat
<1>3. PICK step \in Int : \A k \in Content(d) : Parent(d, k) # 0 => d[k].ind = d[Parent(d, k)].ind + step
  BY <1>1, OneStep
<1>4. t \in Content(d) /\ p \in Content(d) /\ i \in Content(d) /\ Parent(d, p) = t /\ Parent(d, i) = p
  BY DEF Member, Children
<1>5. d[p].ind = d[t].ind + step /\ d[i].ind = d[p].ind + step
  BY <1>2, <1>3, <1>4
<1> DEFINE a == d[t].ind
           b == d[p].ind
<1>6. Column(d, fmt, p, 2) = a + 2 * (b - a) /\ Column(d, fmt, p, 3) = a + 3 * (b - a)
  BY DEF Column
<1>7. a \in Nat /\ b \in Nat /\ b = a + step /\ d[i].ind = b + step
  BY <1>2, <1>4, <1>5
<1> HIDE DEF a, b
<1>8. a + 2 * (b - a) = b + step /\ a + 3 * (b - a) = (b + step) + step
  BY <1>7
<1>9. \A j \in Children(d, i) : d[j].ind = d[i].ind + step
  BY <1>2, <1>3, <1>4 DEF Children
<1> QED BY <1>6, <1>7, <1>8, <1>9

\* In a regular document an operation is found at its line.
LEMMA MethodIsFound ==
  ASSUME NEW d \in Seq(Line), NEW fmt \in {"yaml", "json"}, Regular(d, fmt),
         NEW o \in Operations(d), NEW n \in DOMAIN Paths, d[Parent(d, o)].key = Paths[n]
  PROVE  /\ PathLine(d, fmt, d[Parent(d, o)].key) = Parent(d, o)
         /\ MethodLine(d, fmt, d[Parent(d, o)].key, d[o].key) = o
         /\ \A j \in Children(d, o) : d[j].ind = Column(d, fmt, Parent(d, o), 3)
<1> DEFINE p == Parent(d, o)
           t == Parent(d, p)
           method == d[o].key
           S == {k \in After(d, p) : Reads(d, fmt, k, method) /\ d[k].ind = Column(d, fmt, p, 2)}
           stops == Stops(d, fmt, p, d[p].ind)
<1>1. Laid(d)
  BY SeqIsLaid
<1>2. WellFormed(d, fmt) /\ Sheltered(d)
  BY DEF Regular
<1>3. /\ o \in Content(d) /\ p \in Content(d) /\ t \in Member(d, 0, "paths")
      /\ p \in Children(d, t) /\ o \in Children(d, p) /\ p # 0
  BY <1>1, OperationIsNested, ContentIsNat DEF Children
<1>4. IsKey(d, o, method) /\ \E m \in DOMAIN Methods : method = Methods[m]
  BY DEF Operations, IsKey
<1>13. \A k \in Children(d, p) : Reads(d, fmt, k, method) <=> IsKey(d, k, method)
  BY <1>4 DEF Regular, MembersReadTrue
<1> HIDE DEF p, t
<1>5. PathLine(d, fmt, d[p].key) = p /\ PathsLine(d, fmt) = t
  BY <1>3, PathIsFound DEF p
<1>6. /\ d[o].ind = Column(d, fmt, p, 2)
      /\ \A j \in Children(d, o) : d[j].ind = Column(d, fmt, p, 3)
  BY <1>3, <1>5, ColumnsAreRight
<1>7. o \in Member(d, p, method)
  BY <1>3, <1>4 DEF Member
<1>8. o \in S /\ S \in SUBSET Nat /\ \A y \in S : o <= y
  BY <1>1, <1>2, <1>3, <1>6, <1>7, <1>13, MemberComesFirst
<1>9. o \in Below(d, p)
  BY <1>1, <1>3, ChildIsBelow DEF Children
<1>10. \A s \in stops : o < s
  BY <1>2, <1>3, <1>9, NoStopInside
<1>11. FirstBefore(S, stops) = o
  <2> HIDE DEF S, stops
  <2> QED BY <1>8, <1>10, FirstIsFound
<1>12. MethodLine(d, fmt, d[p].key, method) = o
  BY <1>3, <1>5, <1>11, Zenon DEF MethodLine
<1> QED BY <1>5, <1>6, <1>12 DEF p

\* A line further right than an operation, with no line that ends the operation
\* up to it, is below the operation.
LEMMA NothingEndsIt ==
  ASSUME NEW d \in Seq(Line), NEW fmt \in {"yaml", "json"}, Regular(d, fmt),
         NEW o \in Content(d), d[o].val = "block", NEW m \in Content(d), o < m, d[m].ind > d[o].ind,
         \A k \in Children(d, o) : d[k].kind = "key",
         \A s \in Stops(d, fmt, o, d[o].ind) : m < s
  PROVE  m \in Below(d, o)
<1>1. Laid(d)
  BY SeqIsLaid
<1>2. \A k \in Content(d) : k \in Nat /\ k > 0 /\ d[k].ind \in Nat /\ k \in DOMAIN d
  BY <1>1, ContentIsNat
<1>3. DOMAIN d = 1..Len(d) /\ Len(d) \in Nat
  BY <1>1 DEF Laid
<1> SUFFICES ASSUME NEW k \in Content(d), o < k, k <= m, d[k].ind <= d[o].ind PROVE FALSE
  BY <1>2 DEF Below
<1>4. k < m
  BY <1>2
<1>5. CASE fmt = "yaml"
  <2>1. k \in After(d, o)
    BY <1>2, <1>3 DEF After
  <2>2. d[k].kind # "blank"
    BY DEF Content
  <2>3. k \in Stops(d, fmt, o, d[o].ind)
    BY <1>5, <2>1, <2>2 DEF Stops
  <2> QED BY <1>2, <1>4, <2>3
<1>6. CASE fmt = "json"
  <2>0. Closed(d)
    BY <1>6 DEF Regular
  <2>6. PICK c \in o..k : Closes(d, o, c)
    BY <2>0 DEF Closed
  <2>1. c \in o..k /\ d[c].kind = "close" /\ d[c].ind <= d[o].ind /\ d[c].val = "}"
    BY <2>6 DEF Closes
  <2>2. c # o
    BY <2>1 DEF Content
  <2>3. c \in Nat /\ o < c /\ c <= k /\ c \in DOMAIN d
    BY <1>2, <1>3, <2>2
  <2>4. c \in After(d, o)
    BY <1>2, <1>3, <2>3 DEF After
  <2>5. c \in Stops(d, fmt, o, d[o].ind)
    BY <1>6, <2>1, <2>4 DEF Stops
  <2> QED BY <1>2, <1>4, <2>3, <2>5
<1> QED BY <1>5, <1>6

\* The fix is one for the operation on line o.
IsFixFor(d, o, fix) ==
  /\ fix.path = d[Parent(d, o)].key /\ fix.method = d[o].key
  /\ fix.key \in {"security", "operationId"} /\ \E n \in DOMAIN Paths : fix.path = Paths[n]

\* The field of a fix is found, or found to be missing.
LEMMA FieldIsFound ==
  ASSUME NEW d \in Seq(Line), NEW fmt \in {"yaml", "json"}, Regular(d, fmt),
         NEW o \in Operations(d), NEW fix, IsFixFor(d, o, fix)
  PROVE  /\ \A j \in Member(d, o, fix.key) : FieldLine(d, fmt, fix) = j
         /\ Member(d, o, fix.key) = {} => FieldLine(d, fmt, fix) = 0
<1> DEFINE p == Parent(d, o)
           key == fix.key
           column == Column(d, fmt, p, 3)
           S == {k \in After(d, o) : Reads(d, fmt, k, key) /\ d[k].ind = column}
           stops == Stops(d, fmt, o, d[o].ind)
<1>1. Laid(d)
  BY SeqIsLaid
<1>2. \A k \in Content(d) : k \in Nat /\ k > 0 /\ d[k].ind \in Nat /\ k \in DOMAIN d
  BY <1>1, ContentIsNat
<1>3. WellFormed(d, fmt) /\ Sheltered(d) /\ o \in Content(d)
  BY DEF Regular, Operations
<1>8. \A k \in Children(d, o) : /\ Reads(d, fmt, k, key) <=> IsKey(d, k, key)
                               /\ d[k].kind = "key"
  BY Zenon DEF Regular, MembersReadTrue, OperationsAreOpen, IsFixFor
<1>4. /\ PathLine(d, fmt, fix.path) = p /\ MethodLine(d, fmt, fix.path, fix.method) = o
      /\ \A j \in Children(d, o) : d[j].ind = column
  <2>1. PICK n \in DOMAIN Paths : d[p].key = Paths[n]
    BY DEF IsFixFor
  <2>2. /\ PathLine(d, fmt, d[p].key) = p /\ MethodLine(d, fmt, d[p].key, d[o].key) = o
        /\ \A j \in Children(d, o) : d[j].ind = column
    BY <2>1, MethodIsFound
  <2>3. fix.path = d[p].key /\ fix.method = d[o].key
    BY Zenon DEF IsFixFor
  <2> QED BY <2>2, <2>3, Zenon
<1>5. FieldLine(d, fmt, fix) = FirstBefore(S, stops)
  BY <1>4, Zenon DEF FieldLine
<1>6. ASSUME NEW j \in Member(d, o, key) PROVE FieldLine(d, fmt, fix) = j
  <2>1. j \in Children(d, o) /\ d[j].ind = column
    BY <1>4 DEF Member
  <2>2. j \in S /\ S \in SUBSET Nat /\ \A y \in S : j <= y
    BY <1>1, <1>3, <1>8, <2>1, MemberComesFirst
  <2>3. j \in Below(d, o)
    BY <1>1, <1>3, <2>1, ChildIsBelow DEF Children
  <2>4. \A s \in stops : j < s
    BY <1>3, <2>3, NoStopInside
  <2>5. FirstBefore(S, stops) = j
    <3> HIDE DEF S, stops
    <3> QED BY <2>2, <2>4, FirstIsFound
  <2> QED BY <1>5, <2>5
<1>7. ASSUME Member(d, o, key) = {} PROVE FieldLine(d, fmt, fix) = 0
  <2>1. /\ S \in SUBSET Nat /\ stops \in SUBSET Nat /\ S \subseteq Content(d)
        /\ \A y \in S : o < y /\ Reads(d, fmt, y, key) /\ d[y].ind = column
    <3>1. /\ \A y \in S : y \in (o + 1)..Len(d) /\ Reads(d, fmt, y, key) /\ d[y].ind = column
          /\ \A s \in stops : s \in (o + 1)..Len(d)
      BY DEF After, Stops
    <3>2. \A y \in S : y \in Content(d) /\ o < y
      BY <1>1, <1>3, <3>1, ReadIsContent
    <3>3. Len(d) \in Nat /\ o \in Nat
      BY <1>1, <1>2, <1>3 DEF Laid
    <3>4. stops \in SUBSET Nat
      <4> HIDE DEF stops
      <4> QED BY <3>1, <3>3
    <3> HIDE DEF S, stops
    <3> QED BY <1>2, <3>1, <3>2, <3>4
  <2>2. PICK j \in Children(d, o) : TRUE
    BY DEF Regular, OperationsAreOpen
  <2>3. j \in Content(d) /\ Parent(d, j) = o /\ d[j].ind = column
    BY <1>4 DEF Children
  <2>4. d[o].val = "block" /\ column > d[o].ind
    BY <1>1, <1>2, <1>3, <2>3, WellFormedParts, ChildIsBelow
  <2>5. PICK step \in Int : \A k \in Content(d) : Parent(d, k) # 0 => d[k].ind = d[Parent(d, k)].ind + step
    BY <1>1, OneStep
  <2>6. column = d[o].ind + step /\ column \in Nat /\ d[o].ind \in Nat
    BY <1>2, <1>3, <2>3, <2>5
  <2> HIDE DEF column, p
  <2>7. ASSUME NEW m \in S, \A s \in stops : m < s PROVE FALSE
    <3>1. m \in Content(d) /\ o < m /\ Reads(d, fmt, m, key) /\ d[m].ind = column
      BY <2>1
    <3>2. m \in Below(d, o)
      BY <1>3, <1>8, <2>4, <2>7, <3>1, NothingEndsIt
    <3>3. Parent(d, m) = o
      <4> SUFFICES ASSUME Parent(d, m) \in Below(d, o) PROVE FALSE
        BY <1>1, <1>3, <3>2, BelowIsNested
      <4> DEFINE q == Parent(d, m)
      <4>1. q \in Content(d) /\ d[q].ind > d[o].ind
        BY <1>2 DEF Below
      <4>2. Parent(d, m) # 0
        BY <1>2, <4>1
      <4>3. d[m].ind = d[q].ind + step
        <5> HIDE DEF S, stops
        <5> QED BY <2>5, <3>1, <4>2
      <4> HIDE DEF q
      <4> QED BY <1>2, <2>6, <3>1, <4>1, <4>3
    <3>4. m \in Member(d, o, key)
      BY <1>8, <3>1, <3>3 DEF Member, Children
    <3> QED BY <1>7, <3>4
  <2>8. \A m \in S : \E s \in stops : s <= m
    <3>1. \A m \in S : \E s \in stops : ~(m < s)
      BY <2>7
    <3> HIDE DEF S, stops
    <3> QED BY <2>1, <3>1
  <2>9. FirstBefore(S, stops) = 0
    <3> HIDE DEF S, stops
    <3> QED BY <2>1, <2>8, NothingIsFound
  <2> QED BY <1>5, <2>9
<1> QED BY <1>6, <1>7

-----------------------------------------------------------------------------
\* The candidates differ.

\* A number is divided in one way.
LEMMA DivisionIsUnique ==
  ASSUME NEW b \in Nat, b > 0, NEW q \in Nat, NEW r \in 0..(b - 1)
  PROVE  (b * q + r) \div b = q /\ (b * q + r) % b = r
<1>1. (b * q + r) \div b = q
  OBVIOUS
<1>2. (b * q + r) % b = r
  OBVIOUS
<1> QED BY <1>1, <1>2

\* And every number is.
LEMMA Division ==
  ASSUME NEW a \in Nat, NEW b \in Nat, b > 0
  PROVE  /\ a \div b \in Nat /\ a % b \in 0..(b - 1)
         /\ a = b * (a \div b) + (a % b)
<1> DEFINE S == {q \in 0..a : b * q <= a}
           q == Max(S)
<1>1. 0 \in S
  OBVIOUS
<1>2. q \in S /\ \A x \in S : x <= q
  <2>1. S \in SUBSET (0..a) /\ S # {}
    BY <1>1
  <2> HIDE DEF S
  <2> QED BY <2>1, MaxIsMember
<1>3. q \in Nat /\ q <= a /\ b * q <= a
  BY <1>2
<1>4. q + 1 \notin S
  <2> HIDE DEF S, q
  <2> QED BY <1>2, <1>3
<1> DEFINE r == a - b * q
<1>5. r \in Nat /\ a = b * q + r
  <2> HIDE DEF q
  <2> QED BY <1>3
<1>6. r < b
  <2> SUFFICES ASSUME b <= r PROVE FALSE
    BY <1>5
  <2> HIDE DEF q
  <2>1. b * (q + 1) <= a
    BY <1>3
  <2>2. q + 1 <= b * (q + 1)
    BY <1>3
  <2>3. q + 1 \in 0..a
    BY <1>3, <2>1, <2>2
  <2> QED BY <1>4, <2>1, <2>3
<1> HIDE DEF q, r
<1>7. r \in 0..(b - 1)
  BY <1>5, <1>6
<1> DEFINE u == a \div b
           v == a % b
<1>8. u = q /\ v = r
  BY <1>3, <1>5, <1>7, DivisionIsUnique
<1> HIDE DEF u, v
<1>9. u \in Nat /\ v \in 0..(b - 1) /\ a = b * u + v
  BY <1>3, <1>5, <1>7, <1>8
<1> QED BY <1>9, Zenon DEF u, v

\* Dividing by two and then by m divides by 2 * m.
LEMMA DivisionInSteps ==
  ASSUME NEW a \in Nat, NEW m \in Nat, m > 0
  PROVE  a \div (2 * m) = (a \div 2) \div m
<1> DEFINE x == a \div 2
           e == a % 2
           y == x \div m
           z == x % m
<1>1. x \in Nat /\ e \in 0..1 /\ a = 2 * x + e
  OBVIOUS
<1>2. y \in Nat /\ z \in 0..(m - 1) /\ x = m * y + z
  BY <1>1, Division
<1> HIDE DEF x, e, y, z
<1>3. 2 * m \in Nat /\ 2 * m > 0 /\ 2 * z + e \in 0..(2 * m - 1)
  BY <1>1, <1>2
<1>4. a = (2 * m) * y + (2 * z + e)
  BY <1>1, <1>2
<1>5. a \div (2 * m) = y
  BY <1>2, <1>3, <1>4, DivisionIsUnique
<1> QED BY <1>5 DEF x, y

\* Candidates differ.
LEMMA CandidatesDiffer ==
  /\ \A n \in DOMAIN Candidates :
       /\ \E m \in DOMAIN Paths : Candidates[n].path = Paths[m]
       /\ Candidates[n].key \in {"security", "operationId"}
  /\ \A m, n \in DOMAIN Candidates : Candidates[m] = Candidates[n] => m = n
<1> DEFINE P == Len(Paths)
           M == Len(Methods)
           p(n) == (n - 1) \div (2 * M)
           q(n) == ((n - 1) \div 2) % M
<1>1. P \in Nat /\ M \in Nat /\ DOMAIN Paths = 1..P /\ DOMAIN Methods = 1..M
  BY DocumentsAssumption
<1>2. /\ \A j, k \in DOMAIN Paths : Paths[j] = Paths[k] => j = k
      /\ \A j, k \in DOMAIN Methods : Methods[j] = Methods[k] => j = k
  BY DocumentsAssumption
<1>3. DOMAIN Candidates = 1..(2 * P * M)
  BY DEF Candidates
<1>4. \A n \in DOMAIN Candidates :
        Candidates[n] = [path |-> Paths[p(n) + 1], method |-> Methods[q(n) + 1],
                         key |-> IF n % 2 = 1 THEN "security" ELSE "operationId"]
  BY Zenon DEF Candidates
<1> HIDE DEF P, M
<1>5. ASSUME NEW n \in DOMAIN Candidates
      PROVE  /\ p(n) + 1 \in DOMAIN Paths /\ q(n) + 1 \in DOMAIN Methods
             /\ p(n) \in Nat /\ q(n) \in Nat /\ M > 0
             /\ n = 2 * (M * p(n) + q(n)) + ((n - 1) % 2) + 1
  <2>1. n \in 1..(2 * P * M)
    BY <1>3
  <2>2. M > 0 /\ n \in Nat /\ n - 1 \in Nat /\ n - 1 < 2 * P * M
    <3>1. 2 * P * M \in Nat /\ n \in Nat /\ 1 <= n /\ n <= 2 * P * M
      BY <1>1, <2>1
    <3>2. M # 0
      <4> SUFFICES ASSUME M = 0 PROVE FALSE
        OBVIOUS
      <4>1. 2 * P * M = 0
        BY <1>1
      <4> QED BY <3>1, <4>1
    <3> QED BY <1>1, <3>1, <3>2
  <2> DEFINE a == n - 1
             x == a \div 2
             e == a % 2
             y == x \div M
             z == x % M
  <2>3. a \in Nat /\ n = a + 1
    BY <2>2
  <2> HIDE DEF a
  <2>4. x \in Nat /\ e \in 0..1 /\ a = 2 * x + e
    BY <2>3
  <2>5. a \div (2 * M) = y
    BY <1>1, <2>2, <2>3, DivisionInSteps
  <2> HIDE DEF x, e
  <2>6. y \in Nat /\ z \in 0..(M - 1) /\ x = M * y + z
    BY <1>1, <2>2, <2>4, Division
  <2> HIDE DEF y, z
  <2>7. n = 2 * (M * y + z) + e + 1
    BY <1>1, <2>3, <2>4, <2>6
  <2>8. M * y < P * M
    BY <1>1, <2>2, <2>3, <2>4, <2>6
  <2>9. y < P
    <3> SUFFICES ASSUME P <= y PROVE FALSE
      BY <1>1, <2>6
    <3>1. P * M <= M * y
      BY <1>1, <2>2, <2>6
    <3> QED BY <1>1, <2>6, <2>8, <3>1
  <2>10. y + 1 \in 1..P /\ z + 1 \in 1..M
    BY <1>1, <2>2, <2>6, <2>9
  <2>11. p(n) = y /\ q(n) = z /\ (n - 1) % 2 = e
    BY <2>5, Zenon DEF a, e, x, z
  <2> HIDE DEF p, q
  <2>12. y + 1 \in DOMAIN Paths /\ z + 1 \in DOMAIN Methods /\ z \in Nat
    BY <1>1, <2>2, <2>6, <2>10
  <2> QED BY <2>2, <2>6, <2>7, <2>11, <2>12, Zenon
<1>6. ASSUME NEW m \in DOMAIN Candidates, NEW n \in DOMAIN Candidates, Candidates[m] = Candidates[n]
      PROVE  m = n
  <2>1. /\ Paths[p(m) + 1] = Paths[p(n) + 1] /\ Methods[q(m) + 1] = Methods[q(n) + 1]
        /\ (m % 2 = 1 <=> n % 2 = 1)
    BY <1>4, <1>6
  <2> DEFINE em == (m - 1) % 2
             en == (n - 1) % 2
  <2>2. em = en
    <3>1. m \in Nat /\ n \in Nat
      BY <1>1, <1>3
    <3> QED BY <2>1, <3>1
  <2> HIDE DEF p, q, em, en
  <2>3. p(m) + 1 = p(n) + 1 /\ q(m) + 1 = q(n) + 1
    BY <1>2, <1>5, <2>1
  <2>4. p(m) = p(n) /\ q(m) = q(n)
    BY <1>5, <2>3
  <2>5. m = 2 * (M * p(m) + q(m)) + em + 1 /\ n = 2 * (M * p(n) + q(n)) + en + 1
    BY <1>5, Zenon DEF em, en
  <2> QED BY <2>2, <2>4, <2>5
<1> HIDE DEF p, q
<1>7. ASSUME NEW n \in DOMAIN Candidates
      PROVE  /\ \E m \in DOMAIN Paths : Candidates[n].path = Paths[m]
             /\ Candidates[n].key \in {"security", "operationId"}
  BY <1>4, <1>5
<1> QED BY <1>6, <1>7

-----------------------------------------------------------------------------
\* Every fix is placed.

\* The fixes are candidates that are needed, each of them once.
LEMMA FixesAreNeeded ==
  ASSUME NEW d
  PROVE  /\ \E N \in Nat : DOMAIN ComputeFixes(d) = 1..N
         /\ \A k \in DOMAIN ComputeFixes(d) :
              /\ \E n \in DOMAIN Candidates : ComputeFixes(d)[k] = Candidates[n]
              /\ Needed(d, ComputeFixes(d)[k])
         /\ \A j, k \in DOMAIN ComputeFixes(d) : ComputeFixes(d)[j] = ComputeFixes(d)[k] => j = k
<1> DEFINE chosen == {n \in DOMAIN Candidates : Needed(d, Candidates[n])}
           N == 2 * Len(Paths) * Len(Methods)
           c == [k \in 1..Cardinality(chosen) |-> CHOOSE n \in chosen : Place(chosen, n) = k]
           fs == ComputeFixes(d)
<1>1. N \in Nat
  <2>1. Len(Paths) \in Nat /\ Len(Methods) \in Nat
    BY DocumentsAssumption
  <2>2. \A a, b \in Nat : 2 * a * b \in Nat
    OBVIOUS
  <2> QED BY <2>1, <2>2
<1>2. DOMAIN Candidates = 1..N
  BY DEF Candidates
<1>3. IsFiniteSet(chosen) /\ chosen \in SUBSET Nat
  <2>1. IsFiniteSet(1..N)
    BY <1>1, FS_Interval
  <2>2. chosen \in SUBSET (1..N)
    BY <1>2
  <2>3. IsFiniteSet(chosen)
    BY <2>1, <2>2, FS_Subset
  <2>4. 1..N \subseteq Nat
    BY <1>1
  <2> QED BY <2>2, <2>3, <2>4
<1>4. fs = [k \in 1..Cardinality(chosen) |->
              Candidates[CHOOSE n \in chosen : Place(chosen, n) = k]]
  BY Zenon DEF ComputeFixes
<1>5. \A n \in chosen : n \in DOMAIN Candidates /\ Needed(d, Candidates[n])
  OBVIOUS
<1> HIDE DEF chosen, N, fs
<1>6. Cardinality(chosen) \in Nat
  BY <1>3, FS_CardinalityType
<1>7. ASSUME NEW k \in 1..Cardinality(chosen)
      PROVE  c[k] \in chosen /\ Place(chosen, c[k]) = k
  <2>1. \E n \in chosen : Place(chosen, n) = k
    BY <1>3, Ranks DEF Place
  <2>2. c[k] = CHOOSE n \in chosen : Place(chosen, n) = k
    OBVIOUS
  <2> QED BY <2>1, <2>2
<1>8. DOMAIN fs = 1..Cardinality(chosen) /\ \A k \in DOMAIN fs : fs[k] = Candidates[c[k]]
  BY <1>4
<1> HIDE DEF c
<1>9. ASSUME NEW j \in DOMAIN fs, NEW k \in DOMAIN fs, fs[j] = fs[k]
      PROVE  j = k
  <2>1. c[j] = c[k]
    BY <1>5, <1>7, <1>8, <1>9, CandidatesDiffer
  <2> QED BY <1>7, <1>8, <2>1
<1>10. \A k \in DOMAIN fs : (\E n \in DOMAIN Candidates : fs[k] = Candidates[n]) /\ Needed(d, fs[k])
  BY <1>5, <1>7, <1>8
<1> QED BY <1>6, <1>8, <1>9, <1>10 DEF fs

\* In a regular document an operation is told apart by its path and method.
LEMMA OperationsAreUnique ==
  ASSUME NEW d, NEW fmt, Laid(d), Regular(d, fmt), NEW o \in Operations(d), NEW i \in Operations(d),
         d[o].key = d[i].key, d[Parent(d, o)].key = d[Parent(d, i)].key
  PROVE  o = i
<1> DEFINE p == Parent(d, o)
           q == Parent(d, i)
           t == Parent(d, p)
           u == Parent(d, q)
<1>1. WellFormed(d, fmt) /\ PathsStandOut(d, fmt)
  BY DEF Regular
<1>2. /\ o \in Content(d) /\ p \in Content(d) /\ t \in Member(d, 0, "paths") /\ t \in Content(d)
      /\ i \in Content(d) /\ q \in Content(d) /\ u \in Member(d, 0, "paths") /\ u \in Content(d)
  BY OperationIsNested
<1>3. o \in Children(d, p) /\ p \in Children(d, t) /\ i \in Children(d, q) /\ q \in Children(d, u)
  BY <1>2 DEF Children
<1>4. d[o].kind = "key" /\ d[i].kind = "key"
  BY DEF Operations, IsKey
<1> HIDE DEF p, q, t, u
<1>5. t = u
  BY <1>1, <1>2, MembersAreUnique
<1>6. d[p].kind = "key" /\ d[q].kind = "key" /\ d[p].key = d[q].key
  BY <1>1, <1>2, <1>3 DEF PathsStandOut, p, q
<1>7. p \in Member(d, t, d[p].key) /\ q \in Member(d, t, d[p].key)
  BY <1>3, <1>5, <1>6 DEF Member, IsKey
<1>8. p = q
  BY <1>1, <1>2, <1>7, MembersAreUnique
<1>9. o \in Member(d, p, d[o].key) /\ i \in Member(d, p, d[o].key)
  BY <1>3, <1>4, <1>8 DEF Member, IsKey
<1> QED BY <1>1, <1>2, <1>9, MembersAreUnique

\* Target t is the place of a fix: the member of its operation that it overwrites,
\* or the operation's own line if it has no such member.
Places(d, fix, t, o) ==
  /\ o \in Operations(d) /\ d[o].key = fix.method /\ d[Parent(d, o)].key = fix.path
  /\ t.key = fix.key /\ fix.key \in {"security", "operationId"} /\ Children(d, o) # {}
  /\ \A j \in Children(d, o) : d[j].ind = t.ind
  /\ \/ /\ t.op = "replace" /\ t.at \in Member(d, o, fix.key) /\ d[t.at].val # "block"
        /\ fix.key # "operationId"
     \/ t.op = "insert" /\ t.at = o /\ Member(d, o, fix.key) = {}

\* In a regular document every fix is located in its place.
LEMMA FixesArePlaced ==
  ASSUME NEW d \in Seq(Line), NEW fmt \in {"yaml", "json"}, Regular(d, fmt),
         NEW k \in DOMAIN ComputeFixes(d)
  PROVE  LET fix == ComputeFixes(d)[k] IN
           /\ MethodLine(d, fmt, fix.path, fix.method) # 0
           /\ \E o \in Operations(d) : Places(d, fix, Target(d, fmt, fix), o)
<1> DEFINE fix == ComputeFixes(d)[k]
           t == Target(d, fmt, fix)
<1>1. Laid(d)
  BY SeqIsLaid
<1>2. Needed(d, fix) /\ \E n \in DOMAIN Candidates : fix = Candidates[n]
  BY FixesAreNeeded
<1>3. PICK n \in DOMAIN Paths : fix.path = Paths[n]
  BY <1>2, CandidatesDiffer
<1> HIDE DEF fix
<1>4. PICK o \in Operations(d) :
        /\ d[o].key = fix.method /\ d[Parent(d, o)].key = fix.path
        /\ \/ fix.key = "security" /\ ~Authenticated(d, o) /\ Declared(d)
           \/ /\ fix.key = "operationId"
              /\ Member(d, o, "summary") = {} /\ Member(d, o, "operationId") = {}
  BY <1>2 DEF Needed
<1> DEFINE p == Parent(d, o)
<1>5. /\ PathLine(d, fmt, fix.path) = p /\ MethodLine(d, fmt, fix.path, fix.method) = o
      /\ \A j \in Children(d, o) : d[j].ind = Column(d, fmt, p, 3)
  <2>1. d[p].key = Paths[n]
    BY <1>3, <1>4
  <2>2. /\ PathLine(d, fmt, d[p].key) = p /\ MethodLine(d, fmt, d[p].key, d[o].key) = o
        /\ \A j \in Children(d, o) : d[j].ind = Column(d, fmt, p, 3)
    BY <2>1, MethodIsFound
  <2> QED BY <1>4, <2>2, Zenon
<1>6. /\ \A j \in Member(d, o, fix.key) : FieldLine(d, fmt, fix) = j
      /\ Member(d, o, fix.key) = {} => FieldLine(d, fmt, fix) = 0
  <2>1. IsFixFor(d, o, fix)
    BY <1>3, <1>4, Zenon DEF IsFixFor
  <2> QED BY <2>1, FieldIsFound
<1>7. o # 0 /\ \A j \in Content(d) : j # 0
  BY <1>1, ContentIsNat DEF Operations
<1>8. \A j \in Member(d, o, fix.key) : j # 0
  BY <1>7 DEF Member, Children
<1>9. Children(d, o) # {} /\ \A j \in Member(d, o, "security") : ~Authenticated(d, o) => d[j].val # "block"
  BY DEF Regular, OperationsAreOpen
<1> DEFINE field == FieldLine(d, fmt, fix)
<1>10. t = [op |-> IF field = 0 THEN "insert" ELSE "replace", at |-> IF field = 0 THEN o ELSE field,
            ind |-> Column(d, fmt, p, 3), key |-> fix.key]
  BY <1>5, Zenon DEF Target
<1>11. Places(d, fix, t, o)
  <2> HIDE DEF field, t, p
  <2>1. /\ t.op = IF field = 0 THEN "insert" ELSE "replace"
        /\ t.at = IF field = 0 THEN o ELSE field
        /\ t.ind = Column(d, fmt, p, 3) /\ t.key = fix.key
    BY <1>10
  <2>2. CASE Member(d, o, fix.key) = {}
    <3>1. t.op = "insert" /\ t.at = o
      BY <1>6, <2>1, <2>2 DEF field
    <3> QED BY <1>4, <1>5, <1>9, <2>1, <2>2, <3>1 DEF Places
  <2>3. CASE Member(d, o, fix.key) # {}
    <3>1. field \in Member(d, o, fix.key) /\ field # 0
      BY <1>6, <1>8, <2>3 DEF field
    <3>2. t.op = "replace" /\ t.at = field
      BY <2>1, <3>1
    <3>3. fix.key = "security" /\ ~Authenticated(d, o)
      BY <1>4, <2>3
    <3>4. d[field].val # "block"
      BY <1>9, <3>1, <3>3
    <3> QED BY <1>4, <1>5, <1>9, <2>1, <3>1, <3>2, <3>3, <3>4 DEF Places
  <2> QED BY <2>2, <2>3
<1> QED BY <1>5, <1>7, <1>11 DEF fix

-----------------------------------------------------------------------------
\* What has been written when the patch is done.

\* Every document is regular.
DocumentsAreRegular == \A d \in Documents : Regular(d.lines, d.format)

\* The fixes are those of the text, and one target has been located for each
\* fix so far.
Placing ==
  /\ text \in Seq(Line) /\ format \in {"yaml", "json"} /\ Regular(text, format)
  /\ fixes = ComputeFixes(text)
  /\ next \in Nat \ {0} /\ DOMAIN located = 1..(next - 1) /\ DOMAIN located \subseteq DOMAIN fixes
  /\ \A k \in DOMAIN located : located[k] = Target(text, format, fixes[k])
  /\ phase # "locate" => DOMAIN located = DOMAIN fixes

\* Nothing is located yet.
LEMMA InitPlacing == DocumentsAreRegular /\ Init => Placing
<1> SUFFICES ASSUME DocumentsAreRegular, Init PROVE Placing
  OBVIOUS
<1>1. PICK d \in Documents : format = d.format /\ text = d.lines /\ fixes = ComputeFixes(d.lines)
  BY DEF Init
<1>2. text \in Seq(Line) /\ format \in {"yaml", "json"} /\ Regular(text, format)
  BY <1>1, DocumentsAssumption DEF DocumentsAreRegular
<1>3. next = 1 /\ located = <<>> /\ phase = "locate"
  BY DEF Init
<1> QED BY <1>1, <1>2, <1>3 DEF Placing

\* A fix of a regular document is never skipped.
LEMMA LocatePlacing == Bounded /\ Placing /\ Locate => Placing'
<1> SUFFICES ASSUME Bounded, Placing, Locate PROVE Placing'
  OBVIOUS
<1> DEFINE t == Target(text, format, fixes[next])
<1>1. PICK N \in Nat : DOMAIN fixes = 1..N
  BY FixesAreNeeded DEF Placing
<1>2. /\ UNCHANGED <<format, text, fixes, phase>> /\ phase = "locate" /\ next' = next + 1
      /\ next <= Len(fixes)
  BY DEF Locate
<1>3. next \in DOMAIN fixes
  <2>1. PICK S : fixes \in Seq(S)
    BY FixesAreListed DEF Placing
  <2>2. DOMAIN fixes = 1..Len(fixes) /\ Len(fixes) \in Nat
    BY <2>1
  <2>3. next \in Nat /\ next > 0 /\ next <= Len(fixes)
    BY <1>2 DEF Placing
  <2> QED BY <2>2, <2>3
<1>4. MethodLine(text, format, fixes[next].path, fixes[next].method) # 0
  BY <1>3, FixesArePlaced DEF Placing
<1>5. located' = Append(located, t)
  BY <1>4 DEF Locate
<1>6. PICK S : located \in Seq(S)
  BY DEF Bounded
<1>7. Len(located) = next - 1 /\ next \in Nat /\ next > 0
  <2>1. DOMAIN located = 1..Len(located) /\ Len(located) \in Nat
    BY <1>6
  <2>2. DOMAIN located = 1..(next - 1) /\ next \in Nat \ {0}
    BY DEF Placing
  <2> QED BY <2>1, <2>2
<1> HIDE DEF t
<1>8. /\ DOMAIN located' = 1..next /\ located'[next] = t
      /\ \A k \in 1..(next - 1) : located'[k] = located[k]
  <2>1. located \in Seq(S \cup {t}) /\ t \in S \cup {t}
    BY <1>6
  <2> QED BY <1>5, <1>7, <2>1
<1>9. DOMAIN located' = 1..(next' - 1) /\ next' \in Nat \ {0} /\ DOMAIN located' \subseteq DOMAIN fixes
  BY <1>1, <1>2, <1>3, <1>7, <1>8
<1>10. \A k \in DOMAIN located' : located'[k] = Target(text, format, fixes[k])
  <2>1. \A k \in DOMAIN located' : k = next \/ k \in 1..(next - 1)
    BY <1>7, <1>8
  <2>2. \A k \in 1..(next - 1) : located[k] = Target(text, format, fixes[k])
    BY DEF Placing
  <2> QED BY <1>8, <2>1, <2>2 DEF t
<1> QED BY <1>2, <1>9, <1>10 DEF Placing

\* The other steps locate nothing, and sorting begins when all fixes are located.
LEMMA StepPlacing == Bounded /\ Placing /\ [Next]_vars => Placing'
<1> SUFFICES ASSUME Bounded, Placing, [Next]_vars PROVE Placing'
  OBVIOUS
<1>1. CASE Locate
  BY <1>1, LocatePlacing
<1>2. CASE Sort
  <2>1. UNCHANGED <<format, text, fixes, next, located>> /\ next > Len(fixes)
    BY <1>2 DEF Sort
  <2>2. DOMAIN located = DOMAIN fixes
    <3>1. PICK S : fixes \in Seq(S)
      BY FixesAreListed DEF Placing
    <3>2. DOMAIN fixes = 1..Len(fixes) /\ Len(fixes) \in Nat
      BY <3>1
    <3>3. next \in Nat /\ DOMAIN located = 1..(next - 1) /\ DOMAIN located \subseteq DOMAIN fixes
      BY DEF Placing
    <3> QED BY <2>1, <3>2, <3>3
  <2> QED BY <2>1, <2>2 DEF Placing
<1>3. CASE \E i \in pending : Apply(i)
  <2>1. UNCHANGED <<format, text, fixes, next, located, phase>>
    BY <1>3 DEF Apply
  <2> QED BY <2>1 DEF Placing
<1>4. CASE Finish
  <2>1. UNCHANGED <<format, text, fixes, next, located>> /\ phase = "apply"
    BY <1>4 DEF Finish
  <2> QED BY <2>1 DEF Placing
<1>5. CASE UNCHANGED vars
  <2>1. UNCHANGED <<format, text, fixes, next, located, phase>>
    BY <1>5 DEF vars
  <2> QED BY <2>1 DEF Placing
<1> QED BY <1>1, <1>2, <1>3, <1>4, <1>5 DEF Next

\* A line that is an insertion's.
LEMMA InsertionIsAdded ==
  ASSUME Traced, NEW h, NEW g, Traces(h, g), \A n \in DOMAIN text : n \in Nat /\ h[n] \in Nat,
         NEW i \in Insertions, g[i] \in Nat
  PROVE  g[i] \in Added(text, lines, h)
<1> DEFINE a == located[i].at
           k == g[i]
<1>1. /\ k \in DOMAIN lines /\ h[a] < k /\ \A n \in DOMAIN text : a < n => k < h[n]
  BY DEF Traces
<1>2. a \in DOMAIN text
  <2>1. i \in DOMAIN located
    BY DEF Insertions, Applied
  <2> QED BY <2>1 DEF Traced
<1>3. \A m, n \in DOMAIN text : m < n => h[m] < h[n]
  BY DEF Traces
<1> HIDE DEF a, k
<1>4. \A n \in DOMAIN text : h[n] # k
  BY <1>1, <1>2, <1>3
<1>5. k \in Added(text, lines, h)
  BY <1>1, <1>4 DEF Added
<1> QED BY <1>5 DEF k

\* The operation that a line was added to.
OperationOf(g) ==
  [w \in DOMAIN lines |-> located[CHOOSE i \in Insertions : g[i] = w].at]

\* What each fix did to the lines.
Wrote(h, g) ==
  /\ \A n \in Replaced : \E k \in DOMAIN located : \E o \in Operations(text) :
       /\ Places(text, fixes[k], located[k], o)
       /\ located[k].op = "replace" /\ located[k].at = n
       /\ lines[h[n]] = Written(located[k], text[n].comma)
  /\ \A w \in Added(text, lines, h) : \E k \in DOMAIN located :
       /\ Places(text, fixes[k], located[k], OperationOf(g)[w])
       /\ located[k].op = "insert" /\ g[k] = w /\ k \in Insertions
       /\ lines[w] = Written(located[k], format = "json")
       /\ h[OperationOf(g)[w]] < w /\ \A n \in DOMAIN text : OperationOf(g)[w] < n => w < h[n]
  /\ \A k \in DOMAIN located :
       \/ located[k].op = "replace" /\ located[k].at \in Replaced
       \/ /\ located[k].op = "insert" /\ k \in Insertions /\ g[k] \in Added(text, lines, h)
          /\ OperationOf(g)[g[k]] = located[k].at

\* At the end every fix has been written.
LEMMA AllIsWritten ==
  ASSUME Bounded, Traced, Placing, phase = "done", NEW h, NEW g, Traces(h, g)
  PROVE  Wrote(h, g)
<1> DEFINE op == OperationOf(g)
<1>1. Applied = DOMAIN located /\ DOMAIN located = DOMAIN fixes /\ fixes = ComputeFixes(text)
  BY DEF Traced, Applied, Placing
<1>2. \A k \in DOMAIN located : \E o \in Operations(text) : Places(text, fixes[k], located[k], o)
  <2> SUFFICES ASSUME NEW k \in DOMAIN located
               PROVE  \E o \in Operations(text) : Places(text, fixes[k], located[k], o)
    OBVIOUS
  <2>1. \E o \in Operations(text) :
          Places(text, ComputeFixes(text)[k], Target(text, format, ComputeFixes(text)[k]), o)
    BY <1>1, FixesArePlaced DEF Placing
  <2>2. located[k] = Target(text, format, ComputeFixes(text)[k])
    BY <1>1 DEF Placing
  <2> QED BY <1>1, <2>1, <2>2
<1>3. PICK S : lines \in Seq(S)
  BY DEF Bounded
<1>4. /\ DOMAIN lines = 1..Len(lines) /\ Len(lines) \in Nat
      /\ DOMAIN text = 1..Len(text) /\ Len(text) \in Nat
  BY <1>3 DEF Bounded
<1>5. /\ \A n \in DOMAIN text : n \in Nat /\ h[n] \in Nat
      /\ \A i \in Insertions : g[i] \in Nat /\ g[i] \in DOMAIN lines
  BY <1>4 DEF Traces
<1>6. /\ Insertions \subseteq DOMAIN located /\ \A k \in Insertions : located[k].op = "insert"
      /\ \A i, j \in Insertions : g[i] = g[j] => i = j
  BY <1>1 DEF Insertions, Traces
<1>7. ASSUME NEW k \in Insertions
      PROVE  g[k] \in Added(text, lines, h) /\ op[g[k]] = located[k].at
  <2>1. g[k] \in Added(text, lines, h)
    BY <1>5, InsertionIsAdded
  <2>2. (CHOOSE i \in Insertions : g[i] = g[k]) = k
    BY <1>6
  <2>3. op[g[k]] = located[CHOOSE i \in Insertions : g[i] = g[k]].at
    BY <1>5 DEF OperationOf
  <2> QED BY <2>1, <2>2, <2>3
<1>8. ASSUME NEW n \in Replaced
      PROVE  \E k \in DOMAIN located : \E o \in Operations(text) :
               /\ Places(text, fixes[k], located[k], o)
               /\ located[k].op = "replace" /\ located[k].at = n
               /\ lines[h[n]] = Written(located[k], text[n].comma)
  <2>1. PICK k \in Applied : /\ located[k].op = "replace" /\ located[k].at = n
                            /\ lines[h[n]] = Written(located[k], text[n].comma)
    BY DEF Traces
  <2> QED BY <1>1, <1>2, <2>1
<1>9. ASSUME NEW w \in Added(text, lines, h)
      PROVE  \E k \in DOMAIN located :
               /\ Places(text, fixes[k], located[k], op[w])
               /\ located[k].op = "insert" /\ g[k] = w /\ k \in Insertions
               /\ lines[w] = Written(located[k], format = "json")
               /\ h[op[w]] < w /\ \A n \in DOMAIN text : op[w] < n => w < h[n]
  <2>1. PICK k \in Insertions : g[k] = w
    BY DEF Added, Traces
  <2>2. op[w] = located[k].at /\ k \in DOMAIN located /\ located[k].op = "insert"
    BY <1>6, <1>7, <2>1
  <2>3. PICK o \in Operations(text) : Places(text, fixes[k], located[k], o)
    BY <1>2, <2>2
  <2>4. o = op[w]
    BY <2>2, <2>3 DEF Places
  <2>5. /\ lines[w] = Written(located[k], format = "json")
        /\ h[op[w]] < w /\ \A n \in DOMAIN text : op[w] < n => w < h[n]
    BY <2>1, <2>2 DEF Traces
  <2> HIDE DEF op
  <2> QED BY <2>1, <2>2, <2>3, <2>4, <2>5
<1>10. ASSUME NEW k \in DOMAIN located
       PROVE  \/ located[k].op = "replace" /\ located[k].at \in Replaced
              \/ /\ located[k].op = "insert" /\ k \in Insertions /\ g[k] \in Added(text, lines, h)
                 /\ op[g[k]] = located[k].at
  <2>1. located[k].op = "replace" \/ located[k].op = "insert"
    BY <1>2 DEF Places
  <2>2. CASE located[k].op = "replace"
    BY <1>1, <2>2 DEF Replaced
  <2>3. CASE located[k].op = "insert"
    <3>1. k \in Insertions
      BY <1>1, <2>3 DEF Insertions
    <3> QED BY <1>7, <2>3, <3>1
  <2> QED BY <2>1, <2>2, <2>3
<1> QED BY <1>8, <1>9, <1>10 DEF Wrote

-----------------------------------------------------------------------------
\* The patch is what its fixes mean.

\* What is known of the text and of the places of the fixes.
LEMMA PlacesAreMembers ==
  ASSUME Placing, NEW fix, NEW t, NEW o, Places(text, fix, t, o)
  PROVE  /\ o \in Content(text) /\ \A j \in Children(text, o) : text[o].ind < text[j].ind
         /\ t.op = "replace" =>
              /\ t.at \in Content(text) /\ Parent(text, t.at) = o /\ text[t.at].kind = "key"
              /\ text[t.at].key = t.key /\ text[t.at].ind = t.ind /\ Below(text, t.at) = {}
              /\ text[t.at].val # "block"
         /\ t.op = "insert" => \A j \in Children(text, o) : text[j].key # t.key
<1>1. Laid(text) /\ WellFormed(text, format) /\ ItemsHaveNoKeys(text)
  BY SeqIsLaid DEF Placing, Regular
<1>2. o \in Content(text)
  BY DEF Places, Operations
<1>3. \A j \in Children(text, o) : text[o].ind < text[j].ind
  BY <1>1, <1>2, ChildIsBelow DEF Children
<1>4. ASSUME t.op = "replace"
      PROVE  /\ t.at \in Content(text) /\ Parent(text, t.at) = o /\ text[t.at].kind = "key"
             /\ text[t.at].key = t.key /\ text[t.at].ind = t.ind /\ Below(text, t.at) = {}
             /\ text[t.at].val # "block"
  <2> DEFINE n == t.at
  <2>1. n \in Member(text, o, t.key) /\ text[n].val # "block"
    BY <1>4 DEF Places
  <2>2. n \in Children(text, o) /\ n \in Content(text) /\ Parent(text, n) = o /\ IsKey(text, n, t.key)
    BY <2>1 DEF Member, Children
  <2>3. text[n].ind = t.ind
    BY <2>2 DEF Places
  <2>4. Below(text, n) = {}
    <3> SUFFICES ASSUME Below(text, n) # {} PROVE FALSE
      OBVIOUS
    <3>1. PICK j \in Content(text) : Parent(text, j) = n
      BY <1>1, <2>2, BelowMeansChild
    <3>2. n # 0
      BY <1>1, <2>2, ContentIsNat
    <3> QED BY <1>1, <2>1, <3>1, <3>2, WellFormedParts
  <2> QED BY <2>1, <2>2, <2>3, <2>4 DEF IsKey
<1>5. ASSUME t.op = "insert", NEW j \in Children(text, o) PROVE text[j].key # t.key
  <2>1. Member(text, o, t.key) = {} /\ t.key \in {"security", "operationId"}
    BY <1>5 DEF Places
  <2>2. j \in Content(text) /\ text[j].kind \in {"key", "item"}
    BY DEF Children, Content
  <2>3. CASE text[j].kind = "item"
    BY <1>1, <2>1, <2>2, <2>3 DEF ItemsHaveNoKeys
  <2>4. CASE text[j].kind = "key"
    BY <2>1, <2>4 DEF Member, IsKey
  <2> QED BY <2>2, <2>3, <2>4
<1> QED BY <1>2, <1>3, <1>4, <1>5

\* The fields of a line that was written.
LEMMA WrittenFields ==
  ASSUME NEW t, NEW comma
  PROVE  /\ Written(t, comma).ind = t.ind /\ Written(t, comma).kind = "key"
         /\ Written(t, comma).key = t.key /\ Written(t, comma).val = "fix"
         /\ Written(t, comma).comma = comma
BY DEF Written

\* The fix that overwrote line n.
LEMMA ReplacedLines ==
  ASSUME Placing, NEW h, NEW g, Wrote(h, g), NEW n \in Replaced
  PROVE  /\ n \in Content(text) /\ Parent(text, n) \in Operations(text)
         /\ text[n].kind = "key" /\ Below(text, n) = {} /\ text[n].val # "block"
         /\ lines[h[n]].ind = text[n].ind /\ lines[h[n]].kind = text[n].kind
         /\ lines[h[n]].key = text[n].key /\ lines[h[n]].val = "fix"
         /\ lines[h[n]].comma = text[n].comma
         /\ text[n].key \in KeysFor(text, Parent(text, n), fixes)
<1>1. PICK k \in DOMAIN located, o \in Operations(text) :
        /\ Places(text, fixes[k], located[k], o)
        /\ located[k].op = "replace" /\ located[k].at = n
        /\ lines[h[n]] = Written(located[k], text[n].comma)
  BY DEF Wrote
<1> DEFINE t == located[k]
<1>2. /\ n \in Content(text) /\ Parent(text, n) = o /\ text[n].kind = "key"
      /\ text[n].key = t.key /\ text[n].ind = t.ind /\ Below(text, n) = {}
      /\ text[n].val # "block"
  BY <1>1, PlacesAreMembers
<1> HIDE DEF t
<1>3. /\ lines[h[n]].ind = t.ind /\ lines[h[n]].kind = "key" /\ lines[h[n]].key = t.key
      /\ lines[h[n]].val = "fix" /\ lines[h[n]].comma = text[n].comma
  BY <1>1, WrittenFields DEF t
<1>4. /\ t.key = fixes[k].key /\ fixes[k].path = text[Parent(text, o)].key
      /\ fixes[k].method = text[o].key /\ k \in DOMAIN fixes
  BY <1>1 DEF Places, t, Placing
<1>5. t.key \in KeysFor(text, o, fixes)
  BY <1>4 DEF KeysFor
<1> QED BY <1>1, <1>2, <1>3, <1>5

\* Line w joins operation o the way a fix joins it.
Joins(h, o, w) ==
  /\ o \in Operations(text) /\ Children(text, o) # {}
  /\ h[o] < w /\ \A n \in DOMAIN text : o < n => w < h[n]
  /\ lines[w].kind = "key" /\ lines[w].val = "fix" /\ lines[w].ind > text[o].ind
  /\ \A j \in Children(text, o) : lines[w].ind = text[j].ind /\ text[j].key # lines[w].key
  /\ lines[w].comma = (format = "json") /\ lines[w].key # ""
  /\ lines[w].key \in KeysFor(text, o, fixes)

\* Every added line joins its operation.
LEMMA AddedLines ==
  ASSUME Placing, NEW h, NEW g, Wrote(h, g), NEW w \in Added(text, lines, h)
  PROVE  Joins(h, OperationOf(g)[w], w)
<1> DEFINE o == OperationOf(g)[w]
<1>1. PICK k \in DOMAIN located :
        /\ Places(text, fixes[k], located[k], o)
        /\ located[k].op = "insert"
        /\ lines[w] = Written(located[k], format = "json")
        /\ h[o] < w /\ \A n \in DOMAIN text : o < n => w < h[n]
  BY DEF Wrote
<1> HIDE DEF o
<1> DEFINE t == located[k]
<1>2. /\ o \in Content(text) /\ \A j \in Children(text, o) : text[o].ind < text[j].ind
      /\ \A j \in Children(text, o) : text[j].key # t.key
  BY <1>1, PlacesAreMembers
<1> HIDE DEF t
<1>3. /\ lines[w].ind = t.ind /\ lines[w].kind = "key" /\ lines[w].key = t.key
      /\ lines[w].val = "fix" /\ lines[w].comma = (format = "json")
  BY <1>1, WrittenFields DEF t
<1>4. /\ t.key = fixes[k].key /\ fixes[k].path = text[Parent(text, o)].key
      /\ fixes[k].method = text[o].key /\ k \in DOMAIN fixes /\ t.key \in {"security", "operationId"}
      /\ o \in Operations(text) /\ Children(text, o) # {}
      /\ \A j \in Children(text, o) : text[j].ind = t.ind
  BY <1>1 DEF Places, t, Placing
<1>5. t.key \in KeysFor(text, o, fixes)
  BY <1>4 DEF KeysFor
<1>6. t.ind > text[o].ind
  <2>1. PICK j \in Children(text, o) : TRUE
    BY <1>4
  <2> QED BY <1>2, <1>4, <2>1
<1>7. Joins(h, o, w)
  BY <1>1, <1>2, <1>3, <1>4, <1>5, <1>6 DEF Joins
<1> QED BY <1>7 DEF o

\* At the end the text is patched.
LEMMA DoneIsPatched ==
  ASSUME Bounded, Placing, NEW h, NEW g, Traces(h, g), Wrote(h, g)
  PROVE  Patched(text, lines, h, Replaced, OperationOf(g))
<1> DEFINE op == OperationOf(g)
<1>1. Laid(text)
  BY SeqIsLaid DEF Placing
<1>2. Carries(text, lines, h, Replaced)
  <2>1. /\ \A n \in DOMAIN text : h[n] \in DOMAIN lines
        /\ \A m, n \in DOMAIN text : m < n => h[m] < h[n]
        /\ \A n \in DOMAIN text \ Replaced : lines[h[n]] = text[n]
    BY DEF Traces
  <2>2. \A n \in Replaced : /\ lines[h[n]].ind = text[n].ind /\ lines[h[n]].kind = text[n].kind
                            /\ lines[h[n]].key = text[n].key /\ lines[h[n]].val = "fix"
    BY ReplacedLines
  <2> QED BY <2>1, <2>2 DEF Carries
<1>3. Adds(text, lines, h, op)
  <2> SUFFICES ASSUME NEW w \in Added(text, lines, h)
               PROVE  /\ op[w] \in Operations(text) /\ Children(text, op[w]) # {}
                      /\ h[op[w]] < w /\ \A n \in DOMAIN text : op[w] < n => w < h[n]
                      /\ lines[w].kind = "key" /\ lines[w].val = "fix" /\ lines[w].ind > text[op[w]].ind
                      /\ \A j \in Children(text, op[w]) : lines[w].ind = text[j].ind
    BY DEF Adds
  <2>1. Joins(h, op[w], w)
    BY AddedLines
  <2> HIDE DEF op
  <2> QED BY <2>1 DEF Joins
<1>4. Overwrites(text, Replaced)
  BY ReplacedLines DEF Overwrites
<1>5. Laid(lines)
  <2>1. PICK S : lines \in Seq(S)
    BY DEF Bounded
  <2>2. Len(lines) \in Nat /\ DOMAIN lines = 1..Len(lines)
    BY <2>1
  <2>3. ASSUME NEW w \in Added(text, lines, h) PROVE lines[w].ind \in Nat
    <3> DEFINE o == op[w]
    <3>1. Joins(h, o, w)
      BY AddedLines
    <3> HIDE DEF o
    <3>2. PICK j \in Children(text, o) : lines[w].ind = text[j].ind
      BY <3>1 DEF Joins
    <3> QED BY <1>1, <3>2, ContentIsNat DEF Children
  <2>4. ASSUME NEW n \in DOMAIN text PROVE lines[h[n]].ind \in Nat
    <3>1. lines[h[n]].ind = text[n].ind
      BY <1>2 DEF Carries
    <3> QED BY <1>1, <3>1 DEF Laid
  <2> QED BY <2>2, <2>3, <2>4 DEF Laid, Added
<1> QED BY <1>1, <1>2, <1>3, <1>4, <1>5 DEF Patched

\* Two fixes with the same fields are one.
LEMMA FixesDiffer ==
  ASSUME Placing, NEW j \in DOMAIN fixes, NEW k \in DOMAIN fixes,
         fixes[j].path = fixes[k].path, fixes[j].method = fixes[k].method, fixes[j].key = fixes[k].key
  PROVE  j = k
<1>1. \A n \in DOMAIN Candidates :
        Candidates[n] = [path |-> Candidates[n].path, method |-> Candidates[n].method,
                         key |-> Candidates[n].key]
  <2> SUFFICES ASSUME NEW n \in DOMAIN Candidates
               PROVE Candidates[n] = [path |-> Candidates[n].path, method |-> Candidates[n].method,
                                      key |-> Candidates[n].key]
    OBVIOUS
  <2>1. PICK a, b, c : Candidates[n] = [path |-> a, method |-> b, key |-> c]
    BY Zenon DEF Candidates
  <2> QED BY <2>1
<1>2. /\ \E n \in DOMAIN Candidates : fixes[j] = Candidates[n]
      /\ \E n \in DOMAIN Candidates : fixes[k] = Candidates[n]
  BY FixesAreNeeded DEF Placing
<1>3. fixes[j] = fixes[k]
  BY <1>1, <1>2
<1> QED BY <1>3, FixesAreNeeded DEF Placing

\* What was written leaves a document.
LEMMA DoneIsSeparate ==
  ASSUME Placing, NEW h, NEW g, Traces(h, g), Wrote(h, g)
  PROVE  Separates(text, lines, format, h, Replaced, OperationOf(g))
<1> DEFINE op == OperationOf(g)
<1>1. \A n \in DOMAIN text : lines[h[n]].comma = text[n].comma
  <2>1. \A n \in DOMAIN text \ Replaced : lines[h[n]] = text[n]
    BY DEF Traces
  <2>2. \A n \in Replaced : lines[h[n]].comma = text[n].comma
    BY ReplacedLines
  <2> QED BY <2>1, <2>2
<1>2. \A n \in Replaced : text[n].val # "block"
  BY ReplacedLines
<1>3. ASSUME NEW w \in Added(text, lines, h), NEW o, o = op[w]
      PROVE  /\ o \in Operations(text)
             /\ lines[w].comma = (format = "json") /\ lines[w].key # ""
             /\ \A j \in Children(text, o) : text[j].key # lines[w].key
             /\ format = "json" => o + 1 \in Children(text, o)
  <2>1. /\ o \in Operations(text)
        /\ lines[w].comma = (format = "json") /\ lines[w].key # ""
        /\ \A j \in Children(text, o) : text[j].key # lines[w].key
    <3>1. Joins(h, op[w], w)
      BY AddedLines
    <3> HIDE DEF op
    <3> QED BY <1>3, <3>1 DEF Joins
  <2>2. \E j \in Children(text, o) : format = "json" => j = o + 1
    BY <2>1 DEF Placing, Regular, OperationsAreOpen
  <2> QED BY <2>1, <2>2
<1>4. ASSUME NEW w \in Added(text, lines, h), NEW x \in Added(text, lines, h),
             op[x] = op[w], lines[x].key = lines[w].key
      PROVE  x = w
  <2>1. PICK j \in DOMAIN located :
          /\ Places(text, fixes[j], located[j], op[x]) /\ g[j] = x
          /\ lines[x] = Written(located[j], format = "json")
    BY DEF Wrote
  <2>2. PICK k \in DOMAIN located :
          /\ Places(text, fixes[k], located[k], op[w]) /\ g[k] = w
          /\ lines[w] = Written(located[k], format = "json")
    BY DEF Wrote
  <2>3. located[j].key = located[k].key
    BY <1>4, <2>1, <2>2, WrittenFields
  <2> HIDE DEF op
  <2>4. /\ fixes[j].path = fixes[k].path /\ fixes[j].method = fixes[k].method
        /\ fixes[j].key = fixes[k].key /\ j \in DOMAIN fixes /\ k \in DOMAIN fixes
    BY <1>4, <2>1, <2>2, <2>3 DEF Places, Placing
  <2>5. j = k
    BY <2>4, FixesDiffer
  <2> QED BY <2>1, <2>2, <2>5
<1> HIDE DEF op
<1>5. Separates(text, lines, format, h, Replaced, op)
  BY <1>1, <1>2, <1>3, <1>4 DEF Separates
<1> QED BY <1>5 DEF op

\* What was written are the fixes.
LEMMA DoneIsFulfilled ==
  ASSUME Placing, phase = "done", NEW h, NEW g, Traces(h, g), Wrote(h, g)
  PROVE  Fulfils(text, lines, h, Replaced, OperationOf(g), fixes)
<1> DEFINE op == OperationOf(g)
<1>1. Laid(text) /\ Regular(text, format) /\ WellFormed(text, format) /\ ItemsHaveNoKeys(text)
  BY SeqIsLaid DEF Placing, Regular
<1>2. \A n \in Replaced : text[n].key \in KeysFor(text, Parent(text, n), fixes)
  BY ReplacedLines
<1>3. \A w \in Added(text, lines, h) : lines[w].key \in KeysFor(text, op[w], fixes)
  <2> SUFFICES ASSUME NEW w \in Added(text, lines, h) PROVE lines[w].key \in KeysFor(text, op[w], fixes)
    OBVIOUS
  <2>1. Joins(h, op[w], w)
    BY AddedLines
  <2> HIDE DEF op
  <2> QED BY <2>1 DEF Joins
<1>4. ASSUME NEW o \in Operations(text), NEW key \in KeysFor(text, o, fixes)
      PROVE  /\ \/ \E n \in Replaced : Parent(text, n) = o /\ text[n].key = key
                \/ \E w \in Added(text, lines, h) : op[w] = o /\ lines[w].key = key
             /\ \A n \in Children(text, o) : text[n].key = key => n \in Replaced /\ key # "operationId"
  <2>1. PICK k \in DOMAIN fixes : /\ fixes[k].path = text[Parent(text, o)].key
                                  /\ fixes[k].method = text[o].key /\ fixes[k].key = key
    BY DEF KeysFor
  <2>2. k \in DOMAIN located /\ fixes = ComputeFixes(text)
    BY DEF Placing
  <2> DEFINE t == located[k]
  <2>3. PICK i \in Operations(text) : Places(text, fixes[k], t, i)
    <3>1. \E i \in Operations(text) :
            Places(text, ComputeFixes(text)[k], Target(text, format, ComputeFixes(text)[k]), i)
      BY <2>2, FixesArePlaced DEF Placing
    <3>2. t = Target(text, format, ComputeFixes(text)[k])
      BY <2>2 DEF Placing
    <3> QED BY <2>2, <3>1, <3>2
  <2>4. text[i].key = fixes[k].method /\ text[Parent(text, i)].key = fixes[k].path /\ t.key = key
    BY <2>1, <2>3 DEF Places
  <2>5. i = o
    <3>1. text[i].key = text[o].key /\ text[Parent(text, i)].key = text[Parent(text, o)].key
      BY <2>1, <2>4
    <3> QED BY <1>1, <3>1, OperationsAreUnique
  <2>6. Places(text, fixes[k], t, o)
    BY <2>3, <2>5
  <2>7. CASE t.op = "replace"
    <3>1. t.at \in Replaced
      BY <2>2, <2>7 DEF Wrote
    <3>2. /\ t.at \in Content(text) /\ Parent(text, t.at) = o /\ text[t.at].key = key
      BY <2>4, <2>6, <2>7, PlacesAreMembers
    <3>3. key # "operationId" /\ t.at \in Member(text, o, key)
      BY <2>1, <2>6, <2>7 DEF Places
    <3>4. ASSUME NEW n \in Children(text, o), text[n].key = key PROVE n = t.at
      <4>1. key \in {"security", "operationId"}
        BY <2>1, <2>6 DEF Places
      <4>2. n \in Content(text) /\ text[n].kind \in {"key", "item"}
        BY DEF Children, Content
      <4>3. text[n].kind # "item"
        BY <1>1, <3>4, <4>1, <4>2 DEF ItemsHaveNoKeys
      <4>4. n \in Member(text, o, key)
        BY <3>4, <4>2, <4>3 DEF Member, IsKey
      <4>5. o \in Content(text)
        BY DEF Operations
      <4> QED BY <1>1, <3>3, <4>4, <4>5, MembersAreUnique
    <3> QED BY <3>1, <3>2, <3>3, <3>4
  <2>8. CASE t.op = "insert"
    <3>1. g[k] \in Added(text, lines, h) /\ op[g[k]] = t.at
      BY <2>2, <2>8 DEF Wrote
    <3>2. t.at = o
      BY <2>6, <2>8 DEF Places
    <3>3. lines[g[k]].key = key
      <4>1. k \in Insertions
        BY <2>2, <2>8 DEF Wrote
      <4>2. lines[g[k]] = Written(t, format = "json")
        BY <4>1 DEF Traces
      <4> QED BY <2>4, <4>2, WrittenFields
    <3>4. \A n \in Children(text, o) : text[n].key # key
      BY <2>4, <2>6, <2>8, PlacesAreMembers
    <3> QED BY <3>1, <3>2, <3>3, <3>4
  <2> QED BY <2>6, <2>7, <2>8 DEF Places
<1> HIDE DEF op
<1>5. Fulfils(text, lines, h, Replaced, op, fixes)
  BY <1>2, <1>3, <1>4 DEF Fulfils
<1> QED BY <1>5 DEF op

\* At the end the patched text is a document and means what the fixes mean.
LEMMA DoneMeansFixes == Bounded /\ Traced /\ Placing => PatchMeansFixes
<1> SUFFICES ASSUME Bounded, Traced, Placing, phase = "done"
             PROVE  WellFormed(lines, format) /\ Meaning(lines) = ApplyFixes(Meaning(text), fixes)
  BY DEF PatchMeansFixes
<1>1. PICK h, g : Traces(h, g)
  BY DEF Traced
<1>2. Wrote(h, g)
  BY <1>1, AllIsWritten
<1> DEFINE op == OperationOf(g)
<1>3. Patched(text, lines, h, Replaced, op)
  BY <1>1, <1>2, DoneIsPatched
<1>4. Separates(text, lines, format, h, Replaced, op)
  BY <1>1, <1>2, DoneIsSeparate
<1>5. Fulfils(text, lines, h, Replaced, op, fixes)
  BY <1>1, <1>2, DoneIsFulfilled
<1> HIDE DEF op
<1>6. WellFormed(lines, format)
  BY <1>3, <1>4, PatchedIsWellFormed DEF Placing, Regular
<1>7. Meaning(lines) = ApplyFixes(Meaning(text), fixes)
  BY <1>3, <1>5, MeaningIsFixed
<1> QED BY <1>6, <1>7

\* If every document is regular: once patch_yaml_text or patch_json_text is done,
\* the text is a document again and means what the fixes, applied to the parsed
\* document, make of it.
THEOREM PatchesMeanFixes == DocumentsAreRegular => (Spec => []PatchMeansFixes)
<1> SUFFICES ASSUME DocumentsAreRegular PROVE Spec => []PatchMeansFixes
  OBVIOUS
<1>1. Init => Bounded /\ TargetsStayPut /\ Traced /\ Placing
  BY InitBounded, InitTraced, InitPlacing
<1>2. (Bounded /\ TargetsStayPut /\ Traced /\ Placing) /\ [Next]_vars
      => (Bounded /\ TargetsStayPut /\ Traced /\ Placing)'
  BY StepBounded, StepTraced, StepPlacing
<1>3. Bounded /\ Traced /\ Placing => PatchMeansFixes
  BY DoneMeansFixes
<1> QED BY <1>1, <1>2, <1>3, PTL DEF Spec
=============================================================================
