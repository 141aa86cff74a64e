-------------------------- MODULE SpecFilesProofs ---------------------------
(***************************************************************************)
(* Proofs about SpecFiles, for any files, any documents and any number of  *)
(* saves, removals, commands and crashes: what a directory that passes the *)
(* gate, and a diff that reports nothing, say about the specifications,    *)
(* what remediate leaves behind, how a request inherits its auth, and      *)
(* which sensitive fields are found below a schema.                        *)
(***************************************************************************)
EXTENDS SpecFiles, FiniteSetTheorems, FunctionTheorems, SequenceTheorems,
        WellFoundedInduction, TLAPS

IsSeq(s) == \E S : s \in Seq(S)

\* A sequence, made longer.
LEMMA AppendIsSeq ==
  ASSUME NEW s, IsSeq(s), NEW x
  PROVE  /\ IsSeq(Append(s, x))
         /\ Len(s) \in Nat /\ DOMAIN s = 1..Len(s)
         /\ Len(Append(s, x)) = Len(s) + 1
         /\ \A i \in 1..Len(s) : Append(s, x)[i] = s[i]
         /\ Append(s, x)[Len(s) + 1] = x
<1>1. PICK S : s \in Seq(S)
  BY DEF IsSeq
<1>2. s \in Seq(S \cup {x}) /\ x \in S \cup {x}
  BY <1>1
<1>3. Append(s, x) \in Seq(S \cup {x})
  BY <1>2
<1> QED BY <1>2, <1>3, AppendProperties, LenProperties DEF IsSeq

\* Sequences have a length, and what has one is a sequence.
LEMMA SeqDomain ==
  ASSUME NEW s, IsSeq(s)
  PROVE  Len(s) \in Nat /\ DOMAIN s = 1..Len(s)
BY LenProperties DEF IsSeq

\* SetToSeq lists a finite set.
LEMMA ListOfSet ==
  ASSUME NEW S, IsFiniteSet(S)
  PROVE  /\ SetToSeq(S) \in Seq(S)
         /\ \A x \in S : \E i \in DOMAIN SetToSeq(S) : SetToSeq(S)[i] = x
<1> DEFINE n == Cardinality(S)
           f == SetToSeq(S)
<1>1. n \in Nat /\ ExistsBijection(1..n, S)
  BY FS_CardinalityType
<1>2. \E g \in [1..n -> S] : IsInjective(g)
  <2>1. PICK g : g \in Bijection(1..n, S)
    BY <1>1 DEF ExistsBijection
  <2>2. g \in Injection(1..n, S)
    BY <2>1, Fun_BijectionProperties
  <2> QED BY <2>2 DEF Injection
<1>3. f \in [1..n -> S] /\ IsInjective(f)
  BY <1>2 DEF SetToSeq
<1>4. f \in Injection(1..n, S)
  BY <1>3 DEF Injection
<1>5. Cardinality(1..n) = n
  BY <1>1, FS_Interval
<1>6. f \in Surjection(1..n, S)
  BY <1>4, <1>5, FS_Injection
<1>7. \A x \in S : \E i \in 1..n : f[i] = x
  BY <1>6 DEF Surjection
<1> HIDE DEF f, n
<1>8. f \in Seq(S) /\ DOMAIN f = 1..n
  BY <1>1, <1>3
<1> QED BY <1>7, <1>8 DEF f

-----------------------------------------------------------------------------
(* Documents.                                                              *)

\* A finite domain of schemas, of which items and properties name some.
Fit(schemas) ==
  /\ IsFiniteSet(DOMAIN schemas) /\ Absent \notin DOMAIN schemas
  /\ \A n \in DOMAIN schemas :
       /\ schemas[n].items \in DOMAIN schemas \cup {Absent}
       /\ \A f \in DOMAIN schemas[n].properties : schemas[n].properties[f] \in DOMAIN schemas

\* What a document has to be for its inventory to be a list and for its fixes
\* to be a document again: the types of other parts do not matter.
Sound(d) ==
  \/ /\ d.kind = "openapi" /\ d.operations \in Seq(Operation) /\ d.schemes \in Seq(STRING)
     /\ d = [kind |-> "openapi", operations |-> d.operations, security |-> d.security,
             schemes |-> d.schemes, schemas |-> d.schemas]
     /\ Fit(d.schemas)
  \/ d.kind = "postman" /\ IsPostman(d)
  \/ d.kind = "unparsable"

\* What people save is.
LEMMA DocumentIsSound ==
  ASSUME NEW c, IsDocument(c)
  PROVE  Sound(c)
<1>1. CASE c.kind = "openapi" /\ IsOpenApi(c)
  <2>1. c.operations \in Seq(Operation) /\ c.schemes \in Seq(STRING)
    BY <1>1, Zenon DEF IsOpenApi
  <2>2. c = [kind |-> "openapi", operations |-> c.operations, security |-> c.security,
             schemes |-> c.schemes, schemas |-> c.schemas]
    BY <1>1, Zenon DEF IsOpenApi
  <2>3. Fit(c.schemas)
    <3>1. IsFiniteSet(DOMAIN c.schemas) /\ Absent \notin DOMAIN c.schemas
      BY <1>1, Zenon DEF IsOpenApi
    <3>2. ASSUME NEW n \in DOMAIN c.schemas
          PROVE  /\ c.schemas[n] \in [ref : STRING \cup {Absent},
                                      items : DOMAIN c.schemas \cup {Absent},
                                      properties : {c.schemas[n].properties}]
                 /\ \A f \in DOMAIN c.schemas[n].properties :
                      c.schemas[n].properties[f] \in DOMAIN c.schemas
      BY <1>1, Zenon DEF IsOpenApi
    <3>3. \A n \in DOMAIN c.schemas : c.schemas[n].items \in DOMAIN c.schemas \cup {Absent}
      BY <3>2
    <3> QED BY <3>1, <3>2, <3>3 DEF Fit
  <2> QED BY <1>1, <2>1, <2>2, <2>3, Zenon DEF Sound
<1>2. CASE c.kind = "postman" /\ IsPostman(c)
  BY <1>2, Zenon DEF Sound
<1>3. CASE c.kind = "unparsable"
  BY <1>3, Zenon DEF Sound
<1> QED BY <1>1, <1>2, <1>3 DEF IsDocument

\* Operations, and the requests of a collection, are counted.
LEMMA OperationsAreListed ==
  ASSUME NEW d, Sound(d), d.kind = "openapi"
  PROVE  /\ IsSeq(d.operations) /\ DOMAIN d.operations = 1..Len(d.operations)
         /\ Len(d.operations) \in Nat
         /\ \A i \in DOMAIN d.operations : d.operations[i] \in Operation
<1>1. d.operations \in Seq(Operation)
  BY Zenon DEF Sound
<1> HIDE DEF Operation
<1> QED BY <1>1, LenProperties, ElementOfSeq DEF IsSeq

\* A collection has finitely many requests.
LEMMA RequestsAreFinite ==
  ASSUME NEW d, Sound(d), d.kind = "postman"
  PROVE  IsFiniteSet({i \in DOMAIN d.items : d.items[i].request})
<1>1. d.items \in Seq(Item)
  BY Zenon DEF IsPostman, Sound
<1>2. Len(d.items) \in Nat /\ DOMAIN d.items = 1..Len(d.items)
  BY <1>1, LenProperties
<1>3. IsFiniteSet(DOMAIN d.items)
  BY <1>2, FS_Interval
<1>4. {i \in DOMAIN d.items : d.items[i].request} \in SUBSET DOMAIN d.items
  OBVIOUS
<1> QED BY <1>3, <1>4, FS_Subset

\* What people save is sound.
LEMMA SavedIsSound == \A d \in Documents : Sound(Content(d))
BY SpecFilesAssumption, DocumentIsSound

\* An inventory is a list of endpoints.
LEMMA InventoryIsList ==
  ASSUME NEW d, Sound(d), Discoverable(d)
  PROVE  \E n \in Nat : DOMAIN Discover(d) = 1..n
<1>1. CASE d.kind = "openapi"
  <2>2. Len(d.operations) \in Nat /\ DOMAIN d.operations = 1..Len(d.operations)
    BY <1>1, OperationsAreListed
  <2>3. DOMAIN Discover(d) = DOMAIN d.operations
    BY <1>1 DEF Discover
  <2> QED BY <2>2, <2>3
<1>2. CASE d.kind = "postman"
  <2> DEFINE leaves == {i \in DOMAIN d.items : d.items[i].request}
  <2>1. IsFiniteSet(leaves)
    BY <1>2, RequestsAreFinite
  <2>2. Cardinality(leaves) \in Nat
    BY <2>1, FS_CardinalityType
  <2>3. DOMAIN Requests(d.items) = 1..Cardinality(leaves)
    BY DEF Requests
  <2>4. DOMAIN Discover(d) = DOMAIN Requests(d.items)
    BY <1>2 DEF Discover
  <2> QED BY <2>2, <2>3, <2>4
<1> QED BY <1>1, <1>2 DEF Discoverable

\* What remediate writes, all of it or a first part, is a document again.
LEMMA OtherOperations ==
  ASSUME NEW d, Sound(d), d.kind = "openapi", NEW ops, ops \in Seq(Operation), NEW r,
         r = [d EXCEPT !.operations = ops]
  PROVE  /\ Sound(r) /\ r.kind = "openapi" /\ r.operations = ops
         /\ r.security = d.security /\ r.schemes = d.schemes /\ r.schemas = d.schemas
<1>1. d = [kind |-> "openapi", operations |-> d.operations, security |-> d.security,
           schemes |-> d.schemes, schemas |-> d.schemas]
  BY Zenon DEF Sound
<1>2. r = [kind |-> "openapi", operations |-> ops, security |-> d.security,
           schemes |-> d.schemes, schemas |-> d.schemas]
  BY <1>1
<1>3. /\ r.kind = "openapi" /\ r.operations = ops
      /\ r = [kind |-> "openapi", operations |-> r.operations, security |-> r.security,
              schemes |-> r.schemes, schemas |-> r.schemas]
      /\ r.security = d.security /\ r.schemes = d.schemes /\ r.schemas = d.schemas
  BY <1>2
<1>4. d.schemes \in Seq(STRING) /\ Fit(d.schemas)
  BY Zenon DEF Sound
<1> QED BY <1>3, <1>4, Zenon DEF Sound

\* The operation that apply_fixes makes of one, and all of them.
FixedOperation(d, fixes, i) ==
  [d.operations[i] EXCEPT
     !.security = IF i \in fixes.security THEN <<<<Head(d.schemes)>>>> ELSE @,
     !.operationId = @ \/ i \in fixes.operationId]

\* Fixing a document changes its operations one by one and nothing else.
LEMMA FixedIsSound ==
  ASSUME NEW d, Sound(d), d.kind = "openapi", NEW fixes,
         fixes.security # {} => d.schemes # <<>>, NEW r, r = ApplyFixes(d, fixes)
  PROVE  /\ Sound(r) /\ r.kind = "openapi"
         /\ DOMAIN r.operations = DOMAIN d.operations
         /\ \A i \in DOMAIN d.operations : r.operations[i] = FixedOperation(d, fixes, i)
         /\ Len(r.operations) = Len(d.operations)
         /\ r.security = d.security /\ r.schemes = d.schemes /\ r.schemas = d.schemas
<1> DEFINE ops == [i \in DOMAIN d.operations |-> FixedOperation(d, fixes, i)]
<1>1. /\ Len(d.operations) \in Nat /\ DOMAIN d.operations = 1..Len(d.operations)
      /\ \A i \in DOMAIN d.operations : d.operations[i] \in Operation
  BY OperationsAreListed
<1>2. r = [d EXCEPT !.operations = ops]
  BY Zenon DEF ApplyFixes, FixedOperation
<1>3. d.schemes \in Seq(STRING)
  BY Zenon DEF Sound
<1>4. ASSUME NEW i \in DOMAIN d.operations PROVE FixedOperation(d, fixes, i) \in Operation
  <2> DEFINE o == d.operations[i]
             security == IF i \in fixes.security THEN <<<<Head(d.schemes)>>>> ELSE o.security
             named == o.operationId \/ i \in fixes.operationId
  <2>1. o \in Operation
    BY <1>1
  <2>2. FixedOperation(d, fixes, i) = [o EXCEPT !.security = security, !.operationId = named]
    BY DEF FixedOperation
  <2>3. security \in Requirements
    <3>1. CASE i \in fixes.security
      <4>1. Head(d.schemes) \in STRING
        BY <1>3, <3>1
      <4>2. <<<<Head(d.schemes)>>>> \in Seq(Seq(STRING))
        BY <4>1
      <4> QED BY <3>1, <4>2 DEF Requirements
    <3>2. CASE i \notin fixes.security
      <4>1. o.security \in Requirements
        BY <2>1 DEF Operation
      <4> QED BY <3>2, <4>1
    <3> QED BY <3>1, <3>2
  <2>4. named \in BOOLEAN
    OBVIOUS
  <2> HIDE DEF o, security, named
  <2> QED BY <2>1, <2>2, <2>3, <2>4 DEF Operation
<1>5. ops \in Seq(Operation) /\ Len(ops) = Len(d.operations)
  <2> DEFINE n == Len(d.operations)
  <2>1. ops = [i \in 1..n |-> FixedOperation(d, fixes, i)] /\ n \in Nat
    BY <1>1
  <2>2. \A i \in 1..n : FixedOperation(d, fixes, i) \in Operation
    BY <1>1, <1>4
  <2> HIDE DEF n, ops
  <2>3. ops \in Seq(Operation) /\ Len(ops) = n
    BY <2>1, <2>2
  <2> QED BY <2>3 DEF n
<1>6. /\ DOMAIN ops = DOMAIN d.operations
      /\ \A i \in DOMAIN d.operations : ops[i] = FixedOperation(d, fixes, i)
  OBVIOUS
<1> HIDE DEF ops
<1>7. /\ Sound(r) /\ r.kind = "openapi" /\ r.operations = ops
      /\ r.security = d.security /\ r.schemes = d.schemes /\ r.schemas = d.schemas
  BY <1>2, <1>5, OtherOperations
<1> QED BY <1>5, <1>6, <1>7

\* compute_fixes only offers a security where a scheme is declared.
LEMMA FixesAreOffered ==
  ASSUME NEW d
  PROVE  ComputeFixes(d).security # {} => d.schemes # <<>>
BY DEF ComputeFixes

\* What remediate writes is sound.
LEMMA RemediatedIsSound ==
  ASSUME NEW d, Sound(d), d.kind = "openapi"
  PROVE  /\ Sound(Remediated(d)) /\ Remediated(d).kind = "openapi"
         /\ Len(Remediated(d).operations) = Len(d.operations)
<1> DEFINE r == Remediated(d)
           fixes == ComputeFixes(d)
<1>1. r = ApplyFixes(d, fixes)
  BY DEF Remediated
<1>2. fixes.security # {} => d.schemes # <<>>
  BY FixesAreOffered
<1> HIDE DEF r, fixes
<1>3. Sound(r) /\ r.kind = "openapi" /\ Len(r.operations) = Len(d.operations)
  BY <1>1, <1>2, FixedIsSound
<1> QED BY <1>3 DEF r

\* What is left of a document cut off in the middle is sound.
LEMMA FirstPartIsSound ==
  ASSUME NEW d, Sound(d), d.kind = "openapi", NEW n \in 0..Len(d.operations)
  PROVE  Sound(Cut(d, n))
<1> DEFINE S == Operation
<1>1. d.operations \in Seq(S)
  BY Zenon DEF Sound
<1> HIDE DEF S
<1>2. SubSeq(d.operations, 1, n) \in Seq(S)
  <2>1. Len(d.operations) \in Nat /\ DOMAIN d.operations = 1..Len(d.operations)
    BY <1>1, LenProperties
  <2>2. \A i \in 1..n : d.operations[i] \in S
    BY <1>1, <2>1, ElementOfSeq
  <2> QED BY <2>1, <2>2, SubSeqProperties
<1> QED BY <1>2, OtherOperations DEF Cut, S

-----------------------------------------------------------------------------
(* The commands.                                                           *)

\* What a command has read, of which list of files.
Reading == /\ job = [kind |-> job.kind, pc |-> job.pc, list |-> job.list, read |-> job.read]
           /\ job.list \in Seq(Files) /\ IsSeq(job.read) /\ Len(job.read) <= Len(job.list)
           /\ \A i \in DOMAIN job.read : Discoverable(job.read[i]) /\ Sound(job.read[i])

\* Which command is where.
Places == /\ job.kind \in {"directory", "diff"} => job.pc \in {"read", "done"}
          /\ job.kind = "diff" => Len(job.list) = 2
          /\ job.pc \in {"open", "plan", "truncate", "write"} => job.kind = "remediate" /\ Len(job.list) = 1
          /\ job.pc \in {"truncate", "write"} => Len(job.read) = 1

\* What is on disk.
Disk == /\ DOMAIN files = Files
        /\ \A f \in Files : files[f] = Missing \/ Sound(files[f])

\* The first file of a list that has one, and the document read from it.
LEMMA FirstOfList ==
  ASSUME Reading
  PROVE  /\ Len(job.list) \in Nat /\ DOMAIN job.list = 1..Len(job.list)
         /\ Len(job.read) \in Nat /\ DOMAIN job.read = 1..Len(job.read)
         /\ \A i \in 1..Len(job.list) : job.list[i] \in Files
<1>1. job.list \in Seq(Files) /\ IsSeq(job.read)
  BY DEF Reading
<1> QED BY <1>1, SeqDomain, LenProperties, ElementOfSeq

\* Everything on disk stays a document.
LEMMA DiskStep ==
  ASSUME Disk, Reading, Places, [Next]_vars
  PROVE  Disk'
<1>1. ASSUME NEW f \in Files, NEW d, d = Missing \/ Sound(d), files' = [files EXCEPT ![f] = d]
      PROVE  Disk'
  BY <1>1 DEF Disk
<1>2. ASSUME NEW f \in Files, NEW d \in Documents, Save(f, d) PROVE Disk'
  <2>1. Sound(Content(d))
    BY SavedIsSound
  <2> QED BY <1>1, <1>2, <2>1 DEF Save
<1>3. ASSUME NEW f \in Files, Delete(f) PROVE Disk'
  BY <1>1, <1>3 DEF Delete
<1>4. CASE Truncate
  <2>1. job.list[1] \in Files
    BY <1>4, FirstOfList DEF Truncate, Places
  <2>2. Sound(Unparsable)
    BY DEF Sound, Unparsable
  <2> QED BY <1>1, <1>4, <2>1, <2>2 DEF Truncate
<1>5. ASSUME job.pc = "write"
      PROVE  job.list[1] \in Files /\ Sound(job.read[1]) /\ Sound(Remediated(job.read[1]))
  <2>1. job.list[1] \in Files /\ 1 \in DOMAIN job.read
    BY <1>5, FirstOfList DEF Places
  <2>2. Sound(job.read[1])
    BY <2>1 DEF Reading
  <2>3. CASE job.read[1].kind = "openapi"
    BY <2>1, <2>2, <2>3, RemediatedIsSound
  <2>4. CASE job.read[1].kind # "openapi"
    BY <2>1, <2>2, <2>4 DEF Remediated
  <2> QED BY <2>1, <2>2, <2>3, <2>4
<1>6. CASE Write
  <2>1. job.pc = "write" /\ files' = [files EXCEPT ![job.list[1]] = Remediated(job.read[1])]
    BY <1>6 DEF Write
  <2> QED BY <1>1, <1>5, <2>1
<1>7. CASE Crash
  <2>1. job.pc = "write"
    BY <1>7 DEF Crash
  <2>2. CASE UNCHANGED files
    BY <2>2 DEF Disk
  <2>3. ASSUME job.read[1].kind = "openapi", NEW n \in 0..Len(job.read[1].operations),
               files' = [files EXCEPT ![job.list[1]] = Cut(Remediated(job.read[1]), n)]
        PROVE  Disk'
    <3>1. Sound(Cut(Remediated(job.read[1]), n))
      BY <1>5, <2>1, <2>3, RemediatedIsSound, FirstPartIsSound
    <3> QED BY <1>1, <1>5, <2>1, <2>3, <3>1
  <2> QED BY <1>7, <2>2, <2>3 DEF Crash
<1>8. CASE \/ DiscoverDirectory \/ (\E f, g \in Files : Diff(f, g)) \/ (\E f \in Files : Remediate(f))
           \/ Read \/ Conclude \/ OpenOriginal \/ Plan \/ UNCHANGED vars
  <2>1. UNCHANGED files
    BY <1>8 DEF DiscoverDirectory, Diff, Remediate, Start, Read, Conclude, OpenOriginal, Plan, vars
  <2> QED BY <2>1 DEF Disk
<1> QED BY <1>2, <1>3, <1>4, <1>6, <1>7, <1>8 DEF Next

\* A step of a command that reads nothing.
LEMMA JobMoves ==
  ASSUME Reading, NEW pc, job' = [job EXCEPT !.pc = pc]
  PROVE  /\ Reading' /\ job'.pc = pc
         /\ job'.kind = job.kind /\ job'.list = job.list /\ job'.read = job.read
<1>1. job = [kind |-> job.kind, pc |-> job.pc, list |-> job.list, read |-> job.read]
  BY DEF Reading
<1>2. job' = [kind |-> job.kind, pc |-> pc, list |-> job.list, read |-> job.read]
  BY <1>1
<1>3. /\ job'.pc = pc /\ job'.kind = job.kind /\ job'.list = job.list /\ job'.read = job.read
      /\ job' = [kind |-> job'.kind, pc |-> job'.pc, list |-> job'.list, read |-> job'.read]
  BY <1>2
<1> QED BY <1>3, Zenon DEF Reading

\* A step of a command that reads what it has to read next.
LEMMA JobReads ==
  ASSUME Reading, Len(job.read) < Len(job.list), NEW d, Discoverable(d), Sound(d),
         job' = [job EXCEPT !.read = Append(@, d)]
  PROVE  /\ Reading' /\ job'.pc = job.pc
         /\ job'.kind = job.kind /\ job'.list = job.list /\ job'.read = Append(job.read, d)
<1>1. job = [kind |-> job.kind, pc |-> job.pc, list |-> job.list, read |-> job.read]
  BY DEF Reading
<1>2. job' = [kind |-> job.kind, pc |-> job.pc, list |-> job.list, read |-> Append(job.read, d)]
  BY <1>1
<1>3. /\ job'.pc = job.pc /\ job'.kind = job.kind /\ job'.list = job.list
      /\ job'.read = Append(job.read, d)
      /\ job' = [kind |-> job'.kind, pc |-> job'.pc, list |-> job'.list, read |-> job'.read]
  BY <1>2
<1>4. IsSeq(job.read) /\ job.list \in Seq(Files)
  BY Zenon DEF Reading
<1>5. /\ IsSeq(Append(job.read, d))
      /\ Len(job.read) \in Nat /\ DOMAIN job.read = 1..Len(job.read)
      /\ Len(Append(job.read, d)) = Len(job.read) + 1
      /\ \A i \in 1..Len(job.read) : Append(job.read, d)[i] = job.read[i]
      /\ Append(job.read, d)[Len(job.read) + 1] = d
  BY <1>4, AppendIsSeq
<1>6. Len(job.list) \in Nat
  BY <1>4, LenProperties
<1>7. Len(Append(job.read, d)) <= Len(job.list)
  BY <1>5, <1>6
<1>8. DOMAIN Append(job.read, d) = 1..(Len(job.read) + 1)
  BY <1>5, SeqDomain
<1>9. ASSUME NEW i \in DOMAIN Append(job.read, d)
      PROVE  Discoverable(Append(job.read, d)[i]) /\ Sound(Append(job.read, d)[i])
  <2>1. i \in 1..Len(job.read) \/ i = Len(job.read) + 1
    BY <1>5, <1>8
  <2>2. CASE i \in 1..Len(job.read)
    <3>1. Append(job.read, d)[i] = job.read[i] /\ i \in DOMAIN job.read
      BY <1>5, <2>2
    <3>2. Discoverable(job.read[i]) /\ Sound(job.read[i])
      BY <3>1, Zenon DEF Reading
    <3> QED BY <3>1, <3>2
  <2>3. CASE i = Len(job.read) + 1
    BY <1>5, <2>3
  <2> QED BY <2>1, <2>2, <2>3
<1> QED BY <1>3, <1>4, <1>5, <1>7, <1>9, Zenon DEF Reading

\* A new command has read nothing.
LEMMA JobStarts ==
  ASSUME NEW kind, NEW pc, NEW list, list \in Seq(Files), Start(kind, pc, list)
  PROVE  /\ Reading' /\ job'.kind = kind /\ job'.pc = pc /\ job'.list = list /\ job'.read = <<>>
         /\ Len(job'.read) = 0 /\ DOMAIN job'.read = {}
         /\ steady' = Files /\ files' = files
<1>1. job' = [kind |-> kind, pc |-> pc, list |-> list, read |-> <<>>]
      /\ steady' = Files /\ files' = files
  BY DEF Start
<1>2. /\ job'.kind = kind /\ job'.pc = pc /\ job'.list = list /\ job'.read = <<>>
      /\ job' = [kind |-> job'.kind, pc |-> job'.pc, list |-> job'.list, read |-> job'.read]
  BY <1>1
<1>3. <<>> \in Seq(Files) /\ Len(<<>>) = 0 /\ Len(list) \in Nat /\ DOMAIN <<>> = {}
  BY LenProperties
<1>4. IsSeq(<<>>) /\ Len(<<>>) <= Len(list)
  BY <1>3 DEF IsSeq
<1>5. /\ IsSeq(job'.read) /\ Len(job'.read) <= Len(job'.list)
      /\ job'.list \in Seq(Files) /\ Len(job'.read) = 0 /\ DOMAIN job'.read = {}
  BY <1>2, <1>3, <1>4
<1> QED BY <1>1, <1>2, <1>5, Zenon DEF Reading

\* A walk yields finitely many files.
LEMMA WalkIsFinite == IsFiniteSet(Walk) /\ Walk \subseteq Files
<1>1. Walk \subseteq Files /\ IsFiniteSet(Files)
  BY SpecFilesAssumption DEF Walk
<1> QED BY <1>1, FS_Subset

\* What a command reads is a document.
LEMMA ReadIsSound ==
  ASSUME Disk, NEW f \in Files, CanDiscover(f)
  PROVE  Sound(files[f]) /\ Discoverable(files[f])
BY DEF Disk, CanDiscover

\* Every step keeps what a command has read a list of documents.
LEMMA ReadingStep ==
  ASSUME Disk, Reading, Places, [Next]_vars
  PROVE  Reading' /\ Places'
<1>1. CASE job' = job
  BY <1>1, Zenon DEF Reading, Places
<1>2. CASE DiscoverDirectory
  <2>1. SetToSeq(Walk) \in Seq(Walk) /\ Walk \subseteq Files
    BY WalkIsFinite, ListOfSet
  <2>2. SetToSeq(Walk) \in Seq(Files)
    BY <2>1
  <2>3. Start("directory", "read", SetToSeq(Walk))
    BY <1>2 DEF DiscoverDirectory
  <2>4. Reading' /\ job'.kind = "directory" /\ job'.pc = "read"
    BY <2>2, <2>3, JobStarts
  <2> QED BY <2>4 DEF Places
<1>3. ASSUME NEW f \in Files, NEW g \in Files, Diff(f, g) PROVE Reading' /\ Places'
  <2>1. <<f, g>> \in Seq(Files) /\ Len(<<f, g>>) = 2
    OBVIOUS
  <2>2. Start("diff", "read", <<f, g>>)
    BY <1>3 DEF Diff
  <2>3. Reading' /\ job'.kind = "diff" /\ job'.pc = "read" /\ job'.list = <<f, g>>
    BY <2>1, <2>2, JobStarts
  <2> QED BY <2>1, <2>3 DEF Places
<1>4. ASSUME NEW f \in Files, Remediate(f) PROVE Reading' /\ Places'
  <2>1. <<f>> \in Seq(Files) /\ Len(<<f>>) = 1
    OBVIOUS
  <2>2. Start("remediate", "open", <<f>>)
    BY <1>4 DEF Remediate
  <2>3. Reading' /\ job'.kind = "remediate" /\ job'.pc = "open" /\ job'.list = <<f>>
    BY <2>1, <2>2, JobStarts
  <2> QED BY <2>1, <2>3 DEF Places
<1>5. ASSUME job.pc # "write", job' = [job EXCEPT !.pc = "done"] PROVE Reading' /\ Places'
  <2>1. /\ Reading' /\ job'.pc = "done" /\ job'.kind = job.kind /\ job'.list = job.list
    BY <1>5, JobMoves
  <2> QED BY <2>1 DEF Places
<1>6. CASE Read
  <2> DEFINE f == job.list[Len(job.read) + 1]
  <2>1. job.pc = "read" /\ Len(job.read) < Len(job.list)
    BY <1>6 DEF Read
  <2>2. CASE CanDiscover(f) /\ job' = [job EXCEPT !.read = Append(@, files[f])]
    <3>1. f \in Files
      BY <2>1, FirstOfList
    <3>2. Sound(files[f]) /\ Discoverable(files[f])
      BY <2>2, <3>1, ReadIsSound
    <3>3. Reading' /\ job'.pc = "read" /\ job'.kind = job.kind /\ job'.list = job.list
      BY <2>1, <2>2, <3>2, JobReads
    <3> QED BY <3>3 DEF Places
  <2>3. CASE job' = [job EXCEPT !.pc = "done"]
    BY <1>5, <2>1, <2>3
  <2> QED BY <1>6, <2>2, <2>3 DEF Read, Finish
<1>7. CASE Conclude
  BY <1>5, <1>7 DEF Conclude, Finish
<1>8. CASE OpenOriginal
  <2>1. job.pc = "open"
    BY <1>8 DEF OpenOriginal
  <2>2. CASE job' = [job EXCEPT !.pc = "plan"]
    <3>1. Reading' /\ job'.pc = "plan" /\ job'.kind = job.kind /\ job'.list = job.list
      BY <2>2, JobMoves
    <3> QED BY <2>1, <3>1 DEF Places
  <2>3. CASE job' = [job EXCEPT !.pc = "done"]
    BY <1>5, <2>1, <2>3
  <2> QED BY <1>8, <2>2, <2>3 DEF OpenOriginal, Finish
<1>9. CASE Plan
  <2> DEFINE f == job.list[1]
  <2>1. job.pc = "plan" /\ job.kind = "remediate" /\ Len(job.list) = 1
    BY <1>9 DEF Plan, Places
  <2>2. CASE CanDiscover(f) /\ job' = [job EXCEPT !.pc = "truncate", !.read = <<files[f]>>]
    <3>1. f \in Files
      BY <2>1, FirstOfList
    <3>2. Sound(files[f]) /\ Discoverable(files[f])
      BY <2>2, <3>1, ReadIsSound
    <3> HIDE DEF f
    <3>3. job = [kind |-> job.kind, pc |-> job.pc, list |-> job.list, read |-> job.read]
      BY DEF Reading
    <3>4. job' = [kind |-> job.kind, pc |-> "truncate", list |-> job.list, read |-> <<files[f]>>]
      BY <2>2, <3>3
    <3>5. /\ job'.kind = job.kind /\ job'.pc = "truncate" /\ job'.list = job.list
          /\ job'.read = <<files[f]>>
          /\ job' = [kind |-> job'.kind, pc |-> job'.pc, list |-> job'.list, read |-> job'.read]
      BY <3>4
    <3>6. <<files[f]>> \in Seq({files[f]}) /\ Len(<<files[f]>>) = 1
      OBVIOUS
    <3>7. IsSeq(job'.read) /\ Len(job'.read) = 1 /\ job'.list \in Seq(Files)
      BY <3>5, <3>6 DEF IsSeq, Reading
    <3>8. Len(job'.read) <= Len(job'.list)
      BY <2>1, <3>5, <3>7
    <3>9. \A i \in DOMAIN job'.read : job'.read[i] = files[f]
      BY <3>5
    <3>10. Reading'
      BY <3>2, <3>5, <3>7, <3>8, <3>9, Zenon DEF Reading
    <3> QED BY <2>1, <3>5, <3>7, <3>10 DEF Places
  <2>3. CASE job' = [job EXCEPT !.pc = "done"]
    BY <1>5, <2>1, <2>3
  <2> QED BY <1>9, <2>2, <2>3 DEF Plan, Finish
<1>10. CASE Truncate
  <2>1. job.pc = "truncate" /\ job' = [job EXCEPT !.pc = "write"]
    BY <1>10 DEF Truncate
  <2>2. /\ Reading' /\ job'.pc = "write" /\ job'.kind = job.kind /\ job'.list = job.list
        /\ job'.read = job.read
    BY <2>1, JobMoves
  <2> QED BY <2>1, <2>2 DEF Places
<1>11. ASSUME NEW pc \in {"done", "crashed"}, job.pc = "write", job' = [job EXCEPT !.pc = pc]
       PROVE  Reading' /\ Places'
  <2>1. Reading' /\ job'.pc = pc /\ job'.kind = job.kind
    BY <1>11, JobMoves
  <2> QED BY <1>11, <2>1 DEF Places
<1>12. CASE Write
  BY <1>11, <1>12 DEF Write, Finish
<1>13. CASE Crash
  BY <1>11, <1>13 DEF Crash
<1>14. CASE (\E f \in Files : \E d \in Documents : Save(f, d)) \/ (\E f \in Files : Delete(f))
            \/ UNCHANGED vars
  <2>1. job' = job
    BY <1>14 DEF Save, Delete, Touched, vars
  <2> QED BY <1>1, <2>1
<1> QED BY <1>2, <1>3, <1>4, <1>6, <1>7, <1>8, <1>9, <1>10, <1>12, <1>13, <1>14 DEF Next

-----------------------------------------------------------------------------
(* A directory that passes.                                                *)

Clean(endpoints) == \A i \in DOMAIN endpoints : ~HighOrCritical(endpoints[i])

\* The files of the directory that nobody touched are all on the list; what was
\* read of them is still on disk; a pass means that all were read and clean.
Directory ==
  job.kind = "directory" =>
    /\ \A f \in Walk \cap steady : \E i \in DOMAIN job.list : job.list[i] = f
    /\ \A i \in DOMAIN job.read : job.list[i] \in steady => job.read[i] = files[job.list[i]]
    /\ job.pc = "done" /\ exit = 0 =>
         /\ Len(job.read) = Len(job.list)
         /\ \A i \in DOMAIN job.read : Clean(Discover(job.read[i]))

\* A comparison that ends well has read both files.
Compared == (Done("diff") /\ exit = 0) => Len(job.read) = 2

\* Counting nothing of high risk means there is nothing of high risk.
LEMMA NothingCounted ==
  ASSUME NEW e, NEW n \in Nat, DOMAIN e = 1..n, ~(Summarize(e).high_or_critical > 0)
  PROVE  Clean(e)
<1> DEFINE high == {i \in DOMAIN e : HighOrCritical(e[i])}
<1>1. Summarize(e).high_or_critical = Cardinality(high)
  BY DEF Summarize
<1>2. IsFiniteSet(1..n)
  BY FS_Interval
<1>3. IsFiniteSet(high)
  <2>1. high \subseteq 1..n
    OBVIOUS
  <2> QED BY <1>2, <2>1, FS_Subset
<1> HIDE DEF high
<1>4. Cardinality(high) \in Nat
  BY <1>3, FS_CardinalityType
<1>5. Cardinality(high) = 0
  BY <1>1, <1>4
<1>6. high = {}
  BY <1>3, <1>5, FS_EmptySet
<1> QED BY <1>6 DEF high, Clean

\* What was read of an untouched file is what it holds.
LEMMA DirectoryStep ==
  ASSUME Disk, Reading, Places, Directory, [Next]_vars
  PROVE  Directory'
<1>1. CASE UNCHANGED <<job, exit, steady, files>>
  <2>1. Walk' = Walk
    BY <1>1 DEF Walk
  <2> QED BY <1>1, <2>1, Zenon DEF Directory
<1>2. ASSUME NEW f \in Files, \E d : files' = [files EXCEPT ![f] = d], Touched(f)
      PROVE  Directory'
  <2>1. /\ DOMAIN files = Files /\ DOMAIN files' = Files
        /\ \A g \in Files \ {f} : files'[g] = files[g]
    BY <1>2 DEF Disk
  <2>2. steady' = steady \ {f} /\ job' = job /\ exit' = exit
    BY <1>2 DEF Touched
  <2>3. Walk' \cap steady' \subseteq Walk \cap steady
    BY <2>1, <2>2, SpecFilesAssumption DEF Walk
  <2>4. ASSUME job.kind = "directory", NEW i \in DOMAIN job.read, job.list[i] \in steady'
        PROVE  job.read[i] = files'[job.list[i]]
    <3>1. job.list[i] \in Files
      BY FirstOfList DEF Reading
    <3>2. job.list[i] \in steady /\ job.list[i] # f
      BY <2>2, <2>4
    <3> QED BY <2>1, <2>4, <3>1, <3>2 DEF Directory
  <2> QED BY <2>2, <2>3, <2>4 DEF Directory
<1>3. ASSUME NEW f \in Files, NEW d \in Documents, Save(f, d) PROVE Directory'
  BY <1>2, <1>3 DEF Save
<1>4. ASSUME NEW f \in Files, Delete(f) PROVE Directory'
  BY <1>2, <1>4 DEF Delete
<1>5. CASE DiscoverDirectory
  <2>1. SetToSeq(Walk) \in Seq(Files) /\ \A f \in Walk : \E i \in DOMAIN SetToSeq(Walk) : SetToSeq(Walk)[i] = f
    <3>1. SetToSeq(Walk) \in Seq(Walk) /\ Walk \subseteq Files
      BY WalkIsFinite, ListOfSet
    <3>2. SetToSeq(Walk) \in Seq(Files)
      BY <3>1
    <3> QED BY <3>2, WalkIsFinite, ListOfSet
  <2>2. Start("directory", "read", SetToSeq(Walk))
    BY <1>5 DEF DiscoverDirectory
  <2>3. /\ job'.list = SetToSeq(Walk) /\ job'.pc = "read" /\ DOMAIN job'.read = {}
        /\ files' = files
    BY <2>1, <2>2, JobStarts
  <2>4. Walk' = Walk
    BY <2>3 DEF Walk
  <2> QED BY <2>1, <2>3, <2>4 DEF Directory
<1>6. ASSUME job'.kind # "directory" PROVE Directory'
  BY <1>6 DEF Directory
<1>7. CASE (\E f, g \in Files : Diff(f, g)) \/ (\E f \in Files : Remediate(f))
  <2>1. job'.kind # "directory"
    BY <1>7 DEF Diff, Remediate, Start
  <2> QED BY <1>6, <2>1
<1>8. ASSUME NEW pc, job.kind # "directory", job' = [job EXCEPT !.pc = pc] PROVE Directory'
  BY <1>6, <1>8, JobMoves
<1>9. CASE Read
  <2> DEFINE f == job.list[Len(job.read) + 1]
  <2>1. /\ job.pc = "read" /\ Len(job.read) < Len(job.list)
        /\ files' = files /\ steady' = steady
    BY <1>9 DEF Read
  <2>2. Walk' = Walk
    BY <2>1 DEF Walk
  <2>3. CASE CanDiscover(f) /\ job' = [job EXCEPT !.read = Append(@, files[f])]
    <3>1. f \in Files
      BY <2>1, FirstOfList
    <3>2. Sound(files[f]) /\ Discoverable(files[f])
      BY <2>3, <3>1, ReadIsSound
    <3>3. /\ job'.pc = "read" /\ job'.kind = job.kind /\ job'.list = job.list
          /\ job'.read = Append(job.read, files[f])
      BY <2>1, <2>3, <3>2, JobReads
    <3>4. IsSeq(job.read)
      BY DEF Reading
    <3>5. /\ IsSeq(job'.read)
          /\ Len(job.read) \in Nat /\ DOMAIN job.read = 1..Len(job.read)
          /\ Len(job'.read) = Len(job.read) + 1
          /\ \A i \in 1..Len(job.read) : job'.read[i] = job.read[i]
          /\ job'.read[Len(job.read) + 1] = files[f]
      BY <3>3, <3>4, AppendIsSeq
    <3>6. DOMAIN job'.read = 1..(Len(job.read) + 1)
      BY <3>5, SeqDomain
    <3>7. ASSUME job.kind = "directory", NEW i \in DOMAIN job'.read, job.list[i] \in steady
          PROVE  job'.read[i] = files[job.list[i]]
      <4>1. i \in 1..Len(job.read) \/ i = Len(job.read) + 1
        BY <3>5, <3>6
      <4>2. CASE i \in 1..Len(job.read)
        BY <3>5, <3>7, <4>2 DEF Directory
      <4>3. CASE i = Len(job.read) + 1
        BY <3>5, <4>3
      <4> QED BY <4>1, <4>2, <4>3
    <3> QED BY <2>1, <2>2, <3>3, <3>7 DEF Directory
  <2>4. CASE Finish(1)
    <3>1. /\ exit' = 1 /\ job'.kind = job.kind /\ job'.list = job.list /\ job'.read = job.read
      BY <2>4, JobMoves DEF Finish
    <3> QED BY <2>1, <2>2, <3>1 DEF Directory
  <2> QED BY <1>9, <2>3, <2>4 DEF Read
<1>10. CASE Conclude
  <2>1. /\ job.pc = "read" /\ Len(job.read) = Len(job.list)
        /\ files' = files /\ steady' = steady
        /\ job' = [job EXCEPT !.pc = "done"]
        /\ job.kind = "directory" => exit' = ExitCode(Inventories(job.read))
    BY <1>10 DEF Conclude, Finish
  <2>2. /\ job'.kind = job.kind /\ job'.list = job.list /\ job'.read = job.read
    BY <2>1, JobMoves
  <2>3. Walk' = Walk
    BY <2>1 DEF Walk
  <2>4. ASSUME job.kind = "directory", exit' = 0, NEW i \in DOMAIN job.read
        PROVE  Clean(Discover(job.read[i]))
    <3>1. i \in DOMAIN Inventories(job.read) /\ Inventories(job.read)[i] = Discover(job.read[i])
      BY DEF Inventories
    <3>2. ~(Summarize(Discover(job.read[i])).high_or_critical > 0)
      BY <2>1, <2>4, <3>1 DEF ExitCode
    <3>3. Sound(job.read[i]) /\ Discoverable(job.read[i])
      BY DEF Reading
    <3>4. PICK n \in Nat : DOMAIN Discover(job.read[i]) = 1..n
      BY <3>3, InventoryIsList
    <3> QED BY <3>2, <3>4, NothingCounted
  <2>5. ASSUME job.kind = "directory"
        PROVE  /\ \A f \in Walk \cap steady : \E i \in DOMAIN job.list : job.list[i] = f
               /\ \A i \in DOMAIN job.read : job.list[i] \in steady => job.read[i] = files[job.list[i]]
    BY <2>5, Zenon DEF Directory
  <2> QED BY <2>1, <2>2, <2>3, <2>4, <2>5 DEF Directory
<1>11. CASE OpenOriginal \/ Plan \/ Truncate \/ Write \/ Crash
  <2>1. job.kind = "remediate"
    BY <1>11 DEF OpenOriginal, Plan, Truncate, Write, Crash, Places
  <2>2. job = [kind |-> job.kind, pc |-> job.pc, list |-> job.list, read |-> job.read]
    BY DEF Reading
  <2>3. job'.kind = job.kind
    BY <1>11, <2>2 DEF OpenOriginal, Plan, Truncate, Write, Crash, Finish
  <2> QED BY <1>6, <2>1, <2>3
<1>12. CASE UNCHANGED vars
  BY <1>1, <1>12 DEF vars
<1> QED BY <1>3, <1>4, <1>5, <1>7, <1>9, <1>10, <1>11, <1>12 DEF Next

\* A comparison ends well only after both readings.
LEMMA ComparedStep ==
  ASSUME Reading, Places, Compared, [Next]_vars
  PROVE  Compared'
<1>1. CASE UNCHANGED <<job, exit>>
  BY <1>1 DEF Compared, Done
<1>2. CASE (\E f \in Files : \E d \in Documents : Save(f, d)) \/ (\E f \in Files : Delete(f))
           \/ UNCHANGED vars
  <2>1. UNCHANGED <<job, exit>>
    BY <1>2 DEF Save, Delete, Touched, vars
  <2> QED BY <1>1, <2>1
<1>3. ASSUME job'.kind # "diff" \/ job'.pc # "done" \/ exit' # 0 PROVE Compared'
  BY <1>3 DEF Compared, Done
<1>4. CASE DiscoverDirectory \/ (\E f, g \in Files : Diff(f, g)) \/ (\E f \in Files : Remediate(f))
  <2>1. job'.pc # "done"
    BY <1>4 DEF DiscoverDirectory, Diff, Remediate, Start
  <2> QED BY <1>3, <2>1
<1>5. job = [kind |-> job.kind, pc |-> job.pc, list |-> job.list, read |-> job.read]
  BY DEF Reading
<1>6. CASE Read
  <2>1. job.pc = "read"
    BY <1>6 DEF Read
  <2>2. job'.pc = "read" \/ exit' = 1
    BY <1>5, <1>6, <2>1 DEF Read, Finish
  <2> QED BY <1>3, <2>2
<1>7. CASE Conclude
  <2>1. Len(job.read) = Len(job.list) /\ job' = [job EXCEPT !.pc = "done"]
    BY <1>7 DEF Conclude, Finish
  <2>2. job'.kind = job.kind /\ job'.read = job.read
    BY <2>1, JobMoves
  <2> QED BY <2>1, <2>2 DEF Compared, Done, Places
<1>8. CASE OpenOriginal \/ Plan \/ Truncate \/ Write \/ Crash
  <2>1. job.kind = "remediate"
    BY <1>8 DEF OpenOriginal, Plan, Truncate, Write, Crash, Places
  <2>2. job'.kind = job.kind
    BY <1>5, <1>8 DEF OpenOriginal, Plan, Truncate, Write, Crash, Finish
  <2> QED BY <1>3, <2>1, <2>2
<1> QED BY <1>2, <1>4, <1>6, <1>7, <1>8 DEF Next

-----------------------------------------------------------------------------
(* A diff that reports nothing.                                            *)

\* The factors a diff compares.
Base(ep) == Factors(ep).no_auth + Factors(ep).sensitive_data
            + Factors(ep).unauthenticated_sensitive_data + Factors(ep).deprecated_still_live

\* What it leaves out is worth 5 points, and no endpoint is that close below
\* the threshold of a high risk.
LEMMA NeverOnTheEdge ==
  ASSUME NEW ep
  PROVE  HighOrCritical(ep) <=> Base(ep) >= 40
<1> DEFINE f == Factors(ep)
<1>1. /\ f.no_auth \in {0, 30, 40}
      /\ f.sensitive_data \in {0, 15, 30}
      /\ f.unauthenticated_sensitive_data \in {0, 20}
      /\ f.deprecated_still_live \in {0, 10}
      /\ f.missing_metadata \in {0, 5}
      /\ f.no_auth = 0 => f.unauthenticated_sensitive_data = 0
      /\ f.no_auth # 0 /\ f.sensitive_data # 0 => f.unauthenticated_sensitive_data = 20
  BY DEF Factors
<1>2. Base(ep) = f.no_auth + f.sensitive_data + f.unauthenticated_sensitive_data
                 + f.deprecated_still_live
  BY DEF Base
<1>3. Sum(f) = f.no_auth + f.sensitive_data + f.unauthenticated_sensitive_data
               + f.deprecated_still_live + f.missing_metadata
  BY DEF Sum
<1> HIDE DEF f
<1>4. /\ Base(ep) \in Nat /\ Base(ep) \notin 35..39
      /\ Sum(f) \in Nat /\ Sum(f) \in Base(ep)..(Base(ep) + 5)
  BY <1>1, <1>2, <1>3
<1>5. ScoreEndpoint(ep) = IF Sum(f) > 100 THEN 100 ELSE Sum(f)
  BY DEF ScoreEndpoint, f
<1>6. ScoreEndpoint(ep) \in Nat /\ (ScoreEndpoint(ep) >= 40 <=> Base(ep) >= 40)
  BY <1>4, <1>5
<1>7. HighOrCritical(ep) <=> LevelFor(ScoreEndpoint(ep)) \in {"HIGH", "CRITICAL"}
  BY DEF HighOrCritical
<1>8. \A n \in Nat : LevelFor(n) \in {"HIGH", "CRITICAL"} <=> n >= 40
  BY DEF LevelFor
<1> QED BY <1>6, <1>7, <1>8

\* So endpoints between which it finds no change have the same risk.
LEMMA NoChangeNoRisk ==
  ASSUME NEW o, NEW e, Key(o) = Key(e), ~Changed(o, e)
  PROVE  /\ HighOrCritical(o) <=> HighOrCritical(e)
         /\ o.authenticated = e.authenticated /\ o.sensitive_fields = e.sensitive_fields
<1>1. /\ o.method = e.method /\ o.authenticated = e.authenticated
      /\ o.deprecated = e.deprecated /\ o.sensitive_fields = e.sensitive_fields
  BY DEF Key, Changed
<1>2. Base(o) = Base(e)
  BY <1>1 DEF Base, Factors
<1> QED BY <1>1, <1>2, NeverOnTheEdge

\* Sets of places that correspond to each other are equally large.
LEMMA SameCount ==
  ASSUME NEW X, NEW Y, IsFiniteSet(Y), NEW h \in Bijection(Y, X),
         NEW A \in SUBSET X, NEW B \in SUBSET Y, \A j \in Y : h[j] \in A <=> j \in B
  PROVE  Cardinality(A) = Cardinality(B)
<1> DEFINE g == [j \in B |-> h[j]]
<1>1. /\ h \in [Y -> X]
      /\ \A i, j \in Y : h[i] = h[j] => i = j
      /\ \A x \in X : \E j \in Y : h[j] = x
  BY DEF Bijection, Injection, Surjection, IsInjective
<1>2. g \in [B -> A]
  BY <1>1
<1>3. \A i, j \in B : g[i] = g[j] => i = j
  BY <1>1
<1>4. \A x \in A : \E j \in B : g[j] = x
  BY <1>1
<1> HIDE DEF g
<1>5. g \in Bijection(B, A)
  BY <1>2, <1>3, <1>4, Fun_IsBij
<1>6. IsFiniteSet(B)
  BY FS_Subset
<1>7. ExistsBijection(B, A)
  BY <1>5 DEF ExistsBijection
<1> QED BY <1>6, <1>7, FS_Bijection

\* Inventories without drift agree about the gate, in whatever order they are.
LEMMA GateIsKept ==
  ASSUME NEW old, NEW new, NEW m \in Nat, NEW n \in Nat, DOMAIN old = 1..m, DOMAIN new = 1..n
  PROVE  KeepsTheGate(old, new)
<1> SUFFICES ASSUME UniqueKeys(old), UniqueKeys(new), NoDrift(DiffInventories(old, new))
             PROVE  /\ Summarize(old).high_or_critical = Summarize(new).high_or_critical
                    /\ Summarize(old).unauthenticated = Summarize(new).unauthenticated
                    /\ Summarize(old).sensitive_endpoints = Summarize(new).sensitive_endpoints
  BY Zenon DEF KeepsTheGate
<1> DEFINE h == [j \in DOMAIN new |-> CHOOSE i \in DOMAIN old : Key(old[i]) = Key(new[j])]
<1>1. /\ \A i \in DOMAIN old : \E j \in DOMAIN new : Key(new[j]) = Key(old[i])
      /\ \A j \in DOMAIN new : \E i \in DOMAIN old : Key(old[i]) = Key(new[j])
      /\ \A j \in DOMAIN new : ~Changed(FindKey(old, Key(new[j])), new[j])
  <2>1. /\ Keys(new) \ Keys(old) = {} /\ Keys(old) \ Keys(new) = {}
        /\ {Key(new[i]) : i \in {j \in DOMAIN new :
              Key(new[j]) \in Keys(old) /\ Changed(FindKey(old, Key(new[j])), new[j])}} = {}
    BY DEF NoDrift, DiffInventories
  <2>2. \A i \in DOMAIN old : \E j \in DOMAIN new : Key(new[j]) = Key(old[i])
    BY <2>1 DEF Keys
  <2>3. \A j \in DOMAIN new : Key(new[j]) \in Keys(old)
    BY <2>1 DEF Keys
  <2>4. \A j \in DOMAIN new : \E i \in DOMAIN old : Key(old[i]) = Key(new[j])
    BY <2>3 DEF Keys
  <2>5. \A j \in DOMAIN new : ~Changed(FindKey(old, Key(new[j])), new[j])
    BY <2>1, <2>3, Zenon
  <2> QED BY <2>2, <2>4, <2>5
<1>2. \A j \in DOMAIN new : h[j] \in DOMAIN old /\ Key(old[h[j]]) = Key(new[j])
  BY <1>1
<1>3. \A i, j \in DOMAIN old : Key(old[i]) = Key(old[j]) => i = j
  BY DEF UniqueKeys
<1>4. \A i, j \in DOMAIN new : Key(new[i]) = Key(new[j]) => i = j
  BY DEF UniqueKeys
<1>5. h \in [DOMAIN new -> DOMAIN old]
  BY <1>2
<1> HIDE DEF h
<1>6. h \in Bijection(DOMAIN new, DOMAIN old)
  <2>1. \A i, j \in DOMAIN new : h[i] = h[j] => i = j
    BY <1>2, <1>4
  <2>2. \A x \in DOMAIN old : \E j \in DOMAIN new : h[j] = x
    BY <1>1, <1>2, <1>3
  <2> QED BY <1>5, <2>1, <2>2, Fun_IsBij
<1>7. ASSUME NEW j \in DOMAIN new
      PROVE  /\ HighOrCritical(old[h[j]]) <=> HighOrCritical(new[j])
             /\ old[h[j]].authenticated = new[j].authenticated
             /\ old[h[j]].sensitive_fields = new[j].sensitive_fields
  <2> DEFINE P(i) == /\ Key(old[i]) = Key(new[j])
                     /\ \A k \in DOMAIN old : Key(old[k]) = Key(new[j]) => i <= k
  <2>1. h[j] \in DOMAIN old /\ Key(old[h[j]]) = Key(new[j])
    BY <1>2
  <2>2. \A k \in DOMAIN old : Key(old[k]) = Key(new[j]) => k = h[j]
    BY <1>3, <2>1
  <2>3. P(h[j])
    BY <2>1, <2>2
  <2>4. \A i \in DOMAIN old : P(i) => i = h[j]
    BY <2>2
  <2>5. (CHOOSE i \in DOMAIN old : P(i)) = h[j]
    BY <2>1, <2>3, <2>4, Zenon
  <2>6. FindKey(old, Key(new[j])) = old[h[j]]
    BY <2>5, Zenon DEF FindKey
  <2>7. ~Changed(old[h[j]], new[j])
    BY <1>1, <2>6
  <2> QED BY <2>1, <2>7, NoChangeNoRisk
<1>8. IsFiniteSet(DOMAIN new)
  BY FS_Interval
<1>9. Summarize(old).high_or_critical = Summarize(new).high_or_critical
  <2> DEFINE A == {i \in DOMAIN old : HighOrCritical(old[i])}
             B == {j \in DOMAIN new : HighOrCritical(new[j])}
  <2>1. Summarize(old).high_or_critical = Cardinality(A)
        /\ Summarize(new).high_or_critical = Cardinality(B)
    BY Zenon DEF Summarize
  <2>2. \A j \in DOMAIN new : h[j] \in A <=> j \in B
    BY <1>2, <1>7
  <2>3. A \in SUBSET DOMAIN old /\ B \in SUBSET DOMAIN new
    OBVIOUS
  <2> HIDE DEF A, B
  <2> QED BY <1>6, <1>8, <2>1, <2>2, <2>3, SameCount
<1>10. Summarize(old).unauthenticated = Summarize(new).unauthenticated
  <2> DEFINE A == {i \in DOMAIN old : ~old[i].authenticated}
             B == {j \in DOMAIN new : ~new[j].authenticated}
  <2>1. Summarize(old).unauthenticated = Cardinality(A)
        /\ Summarize(new).unauthenticated = Cardinality(B)
    BY Zenon DEF Summarize
  <2>2. \A j \in DOMAIN new : h[j] \in A <=> j \in B
    BY <1>2, <1>7
  <2>3. A \in SUBSET DOMAIN old /\ B \in SUBSET DOMAIN new
    OBVIOUS
  <2> HIDE DEF A, B
  <2> QED BY <1>6, <1>8, <2>1, <2>2, <2>3, SameCount
<1>11. Summarize(old).sensitive_endpoints = Summarize(new).sensitive_endpoints
  <2> DEFINE A == {i \in DOMAIN old : old[i].sensitive_fields # {}}
             B == {j \in DOMAIN new : new[j].sensitive_fields # {}}
  <2>1. Summarize(old).sensitive_endpoints = Cardinality(A)
        /\ Summarize(new).sensitive_endpoints = Cardinality(B)
    BY Zenon DEF Summarize
  <2>2. \A j \in DOMAIN new : h[j] \in A <=> j \in B
    BY <1>2, <1>7
  <2>3. A \in SUBSET DOMAIN old /\ B \in SUBSET DOMAIN new
    OBVIOUS
  <2> HIDE DEF A, B
  <2> QED BY <1>6, <1>8, <2>1, <2>2, <2>3, SameCount
<1> QED BY <1>9, <1>10, <1>11

-----------------------------------------------------------------------------
(* What remediate has written.                                             *)

\* A list of one requirement of one scheme.
LEMMA OneRequirement ==
  ASSUME NEW T, NEW h \in T
  PROVE  <<<<h>>>> \in Seq(Seq(T))
<1>1. <<h>> \in Seq(T)
  OBVIOUS
<1> DEFINE S == Seq(T)
           r == <<h>>
<1> HIDE DEF S, r
<1>2. <<r>> \in Seq(S)
  BY <1>1 DEF S, r
<1> QED BY <1>2 DEF S, r

\* extract_security finds that scheme in it.
LEMMA OneScheme ==
  ASSUME NEW h \in STRING
  PROVE  ExtractSecurity(<<<<h>>>>) = <<h>>
<1>1. FlattenSeq(<<<<h>>>>) = <<h>>
  <2> DEFINE w == <<<<h>>>>
             F(f) == [i \in 1..1 |-> IF i = 1 THEN w[i] ELSE f[i-1] \o w[i]]
             flat == CHOOSE f : f = F(f)
  <2>1. Len(w) = 1 /\ w[1] = <<h>>
    OBVIOUS
  <2> HIDE DEF w
  <2>2. FlattenSeq(w) = flat[1]
    BY <2>1 DEF FlattenSeq
  <2>3. \E f : f = F(f)
    <3> DEFINE g == [i \in 1..1 |-> w[i]]
    <3>1. g = F(g)
      <4>1. \A i \in 1..1 : i = 1
        OBVIOUS
      <4> QED BY <4>1
    <3> QED BY <3>1
  <2>4. flat = F(flat)
    <3> HIDE DEF F
    <3> QED BY <2>3
  <2>5. flat[1] = w[1]
    <3> HIDE DEF flat
    <3> QED BY <2>4
  <2> QED BY <2>1, <2>2, <2>5 DEF w
<1>2. DOMAIN <<h>> = {1} /\ Max({1}) = 1
  <2>1. DOMAIN <<h>> = {1}
    OBVIOUS
  <2>2. Max({1}) = 1
    BY DEF Max
  <2> QED BY <2>1, <2>2
<1> DEFINE Add(schemes, name) == IF Contains(schemes, name) THEN schemes ELSE Append(schemes, name)
           F(f) == [s \in SUBSET {1} |-> IF s = {} THEN <<>> ELSE Add(f[s \ {Max(s)}], <<h>>[Max(s)])]
           fold == CHOOSE f : f = F(f)
<1>3. FoldLeft(Add, <<>>, <<h>>) = fold[{1}]
  BY <1>2 DEF FoldLeft, MapThenFoldSet
<1>4. \A schemes, name : Add(schemes, name) = IF Contains(schemes, name) THEN schemes ELSE Append(schemes, name)
  OBVIOUS
<1>5. Add(<<>>, h) = <<h>>
  <2>1. ~Contains(<<>>, h)
    BY DEF Contains
  <2>2. Append(<<>>, h) = <<h>>
    OBVIOUS
  <2> QED BY <2>1, <2>2
<1> HIDE DEF Add
<1>6. \A f : F(f)[{}] = <<>> /\ F(f)[{1}] = Add(f[{}], h)
  <2>1. {1} \ {Max({1})} = {} /\ {1} # {} /\ <<h>>[1] = h
    BY <1>2
  <2> QED BY <1>2, <2>1
<1>7. \E f : f = F(f)
  <2> DEFINE g == [s \in SUBSET {1} |-> IF s = {} THEN <<>> ELSE <<h>>]
  <2>1. g[{}] = <<>>
    OBVIOUS
  <2>2. \A s \in SUBSET {1} : s # {} => s = {1}
    OBVIOUS
  <2>3. \A s \in SUBSET {1} : s # {} => Add(g[s \ {Max(s)}], <<h>>[Max(s)]) = <<h>>
    <3> SUFFICES ASSUME NEW s \in SUBSET {1}, s # {}
                 PROVE  Add(g[s \ {Max(s)}], <<h>>[Max(s)]) = <<h>>
      OBVIOUS
    <3> HIDE DEF g
    <3>1. s = {1}
      BY <2>2
    <3>2. Max(s) = 1
      BY <1>2, <3>1, Zenon
    <3>3. s \ {Max(s)} = {} /\ <<h>>[Max(s)] = h
      <4>1. {1} \ {1} = {} /\ <<h>>[1] = h
        OBVIOUS
      <4> QED BY <3>1, <3>2, <4>1, Zenon
    <3> QED BY <1>5, <2>1, <3>3, Zenon
  <2>4. g = F(g)
    <3>1. F(g) = [s \in SUBSET {1} |-> IF s = {} THEN <<>> ELSE Add(g[s \ {Max(s)}], <<h>>[Max(s)])]
      OBVIOUS
    <3>2. \A s \in SUBSET {1} : g[s] = IF s = {} THEN <<>> ELSE <<h>>
      OBVIOUS
    <3>3. g = [s \in SUBSET {1} |-> g[s]]
      OBVIOUS
    <3> HIDE DEF g, F
    <3>4. \A s \in SUBSET {1} :
            g[s] = IF s = {} THEN <<>> ELSE Add(g[s \ {Max(s)}], <<h>>[Max(s)])
      BY <2>3, <3>2, Zenon
    <3>5. g = [s \in SUBSET {1} |-> IF s = {} THEN <<>> ELSE Add(g[s \ {Max(s)}], <<h>>[Max(s)])]
      BY <3>3, <3>4, Zenon
    <3> QED BY <3>1, <3>5, Zenon
  <2> QED BY <2>4
<1>8. fold = F(fold)
  <2> HIDE DEF F
  <2> QED BY <1>7
<1> HIDE DEF fold, F
<1>9. fold[{}] = <<>> /\ fold[{1}] = Add(fold[{}], h)
  BY <1>6, <1>8
<1>10. <<<<h>>>> # Absent
  <2>1. <<<<h>>>> \in Seq(Seq(STRING))
    BY OneRequirement
  <2> QED BY <2>1, SpecFilesAssumption
<1>11. FoldLeft(Add, <<>>, <<h>>) = <<h>>
  BY <1>3, <1>5, <1>9
<1> QED BY <1>1, <1>10, <1>11 DEF ExtractSecurity, Add

\* A fixed operation has what it had, a security if it got one, and a name if it
\* got one.
LEMMA FixedFieldsAre ==
  ASSUME NEW d, NEW fixes, NEW i, d.operations[i] \in Operation, NEW o, NEW r,
         o = d.operations[i], r = FixedOperation(d, fixes, i)
  PROVE  /\ r.method = o.method /\ r.path = o.path /\ r.deprecated = o.deprecated
         /\ r.request = o.request /\ r.responses = o.responses /\ r.summary = o.summary
         /\ r.operationId <=> (o.operationId \/ i \in fixes.operationId)
         /\ i \in fixes.security => r.security = <<<<Head(d.schemes)>>>>
         /\ i \notin fixes.security => r.security = o.security
<1> DEFINE security == IF i \in fixes.security THEN <<<<Head(d.schemes)>>>> ELSE o.security
           named == o.operationId \/ i \in fixes.operationId
<1>1. r = [o EXCEPT !.security = security, !.operationId = named] /\ o \in Operation
  BY DEF FixedOperation
<1>2. named <=> (o.operationId \/ i \in fixes.operationId)
  OBVIOUS
<1>3. /\ i \in fixes.security => security = <<<<Head(d.schemes)>>>>
      /\ i \notin fixes.security => security = o.security
  OBVIOUS
<1> HIDE DEF security, named
<1>4. /\ r.method = o.method /\ r.path = o.path /\ r.deprecated = o.deprecated
      /\ r.request = o.request /\ r.responses = o.responses /\ r.summary = o.summary
      /\ r.operationId = named /\ r.security = security
  BY <1>1 DEF Operation
<1> QED BY <1>2, <1>3, <1>4

\* An endpoint that gained authentication or a name is no riskier.
LEMMA NoRiskier ==
  ASSUME NEW old, NEW new, Key(new) = Key(old), new.deprecated = old.deprecated,
         new.sensitive_fields = old.sensitive_fields,
         old.authenticated => new.authenticated, old.named => new.named
  PROVE  ScoreEndpoint(new) <= ScoreEndpoint(old)
<1> DEFINE f == Factors(old)
           g == Factors(new)
<1>0. new.method = old.method
  BY DEF Key
<1>1. /\ f.no_auth \in {0, 30, 40} /\ g.no_auth \in {0, f.no_auth}
      /\ f.sensitive_data \in {0, 15, 30} /\ g.sensitive_data = f.sensitive_data
      /\ f.unauthenticated_sensitive_data \in {0, 20}
      /\ g.unauthenticated_sensitive_data \in {0, f.unauthenticated_sensitive_data}
      /\ f.deprecated_still_live \in {0, 10} /\ g.deprecated_still_live = f.deprecated_still_live
      /\ f.missing_metadata \in {0, 5} /\ g.missing_metadata \in {0, f.missing_metadata}
  BY <1>0 DEF Factors
<1> HIDE DEF f, g
<1>2. Sum(f) \in Nat /\ Sum(g) \in Nat /\ Sum(g) <= Sum(f)
  <2>1. /\ g.no_auth \in Nat /\ f.no_auth \in Nat /\ g.no_auth <= f.no_auth
        /\ g.sensitive_data \in Nat /\ f.sensitive_data \in Nat
        /\ g.sensitive_data <= f.sensitive_data
        /\ g.unauthenticated_sensitive_data \in Nat /\ f.unauthenticated_sensitive_data \in Nat
        /\ g.unauthenticated_sensitive_data <= f.unauthenticated_sensitive_data
        /\ g.deprecated_still_live \in Nat /\ f.deprecated_still_live \in Nat
        /\ g.deprecated_still_live <= f.deprecated_still_live
        /\ g.missing_metadata \in Nat /\ f.missing_metadata \in Nat
        /\ g.missing_metadata <= f.missing_metadata
    BY <1>1
  <2> QED BY <2>1 DEF Sum
<1> QED BY <1>2 DEF ScoreEndpoint, f, g

\* What fixes may do to endpoints.
Settled(old, new) ==
  /\ DOMAIN new = DOMAIN old
  /\ \A i \in DOMAIN new :
       /\ Key(new[i]) = Key(old[i])
       /\ ScoreEndpoint(new[i]) <= ScoreEndpoint(old[i])
       /\ new[i].deprecated = old[i].deprecated
       /\ new[i].sensitive_fields = old[i].sensitive_fields
       /\ old[i].authenticated => new[i].auth_schemes = old[i].auth_schemes

\* What the fixes of a document make of its endpoints.
LEMMA FixesSettle ==
  ASSUME NEW d, Sound(d), d.kind = "openapi", NEW r, r = Remediated(d)
  PROVE  ComputeFixes(r) = NoFixes /\ Settled(Discover(d), Discover(r))
<1> DEFINE old == Discover(d)
           new == Discover(r)
           fixes == ComputeFixes(d)
           D == DOMAIN d.operations
           Old(i) == OpenApiDraft(d.operations[i], d)
           New(i) == OpenApiDraft(r.operations[i], r)
<1>1. Discover(d) = [i \in D |-> Old(i)]
  BY DEF Discover
<1>2. /\ fixes.security = {i \in D : ~Old(i).authenticated /\ d.schemes # <<>>}
      /\ fixes.operationId = {i \in D : ~Old(i).named}
  BY <1>1 DEF ComputeFixes
<1>3. r = ApplyFixes(d, fixes)
  BY DEF Remediated
<1>4. fixes.security # {} => d.schemes # <<>>
  BY FixesAreOffered
<1> HIDE DEF fixes
<1>5. /\ r.kind = "openapi" /\ DOMAIN r.operations = D
      /\ \A i \in D : r.operations[i] = FixedOperation(d, fixes, i)
      /\ r.security = d.security /\ r.schemes = d.schemes /\ r.schemas = d.schemas
  BY <1>3, <1>4, FixedIsSound
<1>6. Discover(r) = [i \in D |-> New(i)]
  BY <1>5 DEF Discover
<1>7. ASSUME NEW i \in D
      PROVE  /\ Key(New(i)) = Key(Old(i)) /\ New(i).deprecated = Old(i).deprecated
             /\ New(i).sensitive_fields = Old(i).sensitive_fields
             /\ Old(i).authenticated => New(i).authenticated
             /\ Old(i).authenticated => New(i).auth_schemes = Old(i).auth_schemes
             /\ New(i).named
             /\ ~New(i).authenticated => d.schemes = <<>>
  <2> DEFINE o == d.operations[i]
             p == r.operations[i]
  <2>1. o \in Operation
    BY OperationsAreListed
  <2>2. p = FixedOperation(d, fixes, i)
    BY <1>5
  <2>3. /\ p.method = o.method /\ p.path = o.path /\ p.deprecated = o.deprecated
        /\ p.request = o.request /\ p.responses = o.responses /\ p.summary = o.summary
        /\ p.operationId <=> (o.operationId \/ i \in fixes.operationId)
        /\ i \in fixes.security => p.security = <<<<Head(d.schemes)>>>>
        /\ i \notin fixes.security => p.security = o.security
    BY <2>1, <2>2, FixedFieldsAre
  <2> HIDE DEF o, p
  <2>4. /\ Old(i).method = o.method /\ Old(i).path = o.path /\ Old(i).deprecated = o.deprecated
        /\ Old(i).named <=> (o.summary \/ o.operationId)
        /\ Old(i).auth_schemes = ExtractSecurity(EffectiveSecurity(o, d))
        /\ Old(i).authenticated <=> Old(i).auth_schemes # <<>>
    BY DEF OpenApiDraft, o
  <2>5. /\ New(i).method = p.method /\ New(i).path = p.path /\ New(i).deprecated = p.deprecated
        /\ New(i).named <=> (p.summary \/ p.operationId)
        /\ New(i).auth_schemes = ExtractSecurity(EffectiveSecurity(p, r))
        /\ New(i).authenticated <=> New(i).auth_schemes # <<>>
    BY DEF OpenApiDraft, p
  <2>6. New(i).sensitive_fields = Old(i).sensitive_fields
    <3> DEFINE Below(schemas, roots, location) ==
                 SensitiveFields(UNION {CollectFields(schemas, n) : n \in roots}, location)
    <3>1. /\ Old(i).sensitive_fields = Below(d.schemas, o.request, "request")
                                       \cup Below(d.schemas, o.responses, "response")
          /\ New(i).sensitive_fields = Below(r.schemas, p.request, "request")
                                       \cup Below(r.schemas, p.responses, "response")
      BY DEF OpenApiDraft, o, p
    <3> HIDE DEF Old, New, Below
    <3> QED BY <1>5, <2>3, <3>1, Zenon
  <2> HIDE DEF Old, New
  <2>7. CASE i \in fixes.security
    <3>1. ~Old(i).authenticated /\ d.schemes # <<>> /\ d.schemes \in Seq(STRING)
      BY <1>2, <2>7 DEF Sound
    <3>2. Head(d.schemes) \in STRING
      BY <3>1
    <3>3. <<<<Head(d.schemes)>>>> # Absent
      BY <3>2, OneRequirement, SpecFilesAssumption
    <3>4. New(i).auth_schemes = <<Head(d.schemes)>>
      BY <2>3, <2>5, <2>7, <3>2, <3>3, OneScheme DEF EffectiveSecurity
    <3>5. <<Head(d.schemes)>> # <<>>
      OBVIOUS
    <3> QED BY <1>2, <2>3, <2>4, <2>5, <2>6, <3>1, <3>4, <3>5 DEF Key
  <2>8. CASE i \notin fixes.security
    <3>1. New(i).auth_schemes = Old(i).auth_schemes
      BY <1>5, <2>3, <2>4, <2>5, <2>8, Zenon DEF EffectiveSecurity
    <3>2. New(i).authenticated <=> Old(i).authenticated
      BY <2>4, <2>5, <3>1
    <3>3. ~Old(i).authenticated => d.schemes = <<>>
      BY <1>2, <2>8
    <3>4. New(i).named
      BY <1>2, <2>3, <2>4, <2>5
    <3> QED BY <2>3, <2>4, <2>5, <2>6, <3>1, <3>2, <3>3, <3>4 DEF Key
  <2> QED BY <2>7, <2>8
<1> HIDE DEF Old, New, D
<1>8. ComputeFixes(r) = NoFixes
  <2>1. /\ ComputeFixes(r).security = {i \in D : ~New(i).authenticated /\ d.schemes # <<>>}
        /\ ComputeFixes(r).operationId = {i \in D : ~New(i).named}
        /\ ComputeFixes(r) = [security |-> ComputeFixes(r).security,
                              operationId |-> ComputeFixes(r).operationId]
    BY <1>5, <1>6 DEF ComputeFixes
  <2>2. ComputeFixes(r).security = {} /\ ComputeFixes(r).operationId = {}
    BY <1>7, <2>1
  <2> QED BY <2>1, <2>2 DEF NoFixes
<1>9. \A i \in D : ScoreEndpoint(New(i)) <= ScoreEndpoint(Old(i))
  BY <1>7, NoRiskier
<1>10. DOMAIN new = D /\ DOMAIN old = D /\ \A i \in D : old[i] = Old(i) /\ new[i] = New(i)
  BY <1>1, <1>6
<1> HIDE DEF old, new
<1>11. Settled(old, new)
  BY <1>7, <1>9, <1>10 DEF Settled
<1> QED BY <1>8, <1>11 DEF old, new

\* While nobody has touched a file that remediate completed, it holds what was
\* planned; a file that is being written is not such a file.
Promised ==
  /\ DOMAIN patched = Files
  /\ \A f \in Files : patched[f] # Absent =>
       Sound(patched[f]) /\ Discoverable(patched[f]) /\ files[f] = Remediated(patched[f])
  /\ job.pc = "write" => patched[job.list[1]] = Absent

\* Only remediate completes a file, and whoever touches it ends the promise.
LEMMA PromisedStep ==
  ASSUME Disk, Reading, Places, Promised, [Next]_vars
  PROVE  Promised'
<1>1. CASE files' = files /\ patched' = patched /\ job'.pc # "write"
  BY <1>1, Zenon DEF Promised
<1>2. CASE DiscoverDirectory \/ (\E f, g \in Files : Diff(f, g)) \/ (\E f \in Files : Remediate(f))
  <2>1. files' = files /\ patched' = patched /\ job'.pc # "write"
    BY <1>2 DEF DiscoverDirectory, Diff, Remediate, Start
  <2> QED BY <1>1, <2>1
<1>3. CASE Read \/ Conclude \/ OpenOriginal \/ Plan
  <2>1. job = [kind |-> job.kind, pc |-> job.pc, list |-> job.list, read |-> job.read]
    BY DEF Reading
  <2>2. files' = files /\ patched' = patched
    BY <1>3 DEF Read, Conclude, OpenOriginal, Plan
  <2>3. job'.pc # "write"
    BY <1>3, <2>1 DEF Read, Conclude, OpenOriginal, Plan, Finish
  <2> QED BY <1>1, <2>2, <2>3
<1>4. ASSUME NEW f \in Files, \E d : files' = [files EXCEPT ![f] = d],
             patched' = [patched EXCEPT ![f] = Absent] \/ (patched' = patched /\ patched[f] = Absent),
             job'.pc = "write" => job'.list[1] = f \/ (job.pc = "write" /\ job'.list = job.list)
      PROVE  Promised'
  <2>1. /\ DOMAIN patched = Files /\ DOMAIN files = Files
        /\ job.pc = "write" => patched[job.list[1]] = Absent /\ job.list[1] \in Files
    BY FirstOfList DEF Promised, Disk, Places
  <2>2. /\ DOMAIN patched' = Files /\ patched'[f] = Absent
        /\ \A g \in Files : g # f => patched'[g] = patched[g] /\ files'[g] = files[g]
    BY <1>4, <2>1
  <2>3. ASSUME NEW g \in Files, patched'[g] # Absent
        PROVE  Sound(patched'[g]) /\ Discoverable(patched'[g]) /\ files'[g] = Remediated(patched'[g])
    <3>1. patched'[g] = patched[g] /\ files'[g] = files[g]
      BY <2>2, <2>3
    <3> QED BY <2>3, <3>1, Zenon DEF Promised
  <2>4. job'.pc = "write" => patched'[job'.list[1]] = Absent
    BY <1>4, <2>1, <2>2
  <2> QED BY <2>2, <2>3, <2>4 DEF Promised
<1>5. CASE (\E f \in Files : \E d \in Documents : Save(f, d)) \/ (\E f \in Files : Delete(f))
  <2>1. PICK f \in Files : /\ \E d : files' = [files EXCEPT ![f] = d]
                           /\ patched' = [patched EXCEPT ![f] = Absent] /\ job' = job
    BY <1>5, Zenon DEF Save, Delete, Touched
  <2> QED BY <1>4, <2>1
<1>6. CASE Truncate
  <2> DEFINE f == job.list[1]
  <2>1. /\ job.pc = "truncate" /\ files' = [files EXCEPT ![f] = Unparsable]
        /\ patched' = [patched EXCEPT ![f] = Absent]
        /\ job' = [job EXCEPT !.pc = "write"]
    BY <1>6 DEF Truncate
  <2>2. f \in Files
    BY <2>1, FirstOfList DEF Places
  <2>3. job'.list = job.list
    BY <2>1, JobMoves
  <2> QED BY <1>4, <2>1, <2>2, <2>3
<1>7. ASSUME job.pc = "write"
      PROVE  /\ job.list[1] \in Files /\ Sound(job.read[1]) /\ Discoverable(job.read[1])
             /\ DOMAIN patched = Files /\ DOMAIN files = Files /\ patched[job.list[1]] = Absent
  <2>1. job.list[1] \in Files /\ 1 \in DOMAIN job.read
    BY <1>7, FirstOfList DEF Places
  <2> QED BY <1>7, <2>1, Zenon DEF Reading, Promised, Disk
<1>8. CASE Write
  <2> DEFINE f == job.list[1]
             d == job.read[1]
  <2>1. /\ job.pc = "write" /\ files' = [files EXCEPT ![f] = Remediated(d)]
        /\ patched' = [patched EXCEPT ![f] = d]
        /\ job' = [job EXCEPT !.pc = "done"]
    BY <1>8 DEF Write, Finish
  <2>2. job'.pc = "done"
    BY <2>1, JobMoves
  <2>3. /\ f \in Files /\ Sound(d) /\ Discoverable(d)
        /\ DOMAIN patched = Files /\ DOMAIN files = Files
    BY <1>7, <2>1
  <2> HIDE DEF f, d
  <2>4. /\ DOMAIN patched' = Files /\ patched'[f] = d /\ files'[f] = Remediated(d)
        /\ \A g \in Files : g # f => patched'[g] = patched[g] /\ files'[g] = files[g]
    BY <2>1, <2>3
  <2>5. ASSUME NEW g \in Files, patched'[g] # Absent
        PROVE  Sound(patched'[g]) /\ Discoverable(patched'[g]) /\ files'[g] = Remediated(patched'[g])
    <3>1. CASE g = f
      BY <2>3, <2>4, <3>1, Zenon
    <3>2. CASE g # f
      BY <2>4, <2>5, <3>2, Zenon DEF Promised
    <3> QED BY <3>1, <3>2
  <2> QED BY <2>2, <2>4, <2>5 DEF Promised
<1>9. CASE Crash
  <2>1. /\ job.pc = "write" /\ patched' = patched /\ job' = [job EXCEPT !.pc = "crashed"]
        /\ files' = files \/ \E d : files' = [files EXCEPT ![job.list[1]] = d]
    BY <1>9, Zenon DEF Crash
  <2>2. job'.pc = "crashed"
    BY <2>1, JobMoves
  <2>3. CASE files' = files
    BY <1>1, <2>1, <2>2, <2>3
  <2>4. CASE \E d : files' = [files EXCEPT ![job.list[1]] = d]
    <3>1. patched' = patched /\ patched[job.list[1]] = Absent
      BY <1>7, <2>1
    <3> QED BY <1>4, <1>7, <2>1, <2>2, <2>4, <3>1
  <2> QED BY <2>1, <2>3, <2>4
<1>10. CASE UNCHANGED vars
  BY <1>10, Zenon DEF vars, Promised
<1> QED BY <1>2, <1>3, <1>5, <1>6, <1>8, <1>9, <1>10 DEF Next

\* Kinds of commands, where they are, and exit codes.
Codes == /\ job.kind \in {"none", "directory", "diff", "remediate"}
         /\ job.pc \in {"read", "open", "plan", "truncate", "write", "done", "crashed"}
         /\ exit \in {0, 1, 2}

\* Commands, their places and exit codes stay what they can be.
LEMMA CodesStep ==
  ASSUME Reading, Codes, [Next]_vars
  PROVE  Codes'
<1>1. job = [kind |-> job.kind, pc |-> job.pc, list |-> job.list, read |-> job.read]
  BY DEF Reading
<1>2. CASE job' = job /\ exit' = exit
  BY <1>2 DEF Codes
<1>3. CASE (\E f \in Files : \E d \in Documents : Save(f, d)) \/ (\E f \in Files : Delete(f))
           \/ UNCHANGED vars
  <2>1. job' = job /\ exit' = exit
    BY <1>3 DEF Save, Delete, Touched, vars
  <2> QED BY <1>2, <2>1
<1>4. CASE DiscoverDirectory \/ (\E f, g \in Files : Diff(f, g)) \/ (\E f \in Files : Remediate(f))
  BY <1>4 DEF DiscoverDirectory, Diff, Remediate, Start, Codes
<1>5. CASE Read \/ OpenOriginal \/ Plan \/ Truncate \/ Write \/ Crash
  BY <1>1, <1>5 DEF Read, OpenOriginal, Plan, Truncate, Write, Crash, Finish, Codes
<1>6. CASE Conclude
  <2>1. \A inventories : ExitCode(inventories) \in {0, 2}
    BY DEF ExitCode
  <2>2. /\ job' = [job EXCEPT !.pc = "done"]
        /\ exit' = IF job.kind = "directory" THEN ExitCode(Inventories(job.read)) ELSE 0
    BY <1>6 DEF Conclude, Finish
  <2> QED BY <1>1, <2>1, <2>2 DEF Codes
<1> QED BY <1>3, <1>4, <1>5, <1>6 DEF Next

-----------------------------------------------------------------------------
(* How a request inherits its auth.                                        *)

\* Induction, for properties given as the set of the numbers that have them.
LEMMA SetInduction ==
  ASSUME NEW S, 0 \in S, \A n \in Nat : n \in S => n + 1 \in S
  PROVE  Nat \subseteq S
<1> SUFFICES ASSUME Nat \ S # {} PROVE FALSE
  OBVIOUS
<1> DEFINE T == Nat \ S
<1>1. PICK x \in T : \A y \in T : <<y, x>> \notin OpToRel(<, Nat)
  <2>1. T \subseteq Nat /\ T # {}
    OBVIOUS
  <2> HIDE DEF T
  <2> QED BY <2>1, NatLessThanWellFounded, WFMin
<1>2. x \in Nat /\ x # 0 /\ x \notin S
  BY <1>1
<1>3. x - 1 \in Nat /\ x - 1 < x
  BY <1>2
<1>4. <<x - 1, x>> \in OpToRel(<, Nat)
  BY <1>2, <1>3 DEF OpToRel
<1>5. x - 1 \in S
  BY <1>1, <1>3, <1>4
<1>6. (x - 1) + 1 \in S
  BY <1>3, <1>5
<1> QED BY <1>2, <1>6

\* Numbers of a finite set are told apart by how many of it are no greater, and
\* every count up to its size occurs.
LEMMA Ranks ==
  ASSUME NEW S \in SUBSET Nat, IsFiniteSet(S)
  PROVE  /\ \A i, k \in S : Cardinality({j \in S : j <= i}) = Cardinality({j \in S : j <= k}) => i = k
         /\ \A n \in 1..Cardinality(S) : \E i \in S : Cardinality({j \in S : j <= i}) = n
<1> DEFINE below == [i \in S |-> {j \in S : j <= i}]
           rank == [i \in S |-> Cardinality(below[i])]
           N == Cardinality(S)
<1>1. N \in Nat
  BY FS_CardinalityType
<1>2. \A i \in S : below[i] \in SUBSET S /\ i \in below[i] /\ below[i] = {j \in S : j <= i}
  OBVIOUS
<1>3. \A i, k \in S : i <= k => below[i] \subseteq below[k]
  <2>1. \A i, j, k \in S : i <= k /\ j <= i => j <= k
    OBVIOUS
  <2> QED BY <2>1
<1>4. \A i, k \in S : i < k => below[i] # below[k]
  OBVIOUS
<1> HIDE DEF below, N
<1>5. \A i \in S : IsFiniteSet(below[i]) /\ Cardinality(below[i]) \in 1..N
  <2> SUFFICES ASSUME NEW i \in S PROVE IsFiniteSet(below[i]) /\ Cardinality(below[i]) \in 1..N
    OBVIOUS
  <2>1. IsFiniteSet(below[i]) /\ Cardinality(below[i]) <= N
    BY <1>2, FS_Subset DEF N
  <2>2. Cardinality(below[i]) \in Nat
    BY <2>1, FS_CardinalityType
  <2>3. Cardinality(below[i]) # 0
    BY <1>2, <2>1, FS_EmptySet
  <2> QED BY <1>1, <2>1, <2>2, <2>3
<1>6. \A i, k \in S : i < k => rank[i] # rank[k]
  <2> SUFFICES ASSUME NEW i \in S, NEW k \in S, i < k, rank[i] = rank[k] PROVE FALSE
    OBVIOUS
  <2>1. below[i] \in SUBSET below[k] /\ Cardinality(below[k]) = Cardinality(below[i])
    BY <1>3
  <2>2. below[k] = below[i]
    BY <1>5, <2>1, FS_Subset
  <2> QED BY <1>4, <2>2
<1>7. rank \in [S -> 1..N]
  BY <1>5
<1>8. \A i \in S : rank[i] = Cardinality({j \in S : j <= i})
  BY <1>2
<1> HIDE DEF rank
<1>9. \A i, k \in S : rank[i] = rank[k] => i = k
  <2> SUFFICES ASSUME NEW i \in S, NEW k \in S, i # k PROVE rank[i] # rank[k]
    OBVIOUS
  <2>1. i < k \/ k < i
    OBVIOUS
  <2> QED BY <1>6, <2>1
<1>10. rank \in Injection(S, 1..N)
  BY <1>7, <1>9 DEF Injection, IsInjective
<1>11. IsFiniteSet(1..N) /\ Cardinality(1..N) = N
  BY <1>1, FS_Interval
<1>12. rank \in Surjection(S, 1..N)
  BY <1>10, <1>11, FS_Injection DEF N
<1>13. \A n \in 1..N : \E i \in S : rank[i] = n
  BY <1>12 DEF Surjection
<1> QED BY <1>8, <1>9, <1>13 DEF N

\* The places of the items, and a folder before what is in it.
Foldered(items) ==
  /\ Len(items) \in Nat /\ DOMAIN items = 1..Len(items)
  /\ \A i \in 1..Len(items) : items[i].folder \in Nat /\ items[i].folder < i

\* In a collection a folder comes before what is in it.
LEMMA CollectionsAreFoldered ==
  ASSUME NEW d, Sound(d), d.kind = "postman"
  PROVE  Foldered(d.items)
<1> DEFINE S == Item
<1>1. d.items \in Seq(S) /\ \A i \in DOMAIN d.items : d.items[i].folder < i
  BY Zenon DEF Sound, IsPostman
<1>2. \A x \in S : x.folder \in Nat
  BY DEF Item
<1> HIDE DEF S
<1>3. Len(d.items) \in Nat /\ DOMAIN d.items = 1..Len(d.items)
  BY <1>1, LenProperties
<1>4. \A i \in 1..Len(d.items) : d.items[i] \in S
  BY <1>1, ElementOfSeq
<1> QED BY <1>1, <1>2, <1>3, <1>4 DEF Foldered

\* Every place of the list of requests is taken by one of the items.
LEMMA RequestsAreItems ==
  ASSUME NEW d, Sound(d), d.kind = "postman", NEW n \in DOMAIN Requests(d.items)
  PROVE  Requests(d.items)[n] \in DOMAIN d.items
<1> DEFINE leaves == {i \in DOMAIN d.items : d.items[i].request}
<1>1. IsFiniteSet(leaves)
  BY RequestsAreFinite
<1>2. leaves \in SUBSET Nat
  BY CollectionsAreFoldered DEF Foldered
<1>3. /\ n \in 1..Cardinality(leaves)
      /\ Requests(d.items)[n] = CHOOSE i \in leaves : Cardinality({j \in leaves : j <= i}) = n
  BY DEF Requests
<1>4. leaves \subseteq DOMAIN d.items
  OBVIOUS
<1> HIDE DEF leaves
<1>5. \E i \in leaves : Cardinality({j \in leaves : j <= i}) = n
  BY <1>1, <1>2, <1>3, Ranks
<1> QED BY <1>3, <1>4, <1>5

\* What an item has if auth is handed down the folders.
IsHanded(w, items, c, n) ==
  w = [j \in 0..n |-> IF j = 0 THEN c
                      ELSE IF items[j].auth # Absent THEN items[j].auth
                      ELSE w[items[j].folder]]

\* The pass that hands down the auth has a result.
LEMMA HandedExists ==
  ASSUME NEW items, Foldered(items), NEW c
  PROVE  \E w : IsHanded(w, items, c, Len(items))
<1> DEFINE N == Len(items)
           Good == {m \in Nat : m <= N => \E w : IsHanded(w, items, c, m)}
<1>1. N \in Nat /\ \A i \in 1..N : items[i].folder \in Nat /\ items[i].folder < i
  BY DEF Foldered
<1>2. 0 \in Good
  <2> DEFINE w == [j \in 0..0 |-> c]
  <2>1. \A j \in 0..0 : j = 0
    OBVIOUS
  <2>2. w = [j \in 0..0 |-> IF j = 0 THEN c
                            ELSE IF items[j].auth # Absent THEN items[j].auth
                            ELSE w[items[j].folder]]
    BY <2>1
  <2> HIDE DEF w
  <2> QED BY <2>2 DEF IsHanded
<1>3. ASSUME NEW m \in Nat, m \in Good PROVE m + 1 \in Good
  <2> SUFFICES ASSUME m + 1 <= N PROVE \E w : IsHanded(w, items, c, m + 1)
    OBVIOUS
  <2>0. m <= N /\ m + 1 \in 1..N
    BY <1>1
  <2>1. PICK w : IsHanded(w, items, c, m)
    BY <1>3, <2>0
  <2> DEFINE last == IF items[m + 1].auth # Absent THEN items[m + 1].auth
                     ELSE w[items[m + 1].folder]
             v == [j \in 0..(m + 1) |-> IF j = m + 1 THEN last ELSE w[j]]
  <2>2. \A j \in 0..m : w[j] = IF j = 0 THEN c
                               ELSE IF items[j].auth # Absent THEN items[j].auth
                               ELSE w[items[j].folder]
    BY <2>1 DEF IsHanded
  <2>3. /\ \A j \in 0..m : v[j] = w[j]
        /\ v[m + 1] = last
        /\ v = [j \in 0..(m + 1) |-> v[j]]
    OBVIOUS
  <2>4. \A j \in 1..(m + 1) : items[j].folder \in 0..m
    BY <1>1, <2>0
  <2> HIDE DEF v, N
  <2>5. ASSUME NEW j \in 0..(m + 1)
        PROVE  v[j] = IF j = 0 THEN c
                      ELSE IF items[j].auth # Absent THEN items[j].auth
                      ELSE v[items[j].folder]
    <3>1. CASE j = 0
      <4>1. 0 \in 0..m
        OBVIOUS
      <4> QED BY <2>2, <2>3, <3>1, <4>1
    <3>2. CASE j = m + 1
      <4>1. j # 0 /\ items[j].folder \in 0..m
        BY <2>4, <3>2
      <4>2. v[items[j].folder] = w[items[j].folder]
        BY <2>3, <4>1
      <4> QED BY <2>3, <3>2, <4>1, <4>2
    <3>3. CASE j # 0 /\ j # m + 1
      <4>1. j \in 0..m /\ items[j].folder \in 0..m
        BY <2>4, <3>3
      <4>2. v[items[j].folder] = w[items[j].folder] /\ v[j] = w[j]
        BY <2>3, <4>1
      <4> QED BY <2>2, <3>3, <4>1, <4>2
    <3> QED BY <3>1, <3>2, <3>3
  <2>6. v = [j \in 0..(m + 1) |-> IF j = 0 THEN c
                                  ELSE IF items[j].auth # Absent THEN items[j].auth
                                  ELSE v[items[j].folder]]
    BY <2>3, <2>5
  <2>7. IsHanded(v, items, c, m + 1)
    BY <2>6 DEF IsHanded
  <2> QED BY <2>7
<1> HIDE DEF Good
<1>4. Nat \subseteq Good
  BY <1>2, <1>3, SetInduction
<1>5. N \in Good /\ N <= N
  BY <1>1, <1>4
<1> QED BY <1>5 DEF Good

\* The effective auth is what is handed down.
LEMMA EffectiveIsHanded ==
  ASSUME NEW items, Foldered(items), NEW c
  PROVE  \E w : /\ \A i \in 1..Len(items) : EffectiveAuth(items, i, c) = w[i]
                /\ w[0] = c
                /\ \A i \in 1..Len(items) :
                     w[i] = IF items[i].auth # Absent THEN items[i].auth ELSE w[items[i].folder]
<1> DEFINE w == CHOOSE f : IsHanded(f, items, c, Len(items))
<1>1. \A i : EffectiveAuth(items, i, c) = w[i]
  BY DEF EffectiveAuth, IsHanded
<1>2. IsHanded(w, items, c, Len(items))
  BY HandedExists
<1> HIDE DEF w
<1>3. \A i \in 0..Len(items) :
        w[i] = IF i = 0 THEN c ELSE IF items[i].auth # Absent THEN items[i].auth
               ELSE w[items[i].folder]
  BY <1>2 DEF IsHanded
<1>4. Len(items) \in Nat
  BY DEF Foldered
<1>5. 0 \in 0..Len(items) /\ \A i \in 1..Len(items) : i \in 0..Len(items) /\ i # 0
  BY <1>4
<1> QED BY <1>1, <1>3, <1>5

\* Around an item are itself and what is around its folder.
LEMMA AroundIs ==
  ASSUME NEW items, Foldered(items), NEW i \in 1..Len(items)
  PROVE  /\ i \in Around(items, i)
         /\ \A j \in Around(items, i) : j \in 1..i
         /\ items[i].folder = 0 => Around(items, i) = {i}
         /\ items[i].folder # 0 => Around(items, i) = {i} \cup Around(items, items[i].folder)
<1> DEFINE Closed(S) == \A k \in S : items[k].folder # 0 => items[k].folder \in S
           f == items[i].folder
<1>1. \A m, j : j \in Around(items, m) <=>
                  /\ j \in 1..m
                  /\ \A S \in SUBSET (1..m) : m \in S /\ Closed(S) => j \in S
  BY DEF Around
<1>2. /\ i \in Nat /\ f \in Nat /\ f < i
      /\ \A k \in 1..i : items[k].folder \in Nat /\ items[k].folder < k
  BY DEF Foldered
<1>3. i \in Around(items, i)
  BY <1>1, <1>2
<1>4. ASSUME f = 0, NEW j \in Around(items, i) PROVE j = i
  <2>1. {i} \in SUBSET (1..i) /\ i \in {i} /\ Closed({i})
    BY <1>2, <1>4
  <2> HIDE DEF Closed
  <2>2. j \in {i}
    BY <1>1, <1>4, <2>1
  <2> QED BY <2>2
<1>5. ASSUME f # 0, NEW j \in Around(items, i), j # i PROVE j \in Around(items, f)
  <2>0. f \in 1..i
    BY <1>2, <1>5
  <2>1. j \in 1..f
    <3> DEFINE S == (1..f) \cup {i}
    <3>1. Closed(S)
      <4> SUFFICES ASSUME NEW k \in S, items[k].folder # 0 PROVE items[k].folder \in 1..f
        OBVIOUS
      <4>1. CASE k = i
        BY <1>2, <1>5, <4>1
      <4>2. CASE k \in 1..f
        <5>1. items[k].folder \in Nat /\ items[k].folder < k
          BY <1>2, <4>2
        <5> QED BY <1>2, <4>2, <5>1
      <4> QED BY <4>1, <4>2
    <3>2. S \in SUBSET (1..i) /\ i \in S
      BY <1>2
    <3> HIDE DEF Closed, S
    <3>3. j \in S
      BY <1>1, <1>5, <3>1, <3>2
    <3> QED BY <1>5, <3>3 DEF S
  <2>2. ASSUME NEW S \in SUBSET (1..f), f \in S, Closed(S) PROVE j \in S
    <3> DEFINE R == S \cup {i}
    <3>1. Closed(R) /\ i \in R
      BY <2>2
    <3>2. R \in SUBSET (1..i)
      <4>1. 1..f \subseteq 1..i /\ i \in 1..i
        BY <1>2
      <4> QED BY <4>1
    <3> HIDE DEF Closed, R
    <3>3. j \in R
      BY <1>1, <1>5, <3>1, <3>2
    <3> QED BY <1>5, <3>3 DEF R
  <2> HIDE DEF Closed, f
  <2> QED BY <1>1, <2>1, <2>2
<1>6. ASSUME f # 0, NEW j \in Around(items, f) PROVE j \in Around(items, i)
  <2>0. f \in 1..i /\ f \in 1..f
    BY <1>2, <1>6
  <2>1. j \in 1..f
    BY <1>1, <1>6
  <2>2. j \in 1..i
    BY <1>2, <2>1
  <2>3. ASSUME NEW S \in SUBSET (1..i), i \in S, Closed(S) PROVE j \in S
    <3> DEFINE R == {k \in S : k <= f}
    <3>1. f \in R
      BY <1>2, <1>6, <2>3
    <3>2. R \in SUBSET (1..f)
      <4>1. \A k \in 1..i : k <= f => k \in 1..f
        BY <1>2
      <4> QED BY <4>1
    <3>3. Closed(R)
      <4> SUFFICES ASSUME NEW k \in R, items[k].folder # 0 PROVE items[k].folder \in R
        OBVIOUS
      <4>1. items[k].folder \in S /\ k \in 1..i /\ k <= f
        BY <2>3
      <4>2. items[k].folder \in Nat /\ items[k].folder < k
        BY <1>2, <4>1
      <4> QED BY <1>2, <4>1, <4>2
    <3> HIDE DEF Closed, R
    <3>4. j \in R
      BY <1>1, <1>6, <3>1, <3>2, <3>3
    <3> QED BY <3>4 DEF R
  <2> HIDE DEF Closed, f
  <2> QED BY <1>1, <2>2, <2>3
<1>7. \A j \in Around(items, i) : j \in 1..i
  BY <1>1
<1> HIDE DEF Closed
<1> QED BY <1>3, <1>4, <1>5, <1>6, <1>7

\* The auth of the innermost of them that has one.
Declared(items, i) == {j \in Around(items, i) : items[j].auth # Absent}
Innermost(items, i, c) ==
  IF Declared(items, i) = {} THEN c
  ELSE items[CHOOSE j \in Declared(items, i) : \A l \in Declared(items, i) : l <= j].auth

\* The auth handed down to an item is the innermost one around it.
LEMMA HandedIsInnermost ==
  ASSUME NEW items, Foldered(items), NEW c, NEW w, w[0] = c,
         \A i \in 1..Len(items) :
           w[i] = IF items[i].auth # Absent THEN items[i].auth ELSE w[items[i].folder]
  PROVE  \A i \in 1..Len(items) : w[i] = Innermost(items, i, c)
<1> DEFINE N == Len(items)
           Good == {m \in Nat : \A i \in 1..N : i <= m => w[i] = Innermost(items, i, c)}
<1>1. N \in Nat /\ \A i \in 1..N : items[i].folder \in Nat /\ items[i].folder < i
  BY DEF Foldered
<1>2. 0 \in Good
  OBVIOUS
<1>3. ASSUME NEW m \in Nat, m \in Good PROVE m + 1 \in Good
  <2> SUFFICES ASSUME m + 1 \in 1..N PROVE w[m + 1] = Innermost(items, m + 1, c)
    BY <1>1, <1>3
  <2> DEFINE i == m + 1
             f == items[i].folder
             D == Declared(items, i)
  <2>0. i \in 1..N /\ f \in Nat /\ f < i /\ (f # 0 => f \in 1..N /\ f <= m)
    BY <1>1
  <2>1. w[i] = IF items[i].auth # Absent THEN items[i].auth ELSE w[f]
    BY <2>0
  <2>2. CASE items[i].auth # Absent
    <3>1. i \in D /\ \A j \in D : j \in 1..i
      BY <2>0, <2>2, AroundIs DEF Declared
    <3>2. \A j \in D : j <= i
      BY <3>1
    <3> HIDE DEF D
    <3>3. (CHOOSE j \in D : \A l \in D : l <= j) = i
      <4>1. \A j \in D : (\A l \in D : l <= j) => j = i
        BY <1>3, <3>1, <3>2
      <4> QED BY <3>1, <3>2, <4>1
    <3>4. Innermost(items, i, c) = items[i].auth
      BY <3>1, <3>3 DEF Innermost, D
    <3> QED BY <2>1, <2>2, <3>4
  <2>3. CASE items[i].auth = Absent /\ f = 0
    <3>1. Around(items, i) = {i}
      BY <2>0, <2>3, AroundIs
    <3>2. Declared(items, i) = {}
      BY <2>3, <3>1 DEF Declared
    <3> QED BY <2>1, <2>3, <3>2 DEF Innermost
  <2>4. CASE items[i].auth = Absent /\ f # 0
    <3>1. Around(items, i) = {i} \cup Around(items, f)
      BY <2>0, <2>4, AroundIs
    <3>2. Declared(items, i) = Declared(items, f)
      BY <2>4, <3>1 DEF Declared
    <3>3. Innermost(items, i, c) = Innermost(items, f, c)
      <4> DEFINE Pick(S) == IF S = {} THEN c
                            ELSE items[CHOOSE j \in S : \A l \in S : l <= j].auth
      <4>1. /\ Innermost(items, i, c) = Pick(Declared(items, i))
            /\ Innermost(items, f, c) = Pick(Declared(items, f))
        BY Zenon DEF Innermost
      <4> HIDE DEF Pick
      <4> QED BY <3>2, <4>1
    <3>4. w[f] = Innermost(items, f, c)
      BY <1>3, <2>0, <2>4
    <3> QED BY <2>1, <2>4, <3>3, <3>4
  <2> QED BY <2>2, <2>3, <2>4
<1> HIDE DEF Good
<1>4. Nat \subseteq Good
  BY <1>2, <1>3, SetInduction
<1>5. \A i \in 1..N : i \in Nat /\ i \in Good /\ i <= i
  BY <1>1, <1>4
<1> QED BY <1>5 DEF Good

\* effective_auth of an item is the innermost auth around it.
LEMMA EffectiveIsInnermost ==
  ASSUME NEW items, Foldered(items), NEW c, NEW i \in 1..Len(items)
  PROVE  EffectiveAuth(items, i, c) = Innermost(items, i, c)
<1>1. PICK w : /\ \A k \in 1..Len(items) : EffectiveAuth(items, k, c) = w[k]
               /\ w[0] = c
               /\ \A k \in 1..Len(items) :
                    w[k] = IF items[k].auth # Absent THEN items[k].auth ELSE w[items[k].folder]
  BY EffectiveIsHanded
<1>2. w[i] = Innermost(items, i, c)
  BY <1>1, HandedIsInnermost
<1> QED BY <1>1, <1>2

\* The auth of a request is that of the innermost folder around it that has one.
LEMMA RequestsInherit ==
  ASSUME NEW d, Sound(d), d.kind = "postman", NEW n \in DOMAIN Requests(d.items)
  PROVE  LET i == Requests(d.items)[n]
             auth == Innermost(d.items, i, d.auth)
         IN Discover(d)[n].authenticated <=>
              /\ auth # "noauth"
              /\ auth \notin {Absent, "untyped"} \/ d.items[i].header
<1> DEFINE i == Requests(d.items)[n]
           auth == Innermost(d.items, i, d.auth)
<1>1. Foldered(d.items) /\ i \in DOMAIN d.items
  BY CollectionsAreFoldered, RequestsAreItems
<1>2. i \in 1..Len(d.items)
  BY <1>1 DEF Foldered
<1>3. Discover(d)[n] = PostmanDraft(d.items[i], EffectiveAuth(d.items, i, d.auth))
  BY DEF Discover
<1> HIDE DEF i
<1>4. EffectiveAuth(d.items, i, d.auth) = auth
  BY <1>1, <1>2, EffectiveIsInnermost
<1> HIDE DEF auth
<1>5. PostmanDraft(d.items[i], auth).authenticated
        <=> auth # "noauth" /\ (auth \notin {Absent, "untyped"} \/ d.items[i].header)
  BY DEF PostmanDraft
<1>6. Discover(d)[n].authenticated
        <=> auth # "noauth" /\ (auth \notin {Absent, "untyped"} \/ d.items[i].header)
  BY <1>3, <1>4, <1>5
<1> QED BY <1>6 DEF i, auth

-----------------------------------------------------------------------------
(* Which sensitive fields are found below a schema.                        *)

\* What resolve_ref returns for a schema when some refs have been visited.
Follow(w, schemas, n, visited) ==
  LET r == schemas[n].ref
  IN IF r = Absent THEN n
     ELSE IF r \in DOMAIN schemas \ visited THEN w[visited \cup {r}][r]
     ELSE Absent

IsFollowed(w, schemas) ==
  w = [visited \in SUBSET DOMAIN schemas |->
         [n \in DOMAIN schemas |-> Follow(w, schemas, n, visited)]]

\* A ref that is visited leaves fewer to visit.
LEMMA FewerLeft ==
  ASSUME NEW D, IsFiniteSet(D), NEW v \in SUBSET D, NEW r \in D \ v, NEW k \in Nat,
         Cardinality(D \ v) <= k + 1
  PROVE  Cardinality(D \ (v \cup {r})) <= k
<1>1. IsFiniteSet(D \ v) /\ D \ (v \cup {r}) = (D \ v) \ {r}
  BY FS_Difference
<1>2. Cardinality((D \ v) \ {r}) = Cardinality(D \ v) - 1
  BY <1>1, FS_RemoveElement
<1>3. Cardinality(D \ v) \in Nat
  BY <1>1, FS_CardinalityType
<1>4. Cardinality(D \ (v \cup {r})) = Cardinality(D \ v) - 1
  BY <1>1, <1>2
<1> DEFINE a == Cardinality(D \ (v \cup {r}))
           b == Cardinality(D \ v)
<1>5. a = b - 1 /\ b \in Nat /\ b <= k + 1
  BY <1>3, <1>4
<1> HIDE DEF a, b
<1>6. a <= k
  BY <1>5
<1> QED BY <1>6 DEF a

\* Following refs has a result, as every ref followed leaves fewer to visit.
LEMMA FollowedExists ==
  ASSUME NEW schemas, IsFiniteSet(DOMAIN schemas)
  PROVE  \E w : IsFollowed(w, schemas)
<1> DEFINE D == DOMAIN schemas
           Right(w, k) == /\ w = [v \in SUBSET D |-> [n \in D |-> w[v][n]]]
                          /\ \A n \in D, v \in SUBSET D :
                               Cardinality(D \ v) <= k => w[v][n] = Follow(w, schemas, n, v)
           Once(w) == [v \in SUBSET D |-> [n \in D |-> Follow(w, schemas, n, v)]]
           Good == {k \in Nat : \E w : Right(w, k)}
<1>1. ASSUME NEW w
      PROVE  /\ Once(w) = [v \in SUBSET D |-> [n \in D |-> Once(w)[v][n]]]
             /\ \A n \in D, v \in SUBSET D : Once(w)[v][n] = Follow(w, schemas, n, v)
  OBVIOUS
<1> HIDE DEF Once
<1>2. 0 \in Good
  <2> DEFINE w == Once(<<>>)
  <2>1. ASSUME NEW n \in D, NEW v \in SUBSET D, Cardinality(D \ v) <= 0
        PROVE  w[v][n] = Follow(w, schemas, n, v)
    <3>1. IsFiniteSet(D \ v)
      BY FS_Difference
    <3>2. D \ v = {}
      BY <2>1, <3>1, FS_EmptySet, FS_CardinalityType
    <3>3. Follow(w, schemas, n, v) = Follow(<<>>, schemas, n, v)
      BY <3>2 DEF Follow
    <3> QED BY <1>1, <3>3
  <2>2. w = [v \in SUBSET D |-> [n \in D |-> w[v][n]]]
    BY <1>1
  <2> HIDE DEF w
  <2> QED BY <2>1, <2>2
<1>3. ASSUME NEW k \in Nat, k \in Good PROVE k + 1 \in Good
  <2>1. PICK w : Right(w, k)
    BY <1>3
  <2> DEFINE u == Once(w)
  <2>2. ASSUME NEW n \in D, NEW v \in SUBSET D, Cardinality(D \ v) <= k + 1
        PROVE  u[v][n] = Follow(u, schemas, n, v)
    <3>1. ASSUME NEW r \in D \ v PROVE u[v \cup {r}][r] = w[v \cup {r}][r]
      <4>1. Cardinality(D \ (v \cup {r})) <= k
        BY <2>2, FewerLeft
      <4>2. v \cup {r} \in SUBSET D
        OBVIOUS
      <4>3. u[v \cup {r}][r] = Follow(w, schemas, r, v \cup {r})
        BY <1>1, <4>2
      <4>4. w[v \cup {r}][r] = Follow(w, schemas, r, v \cup {r})
        BY <2>1, <4>1, <4>2
      <4> QED BY <4>3, <4>4
    <3>2. u[v][n] = Follow(w, schemas, n, v)
      BY <1>1
    <3> HIDE DEF u, Right
    <3>3. Follow(w, schemas, n, v) = Follow(u, schemas, n, v)
      BY <3>1 DEF Follow
    <3> QED BY <3>2, <3>3
  <2>3. u = [v \in SUBSET D |-> [n \in D |-> u[v][n]]]
    BY <1>1
  <2> HIDE DEF u
  <2>4. Right(u, k + 1)
    BY <2>2, <2>3
  <2> HIDE DEF Right
  <2> QED BY <2>4
<1> HIDE DEF Good, Right
<1>4. Nat \subseteq Good
  BY <1>2, <1>3, SetInduction
<1>5. Cardinality(D) \in Nat
  BY FS_CardinalityType
<1>6. PICK w : Right(w, Cardinality(D))
  BY <1>4, <1>5 DEF Good
<1>7. ASSUME NEW n \in D, NEW v \in SUBSET D PROVE w[v][n] = Follow(w, schemas, n, v)
  <2>1. D \ v \in SUBSET D
    OBVIOUS
  <2>2. Cardinality(D \ v) <= Cardinality(D)
    BY <2>1, FS_Subset
  <2> QED BY <1>6, <2>2 DEF Right
<1>8. w = [v \in SUBSET D |-> [n \in D |-> w[v][n]]]
  BY <1>6 DEF Right
<1>9. w = [v \in SUBSET D |-> [n \in D |-> Follow(w, schemas, n, v)]]
  BY <1>7, <1>8
<1> QED BY <1>9 DEF IsFollowed

\* What follows the refs for ResolveRef.
Resolves(w, schemas) ==
  /\ \A n : ResolveRef(schemas, n) = w[{}][n]
  /\ \A n \in DOMAIN schemas, v \in SUBSET DOMAIN schemas : w[v][n] = Follow(w, schemas, n, v)

\* ResolveRef is what following the refs returns.
LEMMA ResolvedIsFollowed ==
  ASSUME NEW schemas, IsFiniteSet(DOMAIN schemas)
  PROVE  \E w : Resolves(w, schemas)
<1> DEFINE w == CHOOSE f : IsFollowed(f, schemas)
<1>1. \A n : ResolveRef(schemas, n) = w[{}][n]
  BY DEF ResolveRef, IsFollowed, Follow
<1>2. IsFollowed(w, schemas)
  BY FollowedExists
<1> HIDE DEF w
<1>3. \A n \in DOMAIN schemas, v \in SUBSET DOMAIN schemas : w[v][n] = Follow(w, schemas, n, v)
  BY <1>2 DEF IsFollowed
<1> QED BY <1>1, <1>3 DEF Resolves

\* What holds of a set of visited refs if it holds of it with any other added,
\* holds of every set.
LEMMA VisitInduction ==
  ASSUME NEW D, IsFiniteSet(D), NEW Good,
         \A v \in SUBSET D : (\A r \in D \ v : v \cup {r} \in Good) => v \in Good
  PROVE  SUBSET D \subseteq Good
<1> DEFINE T == {k \in Nat : \A v \in SUBSET D : Cardinality(D \ v) <= k => v \in Good}
<1>1. 0 \in T
  <2> SUFFICES ASSUME NEW v \in SUBSET D, Cardinality(D \ v) <= 0 PROVE v \in Good
    OBVIOUS
  <2>1. IsFiniteSet(D \ v)
    BY FS_Difference
  <2>2. D \ v = {}
    BY <2>1, FS_EmptySet, FS_CardinalityType
  <2> QED BY <2>2
<1>2. ASSUME NEW k \in Nat, k \in T PROVE k + 1 \in T
  <2> SUFFICES ASSUME NEW v \in SUBSET D, Cardinality(D \ v) <= k + 1 PROVE v \in Good
    OBVIOUS
  <2>1. ASSUME NEW r \in D \ v PROVE v \cup {r} \in Good
    <3>1. Cardinality(D \ (v \cup {r})) <= k
      BY FewerLeft
    <3> QED BY <1>2, <3>1
  <2> QED BY <2>1
<1> HIDE DEF T
<1>3. Nat \subseteq T
  BY <1>1, <1>2, SetInduction
<1> SUFFICES ASSUME NEW v \in SUBSET D PROVE v \in Good
  OBVIOUS
<1>4. IsFiniteSet(D \ v)
  BY FS_Difference
<1>5. Cardinality(D \ v) \in Nat
  BY <1>4, FS_CardinalityType
<1>6. Cardinality(D \ v) \in T /\ Cardinality(D \ v) <= Cardinality(D \ v)
  BY <1>3, <1>5
<1> QED BY <1>6 DEF T

\* A set that no ref leaves.
Closed(schemas, S) == \A m \in S : schemas[m].ref \in DOMAIN schemas => schemas[m].ref \in S

\* A chain of refs leads to its first schema, one ref on, and where that leads.
LEMMA RefsLeadOn ==
  ASSUME NEW schemas, NEW n \in DOMAIN schemas
  PROVE  /\ n \in Refs(schemas, n)
         /\ Refs(schemas, n) \subseteq DOMAIN schemas
         /\ \A S \in SUBSET DOMAIN schemas :
              n \in S /\ Closed(schemas, S) => Refs(schemas, n) \subseteq S
         /\ \A m \in Refs(schemas, n) :
              /\ schemas[m].ref \in DOMAIN schemas => schemas[m].ref \in Refs(schemas, n)
              /\ Refs(schemas, m) \subseteq Refs(schemas, n)
<1> DEFINE D == DOMAIN schemas
<1>1. ASSUME NEW m \in D
      PROVE  Refs(schemas, m) = {l \in D : \A S \in SUBSET D :
                                   (m \in S /\ Closed(schemas, S)) => l \in S}
  BY Zenon DEF Refs, Closed
<1>2. \A m \in Refs(schemas, n) : schemas[m].ref \in D => schemas[m].ref \in Refs(schemas, n)
  BY <1>1 DEF Closed
<1>3. \A m \in Refs(schemas, n) : Refs(schemas, m) \subseteq Refs(schemas, n)
  BY <1>1
<1>4. \A S \in SUBSET D : n \in S /\ Closed(schemas, S) => Refs(schemas, n) \subseteq S
  BY <1>1
<1>5. n \in Refs(schemas, n) /\ Refs(schemas, n) \subseteq D
  BY <1>1
<1> QED BY <1>2, <1>3, <1>4, <1>5

\* Where a chain of refs ends: nowhere, or at a schema that is no ref and to
\* which the first leads.  Fewer visited refs make no difference to a chain that
\* ends, and one more only if the chain comes by that ref.
EndsAt(w, schemas, n, v) ==
  w[v][n] # Absent =>
    /\ w[v][n] \in Refs(schemas, n)
    /\ schemas[w[v][n]].ref = Absent
    /\ \A u \in SUBSET v : w[u][n] = w[v][n]
    /\ \A x \in DOMAIN schemas :
         w[v \cup {x}][n] = w[v][n]
         \/ \E later \in SUBSET DOMAIN schemas : x \in later /\ w[later][x] = w[v][n]

\* All chains of refs end like that.
LEMMA ChainsEnd ==
  ASSUME NEW schemas, IsFiniteSet(DOMAIN schemas), NEW w,
         \A n \in DOMAIN schemas, v \in SUBSET DOMAIN schemas :
           w[v][n] = Follow(w, schemas, n, v)
  PROVE  \A n \in DOMAIN schemas, v \in SUBSET DOMAIN schemas : EndsAt(w, schemas, n, v)
<1> DEFINE D == DOMAIN schemas
           Good == {v \in SUBSET D : \A n \in D : EndsAt(w, schemas, n, v)}
<1>1. ASSUME NEW n \in D, NEW v \in SUBSET D
      PROVE  /\ schemas[n].ref = Absent => w[v][n] = n
             /\ schemas[n].ref # Absent /\ schemas[n].ref \in D \ v
                  => w[v][n] = w[v \cup {schemas[n].ref}][schemas[n].ref]
             /\ schemas[n].ref # Absent /\ schemas[n].ref \notin D \ v => w[v][n] = Absent
  BY DEF Follow
<1>2. ASSUME NEW v \in SUBSET D, \A r \in D \ v : v \cup {r} \in Good, NEW n \in D,
             w[v][n] # Absent
      PROVE  /\ w[v][n] \in Refs(schemas, n)
             /\ schemas[w[v][n]].ref = Absent
             /\ \A u \in SUBSET v : w[u][n] = w[v][n]
             /\ \A x \in D : w[v \cup {x}][n] = w[v][n]
                  \/ \E later \in SUBSET D : x \in later /\ w[later][x] = w[v][n]
  <2> DEFINE r == schemas[n].ref
  <2>1. CASE r = Absent
    <3>1. \A u \in SUBSET D : w[u][n] = n
      BY <1>1, <2>1
    <3>2. n \in Refs(schemas, n)
      BY RefsLeadOn
    <3>3. \A x \in D : v \cup {x} \in SUBSET D
      OBVIOUS
    <3> QED BY <2>1, <3>1, <3>2, <3>3
  <2>2. CASE r # Absent
    <3>1. r \in D \ v /\ w[v][n] = w[v \cup {r}][r]
      BY <1>1, <1>2, <2>2
    <3> DEFINE t == v \cup {r}
               e == w[v][n]
    <3>2. EndsAt(w, schemas, r, t)
      BY <1>2, <3>1
    <3>3. /\ w[t][r] \in Refs(schemas, r) /\ schemas[w[t][r]].ref = Absent
          /\ \A u \in SUBSET t : w[u][r] = w[t][r]
          /\ \A x \in D : w[t \cup {x}][r] = w[t][r]
               \/ \E later \in SUBSET D : x \in later /\ w[later][x] = w[t][r]
      BY <1>2, <3>1, <3>2 DEF EndsAt
    <3>4. r \in Refs(schemas, n)
      BY <3>1, RefsLeadOn
    <3>5. w[v][n] \in Refs(schemas, n)
      BY <3>1, <3>3, <3>4, RefsLeadOn
    <3>6. ASSUME NEW u \in SUBSET v PROVE w[u][n] = w[v][n]
      <4>1. u \in SUBSET D /\ r \in D \ u /\ u \cup {r} \in SUBSET t
        BY <3>1
      <4>2. w[u][n] = w[u \cup {r}][r]
        BY <1>1, <2>2, <4>1
      <4> QED BY <3>1, <3>3, <4>1, <4>2
    <3>7. ASSUME NEW x \in D
          PROVE  w[v \cup {x}][n] = w[v][n]
                 \/ \E later \in SUBSET D : x \in later /\ w[later][x] = w[v][n]
      <4>1. CASE x = r
        <5>1. t \in SUBSET D /\ r \in t
          BY <3>1
        <5> QED BY <3>1, <4>1, <5>1
      <4>2. CASE x # r
        <5>1. v \cup {x} \in SUBSET D /\ r \in D \ (v \cup {x})
          BY <3>1, <4>2
        <5>2. w[v \cup {x}][n] = w[(v \cup {x}) \cup {r}][r]
          BY <1>1, <2>2, <5>1
        <5>3. (v \cup {x}) \cup {r} = t \cup {x}
          OBVIOUS
        <5> QED BY <3>1, <3>3, <5>2, <5>3
      <4> QED BY <4>1, <4>2
    <3> QED BY <3>1, <3>3, <3>5, <3>6, <3>7
  <2> QED BY <2>1, <2>2
<1>3. \A v \in SUBSET D : (\A r \in D \ v : v \cup {r} \in Good) => v \in Good
  BY <1>2 DEF EndsAt
<1>4. IsFiniteSet(D)
  OBVIOUS
<1> HIDE DEF Good, D
<1>5. SUBSET D \subseteq Good
  BY <1>3, <1>4, VisitInduction
<1> QED BY <1>5 DEF Good, D

\* What ResolveRef returns: nothing, or a schema that is no ref, to which the
\* first leads; a schema that is no ref for itself; and for a ref what it returns
\* for the target.
LEMMA ResolveRefIs ==
  ASSUME NEW schemas, Fit(schemas), NEW n \in DOMAIN schemas
  PROVE  /\ ResolveRef(schemas, n) # Absent =>
              /\ ResolveRef(schemas, n) \in Refs(schemas, n)
              /\ ResolveRef(schemas, n) \in DOMAIN schemas
              /\ schemas[ResolveRef(schemas, n)].ref = Absent
         /\ schemas[n].ref = Absent => ResolveRef(schemas, n) = n
         /\ schemas[n].ref \in DOMAIN schemas =>
              ResolveRef(schemas, n) = ResolveRef(schemas, schemas[n].ref)
<1> DEFINE D == DOMAIN schemas
<1>1. IsFiniteSet(D) /\ Absent \notin D
  BY DEF Fit
<1>2. PICK w : Resolves(w, schemas)
  BY <1>1, ResolvedIsFollowed
<1>3. /\ \A m : ResolveRef(schemas, m) = w[{}][m]
      /\ \A m \in D, v \in SUBSET D : w[v][m] = Follow(w, schemas, m, v)
  BY <1>2 DEF Resolves
<1>4. \A m \in D, v \in SUBSET D : EndsAt(w, schemas, m, v)
  BY <1>1, <1>3, ChainsEnd
<1>5. {} \in SUBSET D
  OBVIOUS
<1>6. ResolveRef(schemas, n) # Absent =>
        /\ ResolveRef(schemas, n) \in Refs(schemas, n)
        /\ ResolveRef(schemas, n) \in D
        /\ schemas[ResolveRef(schemas, n)].ref = Absent
  <2>1. EndsAt(w, schemas, n, {})
    BY <1>4, <1>5
  <2>2. Refs(schemas, n) \subseteq D
    BY RefsLeadOn
  <2> QED BY <1>3, <2>1, <2>2 DEF EndsAt
<1>7. schemas[n].ref = Absent => ResolveRef(schemas, n) = n
  BY <1>3, <1>5 DEF Follow
<1>8. ASSUME schemas[n].ref \in D
      PROVE  ResolveRef(schemas, n) = ResolveRef(schemas, schemas[n].ref)
  <2> DEFINE r == schemas[n].ref
  <2>1. r # Absent /\ r \in D \ {}
    BY <1>1, <1>8
  <2>2. {} \cup {r} = {r} /\ {r} \in SUBSET D
    BY <1>8
  <2>3. w[{}][n] = w[{r}][r]
    <3>1. w[{}][n] = Follow(w, schemas, n, {})
      BY <1>3, <1>5
    <3> QED BY <2>1, <2>2, <3>1 DEF Follow
  <2> HIDE DEF r
  <2>4. w[{}][r] # Absent => w[{r}][r] = w[{}][r]
    <3>1. EndsAt(w, schemas, r, {})
      BY <1>4, <1>5, <2>1
    <3>2. w[{}][r] # Absent =>
            \/ w[{} \cup {r}][r] = w[{}][r]
            \/ \E later \in SUBSET D : r \in later /\ w[later][r] = w[{}][r]
      BY <2>1, <3>1 DEF EndsAt
    <3>3. ASSUME w[{}][r] # Absent, NEW later \in SUBSET D, r \in later, w[later][r] = w[{}][r]
          PROVE  w[{r}][r] = w[{}][r]
      <4>1. EndsAt(w, schemas, r, later)
        BY <1>4, <2>1
      <4>2. {r} \in SUBSET later
        BY <3>3
      <4> QED BY <3>3, <4>1, <4>2 DEF EndsAt
    <3> QED BY <2>2, <3>2, <3>3
  <2>5. w[{r}][r] # Absent => w[{}][r] = w[{r}][r]
    <3>1. EndsAt(w, schemas, r, {r})
      BY <1>4, <2>1, <2>2
    <3>2. {} \in SUBSET {r}
      OBVIOUS
    <3> QED BY <3>1, <3>2 DEF EndsAt
  <2>6. w[{r}][r] = w[{}][r]
    BY <2>4, <2>5
  <2> QED BY <1>3, <2>3, <2>6 DEF r
<1> QED BY <1>6, <1>7, <1>8

\* So ResolveRef finds the end of a chain of refs, if it has one.
LEMMA EndsAre ==
  ASSUME NEW schemas, Fit(schemas), NEW n \in DOMAIN schemas
  PROVE  Ends(schemas, n) = {ResolveRef(schemas, n)} \ {Absent}
<1> DEFINE D == DOMAIN schemas
           e == ResolveRef(schemas, n)
           Same == {m \in D : ResolveRef(schemas, m) = e}
<1>1. e # Absent => e \in Ends(schemas, n)
  BY ResolveRefIs DEF Ends
<1>2. Refs(schemas, n) \subseteq Same
  <2>1. n \in Same /\ Same \in SUBSET D
    OBVIOUS
  <2>2. Closed(schemas, Same)
    BY ResolveRefIs DEF Closed
  <2> HIDE DEF Same
  <2> QED BY <2>1, <2>2, RefsLeadOn
<1>3. ASSUME NEW m \in Ends(schemas, n) PROVE m = e /\ m # Absent
  <2>1. m \in D /\ schemas[m].ref = Absent /\ ResolveRef(schemas, m) = e
    BY <1>2 DEF Ends
  <2>2. ResolveRef(schemas, m) = m
    BY <2>1, ResolveRefIs
  <2> QED BY <2>1, <2>2 DEF Fit
<1> HIDE DEF e
<1> QED BY <1>1, <1>3 DEF e

\* What collect_fields finds below a schema at a depth.
Collect(w, schemas, n, depth) ==
  LET resolved == ResolveRef(schemas, n)
      properties == schemas[resolved].properties
      nested == {ResolveRef(schemas, properties[f]) : f \in DOMAIN properties} \ {Absent}
  IN IF depth > MaxDepth \/ resolved = Absent THEN {}
     ELSE IF schemas[resolved].items # Absent
          THEN w[depth + 1][schemas[resolved].items]
     ELSE (DOMAIN properties \cap DOMAIN Category) \cup UNION {w[depth + 1][q] : q \in nested}

IsCollected(w, schemas) ==
  w = [depth \in 0..(MaxDepth + 1) |-> [n \in DOMAIN schemas |-> Collect(w, schemas, n, depth)]]

\* The fields are collected from the greatest depth up.
LEMMA CollectedExists ==
  ASSUME NEW schemas
  PROVE  \E w : IsCollected(w, schemas)
<1> DEFINE D == DOMAIN schemas
           M == MaxDepth + 1
           Right(w, k) == /\ w = [d \in 0..M |-> [n \in D |-> w[d][n]]]
                          /\ \A n \in D, d \in 0..M :
                               M - d <= k => w[d][n] = Collect(w, schemas, n, d)
           Once(w) == [d \in 0..M |-> [n \in D |-> Collect(w, schemas, n, d)]]
           Good == {k \in Nat : \E w : Right(w, k)}
<1>0. MaxDepth \in Nat /\ M \in Nat
  BY SpecDocumentsAssumption
<1>1. ASSUME NEW w
      PROVE  /\ Once(w) = [d \in 0..M |-> [n \in D |-> Once(w)[d][n]]]
             /\ \A n \in D, d \in 0..M : Once(w)[d][n] = Collect(w, schemas, n, d)
  OBVIOUS
<1> HIDE DEF Once
<1>2. 0 \in Good
  <2> DEFINE w == Once(<<>>)
  <2>1. ASSUME NEW n \in D, NEW d \in 0..M, M - d <= 0
        PROVE  w[d][n] = Collect(w, schemas, n, d)
    <3>1. d > MaxDepth
      BY <1>0, <2>1
    <3>2. Collect(w, schemas, n, d) = {} /\ Collect(<<>>, schemas, n, d) = {}
      BY <3>1 DEF Collect
    <3> QED BY <1>1, <3>2
  <2>2. w = [d \in 0..M |-> [n \in D |-> w[d][n]]]
    BY <1>1
  <2> HIDE DEF w
  <2>3. Right(w, 0)
    BY <2>1, <2>2
  <2> HIDE DEF Right
  <2> QED BY <2>3
<1>3. ASSUME NEW k \in Nat, k \in Good PROVE k + 1 \in Good
  <2>1. PICK w : Right(w, k)
    BY <1>3
  <2> DEFINE u == Once(w)
  <2>2. ASSUME NEW n \in D, NEW d \in 0..M, M - d <= k + 1
        PROVE  u[d][n] = Collect(u, schemas, n, d)
    <3>1. CASE d > MaxDepth
      <4>1. Collect(w, schemas, n, d) = {} /\ Collect(u, schemas, n, d) = {}
        BY <3>1 DEF Collect
      <4> QED BY <1>1, <4>1
    <3>2. CASE ~(d > MaxDepth)
      <4>1. d + 1 \in 0..M /\ M - (d + 1) <= k
        BY <1>0, <2>2, <3>2
      <4>2. u[d + 1] = w[d + 1]
        <5>1. \A m \in D : u[d + 1][m] = w[d + 1][m]
          BY <1>1, <2>1, <4>1
        <5>2. w[d + 1] = [m \in D |-> w[d + 1][m]] /\ u[d + 1] = [m \in D |-> u[d + 1][m]]
          <6>1. w = [c \in 0..M |-> [m \in D |-> w[c][m]]] /\ u = [c \in 0..M |-> [m \in D |-> u[c][m]]]
            BY <1>1, <2>1
          <6> HIDE DEF u, Right
          <6> QED BY <4>1, <6>1
        <5> HIDE DEF u, Right
        <5> QED BY <5>1, <5>2
      <4>3. u[d][n] = Collect(w, schemas, n, d)
        BY <1>1
      <4> HIDE DEF u, Right
      <4>4. Collect(w, schemas, n, d) = Collect(u, schemas, n, d)
        BY <4>2, Zenon DEF Collect
      <4> QED BY <4>3, <4>4
    <3> QED BY <3>1, <3>2
  <2>3. u = [d \in 0..M |-> [n \in D |-> u[d][n]]]
    BY <1>1
  <2> HIDE DEF u
  <2>4. Right(u, k + 1)
    BY <2>2, <2>3
  <2> HIDE DEF Right
  <2> QED BY <2>4
<1> HIDE DEF Good, Right
<1>4. Nat \subseteq Good
  BY <1>2, <1>3, SetInduction
<1>6. PICK w : Right(w, M)
  BY <1>0, <1>4 DEF Good
<1>7. ASSUME NEW n \in D, NEW d \in 0..M PROVE w[d][n] = Collect(w, schemas, n, d)
  <2>1. M - d <= M
    BY <1>0
  <2> QED BY <1>6, <2>1 DEF Right
<1>8. w = [d \in 0..M |-> [n \in D |-> w[d][n]]]
  BY <1>6 DEF Right
<1>9. w = [d \in 0..M |-> [n \in D |-> Collect(w, schemas, n, d)]]
  BY <1>7, <1>8
<1> QED BY <1>9 DEF IsCollected

\* The schemas right below a schema that is no ref, and its own fields.
Below(schemas, e) ==
  {ResolveRef(schemas, t) : t \in Nested(schemas, e)} \ {Absent}
Named(schemas, e) ==
  IF schemas[e].items # Absent THEN {} ELSE DOMAIN schemas[e].properties \cap DOMAIN Category

\* What is collected, depth by depth: nothing below MaxDepth; below a schema that
\* is no ref its own fields and what is collected below the next ones, and below
\* a ref what is below the end of its chain.
Collects(w, schemas) ==
  /\ \A n : CollectFields(schemas, n) = w[0][n]
  /\ \A n \in DOMAIN schemas : w[MaxDepth + 1][n] = {}
  /\ \A n \in DOMAIN schemas, d \in 0..MaxDepth :
       schemas[n].ref = Absent =>
         w[d][n] = Named(schemas, n) \cup UNION {w[d + 1][q] : q \in Below(schemas, n)}
  /\ \A n \in DOMAIN schemas, d \in 0..(MaxDepth + 1) :
       w[d][n] = IF ResolveRef(schemas, n) = Absent THEN {} ELSE w[d][ResolveRef(schemas, n)]

\* CollectFields collects like that.
LEMMA CollectedIs ==
  ASSUME NEW schemas, Fit(schemas)
  PROVE  \E w : Collects(w, schemas)
<1> DEFINE D == DOMAIN schemas
           M == MaxDepth + 1
           w == CHOOSE f : IsCollected(f, schemas)
<1>0. MaxDepth \in Nat /\ M \in Nat /\ 0..MaxDepth \subseteq 0..M /\ M \in 0..M
  BY SpecDocumentsAssumption
<1>1. \A n : CollectFields(schemas, n) = w[0][n]
  BY Zenon DEF CollectFields, IsCollected, Collect
<1>2. IsCollected(w, schemas)
  BY CollectedExists
<1> HIDE DEF w
<1>3. \A n \in D, d \in 0..M : w[d][n] = Collect(w, schemas, n, d)
  <2>1. w = [d \in 0..M |-> [n \in D |-> Collect(w, schemas, n, d)]]
    BY <1>2, Zenon DEF IsCollected
  <2> DEFINE rows == [d \in 0..M |-> [n \in D |-> Collect(w, schemas, n, d)]]
  <2> SUFFICES ASSUME NEW n \in D, NEW d \in 0..M PROVE w[d][n] = Collect(w, schemas, n, d)
    OBVIOUS
  <2>2. rows[d][n] = Collect(w, schemas, n, d)
    OBVIOUS
  <2>3. w = rows
    BY <2>1
  <2> HIDE DEF rows
  <2> QED BY <2>2, <2>3
<1>4. ASSUME NEW n \in D PROVE w[M][n] = {}
  <2>1. M > MaxDepth
    BY <1>0
  <2>2. w[M][n] = Collect(w, schemas, n, M)
    BY <1>0, <1>3
  <2> QED BY <2>1, <2>2 DEF Collect
<1>5. ASSUME NEW n \in D, NEW d \in 0..M
      PROVE  w[d][n] = IF ResolveRef(schemas, n) = Absent THEN {}
                       ELSE w[d][ResolveRef(schemas, n)]
  <2> DEFINE e == ResolveRef(schemas, n)
  <2>1. CASE e = Absent
    <3>1. Collect(w, schemas, n, d) = {}
      BY <2>1 DEF Collect
    <3> QED BY <1>3, <2>1, <3>1
  <2>2. CASE e # Absent
    <3>1. e \in D /\ ResolveRef(schemas, e) = e
      <4>1. e \in D /\ schemas[e].ref = Absent
        BY <2>2, ResolveRefIs
      <4> HIDE DEF e
      <4> QED BY <4>1, ResolveRefIs
    <3>2. Collect(w, schemas, n, d) = Collect(w, schemas, e, d)
      BY <3>1, Zenon DEF Collect
    <3> QED BY <1>3, <2>2, <3>1, <3>2
  <2> QED BY <2>1, <2>2
<1>6. ASSUME NEW n \in D, NEW d \in 0..MaxDepth, schemas[n].ref = Absent
      PROVE  w[d][n] = Named(schemas, n) \cup UNION {w[d + 1][q] : q \in Below(schemas, n)}
  <2>1. ResolveRef(schemas, n) = n /\ n # Absent /\ ~(d > MaxDepth) /\ d \in 0..M /\ d + 1 \in 0..M
    BY <1>0, <1>6, ResolveRefIs DEF Fit
  <2>2. w[d][n] = Collect(w, schemas, n, d)
    BY <1>3, <2>1
  <2>3. CASE schemas[n].items # Absent
    <3> DEFINE i == schemas[n].items
               e == ResolveRef(schemas, i)
    <3>1. w[d][n] = w[d + 1][i]
      BY <2>1, <2>2, <2>3 DEF Collect
    <3>2. i \in D
      BY <2>3 DEF Fit
    <3>3. w[d + 1][i] = IF e = Absent THEN {} ELSE w[d + 1][e]
      BY <1>5, <2>1, <3>2
    <3>4. Below(schemas, n) = {e} \ {Absent} /\ Named(schemas, n) = {}
      BY <1>6, <2>3 DEF Below, Named, Nested
    <3> HIDE DEF i, e
    <3> QED BY <3>1, <3>3, <3>4
  <2>4. CASE schemas[n].items = Absent
    <3> DEFINE p == schemas[n].properties
               nested == {ResolveRef(schemas, p[f]) : f \in DOMAIN p} \ {Absent}
    <3>1. w[d][n] = (DOMAIN p \cap DOMAIN Category) \cup UNION {w[d + 1][q] : q \in nested}
      BY <2>1, <2>2, <2>4 DEF Collect
    <3>2. Below(schemas, n) = nested /\ Named(schemas, n) = DOMAIN p \cap DOMAIN Category
      BY <1>6, <2>4 DEF Below, Named, Nested
    <3> HIDE DEF p, nested
    <3> QED BY <3>1, <3>2
  <2> QED BY <2>3, <2>4
<1> QED BY <1>1, <1>4, <1>5, <1>6 DEF Collects

\* The levels below a schema, with what ResolveRef returns.
Step(schemas, L) == UNION {Below(schemas, m) : m \in L}
IsLeveled(w, schemas, n) ==
  w = [d \in 0..MaxDepth |->
         IF d = 0 THEN Ends(schemas, n)
         ELSE UNION {UNION {Ends(schemas, t) : t \in Nested(schemas, m)} : m \in w[d - 1]}]

\* There are as many levels as MaxDepth says.
LEMMA LevelsExist ==
  ASSUME NEW schemas, NEW n
  PROVE  \E w : IsLeveled(w, schemas, n)
<1> DEFINE D == 0..MaxDepth
           NextLevel(w, d) ==
             IF d = 0 THEN Ends(schemas, n)
             ELSE UNION {UNION {Ends(schemas, t) : t \in Nested(schemas, m)} : m \in w[d - 1]}
           Once(w) == [d \in D |-> NextLevel(w, d)]
           Right(w, k) == /\ w = [d \in D |-> w[d]]
                          /\ \A d \in D : d <= k => w[d] = NextLevel(w, d)
           Good == {k \in Nat : \E w : Right(w, k)}
<1>0. MaxDepth \in Nat
  BY SpecDocumentsAssumption DEF SpecDocumentsAssumption
<1>1. ASSUME NEW w
      PROVE  Once(w) = [d \in D |-> Once(w)[d]] /\ \A d \in D : Once(w)[d] = NextLevel(w, d)
  <2> HIDE DEF NextLevel
  <2> QED OBVIOUS
<1>2. \A u, v : NextLevel(u, 0) = NextLevel(v, 0)
  OBVIOUS
<1>3. \A u, v, d : u[d - 1] = v[d - 1] => NextLevel(u, d) = NextLevel(v, d)
  BY Zenon
<1> HIDE DEF NextLevel, Once
<1>4. 0 \in Good
  <2> DEFINE w == Once(<<>>)
  <2>1. w = [d \in D |-> w[d]] /\ \A d \in D : w[d] = NextLevel(<<>>, d)
    BY <1>1
  <2> HIDE DEF w
  <2>2. \A d \in D : d <= 0 => w[d] = NextLevel(w, d)
    <3> SUFFICES ASSUME NEW d \in D, d <= 0 PROVE w[d] = NextLevel(w, d)
      OBVIOUS
    <3>1. d = 0
      BY <1>0
    <3> QED BY <1>2, <2>1, <3>1
  <2>3. Right(w, 0)
    BY <2>1, <2>2
  <2> QED BY <2>3
<1>5. ASSUME NEW k \in Nat, k \in Good PROVE k + 1 \in Good
  <2>1. PICK u : Right(u, k)
    BY <1>5
  <2> DEFINE w == Once(u)
  <2>2. w = [d \in D |-> w[d]] /\ \A d \in D : w[d] = NextLevel(u, d)
    BY <1>1
  <2> HIDE DEF w
  <2>3. ASSUME NEW d \in D, d <= k + 1 PROVE w[d] = NextLevel(w, d)
    <3>1. CASE d = 0
      BY <1>2, <2>2, <3>1
    <3>2. CASE d # 0
      <4>1. d - 1 \in D /\ d - 1 <= k
        BY <1>0, <2>3, <3>2
      <4>2. w[d - 1] = u[d - 1]
        BY <2>1, <2>2, <4>1
      <4>3. NextLevel(u, d) = NextLevel(w, d)
        BY <1>3, <4>2
      <4> QED BY <2>2, <4>3
    <3> QED BY <3>1, <3>2
  <2>4. Right(w, k + 1)
    BY <2>2, <2>3
  <2> HIDE DEF Right
  <2> QED BY <2>4
<1> HIDE DEF Good, Right
<1>6. Nat \subseteq Good
  BY <1>4, <1>5, SetInduction
<1>7. PICK w : Right(w, MaxDepth)
  BY <1>0, <1>6 DEF Good
<1>8. w = [d \in D |-> w[d]] /\ \A d \in D : w[d] = NextLevel(w, d)
  BY <1>0, <1>7 DEF Right
<1>9. w = [d \in D |-> NextLevel(w, d)]
  BY <1>8
<1> QED BY <1>9 DEF IsLeveled, NextLevel

\* The first level is the end of the schema, each other what is right below the
\* one before; all of them hold schemas that are no refs.
LEMMA LevelsAre ==
  ASSUME NEW schemas, Fit(schemas), NEW n \in DOMAIN schemas
  PROVE  LET level == Levels(schemas, n)
         IN  /\ level[0] = {ResolveRef(schemas, n)} \ {Absent}
             /\ \A d \in 0..(MaxDepth - 1) : level[d + 1] = Step(schemas, level[d])
             /\ \A d \in 0..MaxDepth : \A m \in level[d] :
                  m \in DOMAIN schemas /\ schemas[m].ref = Absent
<1> DEFINE D == DOMAIN schemas
           w == CHOOSE f : IsLeveled(f, schemas, n)
           Plain == {m \in D : schemas[m].ref = Absent}
<1>0. MaxDepth \in Nat
  BY SpecDocumentsAssumption DEF SpecDocumentsAssumption
<1>1. Levels(schemas, n) = w
  BY Zenon DEF Levels, IsLeveled
<1>2. IsLeveled(w, schemas, n)
  BY LevelsExist
<1> HIDE DEF w
<1>3. \A d \in 0..MaxDepth :
        w[d] = IF d = 0 THEN Ends(schemas, n)
               ELSE UNION {UNION {Ends(schemas, t) : t \in Nested(schemas, m)} : m \in w[d - 1]}
  <2> DEFINE E(d) == IF d = 0 THEN Ends(schemas, n)
                     ELSE UNION {UNION {Ends(schemas, t) : t \in Nested(schemas, m)} : m \in w[d - 1]}
  <2>1. w = [d \in 0..MaxDepth |-> E(d)]
    BY <1>2, Zenon DEF IsLeveled
  <2> HIDE DEF E
  <2>2. \A d \in 0..MaxDepth : w[d] = E(d)
    BY <2>1
  <2> QED BY <2>2 DEF E
<1>4. \A m \in D : Ends(schemas, m) = {ResolveRef(schemas, m)} \ {Absent} /\ Ends(schemas, m) \subseteq Plain
  BY EndsAre, ResolveRefIs
<1>5. \A m \in Plain : Nested(schemas, m) \subseteq D
  BY DEF Fit, Nested
<1>6. ASSUME NEW m \in Plain
      PROVE  /\ UNION {Ends(schemas, t) : t \in Nested(schemas, m)} = Below(schemas, m)
             /\ Below(schemas, m) \subseteq Plain
  BY <1>4, <1>5 DEF Below
<1> DEFINE T == {d \in Nat : d <= MaxDepth => w[d] \subseteq Plain}
<1>7. 0 \in T /\ w[0] = {ResolveRef(schemas, n)} \ {Absent}
  <2>1. 0 \in 0..MaxDepth
    BY <1>0
  <2>2. w[0] = Ends(schemas, n)
    BY <1>3, <2>1
  <2> QED BY <1>4, <2>2
<1>8. ASSUME NEW d \in 0..(MaxDepth - 1), w[d] \subseteq Plain
      PROVE  w[d + 1] = Step(schemas, w[d]) /\ w[d + 1] \subseteq Plain
  <2>1. d + 1 \in 0..MaxDepth /\ d + 1 # 0 /\ (d + 1) - 1 = d
    BY <1>0
  <2>2. w[d + 1] = UNION {UNION {Ends(schemas, t) : t \in Nested(schemas, m)} : m \in w[d]}
    BY <1>3, <2>1
  <2> HIDE DEF Plain
  <2>3. w[d + 1] = UNION {Below(schemas, m) : m \in w[d]}
    BY <1>6, <1>8, <2>2
  <2> QED BY <1>6, <1>8, <2>3 DEF Step
<1> HIDE DEF Plain
<1>9. ASSUME NEW d \in Nat, d \in T PROVE d + 1 \in T
  BY <1>0, <1>8, <1>9
<1> HIDE DEF T
<1>10. Nat \subseteq T
  BY <1>7, <1>9, SetInduction
<1>11. \A d \in 0..MaxDepth : w[d] \subseteq Plain
  BY <1>0, <1>10 DEF T
<1>12. \A d \in 0..(MaxDepth - 1) : w[d + 1] = Step(schemas, w[d])
  BY <1>0, <1>8, <1>11
<1> QED BY <1>1, <1>7, <1>11, <1>12 DEF Plain

\* The sensitive fields of the objects of all levels.
AllNear(schemas, n) ==
  LET near == UNION {Levels(schemas, n)[d] : d \in 0..MaxDepth}
  IN DOMAIN Category \cap
       UNION {DOMAIN schemas[m].properties : m \in {l \in near : schemas[l].items = Absent}}

\* What is named on the levels above a depth.
Above(schemas, n, k) == {f : f \in UNION {UNION {Named(schemas, m) : m \in Levels(schemas, n)[d]} : d \in 0..(k - 1)}}

\* What is collected from the start is what is named on the levels above any
\* depth, and what is collected from there.
LEMMA CollectedByLevel ==
  ASSUME NEW schemas, Fit(schemas), NEW n \in DOMAIN schemas, NEW w, Collects(w, schemas),
         NEW k \in 0..MaxDepth
  PROVE  w[0][n] = Above(schemas, n, k) \cup UNION {w[k][q] : q \in Levels(schemas, n)[k]}
<1> DEFINE level == Levels(schemas, n)
           Rest(d) == UNION {w[d][q] : q \in level[d]}
           T == {d \in Nat : d <= MaxDepth => w[0][n] = Above(schemas, n, d) \cup Rest(d)}
<1>0. MaxDepth \in Nat
  BY SpecDocumentsAssumption DEF SpecDocumentsAssumption
<1>1. /\ level[0] = {ResolveRef(schemas, n)} \ {Absent}
      /\ \A d \in 0..(MaxDepth - 1) : level[d + 1] = Step(schemas, level[d])
      /\ \A d \in 0..MaxDepth : \A m \in level[d] : m \in DOMAIN schemas /\ schemas[m].ref = Absent
  BY LevelsAre
<1>2. 0 \in T
  <2>1. Above(schemas, n, 0) = {}
    BY DEF Above
  <2>2. w[0][n] = IF ResolveRef(schemas, n) = Absent THEN {} ELSE w[0][ResolveRef(schemas, n)]
    BY <1>0 DEF Collects
  <2> HIDE DEF level
  <2>3. w[0][n] = Rest(0)
    BY <1>1, <2>2
  <2> QED BY <2>1, <2>3
<1>3. ASSUME NEW d \in Nat, d \in T PROVE d + 1 \in T
  <2> SUFFICES ASSUME d + 1 <= MaxDepth PROVE w[0][n] = Above(schemas, n, d + 1) \cup Rest(d + 1)
    OBVIOUS
  <2>1. d \in 0..(MaxDepth - 1) /\ d \in 0..MaxDepth
    BY <1>0
  <2>2. w[0][n] = Above(schemas, n, d) \cup Rest(d)
    BY <1>0, <1>3
  <2> DEFINE named == UNION {Named(schemas, m) : m \in level[d]}
  <2>3. Above(schemas, n, d + 1) = Above(schemas, n, d) \cup named
    <3>1. 0..((d + 1) - 1) = (0..(d - 1)) \cup {d}
      OBVIOUS
    <3> QED BY <3>1 DEF Above
  <2>4. \A m \in level[d] :
          w[d][m] = Named(schemas, m) \cup UNION {w[d + 1][q] : q \in Below(schemas, m)}
    BY <1>1, <2>1 DEF Collects
  <2>5. level[d + 1] = UNION {Below(schemas, m) : m \in level[d]}
    BY <1>1, <2>1 DEF Step
  <2> HIDE DEF level
  <2>6. Rest(d) = named \cup Rest(d + 1)
    BY <2>4, <2>5
  <2> HIDE DEF named, Rest
  <2> QED BY <2>2, <2>3, <2>6
<1> HIDE DEF T
<1>4. Nat \subseteq T
  BY <1>2, <1>3, SetInduction
<1>5. k \in T /\ k <= MaxDepth
  BY <1>0, <1>4
<1> QED BY <1>5 DEF T

\* So collect_fields finds the sensitive fields of all levels and no others.
LEMMA FieldsAreFound ==
  ASSUME NEW schemas, Fit(schemas), NEW n \in DOMAIN schemas
  PROVE  CollectFields(schemas, n) = AllNear(schemas, n)
<1> DEFINE level == Levels(schemas, n)
           named == UNION {Named(schemas, m) : m \in level[MaxDepth]}
<1>0. MaxDepth \in Nat /\ MaxDepth \in 0..MaxDepth
  BY SpecDocumentsAssumption DEF SpecDocumentsAssumption
<1>1. PICK w : Collects(w, schemas)
  BY CollectedIs
<1>2. CollectFields(schemas, n) = w[0][n]
  BY <1>1 DEF Collects
<1>3. \A m \in level[MaxDepth] : m \in DOMAIN schemas /\ schemas[m].ref = Absent
  BY <1>0, LevelsAre
<1>4. \A m \in level[MaxDepth] : w[MaxDepth][m] = Named(schemas, m)
  <2> SUFFICES ASSUME NEW m \in level[MaxDepth] PROVE w[MaxDepth][m] = Named(schemas, m)
    OBVIOUS
  <2>1. m \in DOMAIN schemas /\ schemas[m].ref = Absent
    BY <1>3
  <2>2. w[MaxDepth][m] = Named(schemas, m) \cup UNION {w[MaxDepth + 1][q] : q \in Below(schemas, m)}
    BY <1>0, <1>1, <2>1 DEF Collects
  <2>3. Below(schemas, m) \subseteq DOMAIN schemas
    <3>1. Nested(schemas, m) \subseteq DOMAIN schemas
      BY <2>1 DEF Fit, Nested
    <3> QED BY <3>1, ResolveRefIs DEF Below
  <2>4. \A q \in DOMAIN schemas : w[MaxDepth + 1][q] = {}
    BY <1>1 DEF Collects
  <2> QED BY <2>2, <2>3, <2>4
<1>5. w[0][n] = Above(schemas, n, MaxDepth) \cup UNION {w[MaxDepth][q] : q \in level[MaxDepth]}
  BY <1>0, <1>1, CollectedByLevel
<1> HIDE DEF level
<1>6. w[0][n] = Above(schemas, n, MaxDepth) \cup named
  BY <1>4, <1>5
<1> HIDE DEF named
<1>7. 0..MaxDepth = (0..(MaxDepth - 1)) \cup {MaxDepth}
  BY <1>0
<1>8. w[0][n] = UNION {UNION {Named(schemas, m) : m \in level[d]} : d \in 0..MaxDepth}
  BY <1>6, <1>7 DEF Above, level, named
<1>9. AllNear(schemas, n) = UNION {UNION {Named(schemas, m) : m \in level[d]} : d \in 0..MaxDepth}
  BY DEF AllNear, Named, level
<1> QED BY <1>2, <1>8, <1>9

-----------------------------------------------------------------------------
(* The theorems.                                                           *)

IInv == Disk /\ Reading /\ Places /\ Directory /\ Compared /\ Promised /\ Codes

\* Nothing is on disk and no command has begun.
LEMMA InitIInv == Init => IInv
<1> SUFFICES ASSUME Init PROVE IInv
  OBVIOUS
<1>1. /\ files = [f \in Files |-> Missing] /\ patched = [f \in Files |-> Absent] /\ exit = 0
      /\ job = [kind |-> "none", pc |-> "done", list |-> <<>>, read |-> <<>>]
  BY DEF Init
<1>2. Disk
  BY <1>1 DEF Disk
<1>3. /\ job.kind = "none" /\ job.pc = "done" /\ job.list = <<>> /\ job.read = <<>>
      /\ job = [kind |-> job.kind, pc |-> job.pc, list |-> job.list, read |-> job.read]
  BY <1>1
<1>4. Places /\ Directory /\ Compared /\ Promised /\ Codes
  BY <1>1, <1>3 DEF Places, Directory, Compared, Done, Promised, Codes
<1>5. <<>> \in Seq(Files) /\ Len(<<>>) = 0 /\ DOMAIN <<>> = {}
  OBVIOUS
<1>6. IsSeq(<<>>) /\ Len(<<>>) <= Len(<<>>)
  BY <1>5 DEF IsSeq
<1>7. IsSeq(job.read) /\ Len(job.read) <= Len(job.list) /\ job.list \in Seq(Files)
      /\ DOMAIN job.read = {}
  BY <1>3, <1>5, <1>6
<1>8. Reading
  BY <1>3, <1>7, Zenon DEF Reading
<1> QED BY <1>2, <1>4, <1>8 DEF IInv

\* Every step keeps all parts of the invariant.
LEMMA StepIInv == IInv /\ [Next]_vars => IInv'
<1> SUFFICES ASSUME IInv, [Next]_vars PROVE IInv'
  OBVIOUS
<1>1. Disk /\ Reading /\ Places /\ Directory /\ Compared /\ Promised /\ Codes
  BY DEF IInv
<1> QED BY <1>1, DiskStep, ReadingStep, DirectoryStep, ComparedStep, PromisedStep, CodesStep DEF IInv

\* All parts of the invariant hold at all times.
LEMMA SpecIInv == Spec => []IInv
BY InitIInv, StepIInv, PTL DEF Spec

\* A directory that passes with --fail-on-high is clean: every specification in
\* it that nobody touched meanwhile was read (discover_dir.rs, cli.py) and has no
\* endpoint of high or critical risk.
THEOREM GreenMeansCleanHolds == Spec => []GreenMeansClean
<1>1. IInv => GreenMeansClean
  <2> SUFFICES ASSUME IInv, job.kind = "directory", job.pc = "done", exit = 0,
                      NEW f \in Walk \cap steady
               PROVE  Discoverable(files[f]) /\ Clean(Discover(files[f]))
    BY Zenon DEF GreenMeansClean, Done, Clean
  <2>1. Reading /\ Directory
    BY DEF IInv
  <2>2. PICK i \in DOMAIN job.list : job.list[i] = f
    BY <2>1 DEF Directory
  <2>3. i \in DOMAIN job.read
    BY <2>1, FirstOfList DEF Directory
  <2>4. job.read[i] = files[f]
    BY <2>1, <2>2, <2>3 DEF Directory
  <2> QED BY <2>1, <2>3, <2>4 DEF Directory, Reading
<1> QED BY <1>1, SpecIInv, PTL

\* When diff reports no drift (drift.rs) between inventories without repeated
\* endpoints, discover --fail-on-high says the same of both: what drift does not
\* compare never carries an endpoint over the threshold of risk.rs.
THEOREM QuietDriftKeepsTheGateHolds == Spec => []QuietDriftKeepsTheGate
<1>1. IInv => QuietDriftKeepsTheGate
  <2> SUFFICES ASSUME IInv, Done("diff"), exit = 0
               PROVE  KeepsTheGate(Discover(job.read[1]), Discover(job.read[2]))
    BY Zenon DEF QuietDriftKeepsTheGate
  <2>1. Reading /\ Compared
    BY DEF IInv
  <2>2. Len(job.read) = 2
    BY <2>1 DEF Compared
  <2>3. 1 \in DOMAIN job.read /\ 2 \in DOMAIN job.read
    BY <2>1, <2>2, FirstOfList
  <2>4. /\ Sound(job.read[1]) /\ Discoverable(job.read[1])
        /\ Sound(job.read[2]) /\ Discoverable(job.read[2])
    BY <2>1, <2>3 DEF Reading
  <2>5. PICK m \in Nat : DOMAIN Discover(job.read[1]) = 1..m
    BY <2>4, InventoryIsList
  <2>6. PICK n \in Nat : DOMAIN Discover(job.read[2]) = 1..n
    BY <2>4, InventoryIsList
  <2> QED BY <2>5, <2>6, GateIsKept
<1> QED BY <1>1, SpecIInv, PTL

\* Commands and files keep their types; what a command has read is a document,
\* and a file that remediate completed is there.
THEOREM SpecFilesTypes == Spec => []TypeOK
<1>1. IInv => TypeOK
  <2> SUFFICES ASSUME IInv PROVE TypeOK
    OBVIOUS
  <2>1. Disk /\ Reading /\ Promised /\ Codes
    BY DEF IInv
  <2>2. DOMAIN files = Files /\ \A i \in DOMAIN job.read : Discoverable(job.read[i])
    BY <2>1 DEF Disk, Reading
  <2>3. ASSUME NEW f \in Files, patched[f] # Absent PROVE files[f] # Missing
    <3>1. Sound(patched[f]) /\ Discoverable(patched[f]) /\ files[f] = Remediated(patched[f])
      BY <2>1, <2>3 DEF Promised
    <3>2. Missing.kind = "missing"
      BY DEF Missing
    <3>3. CASE patched[f].kind = "openapi"
      BY <3>1, <3>2, <3>3, RemediatedIsSound
    <3>4. CASE patched[f].kind = "postman"
      BY <3>1, <3>2, <3>4 DEF Remediated
    <3> QED BY <3>1, <3>3, <3>4 DEF Discoverable
  <2> QED BY <2>1, <2>2, <2>3 DEF TypeOK, Codes
<1> QED BY <1>1, SpecIInv, PTL

\* Whatever the document and whoever saves meanwhile: after remediate --apply
\* (remediate.rs, cli.py) there is nothing left to fix, the endpoints are the same
\* and none is riskier, and only authentication and names have changed.
THEOREM FixesConvergeHolds == Spec => []FixesConverge
<1>1. IInv => FixesConverge
  <2> SUFFICES ASSUME IInv, NEW f \in Files, patched[f] # Absent, patched[f].kind = "openapi"
               PROVE  /\ ComputeFixes(files[f]) = NoFixes
                      /\ Settled(Discover(patched[f]), Discover(files[f]))
    BY Zenon DEF FixesConverge, Settled
  <2>1. Sound(patched[f]) /\ files[f] = Remediated(patched[f])
    BY DEF IInv, Promised
  <2> QED BY <2>1, FixesSettle
<1> QED BY <1>1, SpecIInv, PTL

\* However deep the folders of a collection: a request counts as authenticated
\* (postman.rs) exactly as the innermost auth around it says.
THEOREM AuthIsInheritedHolds == Spec => []AuthIsInherited
<1>1. IInv => AuthIsInherited
  <2> SUFFICES ASSUME IInv, Done("directory"), NEW k \in DOMAIN job.read,
                      job.read[k].kind = "postman", NEW n \in DOMAIN Requests(job.read[k].items)
               PROVE  LET i == Requests(job.read[k].items)[n]
                          auth == Innermost(job.read[k].items, i, job.read[k].auth)
                      IN Discover(job.read[k])[n].authenticated <=>
                           /\ auth # "noauth"
                           /\ auth \notin {Absent, "untyped"} \/ job.read[k].items[i].header
    BY Zenon DEF AuthIsInherited, Innermost, Declared
  <2>1. Sound(job.read[k])
    BY DEF IInv, Reading
  <2> QED BY <2>1, RequestsInherit, Zenon
<1> QED BY <1>1, SpecIInv, PTL

\* However refs, lists and properties are nested, and whatever refs lead nowhere
\* or in circles: collect_fields (openapi.rs) finds below a schema the sensitive
\* fields of the objects at most MaxDepth levels below it, and no others, for
\* every document.
THEOREM NestedFieldsAreFoundHolds == Spec => []NestedFieldsAreFound
<1>1. IInv => NestedFieldsAreFound
  <2> SUFFICES ASSUME IInv, Done("directory"), NEW k \in DOMAIN job.read,
                      job.read[k].kind = "openapi", NEW n \in DOMAIN job.read[k].schemas
               PROVE  CollectFields(job.read[k].schemas, n) = AllNear(job.read[k].schemas, n)
    BY Zenon DEF NestedFieldsAreFound, AllNear
  <2>1. Sound(job.read[k])
    BY DEF IInv, Reading
  <2>2. Fit(job.read[k].schemas)
    BY <2>1, Zenon DEF Sound
  <2> QED BY <2>2, FieldsAreFound
<1> QED BY <1>1, SpecIInv, PTL
=============================================================================
