------------------------ MODULE GraphBootstrapProofs ------------------------
(***************************************************************************)
(* Theorems about GraphBootstrap, for every set of callers and every       *)
(* number of labels.                                                       *)
(***************************************************************************)
EXTENDS GraphBootstrap, TLAPS

\* The bounds of object numbers every proof below needs.
LEMMA ObjectBounds ==
  /\ Last \in Nat
  /\ Extension \in Objects
  /\ Last \in Objects
  /\ \A i \in Objects : i # Last => i + 1 \in Objects
BY LabelsAssumption DEF Last, Objects, Extension

(***************************************************************************)
(* Type correctness: every variable keeps its type through every statement *)
(* of ensure_graph, every crash and every end of a transaction.            *)
(***************************************************************************)
LEMMA AdvanceType ==
  ASSUME TypeOK, NEW c \in Callers, Advance(c)
  PROVE  pc' \in [Callers -> PC] /\ at' \in [Callers -> Objects]
BY ObjectBounds DEF TypeOK, Advance, Goto, PC, Ended

\* What a client leaves behind on the server has the right type.
LEMMA LeaveType ==
  ASSUME TypeOK, NEW c \in Callers, Leave(c)
  PROVE  holder' \in [Objects -> Callers \cup {None, Stray}] /\ adrift' \in [Objects -> Nat]
<1>1. at[c] \in Objects
  BY DEF TypeOK
<1>2. CASE UNCHANGED holder
  BY <1>1, <1>2 DEF Leave, TypeOK
<1>3. CASE UNCHANGED adrift
  BY <1>1, <1>3 DEF Leave, TypeOK
<1> QED
  BY <1>2, <1>3 DEF Leave

\* Every step keeps the types.
LEMMA TypeInductive == TypeOK /\ [Next]_vars => TypeOK'
<1> SUFFICES ASSUME TypeOK, [Next]_vars PROVE TypeOK'
  OBVIOUS
<1> USE DEF TypeOK
<1>1. ASSUME NEW c \in Callers, Probe(c) PROVE TypeOK'
  BY <1>1, AdvanceType DEF Probe, Goto, PC
<1>2. ASSUME NEW c \in Callers, Submit(c) PROVE TypeOK'
  BY <1>2, AdvanceType DEF Submit, Goto, PC
<1>3. ASSUME NEW c \in Callers, Insert(c) PROVE TypeOK'
  BY <1>3 DEF Insert, Goto, PC
<1>4. ASSUME NEW c \in Callers, Commit(c) PROVE TypeOK'
  BY <1>4, AdvanceType DEF Commit, Committed
<1>5. ASSUME NEW c \in Callers, Abort(c) PROVE TypeOK'
  BY <1>5 DEF Abort, Goto, PC
<1>6. ASSUME NEW c \in Callers, Recheck(c) PROVE TypeOK'
  BY <1>6, AdvanceType DEF Recheck, Goto, PC, Ended
<1>7. ASSUME NEW c \in Callers, QueryFails(c) PROVE TypeOK'
  BY <1>7 DEF QueryFails, Goto, PC, Ended
<1>8. ASSUME NEW c \in Callers, Crash(c) PROVE TypeOK'
  BY <1>8, LeaveType DEF Crash, Goto, PC, Ended
<1>9. ASSUME NEW o \in Objects, Orphan(o) PROVE TypeOK'
  BY <1>9 DEF Orphan, Committed
<1>10. CASE UNCHANGED vars
  BY <1>10 DEF vars
<1>11. ASSUME NEW c \in Callers, Lose(c) PROVE TypeOK'
  BY <1>11, LeaveType DEF Lose, Goto, PC
<1>12. ASSUME NEW o \in Objects, Drift(o) PROVE TypeOK'
  BY <1>12 DEF Drift
<1> QED
  BY <1>1, <1>2, <1>3, <1>4, <1>5, <1>6, <1>7, <1>8, <1>9, <1>10, <1>11, <1>12
  DEF Next, Statement, Fault

THEOREM TypeCorrect == Spec => []TypeOK
<1>1. Init => TypeOK
  BY ObjectBounds DEF Init, TypeOK, PC
<1> QED
  BY <1>1, TypeInductive, PTL DEF Spec
-----------------------------------------------------------------------------
(***************************************************************************)
(* The inductive invariant.  OkMeansReady follows once a call that is past *)
(* the last object is known to have seen it; OnlyOwnFaults needs to know   *)
(* why a call is re-checking an object that is not there; and that a       *)
(* transaction creates the next object in order, which the refinement      *)
(* needs, rests on knowing whose transaction it is.                        *)
(***************************************************************************)
OkPastLast ==
  \A c \in Callers : pc[c] = "ok" => at[c] = Last /\ Last \in catalog

RecheckJustified ==
  \A c \in Callers :
    pc[c] = "recheck" => at[c] \in catalog \/ c \in faulted

\* The unique keys: an object is created by one transaction at a time and never
\* created again, and an open transaction belongs to a call that is in it or is
\* a stray one.
HoldersInTransaction ==
  \A o \in Objects :
    holder[o] # None => /\ o \notin catalog
                        /\ holder[o] # Stray => /\ at[holder[o]] = o
                                                /\ pc[holder[o]] = "creating"

CreatorsHold ==
  \A c \in Callers : pc[c] = "creating" => holder[at[c]] = c

\* A call about to insert depends on objects that exist; so does what it leaves
\* behind when it is gone, however late that takes effect.
StraysInOrder ==
  \A o \in Objects : /\ holder[o] = Stray => 1..(o - 1) \subseteq catalog
                     /\ adrift[o] > 0 => o \notin catalog /\ 1..(o - 1) \subseteq catalog

Safe == PredecessorsExist /\ OkPastLast /\ OnlyOwnFaults /\ RecheckJustified

Transactions == HoldersInTransaction /\ CreatorsHold /\ StraysInOrder

\* What a call gains when its current object exists.
LEMMA AdvanceSafe ==
  ASSUME TypeOK, Safe, NEW c \in Callers, Advance(c),
         at[c] \in catalog', catalog \subseteq catalog', faulted' = faulted
  PROVE  Safe'
<1> DEFINE P(d) == /\ 1..(at'[d] - 1) \subseteq catalog'
                   /\ pc'[d] = "ok" => at'[d] = Last /\ Last \in catalog'
                   /\ pc'[d] = "failed" => d \in faulted'
                   /\ pc'[d] = "recheck" => at'[d] \in catalog' \/ d \in faulted'
<1>1. ASSUME NEW d \in Callers, d # c PROVE P(d)
  <2>1. pc'[d] = pc[d] /\ at'[d] = at[d]
    BY <1>1 DEF TypeOK, Advance, Goto
  <2> QED
    BY <2>1 DEF Safe, PredecessorsExist, OkPastLast, OnlyOwnFaults, RecheckJustified
<1>2. P(c)
  <2>1. 1..(at[c] - 1) \subseteq catalog /\ at[c] \in Nat
    BY DEF Safe, PredecessorsExist, TypeOK, Objects
  <2>2. CASE at[c] = Last
    BY <2>1, <2>2 DEF Advance, Goto, TypeOK
  <2>3. CASE at[c] # Last
    <3>1. at'[c] = at[c] + 1 /\ pc'[c] = "probe"
      BY <2>3 DEF Advance, Goto, TypeOK
    <3>2. 1..(at[c] + 1 - 1) = 1..(at[c] - 1) \cup {at[c]}
      BY <2>1, ObjectBounds DEF TypeOK, Objects
    <3> QED BY <3>1, <3>2, <2>1
  <2> QED BY <2>2, <2>3
<1> QED
  BY <1>1, <1>2 DEF Safe, PredecessorsExist, OkPastLast, OnlyOwnFaults, RecheckJustified

\* What stays true when one call moves without advancing to a place it may be in.
LEMMA MoveSafe ==
  ASSUME TypeOK, Safe, NEW c \in Callers, NEW label, Goto(c, label),
         at' = at, catalog \subseteq catalog', faulted \subseteq faulted',
         label # "ok",
         label = "failed" => c \in faulted',
         label = "recheck" => at[c] \in catalog' \/ c \in faulted'
  PROVE  Safe'
<1> DEFINE P(d) == /\ 1..(at'[d] - 1) \subseteq catalog'
                   /\ pc'[d] = "ok" => at'[d] = Last /\ Last \in catalog'
                   /\ pc'[d] = "failed" => d \in faulted'
                   /\ pc'[d] = "recheck" => at'[d] \in catalog' \/ d \in faulted'
<1>1. ASSUME NEW d \in Callers PROVE P(d)
  <2>1. pc'[d] = IF d = c THEN label ELSE pc[d]
    BY DEF TypeOK, Goto
  <2> QED
    BY <2>1 DEF Safe, PredecessorsExist, OkPastLast, OnlyOwnFaults, RecheckJustified
<1> QED
  BY <1>1 DEF Safe, PredecessorsExist, OkPastLast, OnlyOwnFaults, RecheckJustified

\* Every step keeps the safety invariant.
LEMMA SafeInductive == TypeOK /\ Safe /\ [Next]_vars => Safe'
<1> SUFFICES ASSUME TypeOK, Safe, [Next]_vars PROVE Safe'
  OBVIOUS
<1>1. ASSUME NEW c \in Callers, Probe(c) PROVE Safe'
  BY <1>1, AdvanceSafe, MoveSafe DEF Probe
<1>2. ASSUME NEW c \in Callers, Submit(c) PROVE Safe'
  BY <1>2, AdvanceSafe, MoveSafe DEF Submit
<1>3. ASSUME NEW c \in Callers, Insert(c) PROVE Safe'
  BY <1>3, MoveSafe DEF Insert
<1>4. ASSUME NEW c \in Callers, Commit(c) PROVE Safe'
  BY <1>4, AdvanceSafe DEF Commit, Committed
<1>5. ASSUME NEW c \in Callers, Abort(c) PROVE Safe'
  BY <1>5, MoveSafe DEF Abort
<1>6. ASSUME NEW c \in Callers, Recheck(c) PROVE Safe'
  <2>1. CASE at[c] \in catalog
    BY <1>6, <2>1, AdvanceSafe DEF Recheck
  <2>2. CASE at[c] \notin catalog
    <3>1. c \in faulted
      BY <1>6, <2>2 DEF Recheck, Safe, RecheckJustified
    <3> QED BY <1>6, <2>2, <3>1, MoveSafe DEF Recheck
  <2> QED BY <2>1, <2>2
<1>7. ASSUME NEW c \in Callers, QueryFails(c) PROVE Safe'
  BY <1>7, MoveSafe DEF QueryFails
<1>8. ASSUME NEW c \in Callers, Crash(c) PROVE Safe'
  BY <1>8, MoveSafe DEF Crash
<1>9. ASSUME NEW o \in Objects, Orphan(o) PROVE Safe'
  <2>1. catalog \subseteq catalog' /\ UNCHANGED <<pc, at, faulted>>
    BY <1>9 DEF Orphan, Committed
  <2> QED
    BY <2>1 DEF Safe, PredecessorsExist, OkPastLast, OnlyOwnFaults, RecheckJustified
<1>10. CASE UNCHANGED vars
  BY <1>10 DEF vars, Safe, PredecessorsExist, OkPastLast, OnlyOwnFaults, RecheckJustified
<1>11. ASSUME NEW c \in Callers, Lose(c) PROVE Safe'
  BY <1>11, MoveSafe DEF Lose
<1>12. ASSUME NEW o \in Objects, Drift(o) PROVE Safe'
  BY <1>12 DEF Drift, Safe, PredecessorsExist, OkPastLast, OnlyOwnFaults, RecheckJustified
<1> QED
  BY <1>1, <1>2, <1>3, <1>4, <1>5, <1>6, <1>7, <1>8, <1>9, <1>10, <1>11, <1>12
  DEF Next, Statement, Fault

\* The safety invariant holds at all times.
LEMMA SafeAlways == Spec => []Safe
<1>1. Init => Safe
  BY DEF Init, Safe, PredecessorsExist, OkPastLast, OnlyOwnFaults,
         RecheckJustified, Extension
<1> QED
  BY <1>1, SafeInductive, TypeCorrect, PTL DEF Spec

(***************************************************************************)
(* Every statement of every caller finds the objects it depends on.        *)
(***************************************************************************)
THEOREM StatementsFindPredecessors == Spec => []PredecessorsExist
<1>1. Safe => PredecessorsExist
  BY DEF Safe
<1> QED
  BY <1>1, SafeAlways, PTL

(***************************************************************************)
(* A call returns Ok only when every object of the graph exists.           *)
(***************************************************************************)
THEOREM OkIsReady == Spec => []OkMeansReady
<1>1. TypeOK /\ Safe => OkMeansReady
  <2> SUFFICES ASSUME TypeOK, Safe, NEW c \in Callers, pc[c] = "ok"
               PROVE  catalog = Objects
    BY DEF OkMeansReady
  <2>1. 1..(Last - 1) \subseteq catalog /\ Last \in catalog
    BY DEF Safe, OkPastLast, PredecessorsExist
  <2>2. Objects = 1..(Last - 1) \cup {Last}
    BY ObjectBounds DEF Objects
  <2> QED BY <2>1, <2>2 DEF TypeOK
<1> QED
  BY <1>1, SafeAlways, TypeCorrect, PTL

(***************************************************************************)
(* A call never fails for losing a race or for the crash of another call.  *)
(***************************************************************************)
THEOREM FailuresAreOwn == Spec => []OnlyOwnFaults
<1>1. Safe => OnlyOwnFaults
  BY DEF Safe
<1> QED
  BY <1>1, SafeAlways, PTL
-----------------------------------------------------------------------------
(***************************************************************************)
(* Whose transaction is open: each belongs to a call that is in its CREATE *)
(* statement or was left behind by one, and none is open or waiting to be  *)
(* for an object that exists.                                              *)
(***************************************************************************)
LEMMA TransactionsInductive ==
  TypeOK /\ Safe /\ Transactions /\ [Next]_vars => Transactions'
<1> SUFFICES ASSUME TypeOK, Safe, Transactions, [Next]_vars PROVE Transactions'
  OBVIOUS
<1> USE DEF Transactions, HoldersInTransaction, CreatorsHold, StraysInOrder
\* A call that is not creating moves on, and no transaction changes.
<1>0. ASSUME NEW c \in Callers, pc[c] # "creating",
             UNCHANGED <<catalog, holder, adrift>>, pc'[c] # "creating",
             \A d \in Callers : d # c => pc'[d] = pc[d] /\ at'[d] = at[d]
      PROVE  Transactions'
  BY <1>0, NoneAssumption DEF TypeOK
<1>1. ASSUME NEW c \in Callers, Advance(c)
      PROVE  /\ pc'[c] \in {"ok", "probe"}
             /\ \A d \in Callers : d # c => pc'[d] = pc[d] /\ at'[d] = at[d]
  BY <1>1 DEF Advance, Goto, TypeOK
<1>2. ASSUME NEW c \in Callers, NEW label, Goto(c, label), UNCHANGED at
      PROVE  /\ pc'[c] = label
             /\ \A d \in Callers : d # c => pc'[d] = pc[d] /\ at'[d] = at[d]
  BY <1>2 DEF Goto, TypeOK
<1>3. ASSUME NEW c \in Callers, Probe(c) PROVE Transactions'
  BY <1>3, <1>0, <1>1, <1>2 DEF Probe
<1>4. ASSUME NEW c \in Callers, Submit(c) PROVE Transactions'
  BY <1>4, <1>0, <1>1, <1>2 DEF Submit
<1>5. ASSUME NEW c \in Callers, Insert(c) PROVE Transactions'
  <2>1. CASE at[c] \notin catalog
    BY <1>5, <2>1, NoneAssumption DEF Insert, Goto, TypeOK
  <2>2. CASE at[c] \in catalog
    BY <1>5, <2>2, <1>0, <1>2 DEF Insert
  <2> QED BY <2>1, <2>2
\* A call lets go of its transaction, which ends or is taken over by nobody in
\* particular; the others are as they were.
<1>6. ASSUME NEW c \in Callers, pc[c] = "creating", pc'[c] # "creating",
             NEW left \in {None, Stray},
             holder' = [holder EXCEPT ![at[c]] = left],
             \/ Committed(at[c]) /\ left = None
             \/ UNCHANGED <<catalog, adrift>>,
             \A d \in Callers : d # c => pc'[d] = pc[d] /\ at'[d] = at[d]
      PROVE  Transactions'
  <2>1. /\ holder[at[c]] = c /\ at[c] \in Objects /\ at[c] \notin catalog
        /\ 1..(at[c] - 1) \subseteq catalog
    BY <1>6, NoneAssumption DEF TypeOK, Safe, PredecessorsExist
  <2>2. /\ catalog \subseteq catalog' /\ catalog' \subseteq catalog \cup {at[c]}
        /\ at[c] \in catalog' => left = None
    BY <1>6, <2>1 DEF Committed
  <2>3. ASSUME NEW o \in Objects, o # at[c] PROVE holder'[o] = holder[o] /\ adrift'[o] = adrift[o]
    BY <1>6, <2>3 DEF TypeOK, Committed
  <2>4. holder'[at[c]] = left
    BY <1>6, <2>1 DEF TypeOK
  <2>5. HoldersInTransaction'
    <3> SUFFICES ASSUME NEW o \in Objects, holder'[o] # None
                 PROVE  /\ o \notin catalog'
                        /\ holder'[o] # Stray => at'[holder'[o]] = o /\ pc'[holder'[o]] = "creating"
      OBVIOUS
    <3>1. CASE o = at[c]
      BY <3>1, <2>1, <2>2, <2>4
    <3>2. CASE o # at[c]
      <4>1. holder'[o] = holder[o] /\ o \notin catalog
        BY <3>2, <2>3
      <4>2. holder[o] # c
        BY <4>1, <3>2, <2>1, NoneAssumption
      <4> QED BY <4>1, <4>2, <3>2, <2>2, <1>6 DEF TypeOK
    <3> QED BY <3>1, <3>2
  <2>6. ASSUME NEW d \in Callers, pc'[d] = "creating" PROVE holder'[at'[d]] = d
    <3>1. d # c /\ holder[at[d]] = d /\ at'[d] = at[d] /\ at[d] \in Objects
      BY <1>6, <2>6 DEF TypeOK
    <3> QED BY <3>1, <2>1, <2>3
  <2>7. StraysInOrder'
    <3> SUFFICES ASSUME NEW o \in Objects
                 PROVE  /\ holder'[o] = Stray => 1..(o - 1) \subseteq catalog'
                        /\ adrift'[o] > 0 => o \notin catalog' /\ 1..(o - 1) \subseteq catalog'
      OBVIOUS
    <3>1. CASE o # at[c]
      BY <3>1, <2>2, <2>3
    <3>2. CASE o = at[c] /\ UNCHANGED <<catalog, adrift>>
      BY <3>2, <2>1
    <3>3. CASE o = at[c] /\ Committed(at[c]) /\ left = None
      <4>1. adrift'[o] = 0
        BY <3>3, <2>1 DEF Committed, TypeOK
      <4> QED BY <4>1, <3>3, <2>4, NoneAssumption
    <3> QED BY <3>1, <3>2, <3>3, <1>6
  <2> QED BY <2>5, <2>6, <2>7
<1>7. ASSUME NEW c \in Callers, Commit(c) PROVE Transactions'
  <2>1. /\ pc'[c] \in {"ok", "probe"}
        /\ \A d \in Callers : d # c => pc'[d] = pc[d] /\ at'[d] = at[d]
    BY <1>7, <1>1 DEF Commit
  <2>2. /\ pc[c] = "creating" /\ Committed(at[c])
        /\ holder' = [holder EXCEPT ![at[c]] = None]
    BY <1>7 DEF Commit, Committed
  <2>3. pc'[c] # "creating"
    BY <2>1
  <2> QED BY <2>1, <2>2, <2>3, <1>6
<1>8. ASSUME NEW c \in Callers, Abort(c) PROVE Transactions'
  <2>0. /\ pc'[c] = "recheck" /\ UNCHANGED <<catalog, adrift>>
        /\ \A d \in Callers : d # c => pc'[d] = pc[d] /\ at'[d] = at[d]
    BY <1>8, <1>2 DEF Abort
  <2>01. pc'[c] # "creating"
    BY <2>0
  <2>1. CASE pc[c] = "creating"
    <3>1. holder' = [holder EXCEPT ![at[c]] = None]
      BY <1>8, <2>1 DEF Abort
    <3> QED BY <2>0, <2>01, <2>1, <3>1, <1>6
  <2>2. CASE pc[c] # "creating"
    BY <1>8, <2>0, <2>2, <1>0 DEF Abort
  <2> QED BY <2>1, <2>2
\* What a client leaves behind when it loses the connection or dies.
<1>9. ASSUME NEW c \in Callers, Leave(c), UNCHANGED catalog, pc'[c] # "creating",
             \A d \in Callers : d # c => pc'[d] = pc[d] /\ at'[d] = at[d]
      PROVE  Transactions'
  <2>1. CASE pc[c] = "creating"
    <3>1. UNCHANGED adrift /\ holder' = [holder EXCEPT ![at[c]] = Stray]
      BY <1>9, <2>1 DEF Leave
    <3> QED BY <1>9, <2>1, <3>1, <1>6
  <2>2. CASE pc[c] # "creating" /\ UNCHANGED adrift
    <3>1. UNCHANGED holder
      BY <1>9, <2>2 DEF Leave
    <3> QED BY <1>9, <2>2, <3>1, <1>0
  <2>3. CASE pc[c] # "creating" /\ adrift' = [adrift EXCEPT ![at[c]] = @ + 1]
             /\ UNCHANGED holder /\ at[c] \notin catalog
    <3>1. 1..(at[c] - 1) \subseteq catalog /\ at[c] \in Objects
      BY DEF Safe, PredecessorsExist, TypeOK
    <3>2. StraysInOrder'
      BY <3>1, <2>3, <1>9 DEF TypeOK
    <3>3. HoldersInTransaction' /\ CreatorsHold'
      BY <2>3, <1>9, NoneAssumption DEF TypeOK
    <3> QED BY <3>2, <3>3
  <2> QED BY <2>1, <2>2, <2>3, <1>9 DEF Leave
<1>10. ASSUME NEW c \in Callers, Lose(c) PROVE Transactions'
  <2>1. /\ pc'[c] = "recheck" /\ Leave(c) /\ UNCHANGED catalog
        /\ \A d \in Callers : d # c => pc'[d] = pc[d] /\ at'[d] = at[d]
    BY <1>10, <1>2 DEF Lose
  <2>2. pc'[c] # "creating"
    BY <2>1
  <2> QED BY <2>1, <2>2, <1>9
<1>11. ASSUME NEW c \in Callers, Crash(c) PROVE Transactions'
  <2>1. /\ pc'[c] = "crashed" /\ Leave(c) /\ UNCHANGED catalog
        /\ \A d \in Callers : d # c => pc'[d] = pc[d] /\ at'[d] = at[d]
    BY <1>11, <1>2 DEF Crash
  <2>2. pc'[c] # "creating"
    BY <2>1
  <2> QED BY <2>1, <2>2, <1>9
<1>12. ASSUME NEW c \in Callers, Recheck(c) PROVE Transactions'
  BY <1>12, <1>0, <1>1, <1>2 DEF Recheck
<1>13. ASSUME NEW c \in Callers, QueryFails(c) PROVE Transactions'
  BY <1>13, <1>0, <1>2 DEF QueryFails
<1>14. ASSUME NEW o \in Objects, Drift(o) PROVE Transactions'
  <2>1. HoldersInTransaction' /\ CreatorsHold'
    BY <1>14, NoneAssumption DEF Drift, TypeOK
  <2>2. StraysInOrder'
    BY <1>14 DEF Drift, TypeOK
  <2> QED BY <2>1, <2>2
<1>15. ASSUME NEW o \in Objects, Orphan(o) PROVE Transactions'
  <2>1. /\ holder[o] = Stray /\ UNCHANGED <<pc, at>>
        /\ holder' = [holder EXCEPT ![o] = None]
    BY <1>15 DEF Orphan, Committed
  <2>2. CreatorsHold'
    BY <2>1, NoneAssumption DEF TypeOK
  <2>3. CASE Committed(o)
    <3>1. HoldersInTransaction'
      BY <2>1, <2>3 DEF Committed, TypeOK
    <3>2. ASSUME NEW p \in Objects, p # o PROVE holder'[p] = holder[p] /\ adrift'[p] = adrift[p]
      BY <3>2, <2>1, <2>3 DEF Committed, TypeOK
    <3>3. holder'[o] = None /\ adrift'[o] = 0 /\ catalog' = catalog \cup {o}
      BY <2>1, <2>3 DEF Committed, TypeOK
    <3>4. StraysInOrder'
      BY <3>2, <3>3, NoneAssumption
    <3> QED BY <3>1, <3>4, <2>2
  <2>4. CASE UNCHANGED <<catalog, adrift>>
    <3>1. HoldersInTransaction'
      BY <2>1, <2>4 DEF TypeOK
    <3>2. StraysInOrder'
      BY <2>1, <2>4, NoneAssumption DEF TypeOK
    <3> QED BY <3>1, <3>2, <2>2
  <2> QED BY <2>3, <2>4, <1>15 DEF Orphan
<1>16. CASE UNCHANGED vars
  BY <1>16 DEF vars
<1> QED
  BY <1>3, <1>4, <1>5, <1>7, <1>8, <1>10, <1>11, <1>12, <1>13, <1>14, <1>15, <1>16
  DEF Next, Statement, Fault

\* What is said of open transactions holds at all times.
LEMMA TransactionsAlways == Spec => []Transactions
<1>1. Init => Transactions
  BY NoneAssumption
  DEF Init, Transactions, HoldersInTransaction, CreatorsHold, StraysInOrder
<1> QED
  BY <1>1, TransactionsInductive, TypeCorrect, SafeAlways, PTL DEF Spec
-----------------------------------------------------------------------------
(***************************************************************************)
(* Refinement: a commit or an orphaned commit is Install of the object its *)
(* caller works on, the last advance is AnswerOk, the rest is an error, a  *)
(* death or a stutter.                                                     *)
(***************************************************************************)
Verdict(label) == CASE label = "ok" -> "ok"
                    [] label = "failed" -> "error"
                    [] label = "crashed" -> "gone"
                    [] OTHER -> "pending"

\* What a move means for a call's answer.
LEMMA AnswerOfMove ==
  ASSUME TypeOK, NEW c \in Callers, NEW label, Goto(c, label)
  PROVE  Answer' = [Answer EXCEPT ![c] = Verdict(label)]
BY DEF TypeOK, Goto, Answer, Verdict

\* A call that is not at its end has no answer yet.
LEMMA AnswerPending ==
  ASSUME TypeOK, NEW c \in Callers, pc[c] \notin Ended
  PROVE  Answer[c] = "pending"
BY DEF TypeOK, Answer, Ended

\* A move that answers nothing leaves the abstract answers alone.
LEMMA SilentMove ==
  ASSUME TypeOK, NEW c \in Callers, pc[c] \notin Ended,
         NEW label, Goto(c, label), label \notin Ended
  PROVE  Answer' = Answer
<1>1. Answer' = [Answer EXCEPT ![c] = Verdict(label)]
  BY AnswerOfMove
<1>2. Verdict(label) = "pending"
  BY DEF Verdict, Ended
<1>3. Answer = [d \in Callers |-> Answer[d]]
  BY DEF Answer
<1> QED
  BY <1>1, <1>2, <1>3, AnswerPending

\* The objects that exist grow by one in order, or not at all.
LEMMA CatalogGrows ==
  ASSUME TypeOK, Safe, Transactions, NEW o \in Objects, holder[o] # None, Committed(o)
  PROVE  Install!Install(o)
<1>1. o \notin catalog
  BY DEF Transactions, HoldersInTransaction
<1>2. 1..(o - 1) \subseteq catalog
  <2>1. CASE holder[o] = Stray
    BY <2>1 DEF Transactions, StraysInOrder
  <2>2. CASE holder[o] # Stray
    <3>1. holder[o] \in Callers /\ at[holder[o]] = o
      BY <2>2 DEF TypeOK, Transactions, HoldersInTransaction
    <3> QED BY <3>1 DEF Safe, PredecessorsExist
  <2> QED BY <2>1, <2>2
<1> QED
  BY <1>1, <1>2 DEF Install!Install, Install!Objects, Objects, Committed

\* Advancing past the last object is the answer Ok, otherwise a stutter.
LEMMA AdvanceImplements ==
  ASSUME TypeOK, Safe, NEW c \in Callers, Advance(c), pc[c] \notin Ended,
         at[c] \in catalog', catalog' \in SUBSET Objects,
         catalog \subseteq catalog', Install!Grow
  PROVE  Install!Next
<1>1. CASE at[c] = Last
  <2>1. Answer' = [Answer EXCEPT ![c] = "ok"]
    BY <1>1, AnswerOfMove DEF Advance, Verdict
  <2>2. 1..(Last - 1) \subseteq catalog'
    BY <1>1 DEF Safe, PredecessorsExist
  <2>3. Objects = 1..(Last - 1) \cup {Last}
    BY ObjectBounds DEF Objects
  <2>4. catalog' = Objects
    BY <2>2, <2>3, <1>1
  <2> QED
    BY <2>1, <2>4, AnswerPending
    DEF Install!Next, Install!AnswerOk, Install!Objects, Objects
<1>2. CASE at[c] # Last
  <2>1. Answer' = Answer
    BY <1>2, SilentMove DEF Advance, Ended
  <2> QED BY <2>1 DEF Install!Next
<1> QED BY <1>1, <1>2

\* Every step is a step of GraphInstall or a stutter.
LEMMA StepImplements ==
  TypeOK /\ Safe /\ Transactions /\ TypeOK' /\ [Next]_vars => [Install!Next]_(Install!vars)
<1> SUFFICES ASSUME TypeOK, Safe, Transactions, TypeOK', [Next]_vars
             PROVE  Install!Next \/ UNCHANGED Install!vars
  OBVIOUS
<1>0. catalog' \in SUBSET Objects
  BY DEF TypeOK
\* A step that creates nothing and answers nothing is a stutter.
<1>1. ASSUME UNCHANGED catalog, Answer' = Answer PROVE UNCHANGED Install!vars
  BY <1>1 DEF Install!vars
<1>2. ASSUME UNCHANGED catalog PROVE Install!Grow
  BY <1>2 DEF Install!Grow
<1>3. ASSUME NEW c \in Callers, Probe(c) PROVE Install!Next \/ UNCHANGED Install!vars
  <2>1. UNCHANGED catalog /\ pc[c] \notin Ended
    BY <1>3 DEF Probe, Ended
  <2>2. CASE at[c] \in catalog /\ Advance(c)
    BY <2>1, <2>2, <1>0, <1>2, AdvanceImplements
  <2>3. CASE Goto(c, "submit")
    BY <2>1, <2>3, <1>1, SilentMove DEF Ended
  <2> QED BY <1>3, <2>2, <2>3 DEF Probe
<1>4. ASSUME NEW c \in Callers, Submit(c) PROVE Install!Next \/ UNCHANGED Install!vars
  <2>1. UNCHANGED catalog /\ pc[c] \notin Ended
    BY <1>4 DEF Submit, Ended
  <2>2. CASE at[c] \in catalog /\ Advance(c)
    BY <2>1, <2>2, <1>0, <1>2, AdvanceImplements
  <2>3. CASE Goto(c, "insert") \/ Goto(c, "recheck")
    BY <2>1, <2>3, <1>1, SilentMove DEF Ended
  <2> QED BY <1>4, <2>2, <2>3 DEF Submit
<1>5. ASSUME NEW c \in Callers, Insert(c) PROVE UNCHANGED Install!vars
  <2>1. /\ UNCHANGED catalog /\ pc[c] \notin Ended
        /\ Goto(c, "creating") \/ Goto(c, "recheck")
    BY <1>5 DEF Insert, Ended
  <2> QED BY <2>1, <1>1, SilentMove DEF Ended
<1>6. ASSUME NEW c \in Callers, Commit(c) PROVE Install!Next
  <2>1. /\ holder[at[c]] # None /\ at[c] \in Objects /\ Committed(at[c])
        /\ pc[c] \notin Ended /\ Advance(c)
    BY <1>6, NoneAssumption DEF Commit, Ended, Transactions, CreatorsHold, TypeOK
  <2>2. Install!Grow
    BY <2>1, CatalogGrows DEF Install!Grow, Install!Objects, Objects
  <2>3. at[c] \in catalog' /\ catalog \subseteq catalog'
    BY <2>1 DEF Committed
  <2> QED BY <2>1, <2>2, <2>3, <1>0, AdvanceImplements
<1>7. ASSUME NEW c \in Callers, Abort(c) PROVE UNCHANGED Install!vars
  <2>1. UNCHANGED catalog /\ pc[c] \notin Ended /\ Goto(c, "recheck")
    BY <1>7 DEF Abort, Ended
  <2> QED BY <2>1, <1>1, SilentMove DEF Ended
\* The three ways to end other than Ok.
<1>8. ASSUME NEW c \in Callers, NEW label \in {"failed", "crashed"},
             Goto(c, label), UNCHANGED catalog, pc[c] \notin Ended
      PROVE  Install!Next
  <2>1. Answer' = [Answer EXCEPT ![c] = Verdict(label)] /\ Answer[c] = "pending"
    BY <1>8, AnswerOfMove, AnswerPending
  <2>2. Install!AnswerError(c) \/ Install!Vanish(c)
    BY <2>1 DEF Install!AnswerError, Install!Vanish, Verdict
  <2> QED BY <1>8, <2>1, <2>2 DEF Install!Next
<1>9. ASSUME NEW c \in Callers, Recheck(c) PROVE Install!Next \/ UNCHANGED Install!vars
  <2>1. UNCHANGED catalog /\ pc[c] \notin Ended
    BY <1>9 DEF Recheck, Ended
  <2>2. CASE at[c] \in catalog /\ Advance(c)
    BY <2>1, <2>2, <1>0, <1>2, AdvanceImplements
  <2>3. CASE Goto(c, "failed")
    BY <2>1, <2>3, <1>8
  <2> QED BY <1>9, <2>2, <2>3 DEF Recheck
<1>10. ASSUME NEW c \in Callers, QueryFails(c) PROVE Install!Next
  BY <1>10, <1>8 DEF QueryFails, Ended
<1>11. ASSUME NEW c \in Callers, Crash(c) PROVE Install!Next
  BY <1>11, <1>8 DEF Crash
<1>12. ASSUME NEW o \in Objects, Orphan(o) PROVE Install!Next \/ UNCHANGED Install!vars
  <2>1. UNCHANGED pc /\ holder[o] # None
    BY <1>12, NoneAssumption DEF Orphan
  <2>2. Answer' = Answer
    BY <2>1 DEF Answer
  <2>3. CASE Committed(o)
    BY <2>1, <2>2, <2>3, CatalogGrows DEF Install!Next, Install!Grow, Install!Objects, Objects
  <2>4. CASE UNCHANGED catalog
    BY <2>2, <2>4, <1>1
  <2> QED BY <1>12, <2>3, <2>4 DEF Orphan
<1>13. CASE UNCHANGED vars
  BY <1>13 DEF vars, Install!vars, Answer
<1>14. ASSUME NEW c \in Callers, Lose(c) PROVE UNCHANGED Install!vars
  <2>1. UNCHANGED catalog /\ pc[c] \notin Ended /\ Goto(c, "recheck")
    BY <1>14 DEF Lose, Ended
  <2> QED BY <2>1, <1>1, SilentMove DEF Ended
<1>15. ASSUME NEW o \in Objects, Drift(o) PROVE UNCHANGED Install!vars
  BY <1>15 DEF Drift, Install!vars, Answer
<1> QED
  BY <1>3, <1>4, <1>5, <1>6, <1>7, <1>9, <1>10, <1>11, <1>12, <1>13, <1>14, <1>15
  DEF Next, Statement, Fault

\* Any number of overlapping, crashing, aborted and disconnected calls of ensure_graph
\* together behave like the atomic, once-only installation of GraphInstall.
THEOREM BootstrapImplementsInstall == Spec => ImplementsInstall
<1>1. Init => Install!Init
  BY DEF Init, Install!Init, Answer
<1> QED
  BY <1>1, StepImplements, TypeCorrect, SafeAlways, TransactionsAlways, PTL
  DEF Spec, Install!Spec, ImplementsInstall
=============================================================================
