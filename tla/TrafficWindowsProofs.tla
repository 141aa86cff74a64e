------------------------ MODULE TrafficWindowsProofs ------------------------
(***************************************************************************)
(* Proofs about TrafficAnalysis and TrafficWindows, for any requests, any  *)
(* versions of the specification and any number of lines, rotations,       *)
(* deployments and commands.                                               *)
(***************************************************************************)
EXTENDS TrafficWindows, FiniteSetTheorems, FunctionTheorems, SequenceTheorems,
        WellFoundedInduction, TLAPS

-----------------------------------------------------------------------------
(* Numbers and sets of numbers.                                            *)

\* Induction, for properties given as the set of the numbers that have them.
LEMMA SetInduction ==
  ASSUME NEW S, 0 \in S, \A n \in Nat : n \in S => n + 1 \in S
  PROVE  Nat \subseteq S
<1> SUFFICES ASSUME Nat \ S # {} PROVE FALSE
  OBVIOUS
<1> DEFINE T == Nat \ S
<1>1. PICK x \in T : \A y \in T : <<y, x>> \notin OpToRel(<, Nat)
  <2>1. T \subseteq Nat /\ T # {}
    OBVIOUS
  <2> HIDE DEF T
  <2> QED BY <2>1, NatLessThanWellFounded, WFMin
<1>2. x \in Nat /\ x # 0 /\ x \notin S
  BY <1>1
<1>3. x - 1 \in Nat /\ x - 1 < x
  BY <1>2
<1>4. <<x - 1, x>> \in OpToRel(<, Nat)
  BY <1>2, <1>3 DEF OpToRel
<1>5. x - 1 \in S
  BY <1>1, <1>3, <1>4
<1>6. (x - 1) + 1 \in S
  BY <1>3, <1>5
<1> QED BY <1>2, <1>6

\* The least of some numbers.
LEMMA MinOf ==
  ASSUME NEW S \in SUBSET Nat, S # {}
  PROVE  Min(S) \in S /\ \A y \in S : Min(S) <= y
<1>1. PICK x \in S : \A y \in S : <<y, x>> \notin OpToRel(<, Nat)
  BY NatLessThanWellFounded, WFMin
<1>2. \A y \in S : x <= y
  <2> SUFFICES ASSUME NEW y \in S, y < x PROVE FALSE
    OBVIOUS
  <2>1. <<y, x>> \in OpToRel(<, Nat)
    BY DEF OpToRel
  <2> QED BY <1>1, <2>1
<1> QED BY <1>2 DEF Min

\* The greatest of some numbers, if they have a bound.
LEMMA MaxOf ==
  ASSUME NEW S \in SUBSET Nat, S # {}, NEW b \in Nat, \A y \in S : y <= b
  PROVE  Max(S) \in S /\ \A y \in S : y <= Max(S)
<1> DEFINE U == {u \in Nat : \A y \in S : y <= u}
<1>1. Min(U) \in U /\ \A u \in U : Min(U) <= u
  <2>1. U \in SUBSET Nat /\ b \in U
    OBVIOUS
  <2> HIDE DEF U
  <2> QED BY <2>1, MinOf
<1>2. Min(U) \in S
  <2> SUFFICES ASSUME Min(U) \notin S PROVE FALSE
    OBVIOUS
  <2>1. Min(U) \in Nat /\ \A y \in S : y <= Min(U)
    BY <1>1
  <2>2. \A y \in S : y < Min(U)
    BY <2>1
  <2>3. Min(U) - 1 \in Nat
    <3>1. PICK y \in S : TRUE
      OBVIOUS
    <3>2. y \in Nat /\ y < Min(U)
      BY <2>2
    <3> QED BY <2>1, <3>2
  <2>4. Min(U) - 1 \in U
    BY <2>1, <2>2, <2>3
  <2> QED BY <1>1, <2>1, <2>4
<1>3. \A y \in S : y <= Min(U)
  BY <1>1
<1> HIDE DEF U
<1> QED BY <1>2, <1>3 DEF Max

\* In a finite set with a total order every place is somebody's: the number of
\* those that are not greater is different for every element.
LEMMA Places ==
  ASSUME NEW S, IsFiniteSet(S), NEW le \in SUBSET (S \X S),
         \A i \in S : <<i, i>> \in le,
         \A i, j \in S : <<i, j>> \in le \/ <<j, i>> \in le,
         \A i, j \in S : <<i, j>> \in le /\ <<j, i>> \in le => i = j,
         \A i, j, k \in S : <<i, j>> \in le /\ <<j, k>> \in le => <<i, k>> \in le,
         NEW n \in 1..Cardinality(S)
  PROVE  \E i \in S : /\ Cardinality({j \in S : <<j, i>> \in le}) = n
                      /\ \A k \in S : Cardinality({j \in S : <<j, k>> \in le}) = n => k = i
<1> DEFINE below == [i \in S |-> {j \in S : <<j, i>> \in le}]
           place == [i \in S |-> Cardinality(below[i])]
           N == Cardinality(S)
<1>1. N \in Nat
  BY FS_CardinalityType
<1>2. \A i \in S : /\ below[i] \in SUBSET S /\ i \in below[i]
                   /\ below[i] = {j \in S : <<j, i>> \in le}
  OBVIOUS
<1>3. \A i, k \in S : i # k => below[i] # below[k]
  OBVIOUS
<1>4. \A i, k \in S : <<i, k>> \in le => below[i] \subseteq below[k]
  OBVIOUS
<1> HIDE DEF below, N
<1>5. \A i \in S : IsFiniteSet(below[i]) /\ Cardinality(below[i]) \in 1..N
  <2> SUFFICES ASSUME NEW i \in S PROVE IsFiniteSet(below[i]) /\ Cardinality(below[i]) \in 1..N
    OBVIOUS
  <2>1. IsFiniteSet(below[i]) /\ Cardinality(below[i]) <= N
    BY <1>2, FS_Subset DEF N
  <2>2. Cardinality(below[i]) \in Nat
    BY <2>1, FS_CardinalityType
  <2>3. Cardinality(below[i]) # 0
    BY <1>2, <2>1, FS_EmptySet
  <2> QED BY <1>1, <2>1, <2>2, <2>3
<1>6. \A i, k \in S : <<i, k>> \in le /\ place[i] = place[k] => i = k
  <2> SUFFICES ASSUME NEW i \in S, NEW k \in S, <<i, k>> \in le, place[i] = place[k]
               PROVE  i = k
    OBVIOUS
  <2>1. below[i] \in SUBSET below[k] /\ Cardinality(below[k]) = Cardinality(below[i])
    BY <1>4
  <2>2. below[k] = below[i]
    BY <1>5, <2>1, FS_Subset
  <2> QED BY <1>3, <2>2
<1>7. place \in [S -> 1..N] /\ \A i, k \in S : place[i] = place[k] => i = k
  BY <1>5, <1>6
<1>8. \A i \in S : place[i] = Cardinality({j \in S : <<j, i>> \in le})
  BY <1>2
<1> HIDE DEF place
<1>9. place \in Injection(S, 1..N)
  BY <1>7 DEF Injection, IsInjective
<1>10. IsFiniteSet(1..N) /\ Cardinality(1..N) = N
  BY <1>1, FS_Interval
<1>11. place \in Surjection(S, 1..N)
  BY <1>9, <1>10, FS_Injection DEF N
<1>12. PICK i \in S : place[i] = n
  BY <1>11 DEF Surjection, N
<1> QED BY <1>7, <1>8, <1>12

\* Nth finds the number at a place, and it is the only one there.
LEMMA NthOf ==
  ASSUME NEW S \in SUBSET Nat, IsFiniteSet(S), NEW n \in 1..Cardinality(S)
  PROVE  /\ Nth(S, n) \in S
         /\ Cardinality({j \in S : j <= Nth(S, n)}) = n
         /\ \A i \in S : Cardinality({j \in S : j <= i}) = n => i = Nth(S, n)
<1> DEFINE le == {p \in S \X S : p[1] <= p[2]}
<1>1. \A i, j \in S : <<i, j>> \in le <=> i <= j
  OBVIOUS
<1>2. le \in SUBSET (S \X S)
  OBVIOUS
<1>3. \A i \in S : {j \in S : <<j, i>> \in le} = {j \in S : j <= i}
  BY <1>1
<1> HIDE DEF le
<1>4. /\ \A i \in S : <<i, i>> \in le
      /\ \A i, j \in S : <<i, j>> \in le \/ <<j, i>> \in le
      /\ \A i, j \in S : <<i, j>> \in le /\ <<j, i>> \in le => i = j
      /\ \A i, j, k \in S : <<i, j>> \in le /\ <<j, k>> \in le => <<i, k>> \in le
  BY <1>1
<1>5. PICK i \in S : /\ Cardinality({j \in S : <<j, i>> \in le}) = n
                     /\ \A k \in S : Cardinality({j \in S : <<j, k>> \in le}) = n => k = i
  <2>1. \A m \in 1..Cardinality(S) :
          \E i \in S : /\ Cardinality({j \in S : <<j, i>> \in le}) = m
                       /\ \A k \in S : Cardinality({j \in S : <<j, k>> \in le}) = m => k = i
    BY <1>2, <1>4, Places
  <2> QED BY <2>1, Zenon
<1>6. /\ Cardinality({j \in S : j <= i}) = n
      /\ \A k \in S : Cardinality({j \in S : j <= k}) = n => k = i
  BY <1>3, <1>5
<1>7. Nth(S, n) = i
  BY <1>6 DEF Nth
<1> QED BY <1>6, <1>7

\* Nth finds every member of a finite set at its rank.
LEMMA NthIs ==
  ASSUME NEW S \in SUBSET Nat, IsFiniteSet(S), NEW i \in S
  PROVE  /\ Cardinality({j \in S : j <= i}) \in 1..Cardinality(S)
         /\ Nth(S, Cardinality({j \in S : j <= i})) = i
<1> DEFINE below == {j \in S : j <= i}
           n == Cardinality(below)
<1>1. below \in SUBSET S /\ i \in below
  OBVIOUS
<1> HIDE DEF below
<1>2. IsFiniteSet(below) /\ n \in Nat /\ n <= Cardinality(S) /\ Cardinality(S) \in Nat
  BY <1>1, FS_Subset, FS_CardinalityType
<1>3. n # 0
  BY <1>1, <1>2, FS_EmptySet
<1>4. n \in 1..Cardinality(S)
  BY <1>2, <1>3
<1> HIDE DEF n
<1>5. \A k \in S : Cardinality({j \in S : j <= k}) = n => k = Nth(S, n)
  BY <1>4, NthOf
<1>6. n = Cardinality({j \in S : j <= i})
  BY DEF n, below
<1> QED BY <1>4, <1>5, <1>6

\* A greater number comes after all others.
LEMMA NthAfter ==
  ASSUME NEW S \in SUBSET Nat, IsFiniteSet(S), NEW x \in Nat, \A i \in S : i < x
  PROVE  /\ IsFiniteSet(S \cup {x}) /\ Cardinality(S \cup {x}) = Cardinality(S) + 1
         /\ \A n \in 1..Cardinality(S) : Nth(S \cup {x}, n) = Nth(S, n)
<1> DEFINE T == S \cup {x}
<1>1. T \in SUBSET Nat
  OBVIOUS
<1>2. IsFiniteSet(T) /\ Cardinality(T) = Cardinality(S) + 1 /\ Cardinality(S) \in Nat
  <2>1. x \notin S
    OBVIOUS
  <2>2. IsFiniteSet(T) /\ (Cardinality(T) = Cardinality(S) \/ Cardinality(T) = Cardinality(S) + 1)
    BY FS_AddElement
  <2>3. Cardinality(T) = Cardinality(S) + 1
    BY <2>1, FS_AddElement
  <2> QED BY <2>2, <2>3, FS_CardinalityType
<1>3. ASSUME NEW n \in 1..Cardinality(S) PROVE Nth(T, n) = Nth(S, n)
  <2>1. Nth(S, n) \in S /\ Cardinality({j \in S : j <= Nth(S, n)}) = n
    BY NthOf
  <2>2. {j \in T : j <= Nth(S, n)} = {j \in S : j <= Nth(S, n)}
    <3>1. Nth(S, n) \in Nat /\ Nth(S, n) < x
      BY <2>1
    <3> QED BY <3>1
  <2>3. Nth(S, n) \in T /\ Cardinality({j \in T : j <= Nth(S, n)}) = n
    BY <2>1, <2>2
  <2>4. n \in 1..Cardinality(T)
    BY <1>2
  <2> HIDE DEF T
  <2>5. \A i \in T : Cardinality({j \in T : j <= i}) = n => i = Nth(T, n)
    BY <1>1, <1>2, <2>4, NthOf
  <2> QED BY <2>3, <2>5
<1> QED BY <1>2, <1>3

\* Numbers that are put in the place of others without changing their order
\* keep their places.
LEMMA NthMapped ==
  ASSUME NEW A \in SUBSET Nat, NEW B \in SUBSET Nat, IsFiniteSet(A), NEW h \in [A -> B],
         \A b \in B : \E a \in A : h[a] = b,
         \A a, c \in A : a < c => h[a] < h[c]
  PROVE  /\ IsFiniteSet(B) /\ Cardinality(B) = Cardinality(A)
         /\ \A n \in 1..Cardinality(A) : Nth(B, n) = h[Nth(A, n)]
<1>1. \A a, c \in A : a <= c <=> h[a] <= h[c]
  <2> SUFFICES ASSUME NEW a \in A, NEW c \in A PROVE a <= c <=> h[a] <= h[c]
    OBVIOUS
  <2>1. a \in Nat /\ c \in Nat /\ h[a] \in Nat /\ h[c] \in Nat
    OBVIOUS
  <2>2. (a < c => h[a] < h[c]) /\ (c < a => h[c] < h[a]) /\ (a = c => h[a] = h[c])
    OBVIOUS
  <2> QED BY <2>1, <2>2
<1>2. \A a, c \in A : h[a] = h[c] => a = c
  BY <1>1
<1>3. h \in Bijection(A, B)
  BY <1>2, Fun_IsBij
<1>4. IsFiniteSet(B) /\ Cardinality(B) = Cardinality(A)
  BY <1>3, FS_Bijection DEF ExistsBijection
<1>5. ASSUME NEW n \in 1..Cardinality(A) PROVE Nth(B, n) = h[Nth(A, n)]
  <2> DEFINE a == Nth(A, n)
             below == {j \in A : j <= a}
             under == {j \in B : j <= h[a]}
             g == [j \in below |-> h[j]]
  <2>1. a \in A /\ Cardinality(below) = n
    BY <1>5, NthOf
  <2> HIDE DEF a
  <2>2. g \in [below -> under] /\ \A j, k \in below : g[j] = g[k] => j = k
    BY <1>1, <1>2, <2>1
  <2>3. \A b \in under : \E j \in below : g[j] = b
    BY <1>1, <2>1
  <2>4. IsFiniteSet(below)
    <3>1. below \in SUBSET A
      OBVIOUS
    <3> QED BY <3>1, FS_Subset
  <2> HIDE DEF g, below
  <2>5. g \in Bijection(below, under)
    BY <2>2, <2>3, Fun_IsBij
  <2>6. Cardinality(under) = n
    BY <2>1, <2>4, <2>5, FS_Bijection DEF ExistsBijection
  <2>7. h[a] \in B
    BY <2>1
  <2> DEFINE x == h[a]
  <2>8. Nth(B, Cardinality({j \in B : j <= x})) = x
    <3>1. x \in B
      BY <2>7
    <3> HIDE DEF x
    <3> QED BY <1>4, <3>1, NthIs
  <2> QED BY <2>6, <2>8 DEF a, under
<1> QED BY <1>4, <1>5

-----------------------------------------------------------------------------
(* longest_sequential_run.                                                 *)

\* The places of ids whose successor is one step away.
Steps(ids) == {k \in Nat : k \in DOMAIN ids /\ k + 1 \in DOMAIN ids
                             /\ Step(ids[k], ids[k + 1]) \in {1, -1}}

\* What the loop has in current after each id.
IsRun(run, ids, n) ==
  run = [i \in 1..n |-> IF i > 1 /\ Step(ids[i - 1], ids[i]) \in {1, -1} THEN run[i - 1] + 1 ELSE 1]

\* The scan for runs is defined at every position.
LEMMA RunExists ==
  ASSUME NEW ids
  PROVE  \A n \in Nat : \E run : IsRun(run, ids, n)
<1> DEFINE S == {n \in Nat : \E run : IsRun(run, ids, n)}
<1>1. 0 \in S
  <2>1. 1..0 = {}
    OBVIOUS
  <2>2. IsRun([i \in 1..0 |-> 1], ids, 0)
    BY <2>1 DEF IsRun
  <2> QED BY <2>2
<1>2. ASSUME NEW n \in Nat, n \in S PROVE n + 1 \in S
  <2>1. PICK f : f = [i \in 1..n |-> IF i > 1 /\ Step(ids[i - 1], ids[i]) \in {1, -1}
                                     THEN f[i - 1] + 1 ELSE 1]
    BY <1>2 DEF IsRun
  <2> DEFINE g == [i \in 1..(n + 1) |->
                     IF i \in 1..n THEN f[i]
                     ELSE IF i > 1 /\ Step(ids[i - 1], ids[i]) \in {1, -1} THEN f[i - 1] + 1 ELSE 1]
  <2>2. \A i \in 1..(n + 1) : i > 1 => g[i - 1] = f[i - 1]
    OBVIOUS
  <2>3. \A i \in 1..(n + 1) :
          g[i] = IF i > 1 /\ Step(ids[i - 1], ids[i]) \in {1, -1} THEN g[i - 1] + 1 ELSE 1
    <3> SUFFICES ASSUME NEW i \in 1..(n + 1)
                 PROVE  g[i] = IF i > 1 /\ Step(ids[i - 1], ids[i]) \in {1, -1} THEN g[i - 1] + 1 ELSE 1
      OBVIOUS
    <3>1. CASE i \in 1..n
      <4>1. g[i] = f[i]
        BY <3>1
      <4>2. f[i] = IF i > 1 /\ Step(ids[i - 1], ids[i]) \in {1, -1} THEN f[i - 1] + 1 ELSE 1
        BY <2>1, <3>1
      <4> HIDE DEF g
      <4> QED BY <2>2, <4>1, <4>2
    <3>2. CASE i \notin 1..n
      <4>1. g[i] = IF i > 1 /\ Step(ids[i - 1], ids[i]) \in {1, -1} THEN f[i - 1] + 1 ELSE 1
        BY <3>2
      <4> HIDE DEF g
      <4> QED BY <2>2, <4>1
    <3> QED BY <3>1, <3>2
  <2>4. g = [i \in 1..(n + 1) |-> g[i]]
    OBVIOUS
  <2> HIDE DEF g
  <2>5. IsRun(g, ids, n + 1)
    BY <2>3, <2>4 DEF IsRun
  <2> QED BY <2>5
<1> HIDE DEF S
<1>3. Nat \subseteq S
  BY <1>1, <1>2, SetInduction
<1> QED BY <1>3 DEF S

\* A run is as long as the ids before it were one step apart, and no longer.
LEMMA RunsAreSteps ==
  ASSUME NEW ids, NEW n \in Nat, DOMAIN ids = 1..n, NEW run, IsRun(run, ids, n), NEW i \in 1..n
  PROVE  /\ run[i] \in 1..i
         /\ \A k \in (i - run[i] + 1)..(i - 1) : k \in Steps(ids)
         /\ i - run[i] \notin Steps(ids)
<1> DEFINE Good(j) == /\ run[j] \in 1..j
                      /\ \A k \in (j - run[j] + 1)..(j - 1) : k \in Steps(ids)
                      /\ j - run[j] \notin Steps(ids)
           S == {j \in Nat : j \in 1..n => Good(j)}
<1>1. \A j \in 1..n : run[j] = IF j > 1 /\ Step(ids[j - 1], ids[j]) \in {1, -1}
                               THEN run[j - 1] + 1 ELSE 1
  BY DEF IsRun
<1>2. \A j \in 1..n : (j > 1 /\ Step(ids[j - 1], ids[j]) \in {1, -1}) <=> j - 1 \in Steps(ids)
  <2> SUFFICES ASSUME NEW j \in 1..n
               PROVE  (j > 1 /\ Step(ids[j - 1], ids[j]) \in {1, -1}) <=> j - 1 \in Steps(ids)
    OBVIOUS
  <2>1. (j - 1) + 1 = j /\ j \in DOMAIN ids /\ (j > 1 <=> j - 1 \in DOMAIN ids) /\ j - 1 \in Nat
    OBVIOUS
  <2> QED BY <2>1 DEF Steps
<1>3. 0 \notin Steps(ids)
  BY DEF Steps
<1>4. 0 \in S
  OBVIOUS
<1>5. ASSUME NEW m \in Nat, m \in S PROVE m + 1 \in S
  <2> SUFFICES ASSUME m + 1 \in 1..n PROVE Good(m + 1)
    OBVIOUS
  <2>1. CASE m \in Steps(ids)
    <3>1. m \in 1..n /\ m \in Nat /\ m > 0
      BY <1>3, <2>1
    <3>2. Good(m)
      BY <1>5, <3>1
    <3>3. run[m + 1] = run[m] + 1
      BY <1>1, <1>2, <2>1, <3>1
    <3> QED BY <2>1, <3>1, <3>2, <3>3
  <2>2. CASE m \notin Steps(ids)
    <3>1. run[m + 1] = 1
      BY <1>1, <1>2, <2>2
    <3> QED BY <2>2, <3>1
  <2> QED BY <2>1, <2>2
<1> HIDE DEF S
<1>6. Nat \subseteq S
  BY <1>4, <1>5, SetInduction
<1>7. i \in S
  BY <1>6
<1> QED BY <1>7 DEF S

\* The longest run has m ids exactly if there are m ids in a row of which each is
\* one step from the next.
LEMMA LongestRun ==
  ASSUME NEW ids, NEW n \in Nat, ids = [k \in 1..n |-> ids[k]], NEW m \in Nat \ {0}
  PROVE  LongestSequentialRun(ids) >= m <=>
           \E i, j \in 1..n : j - i >= m - 1 /\ \A k \in i..(j - 1) : k \in Steps(ids)
<1> DEFINE run == CHOOSE f : IsRun(f, ids, n)
           R == {run[i] : i \in 1..n}
<1>1. DOMAIN ids = 1..n
  OBVIOUS
<1>2. IsRun(run, ids, n)
  <2>1. \E f : IsRun(f, ids, n)
    BY RunExists
  <2> QED BY <2>1, Zenon
<1>3. LongestSequentialRun(ids) = IF ids = <<>> THEN 0 ELSE Max(R)
  BY <1>1 DEF LongestSequentialRun, IsRun
<1> HIDE DEF run
<1>4. \A i \in 1..n : /\ run[i] \in 1..i
                      /\ \A k \in (i - run[i] + 1)..(i - 1) : k \in Steps(ids)
                      /\ i - run[i] \notin Steps(ids)
  BY <1>1, <1>2, RunsAreSteps
<1>5. CASE n = 0
  <2>1. 1..n = {}
    BY <1>5
  <2>2. ids = <<>>
    BY <2>1
  <2> QED BY <1>3, <2>1, <2>2
<1>6. CASE n # 0
  <2>1. ids # <<>>
    BY <1>1, <1>6
  <2>2. R \in SUBSET Nat /\ R # {} /\ \A y \in R : y <= n
    <3>1. ASSUME NEW i \in 1..n PROVE run[i] \in Nat /\ run[i] <= n
      <4>1. run[i] \in 1..i
        BY <1>4
      <4> QED BY <4>1
    <3>2. 1 \in 1..n
      BY <1>6
    <3> QED BY <3>1, <3>2
  <2>3. Max(R) \in R /\ \A y \in R : y <= Max(R)
    <3> HIDE DEF R
    <3> QED BY <2>2, MaxOf
  <2>4. ASSUME Max(R) >= m
        PROVE  \E i, j \in 1..n : j - i >= m - 1 /\ \A k \in i..(j - 1) : k \in Steps(ids)
    <3>1. PICK j \in 1..n : run[j] = Max(R)
      BY <2>3
    <3>2. run[j] \in 1..j /\ run[j] >= m
      BY <1>4, <2>4, <3>1
    <3>3. j - run[j] + 1 \in 1..n /\ j - (j - run[j] + 1) >= m - 1
      BY <3>2
    <3> QED BY <1>4, <3>3
  <2>5. ASSUME NEW i \in 1..n, NEW j \in 1..n, j - i >= m - 1,
               \A k \in i..(j - 1) : k \in Steps(ids)
        PROVE  Max(R) >= m
    <3>1. run[j] \in 1..j /\ j - run[j] \notin Steps(ids)
      BY <1>4
    <3>2. j - run[j] < i
      BY <2>5, <3>1
    <3>3. run[j] >= m
      BY <2>5, <3>1, <3>2
    <3>4. run[j] \in R
      OBVIOUS
    <3>5. Max(R) \in Nat /\ run[j] <= Max(R)
      BY <2>2, <2>3, <3>4
    <3> QED BY <3>1, <3>3, <3>5
  <2> QED BY <1>3, <2>1, <2>4, <2>5
<1> QED BY <1>5, <1>6

\* Numbers of the range, in places counted from 1.
Ids(ids) == \E n \in Nat : ids \in [1..n -> -IdLimit .. (IdLimit - 1)]

\* The runs the loop counts: of steps up or down, as far as the machine sees.
CountedRun(ids) == \E i, j \in DOMAIN ids : /\ j - i >= MinRun - 1
                                            /\ \A k \in i..(j - 1) : Step(ids[k], ids[k + 1]) \in {1, -1}

\* What the loop finds is that there is such a run.
LEMMA RunsAreFound ==
  ASSUME NEW ids, Ids(ids)
  PROVE  LongestSequentialRun(ids) >= MinRun <=> CountedRun(ids)
<1>1. PICK n \in Nat : ids \in [1..n -> -IdLimit .. (IdLimit - 1)]
  BY DEF Ids
<1>2. MinRun \in Nat \ {0}
  BY TrafficAnalysisAssumption DEF TrafficAnalysisAssumption
<1>3. ids = [k \in 1..n |-> ids[k]] /\ DOMAIN ids = 1..n
  BY <1>1
<1>4. LongestSequentialRun(ids) >= MinRun <=>
        \E i, j \in 1..n : j - i >= MinRun - 1 /\ \A k \in i..(j - 1) : k \in Steps(ids)
  BY <1>2, <1>3, LongestRun
<1>5. \A i, j \in 1..n : \A k \in i..(j - 1) :
        k \in Steps(ids) <=> Step(ids[k], ids[k + 1]) \in {1, -1}
  <2> SUFFICES ASSUME NEW i \in 1..n, NEW j \in 1..n, NEW k \in i..(j - 1)
               PROVE  k \in Steps(ids) <=> Step(ids[k], ids[k + 1]) \in {1, -1}
    OBVIOUS
  <2>1. k \in Nat /\ k \in 1..n /\ k + 1 \in 1..n
    OBVIOUS
  <2> QED BY <1>3, <2>1 DEF Steps
<1>6. CountedRun(ids) <=> \E i, j \in 1..n : /\ j - i >= MinRun - 1
                                             /\ \A k \in i..(j - 1) : Step(ids[k], ids[k + 1]) \in {1, -1}
  BY <1>3, Zenon DEF CountedRun
<1> QED BY <1>4, <1>5, <1>6

\* A step of exactly one is counted; and what is counted is one, unless the
\* difference does not fit.
LEMMA StepIsExact ==
  ASSUME NEW a \in -IdLimit .. (IdLimit - 1), NEW b \in -IdLimit .. (IdLimit - 1)
  PROVE  /\ b - a \in {1, -1} => Step(a, b) \in {1, -1}
         /\ b - a \in -IdLimit .. (IdLimit - 1) => Step(a, b) = b - a
<1>1. IdLimit \in Nat /\ IdLimit > 0
  BY TrafficAnalysisAssumption DEF TrafficAnalysisAssumption
<1> QED BY <1>1 DEF Step

\* More ids after the others do not end a run.
LEMMA RunsStay ==
  ASSUME NEW ids, NEW more, NEW n \in Nat, NEW m \in Nat, n <= m,
         DOMAIN ids = 1..n, DOMAIN more = 1..m, \A k \in 1..n : more[k] = ids[k], CountedRun(ids)
  PROVE  CountedRun(more)
<1>1. PICK i \in 1..n, j \in 1..n : /\ j - i >= MinRun - 1
                                    /\ \A k \in i..(j - 1) : Step(ids[k], ids[k + 1]) \in {1, -1}
  BY DEF CountedRun
<1>2. \A k \in i..(j - 1) : k \in 1..n /\ k + 1 \in 1..n
  OBVIOUS
<1>3. \A k \in i..(j - 1) : Step(more[k], more[k + 1]) \in {1, -1}
  BY <1>1, <1>2
<1>4. i \in 1..m /\ j \in 1..m
  OBVIOUS
<1> QED BY <1>1, <1>3, <1>4, Zenon DEF CountedRun

\* Every run of ids one apart is counted, and nothing else, unless a difference
\* does not fit.
LEMMA RunsAreExact ==
  ASSUME NEW ids, Ids(ids)
  PROVE  /\ HasRun(ids) => CountedRun(ids)
         /\ CountedRun(ids) /\ Fits(ids) => HasRun(ids)
<1>1. PICK n \in Nat : ids \in [1..n -> -IdLimit .. (IdLimit - 1)]
  BY DEF Ids
<1>2. ASSUME NEW i \in DOMAIN ids, NEW j \in DOMAIN ids, NEW k \in i..(j - 1)
      PROVE  /\ ids[k] \in -IdLimit .. (IdLimit - 1)
             /\ ids[k + 1] \in -IdLimit .. (IdLimit - 1)
             /\ k \in DOMAIN ids /\ k + 1 \in DOMAIN ids
  <2>1. i \in 1..n /\ j \in 1..n /\ DOMAIN ids = 1..n
    BY <1>1
  <2>2. k \in 1..n /\ k + 1 \in 1..n
    BY <2>1
  <2> QED BY <1>1, <2>1, <2>2
<1>3. ASSUME HasRun(ids) PROVE CountedRun(ids)
  <2>1. PICK i \in DOMAIN ids, j \in DOMAIN ids :
          j - i >= MinRun - 1 /\ \A k \in i..(j - 1) : ids[k + 1] - ids[k] \in {1, -1}
    BY <1>3 DEF HasRun
  <2>2. \A k \in i..(j - 1) : Step(ids[k], ids[k + 1]) \in {1, -1}
    BY <1>2, <2>1, StepIsExact
  <2> QED BY <2>1, <2>2, Zenon DEF CountedRun
<1>4. ASSUME CountedRun(ids), Fits(ids) PROVE HasRun(ids)
  <2>1. PICK i \in DOMAIN ids, j \in DOMAIN ids :
          j - i >= MinRun - 1 /\ \A k \in i..(j - 1) : Step(ids[k], ids[k + 1]) \in {1, -1}
    BY <1>4 DEF CountedRun
  <2>2. ASSUME NEW k \in i..(j - 1) PROVE ids[k + 1] - ids[k] \in {1, -1}
    <3>1. ids[k + 1] - ids[k] \in -IdLimit .. (IdLimit - 1)
      BY <1>2, <1>4 DEF Fits
    <3>2. Step(ids[k], ids[k + 1]) = ids[k + 1] - ids[k]
      BY <1>2, <3>1, StepIsExact
    <3> QED BY <2>1, <3>2
  <2> QED BY <2>1, <2>2, Zenon DEF HasRun
<1> QED BY <1>3, <1>4

-----------------------------------------------------------------------------
(* The records of a log and the ids asked for.                             *)

\* The ids of a request for an endpoint: one, or none.
IdsOf(r, e) == ExtractNumericSegment(r.path, SingleNumericParamIndex(e.path))
IdOf(r, e) == CHOOSE id \in IdsOf(r, e) : TRUE

\* Where an identity's requests for an endpoint are in a log.
Mine(traffic, w, e) == {k \in DOMAIN traffic : /\ traffic[k].who = w
                                               /\ Hits(traffic[k], e)
                                               /\ IdsOf(traffic[k], e) # {}}

\* What detect_sequential_id_access collects for an identity and an endpoint.
LEMMA AccessedIdsAre ==
  ASSUME NEW traffic, NEW w, NEW e
  PROVE  AccessedIds(traffic, w, e) =
           [n \in 1..Cardinality(Mine(traffic, w, e)) |-> IdOf(traffic[Nth(Mine(traffic, w, e), n)], e)]
BY Zenon DEF AccessedIds, Mine, IdOf, IdsOf

\* Ids lie in their range.
LEMMA IdOfType ==
  ASSUME NEW r, NEW e, IdsOf(r, e) # {}
  PROVE  IdOf(r, e) \in -IdLimit .. (IdLimit - 1)
<1>1. \A s \in DOMAIN NumberOf : NumberOf[s] \in -IdLimit .. (IdLimit - 1)
  BY TrafficAnalysisAssumption DEF TrafficAnalysisAssumption
<1>2. PICK x : x \in IdsOf(r, e)
  OBVIOUS
<1>3. IdOf(r, e) \in IdsOf(r, e)
  BY <1>2, Zenon DEF IdOf
<1>4. IdsOf(r, e) \subseteq -IdLimit .. (IdLimit - 1)
  BY <1>1, Zenon DEF IdsOf, ExtractNumericSegment
<1> QED BY <1>3, <1>4

\* A log that has been parsed: finitely many records, numbered.
Parsed(traffic) == DOMAIN traffic \in SUBSET Nat /\ IsFiniteSet(DOMAIN traffic)

\* An identity's records for an endpoint are finitely many places of the log.
LEMMA MineType ==
  ASSUME NEW traffic, Parsed(traffic), NEW w, NEW e
  PROVE  /\ Mine(traffic, w, e) \in SUBSET Nat
         /\ IsFiniteSet(Mine(traffic, w, e))
         /\ Cardinality(Mine(traffic, w, e)) \in Nat
<1>1. Mine(traffic, w, e) \in SUBSET DOMAIN traffic
  BY DEF Mine
<1>2. IsFiniteSet(Mine(traffic, w, e))
  BY <1>1, FS_Subset DEF Parsed
<1> QED BY <1>1, <1>2, FS_CardinalityType DEF Parsed

\* The ids an identity asked for are a list of ids.
LEMMA AccessedIdsType ==
  ASSUME NEW traffic, Parsed(traffic), NEW w, NEW e
  PROVE  Ids(AccessedIds(traffic, w, e))
<1> DEFINE M == Mine(traffic, w, e)
           n == Cardinality(M)
           R == -IdLimit .. (IdLimit - 1)
<1>1. M \in SUBSET Nat /\ IsFiniteSet(M) /\ n \in Nat
  BY MineType
<1>2. AccessedIds(traffic, w, e) = [k \in 1..n |-> IdOf(traffic[Nth(M, k)], e)]
  BY AccessedIdsAre
<1>3. \A k \in M : IdOf(traffic[k], e) \in R
  BY IdOfType DEF Mine
<1> HIDE DEF M, n, R
<1>4. \A k \in 1..n : Nth(M, k) \in M
  BY <1>1, NthOf DEF n
<1>5. AccessedIds(traffic, w, e) \in [1..n -> R]
  BY <1>2, <1>3, <1>4
<1> QED BY <1>1, <1>5 DEF Ids, R

\* The lines there can be.
Lines == [method : {r.method : r \in Requests} \cup {Absent}, target : {r.target : r \in Requests},
          status : {r.status : r \in Requests}, who : {r.who : r \in Requests}, at : Nat]

\* No two lines of the log are of the same request.
Distinct(log) == \A i, j \in DOMAIN log : log[i].at = log[j].at => i = j

\* parse_access_log keeps exactly the lines that can be read, each as it is.
LEMMA ParseIs ==
  ASSUME NEW log \in Seq(Lines)
  PROVE  /\ DOMAIN ParseAccessLog(log) = {j \in DOMAIN log : Readable(log[j])}
         /\ \A k \in DOMAIN ParseAccessLog(log) : ParseAccessLog(log)[k] = ParseLine(log[k])
         /\ Parsed(ParseAccessLog(log))
<1> DEFINE D == {j \in DOMAIN log : Readable(log[j])}
<1>1. ParseAccessLog(log) = [i \in D |-> ParseLine(log[i])]
  BY Zenon DEF ParseAccessLog
<1>2. DOMAIN log = 1..Len(log) /\ Len(log) \in Nat
  OBVIOUS
<1>3. D \in SUBSET (1..Len(log)) /\ IsFiniteSet(1..Len(log))
  BY <1>2, FS_Interval
<1> HIDE DEF D
<1>4. IsFiniteSet(D)
  BY <1>3, FS_Subset
<1>5. D \in SUBSET Nat
  BY <1>3
<1> QED BY <1>1, <1>4, <1>5 DEF Parsed, D

\* The records of two logs one after the other are those of the one and of the
\* other.
LEMMA ParseConcat ==
  ASSUME NEW a \in Seq(Lines), NEW b \in Seq(Lines)
  PROVE  ToSet(ParseAccessLog(a \o b)) = ToSet(ParseAccessLog(a)) \cup ToSet(ParseAccessLog(b))
<1> DEFINE c == a \o b
<1>1. c \in Seq(Lines) /\ DOMAIN c = 1..(Len(a) + Len(b)) /\ Len(a) \in Nat /\ Len(b) \in Nat
      /\ DOMAIN a = 1..Len(a) /\ DOMAIN b = 1..Len(b)
  OBVIOUS
<1>2. (\A i \in DOMAIN a : i \in DOMAIN c /\ c[i] = a[i])
      /\ (\A i \in DOMAIN b : Len(a) + i \in DOMAIN c /\ c[Len(a) + i] = b[i])
      /\ (\A i \in DOMAIN c : \/ i \in DOMAIN a /\ c[i] = a[i]
                              \/ i - Len(a) \in DOMAIN b /\ c[i] = b[i - Len(a)])
  OBVIOUS
<1> HIDE DEF c
<1>3. \A s \in Seq(Lines) : \A x :
        x \in ToSet(ParseAccessLog(s)) <=> \E i \in DOMAIN s : Readable(s[i]) /\ x = ParseLine(s[i])
  BY ParseIs DEF ToSet
<1>4. ASSUME NEW x
      PROVE  x \in ToSet(ParseAccessLog(c)) <=>
               x \in ToSet(ParseAccessLog(a)) \/ x \in ToSet(ParseAccessLog(b))
  <2> DEFINE In(s) == \E i \in DOMAIN s : Readable(s[i]) /\ x = ParseLine(s[i])
  <2>1. /\ x \in ToSet(ParseAccessLog(a)) <=> In(a)
        /\ x \in ToSet(ParseAccessLog(b)) <=> In(b)
        /\ x \in ToSet(ParseAccessLog(c)) <=> In(c)
    BY <1>1, <1>3
  <2>2. In(c) <=> In(a) \/ In(b)
    BY <1>2
  <2> QED BY <2>1, <2>2
<1> QED BY <1>4 DEF c

\* A line more leaves the records before it where they are.
LEMMA ParseAppend ==
  ASSUME NEW log \in Seq(Lines), NEW line \in Lines
  PROVE  LET p == ParseAccessLog(log)
             q == ParseAccessLog(Append(log, line))
         IN  /\ \A k \in DOMAIN p : k \in DOMAIN q /\ q[k] = p[k]
             /\ \A k \in DOMAIN q : k \in DOMAIN p \/ k = Len(log) + 1
             /\ \A k \in DOMAIN p : k < Len(log) + 1
             /\ Parsed(p) /\ Parsed(q) /\ Len(log) + 1 \in Nat
<1> DEFINE more == Append(log, line)
<1>1. more \in Seq(Lines) /\ DOMAIN more = 1..(Len(log) + 1) /\ Len(log) \in Nat
      /\ DOMAIN log = 1..Len(log) /\ \A i \in 1..Len(log) : more[i] = log[i]
  OBVIOUS
<1>2. /\ \A k \in DOMAIN log : k \in DOMAIN more /\ more[k] = log[k] /\ k < Len(log) + 1
      /\ \A k \in DOMAIN more : k \in DOMAIN log \/ k = Len(log) + 1
  BY <1>1
<1> HIDE DEF more
<1>3. /\ DOMAIN ParseAccessLog(more) = {j \in DOMAIN more : Readable(more[j])}
      /\ \A k \in DOMAIN ParseAccessLog(more) : ParseAccessLog(more)[k] = ParseLine(more[k])
      /\ Parsed(ParseAccessLog(more))
  BY <1>1, ParseIs
<1>4. /\ DOMAIN ParseAccessLog(log) = {j \in DOMAIN log : Readable(log[j])}
      /\ \A k \in DOMAIN ParseAccessLog(log) : ParseAccessLog(log)[k] = ParseLine(log[k])
      /\ Parsed(ParseAccessLog(log))
  BY ParseIs
<1>5. Len(log) + 1 \in Nat
  BY <1>1
<1> QED BY <1>2, <1>3, <1>4, <1>5 DEF more

-----------------------------------------------------------------------------
(* The findings of a log that grows.                                       *)

\* The first of the ids an identity asked for stay the first.
LEMMA AccessedIdsGrow ==
  ASSUME NEW p, NEW q, NEW x \in Nat, Parsed(p), Parsed(q),
         \A k \in DOMAIN p : k \in DOMAIN q /\ q[k] = p[k] /\ k < x,
         \A k \in DOMAIN q : k \in DOMAIN p \/ k = x,
         NEW w, NEW e, CountedRun(AccessedIds(p, w, e))
  PROVE  CountedRun(AccessedIds(q, w, e))
<1> DEFINE M == Mine(p, w, e)
           N == Mine(q, w, e)
           m == Cardinality(M)
           n == Cardinality(N)
<1>1. /\ M \in SUBSET Nat /\ IsFiniteSet(M) /\ m \in Nat
      /\ N \in SUBSET Nat /\ IsFiniteSet(N) /\ n \in Nat
  BY MineType
<1>2. (\A k \in M : k \in DOMAIN p /\ k \in N /\ k < x) /\ (\A k \in N : k \in M \/ k = x)
  BY DEF Mine
<1>3. /\ AccessedIds(p, w, e) = [k \in 1..m |-> IdOf(p[Nth(M, k)], e)]
      /\ AccessedIds(q, w, e) = [k \in 1..n |-> IdOf(q[Nth(N, k)], e)]
  BY AccessedIdsAre
<1> HIDE DEF M, N
<1>4. m <= n /\ \A k \in 1..m : Nth(N, k) = Nth(M, k)
  <2>1. CASE x \in N
    <3>1. N = M \cup {x}
      BY <1>2, <2>1
    <3>2. \A k \in M : k < x
      BY <1>2
    <3>3. Cardinality(M \cup {x}) = m + 1 /\ \A k \in 1..m : Nth(M \cup {x}, k) = Nth(M, k)
      BY <1>1, <3>2, NthAfter
    <3>4. n = m + 1 /\ \A k \in 1..m : Nth(N, k) = Nth(M, k)
      BY <3>1, <3>3
    <3> HIDE DEF m, n
    <3> QED BY <1>1, <3>4
  <2>2. CASE x \notin N
    <3>1. N = M
      BY <1>2, <2>2
    <3> QED BY <1>1, <3>1
  <2> QED BY <2>1, <2>2
<1>5. \A k \in 1..m : Nth(M, k) \in M
  BY <1>1, NthOf
<1>6. \A k \in 1..m : k \in 1..n /\ q[Nth(N, k)] = p[Nth(M, k)]
  <2> SUFFICES ASSUME NEW k \in 1..m PROVE k \in 1..n /\ q[Nth(N, k)] = p[Nth(M, k)]
    OBVIOUS
  <2>1. k \in 1..n
    BY <1>1, <1>4
  <2>2. Nth(N, k) = Nth(M, k) /\ Nth(M, k) \in DOMAIN p
    BY <1>2, <1>4, <1>5
  <2> QED BY <2>1, <2>2
<1> HIDE DEF m, n
<1>7. \A k \in 1..m : AccessedIds(q, w, e)[k] = AccessedIds(p, w, e)[k]
  BY <1>3, <1>6
<1>8. DOMAIN AccessedIds(p, w, e) = 1..m /\ DOMAIN AccessedIds(q, w, e) = 1..n
  BY <1>3
<1>9. m \in Nat /\ n \in Nat /\ m <= n
  BY <1>1, <1>4
<1> QED BY <1>7, <1>8, <1>9, RunsStay

\* Who is reported for what, from the ids asked for.
LEMMA RunsAreReported ==
  ASSUME NEW inventory, NEW traffic, Parsed(traffic), NEW f
  PROVE  f \in DetectSequentialIdAccess(inventory, traffic) <=>
           \E w \in Identities(traffic) : \E e \in ToSet(inventory) :
              /\ f = [kind |-> "bola", who |-> w, method |-> e.method, path |-> e.path]
              /\ SingleNumericParamIndex(e.path) # 0
              /\ CountedRun(AccessedIds(traffic, w, e))
<1> DEFINE Long(w, e) == LongestSequentialRun(AccessedIds(traffic, w, e)) >= MinRun
<1>1. \A w, e : Long(w, e) <=> CountedRun(AccessedIds(traffic, w, e))
  BY AccessedIdsType, RunsAreFound
<1>2. f \in DetectSequentialIdAccess(inventory, traffic) <=>
        \E w \in Identities(traffic) : \E e \in ToSet(inventory) :
           /\ f = [kind |-> "bola", who |-> w, method |-> e.method, path |-> e.path]
           /\ SingleNumericParamIndex(e.path) # 0
           /\ Long(w, e)
  <2> DEFINE Good(w, e) == SingleNumericParamIndex(e.path) # 0 /\ Long(w, e)
             F(w, e) == [kind |-> "bola", who |-> w, method |-> e.method, path |-> e.path]
             Pairs == {q \in Identities(traffic) \X ToSet(inventory) : Good(q[1], q[2])}
  <2>1. DetectSequentialIdAccess(inventory, traffic) = {F(p[1], p[2]) : p \in Pairs}
    BY Zenon DEF DetectSequentialIdAccess
  <2> HIDE DEF Long
  <2>2. f \in {F(p[1], p[2]) : p \in Pairs} <=> \E p \in Pairs : f = F(p[1], p[2])
    BY Zenon
  <2>3. (\E p \in Pairs : f = F(p[1], p[2])) <=>
          \E w \in Identities(traffic) : \E e \in ToSet(inventory) : f = F(w, e) /\ Good(w, e)
    <3> HIDE DEF F, Good
    <3>1. ASSUME NEW p \in Pairs, f = F(p[1], p[2])
          PROVE  \E w \in Identities(traffic) : \E e \in ToSet(inventory) : f = F(w, e) /\ Good(w, e)
      <4>1. p[1] \in Identities(traffic) /\ p[2] \in ToSet(inventory) /\ Good(p[1], p[2])
        OBVIOUS
      <4> QED BY <3>1, <4>1
    <3>2. ASSUME NEW w \in Identities(traffic), NEW e \in ToSet(inventory), f = F(w, e), Good(w, e)
          PROVE  \E p \in Pairs : f = F(p[1], p[2])
      <4>1. <<w, e>> \in Pairs
        BY <3>2
      <4> QED BY <3>2, <4>1
    <3> QED BY <3>1, <3>2
  <2> QED BY <2>1, <2>2, <2>3
<1> QED BY <1>1, <1>2, Zenon

\* An enumeration that is reported stays reported when a line is appended.
LEMMA RunsStayReported ==
  ASSUME NEW log \in Seq(Lines), NEW line \in Lines, NEW inventory
  PROVE  DetectSequentialIdAccess(inventory, ParseAccessLog(log))
           \subseteq DetectSequentialIdAccess(inventory, ParseAccessLog(Append(log, line)))
<1> DEFINE p == ParseAccessLog(log)
           q == ParseAccessLog(Append(log, line))
           x == Len(log) + 1
<1> SUFFICES ASSUME NEW f \in DetectSequentialIdAccess(inventory, p)
             PROVE  f \in DetectSequentialIdAccess(inventory, q)
  OBVIOUS
<1>1. /\ \A k \in DOMAIN p : k \in DOMAIN q /\ q[k] = p[k] /\ k < x
      /\ \A k \in DOMAIN q : k \in DOMAIN p \/ k = x
      /\ Parsed(p) /\ Parsed(q) /\ x \in Nat
  BY ParseAppend
<1> HIDE DEF p, q, x
<1>2. PICK w \in Identities(p), e \in ToSet(inventory) :
              /\ f = [kind |-> "bola", who |-> w, method |-> e.method, path |-> e.path]
              /\ SingleNumericParamIndex(e.path) # 0
              /\ CountedRun(AccessedIds(p, w, e))
  BY <1>1, RunsAreReported
<1>3. CountedRun(AccessedIds(q, w, e))
  BY <1>1, <1>2, AccessedIdsGrow
<1>4. w \in Identities(q)
  BY <1>1 DEF Identities, ToSet
<1> QED BY <1>1, <1>2, <1>3, <1>4, RunsAreReported

\* More records, more operations.
LEMMA OperationsGrow ==
  ASSUME NEW inventory, NEW p, NEW q, ToSet(p) \subseteq ToSet(q)
  PROVE  Operations(inventory, p) \subseteq Operations(inventory, q)
BY Zenon DEF Operations

\* The operations of two logs are those of one after the other.
LEMMA OperationsConcat ==
  ASSUME NEW a \in Seq(Lines), NEW b \in Seq(Lines), NEW inventory
  PROVE  Operations(inventory, ParseAccessLog(a \o b)) =
           Operations(inventory, ParseAccessLog(a)) \cup Operations(inventory, ParseAccessLog(b))
<1>1. ToSet(ParseAccessLog(a \o b)) = ToSet(ParseAccessLog(a)) \cup ToSet(ParseAccessLog(b))
  BY ParseConcat
<1> QED BY <1>1 DEF Operations

\* Appending a line removes no operation.
LEMMA OperationsAppend ==
  ASSUME NEW log \in Seq(Lines), NEW line \in Lines, NEW inventory
  PROVE  Operations(inventory, ParseAccessLog(log))
           \subseteq Operations(inventory, ParseAccessLog(Append(log, line)))
<1>1. ToSet(ParseAccessLog(log)) \subseteq ToSet(ParseAccessLog(Append(log, line)))
  BY ParseAppend DEF ToSet
<1> QED BY <1>1, OperationsGrow

\* What investigate finds in two logs.
Found(inventory, hist, cur) ==
  DetectSequentialIdAccess(inventory, ParseAccessLog(cur))
    \cup DetectFirstTimeOperations(inventory, ParseAccessLog(hist), ParseAccessLog(cur))

\* Whatever was found is found again when the current log has grown.
LEMMA FoundGrows ==
  ASSUME NEW log \in Seq(Lines), NEW line \in Lines, NEW inventory, NEW hist
  PROVE  Found(inventory, hist, log) \subseteq Found(inventory, hist, Append(log, line))
BY RunsStayReported, OperationsAppend DEF Found, DetectFirstTimeOperations

-----------------------------------------------------------------------------
(* The requests behind the lines.                                          *)

\* The requests behind a log are its records, told apart by when they were made.
LEMMA BehindIs ==
  ASSUME NEW log \in Seq(Lines), Distinct(log)
  PROVE  /\ DOMAIN Behind(log) = {log[j].at : j \in DOMAIN ParseAccessLog(log)}
         /\ \A k \in DOMAIN ParseAccessLog(log) : Behind(log)[log[k].at] = ParseAccessLog(log)[k]
<1> DEFINE p == ParseAccessLog(log)
           kept == {l \in ToSet(log) : Readable(l)}
<1>1. /\ DOMAIN p = {j \in DOMAIN log : Readable(log[j])}
      /\ \A k \in DOMAIN p : p[k] = ParseLine(log[k])
  BY ParseIs
<1>2. Behind(log) = [t \in {l.at : l \in kept} |-> ParseLine(CHOOSE l \in kept : l.at = t)]
  BY Zenon DEF Behind
<1>3. \A l : l \in kept <=> \E k \in DOMAIN p : l = log[k]
  BY <1>1 DEF ToSet
<1>4. \A k, j \in DOMAIN p : log[k].at = log[j].at => log[k] = log[j]
  BY <1>1 DEF Distinct
<1> HIDE DEF p, kept
<1>5. {l.at : l \in kept} = {log[j].at : j \in DOMAIN p}
  BY <1>3
<1>6. ASSUME NEW k \in DOMAIN p PROVE Behind(log)[log[k].at] = p[k]
  <2>1. (CHOOSE l \in kept : l.at = log[k].at) = log[k]
    BY <1>3, <1>4
  <2>2. log[k].at \in {l.at : l \in kept}
    BY <1>3
  <2>3. Behind(log)[log[k].at] = ParseLine(CHOOSE l \in kept : l.at = log[k].at)
    BY <1>2, <2>2
  <2> QED BY <1>1, <2>1, <2>3
<1> QED BY <1>2, <1>5, <1>6 DEF p

\* As long as an identity's lines are in the order of its requests, the ids of
\* the log are the ids it asked for, one after the other.
LEMMA SameIds ==
  ASSUME NEW log \in Seq(Lines), Distinct(log), NEW w, NEW e, InTimeOrder(log, w)
  PROVE  AccessedIds(Behind(log), w, e) = AccessedIds(ParseAccessLog(log), w, e)
<1> DEFINE p == ParseAccessLog(log)
           b == Behind(log)
           A == Mine(p, w, e)
           B == Mine(b, w, e)
           h == [k \in A |-> log[k].at]
           n == Cardinality(A)
<1>1. /\ DOMAIN b = {log[j].at : j \in DOMAIN p}
      /\ \A k \in DOMAIN p : b[log[k].at] = p[k]
  BY BehindIs
<1>2. /\ DOMAIN p = {j \in DOMAIN log : Readable(log[j])}
      /\ \A k \in DOMAIN p : p[k] = ParseLine(log[k])
      /\ Parsed(p)
  BY ParseIs
<1>3. ASSUME NEW k \in DOMAIN p PROVE log[k].at \in Nat /\ p[k].who = log[k].who
  <2>1. log[k] \in Lines
    BY <1>2
  <2>2. p[k] = ParseLine(log[k])
    BY <1>2
  <2>3. log[k].at \in Nat
    BY <2>1 DEF Lines
  <2> QED BY <2>2, <2>3 DEF ParseLine
<1>4. A \in SUBSET Nat /\ IsFiniteSet(A) /\ n \in Nat
  BY <1>2, MineType
<1>5. \A k \in A : k \in DOMAIN p /\ p[k].who = w
  BY DEF Mine
<1>6. \A k \in DOMAIN p : k \in A <=> log[k].at \in B
  BY <1>1 DEF Mine
<1>7. \A t \in B : \E k \in DOMAIN p : log[k].at = t
  BY <1>1 DEF Mine
<1>8. AccessedIds(p, w, e) = [k \in 1..n |-> IdOf(p[Nth(A, k)], e)]
      /\ AccessedIds(b, w, e) = [k \in 1..Cardinality(B) |-> IdOf(b[Nth(B, k)], e)]
  BY AccessedIdsAre
<1> HIDE DEF p, b, A, B
<1>9. B \in SUBSET Nat
  BY <1>3, <1>7
<1>10. h \in [A -> B] /\ \A t \in B : \E k \in A : h[k] = t
  BY <1>5, <1>6, <1>7
<1>11. ASSUME NEW k \in A, NEW j \in A, k < j PROVE h[k] < h[j]
  <2>1. /\ k \in {i \in DOMAIN log : Readable(log[i]) /\ log[i].who = w}
        /\ j \in {i \in DOMAIN log : Readable(log[i]) /\ log[i].who = w}
    BY <1>2, <1>3, <1>5
  <2>2. log[k].at < log[j].at
    BY <1>11, <2>1 DEF InTimeOrder
  <2> QED BY <2>2
<1>12. \A k \in A : h[k] = log[k].at
  OBVIOUS
<1> HIDE DEF h
<1>13. Cardinality(B) = n /\ \A k \in 1..n : Nth(B, k) = h[Nth(A, k)]
  BY <1>4, <1>9, <1>10, <1>11, NthMapped
<1>14. \A k \in 1..n : Nth(A, k) \in A
  BY <1>4, NthOf
<1>15. \A k \in 1..n : b[Nth(B, k)] = p[Nth(A, k)]
  BY <1>1, <1>5, <1>12, <1>13, <1>14
<1> HIDE DEF n
<1> QED BY <1>8, <1>13, <1>15 DEF p, b

-----------------------------------------------------------------------------
(* Lists of findings.                                                      *)

IsSeq(s) == \E S : s \in Seq(S)

\* A list is the function it is made of.
LEMMA SeqType ==
  ASSUME NEW s, IsSeq(s)
  PROVE  Len(s) \in Nat /\ DOMAIN s = 1..Len(s) /\ s = [i \in 1..Len(s) |-> s[i]]
<1>1. PICK S : s \in Seq(S)
  BY DEF IsSeq
<1> QED BY <1>1

\* A function on 1..n is a list of length n.
LEMMA SeqFun ==
  ASSUME NEW n \in Nat, NEW s, DOMAIN s = 1..n, s = [i \in 1..n |-> s[i]]
  PROVE  IsSeq(s) /\ Len(s) = n
<1> DEFINE S == {s[i] : i \in 1..n}
<1>1. s \in [1..n -> S]
  OBVIOUS
<1> HIDE DEF S
<1>2. s \in Seq(S) /\ Len(s) = n
  BY <1>1
<1> QED BY <1>2 DEF IsSeq

\* u is s and then t.
Joined(s, t, u) == /\ IsSeq(u) /\ Len(u) = Len(s) + Len(t)
                   /\ \A i \in DOMAIN s : i \in DOMAIN u /\ u[i] = s[i]
                   /\ \A i \in DOMAIN t : Len(s) + i \in DOMAIN u /\ u[Len(s) + i] = t[i]

\* One list after the other.
LEMMA SeqConcat ==
  ASSUME NEW s, NEW t, IsSeq(s), IsSeq(t)
  PROVE  Joined(s, t, s \o t)
<1>1. PICK S, T : s \in Seq(S) /\ t \in Seq(T)
  BY DEF IsSeq
<1> DEFINE U == S \cup T
<1>2. s \in Seq(U) /\ t \in Seq(U)
  BY <1>1
<1> HIDE DEF U
<1>3. s \o t \in Seq(U) /\ DOMAIN (s \o t) = 1..(Len(s) + Len(t)) /\ Len(s \o t) = Len(s) + Len(t)
      /\ DOMAIN s = 1..Len(s) /\ DOMAIN t = 1..Len(t) /\ Len(s) \in Nat /\ Len(t) \in Nat
  BY <1>2
<1>4. \A i \in DOMAIN s : i \in DOMAIN (s \o t) /\ (s \o t)[i] = s[i]
  BY <1>2, <1>3
<1>5. \A i \in DOMAIN t : Len(s) + i \in DOMAIN (s \o t) /\ (s \o t)[Len(s) + i] = t[i]
  BY <1>2, <1>3
<1> QED BY <1>3, <1>4, <1>5, Zenon DEF IsSeq, Joined

\* A list with one more element.
LEMMA SeqAppend ==
  ASSUME NEW s, NEW x, IsSeq(s)
  PROVE  /\ IsSeq(Append(s, x)) /\ Len(Append(s, x)) = Len(s) + 1
         /\ \A i \in DOMAIN s : i \in DOMAIN Append(s, x) /\ Append(s, x)[i] = s[i]
         /\ Len(s) + 1 \in DOMAIN Append(s, x) /\ Append(s, x)[Len(s) + 1] = x
<1>1. PICK S : s \in Seq(S)
  BY DEF IsSeq
<1> DEFINE U == S \cup {x}
<1>2. s \in Seq(U) /\ x \in U
  BY <1>1
<1> HIDE DEF U
<1> QED BY <1>2 DEF IsSeq

\* SetToSeq lists a finite set.
LEMMA ListOfSet ==
  ASSUME NEW S, IsFiniteSet(S)
  PROVE  /\ IsSeq(SetToSeq(S)) /\ \A i \in DOMAIN SetToSeq(S) : SetToSeq(S)[i] \in S
         /\ \A x \in S : \E i \in DOMAIN SetToSeq(S) : SetToSeq(S)[i] = x
<1> DEFINE n == Cardinality(S)
           f == SetToSeq(S)
<1>1. n \in Nat /\ ExistsBijection(1..n, S)
  BY FS_CardinalityType
<1>2. \E g \in [1..n -> S] : IsInjective(g)
  <2>1. PICK g : g \in Bijection(1..n, S)
    BY <1>1 DEF ExistsBijection
  <2>2. g \in Injection(1..n, S)
    BY <2>1, Fun_BijectionProperties
  <2> QED BY <2>2 DEF Injection
<1>3. f \in [1..n -> S] /\ IsInjective(f)
  BY <1>2 DEF SetToSeq
<1>4. f \in Injection(1..n, S)
  BY <1>3 DEF Injection
<1>5. IsFiniteSet(1..n) /\ Cardinality(1..n) = n
  BY <1>1, FS_Interval
<1>6. f \in Surjection(1..n, S)
  BY <1>4, <1>5, FS_Injection
<1>7. \A x \in S : \E i \in 1..n : f[i] = x
  BY <1>6 DEF Surjection
<1> HIDE DEF f, n
<1>8. f \in Seq(S) /\ DOMAIN f = 1..n /\ \A i \in 1..n : f[i] \in S
  BY <1>1, <1>3
<1> QED BY <1>7, <1>8 DEF f, IsSeq

\* As many at most as there were.
LEMMA ImageIsFinite ==
  ASSUME NEW S, IsFiniteSet(S), NEW g
  PROVE  IsFiniteSet({g[x] : x \in S})
<1> DEFINE T == {g[x] : x \in S}
           h == [x \in S |-> g[x]]
<1>1. h \in Surjection(S, T)
  BY DEF Surjection
<1> HIDE DEF T, h
<1>2. IsFiniteSet(T)
  BY <1>1, FS_Surjection
<1> QED BY <1>2 DEF T

\* A log has finitely many operations and identities.
LEMMA OperationsAreFinite ==
  ASSUME NEW traffic, Parsed(traffic), NEW inventory
  PROVE  IsFiniteSet(Operations(inventory, traffic)) /\ IsFiniteSet(Identities(traffic))
<1> DEFINE D == DOMAIN traffic
           R == ToSet(traffic)
           N == {s \in R : s.who # Absent}
           g == [r \in N |-> [kind |-> "first", who |-> r.who, method |-> r.method,
                              path |-> OperationKey(inventory, r)]]
           h == [r \in R |-> r.who]
<1>1. R = {traffic[i] : i \in D}
  BY DEF ToSet
<1>2. IsFiniteSet(D)
  BY DEF Parsed
<1>3. IsFiniteSet(R)
  <2> HIDE DEF R, D
  <2> QED BY <1>1, <1>2, ImageIsFinite
<1>4. N \in SUBSET R
  OBVIOUS
<1> HIDE DEF R
<1>5. IsFiniteSet(N)
  <2> HIDE DEF N
  <2> QED BY <1>3, <1>4, FS_Subset
<1>6. IsFiniteSet({g[r] : r \in N}) /\ IsFiniteSet({h[r] : r \in R})
  <2> HIDE DEF g, h, N
  <2> QED BY <1>3, <1>5, ImageIsFinite
<1>7. {g[r] : r \in N} = Operations(inventory, traffic)
  BY DEF Operations, R
<1>8. {h[r] : r \in R} \ {Absent} = Identities(traffic)
  BY DEF Identities, R
<1>9. Identities(traffic) \in SUBSET {h[r] : r \in R}
  BY <1>8
<1> HIDE DEF h, g, N
<1> QED BY <1>6, <1>7, <1>9, FS_Subset

\* There are finitely many findings, so that they can be listed.
LEMMA FoundIsFinite ==
  ASSUME NEW cur \in Seq(Lines), NEW hist, NEW inventory, IsSeq(inventory)
  PROVE  /\ IsFiniteSet(DetectSequentialIdAccess(inventory, ParseAccessLog(cur)))
         /\ IsFiniteSet(DetectFirstTimeOperations(inventory, ParseAccessLog(hist), ParseAccessLog(cur)))
<1> DEFINE c == ParseAccessLog(cur)
           I == Identities(c)
           E == ToSet(inventory)
           g == [p \in I \X E |-> [kind |-> "bola", who |-> p[1], method |-> p[2].method,
                                   path |-> p[2].path]]
           B == DetectSequentialIdAccess(inventory, c)
<1>1. Parsed(c)
  BY ParseIs
<1> HIDE DEF c
<1>2. IsFiniteSet(Operations(inventory, c)) /\ IsFiniteSet(I)
  BY <1>1, OperationsAreFinite
<1>3. IsFiniteSet(E)
  <2>1. DOMAIN inventory = 1..Len(inventory) /\ Len(inventory) \in Nat
    BY SeqType
  <2>2. IsFiniteSet(DOMAIN inventory)
    BY <2>1, FS_Interval
  <2>3. E = {inventory[i] : i \in DOMAIN inventory}
    BY DEF ToSet
  <2> HIDE DEF E
  <2> QED BY <2>2, <2>3, ImageIsFinite
<1>4. B \in SUBSET {g[p] : p \in I \X E}
  <2> SUFFICES ASSUME NEW f \in B PROVE f \in {g[p] : p \in I \X E}
    OBVIOUS
  <2>1. PICK w \in I, e \in E :
          f = [kind |-> "bola", who |-> w, method |-> e.method, path |-> e.path]
    BY <1>1, RunsAreReported
  <2>2. <<w, e>> \in I \X E
    OBVIOUS
  <2>3. g[<<w, e>>] = f
    BY <2>1, <2>2
  <2> HIDE DEF g
  <2> QED BY <2>2, <2>3
<1> HIDE DEF I, E, g, B
<1>5. IsFiniteSet({g[p] : p \in I \X E})
  BY <1>2, <1>3, FS_Product, ImageIsFinite
<1>6. IsFiniteSet(B)
  BY <1>4, <1>5, FS_Subset
<1>7. DetectFirstTimeOperations(inventory, ParseAccessLog(hist), c) \in SUBSET Operations(inventory, c)
  BY DEF DetectFirstTimeOperations
<1>8. IsFiniteSet(DetectFirstTimeOperations(inventory, ParseAccessLog(hist), c))
  BY <1>2, <1>7, FS_Subset
<1> QED BY <1>6, <1>8 DEF B, c

\* What baseline_from_files returns, field by field.
LEMMA ResultIs ==
  ASSUME NEW inventory, NEW hist, NEW cur
  PROVE  LET result == BaselineFromFiles(inventory, hist, cur)
         IN  /\ result.baselines = BuildBaselines(ParseAccessLog(hist \o cur), KnownAgents)
             /\ result.bola_findings = DetectSequentialIdAccess(inventory, ParseAccessLog(cur))
             /\ result.first_time_operations =
                  DetectFirstTimeOperations(inventory, ParseAccessLog(hist), ParseAccessLog(cur))
             /\ result.bola_findings \cup result.first_time_operations = Found(inventory, hist, cur)
BY DEF BaselineFromFiles, Found

\* What becomes of the claims: the i-th is observed by the i-th call, and its
\* finding cites it behind discover's.
LEMMA CitedIs ==
  ASSUME NEW result, IsFiniteSet(result.bola_findings), IsFiniteSet(result.first_time_operations)
  PROVE  LET calls == Cited(result).calls
             found == Cited(result).findings
             claims == result.bola_findings \cup result.first_time_operations
         IN  /\ IsSeq(calls) /\ IsSeq(found) /\ DOMAIN calls = DOMAIN found
             /\ \A i \in DOMAIN found :
                  /\ found[i] = [claim |-> found[i].claim, citation |-> i + 1, remediation |-> 0,
                                 confidence |-> Confidence(found[i].claim, result.baselines)]
                  /\ found[i].claim \in claims
                  /\ calls[i].observation = found[i].claim
             /\ \A x \in claims : \E i \in DOMAIN found : found[i].claim = x
<1> DEFINE A == result.bola_findings
           B == result.first_time_operations
           a == SetToSeq(A)
           b == SetToSeq(B)
           s == a \o b
           calls == [i \in DOMAIN s |-> [tool |-> "baseline", observation |-> s[i]]]
           found == [i \in DOMAIN s |-> [claim |-> s[i], citation |-> i + 1, remediation |-> 0,
                                         confidence |-> Confidence(s[i], result.baselines)]]
<1>1. Cited(result).calls = calls /\ Cited(result).findings = found
  BY Zenon DEF Cited
<1>2. /\ IsSeq(a) /\ (\A i \in DOMAIN a : a[i] \in A) /\ \A x \in A : \E i \in DOMAIN a : a[i] = x
      /\ IsSeq(b) /\ (\A i \in DOMAIN b : b[i] \in B) /\ \A x \in B : \E i \in DOMAIN b : b[i] = x
  <2> HIDE DEF A, B
  <2>1. IsFiniteSet(A) /\ IsFiniteSet(B)
    BY DEF A, B
  <2> QED BY <2>1, ListOfSet
<1> HIDE DEF A, B, a, b
<1>3. /\ IsSeq(s) /\ Len(s) = Len(a) + Len(b)
      /\ \A i \in DOMAIN a : i \in DOMAIN s /\ s[i] = a[i]
      /\ \A i \in DOMAIN b : Len(a) + i \in DOMAIN s /\ s[Len(a) + i] = b[i]
  <2>1. Joined(a, b, s)
    BY <1>2, SeqConcat
  <2> HIDE DEF s
  <2> QED BY <2>1, Zenon DEF Joined
<1> HIDE DEF s
<1>4. /\ DOMAIN s = 1..Len(s) /\ DOMAIN a = 1..Len(a) /\ DOMAIN b = 1..Len(b)
      /\ Len(s) \in Nat /\ Len(a) \in Nat /\ Len(b) \in Nat
  BY <1>2, <1>3, SeqType
<1>5. \A i \in DOMAIN s : s[i] \in A \cup B
  <2> SUFFICES ASSUME NEW i \in DOMAIN s PROVE s[i] \in A \cup B
    OBVIOUS
  <2>1. CASE i <= Len(a)
    <3>1. i \in DOMAIN a
      BY <1>4, <2>1
    <3> QED BY <1>2, <1>3, <3>1
  <2>2. CASE ~ (i <= Len(a))
    <3>1. i - Len(a) \in DOMAIN b /\ Len(a) + (i - Len(a)) = i
      BY <1>3, <1>4, <2>2
    <3> QED BY <1>2, <1>3, <3>1
  <2> QED BY <2>1, <2>2
<1>6. \A x \in A \cup B : \E i \in DOMAIN s : s[i] = x
  BY <1>2, <1>3
<1>7. DOMAIN calls = DOMAIN s /\ DOMAIN found = DOMAIN s
  OBVIOUS
<1>8. \A i \in DOMAIN s :
        /\ calls[i].observation = s[i] /\ found[i].claim = s[i]
        /\ found[i] = [claim |-> s[i], citation |-> i + 1, remediation |-> 0,
                       confidence |-> Confidence(s[i], result.baselines)]
  OBVIOUS
<1>9. calls = [i \in 1..Len(s) |-> calls[i]] /\ found = [i \in 1..Len(s) |-> found[i]]
  BY <1>4
<1> HIDE DEF calls, found
<1>10. IsSeq(calls) /\ IsSeq(found)
  BY <1>4, <1>7, <1>9, SeqFun
<1>11. \A i \in DOMAIN found :
         found[i] = [claim |-> found[i].claim, citation |-> i + 1, remediation |-> 0,
                     confidence |-> Confidence(found[i].claim, result.baselines)]
  BY <1>7, <1>8
<1>12. \A i \in DOMAIN found : found[i].claim \in A \cup B /\ calls[i].observation = found[i].claim
  BY <1>5, <1>7, <1>8
<1>13. \A x \in A \cup B : \E i \in DOMAIN found : found[i].claim = x
  BY <1>6, <1>7, <1>8
<1> QED BY <1>1, <1>7, <1>10, <1>11, <1>12, <1>13 DEF A, B

\* The confidences _first_time_finding and _bola_finding give.
LEMMA ConfidenceType ==
  ASSUME NEW f, NEW baselines
  PROVE  Confidence(f, baselines) \in {60, 80, 85}
BY DEF Confidence

\* The sort keeps the findings: what it puts in a place was there before.
LEMMA SortedAreFindings ==
  ASSUME NEW found, IsSeq(found), \A i \in DOMAIN found : found[i].confidence \in Int
  PROVE  /\ IsSeq(ByConfidence(found)) /\ DOMAIN ByConfidence(found) = DOMAIN found
         /\ \A n \in DOMAIN found : \E i \in DOMAIN found : ByConfidence(found)[n] = found[i]
<1> DEFINE D == DOMAIN found
           Before(i, j) == \/ found[i].confidence > found[j].confidence
                           \/ found[i].confidence = found[j].confidence /\ i <= j
           le == {p \in D \X D : Before(p[1], p[2])}
           Place(i) == Cardinality({j \in D : Before(j, i)})
           sorted == ByConfidence(found)
<1>1. sorted = [n \in D |-> found[CHOOSE i \in D : Place(i) = n]]
  BY Zenon DEF ByConfidence
<1>2. D = 1..Len(found) /\ Len(found) \in Nat
  BY SeqType
<1>3. \A i, j \in D : <<i, j>> \in le <=> Before(i, j)
  OBVIOUS
<1>4. /\ le \in SUBSET (D \X D)
      /\ \A i \in D : {j \in D : <<j, i>> \in le} = {j \in D : Before(j, i)}
  BY <1>3
<1>5. \A i \in D : i \in Int /\ found[i].confidence \in Int
  BY <1>2
<1> HIDE DEF le
<1>6. /\ \A i \in D : <<i, i>> \in le
      /\ \A i, j \in D : <<i, j>> \in le \/ <<j, i>> \in le
      /\ \A i, j \in D : <<i, j>> \in le /\ <<j, i>> \in le => i = j
      /\ \A i, j, k \in D : <<i, j>> \in le /\ <<j, k>> \in le => <<i, k>> \in le
  BY <1>3, <1>5
<1>7. IsFiniteSet(D) /\ Cardinality(D) = Len(found)
  BY <1>2, FS_Interval
<1> HIDE DEF D
<1>8. ASSUME NEW n \in D PROVE \E i \in D : Cardinality({j \in D : <<j, i>> \in le}) = n
  <2>1. n \in 1..Cardinality(D)
    BY <1>2, <1>7
  <2>2. IsFiniteSet(D) /\ le \in SUBSET (D \X D)
    BY <1>4, <1>7
  <2> DEFINE N == 1..Cardinality(D)
  <2>3. n \in N
    BY <2>1
  <2>4. \A k \in N : \E i \in D : /\ Cardinality({j \in D : <<j, i>> \in le}) = k
                                  /\ \A l \in D : Cardinality({j \in D : <<j, l>> \in le}) = k => l = i
    BY <1>6, <2>2, Places
  <2> QED BY <2>3, <2>4
<1>9. \A n \in D : \E i \in D : Place(i) = n
  BY <1>4, <1>8
<1> HIDE DEF Place
<1>10. \A n \in D : \E i \in D : sorted[n] = found[i]
  BY <1>1, <1>9
<1>11. DOMAIN sorted = 1..Len(found) /\ sorted = [n \in 1..Len(found) |-> sorted[n]]
  BY <1>1, <1>2
<1> HIDE DEF sorted
<1>12. IsSeq(sorted)
  BY <1>2, <1>11, SeqFun
<1> QED BY <1>2, <1>10, <1>11, <1>12 DEF D, sorted

-----------------------------------------------------------------------------
(* The files.                                                              *)

\* Lines that are not written yet, and those of the current log, are of
\* different requests, that have been made.
Logs == /\ clock \in Nat
        /\ unwritten \subseteq Lines /\ current \in Seq(Lines) /\ historical \in Seq(Lines)
        /\ \A line \in unwritten : line.at \in 1..clock
        /\ \A i \in DOMAIN current : current[i].at \in 1..clock
        /\ \A l, m \in unwritten : l.at = m.at => l = m
        /\ \A l \in unwritten : \A i \in DOMAIN current : l.at # current[i].at
        /\ Distinct(current)

\* The job has read what the files hold, unless they moved.
Jobs == /\ spec \in Specs
        /\ job \in [kind : {"none", "report", "investigate"},
                    pc : {"done", "failed", "spec", "historical", "current"},
                    round : {1, 2}, moved : BOOLEAN, spec : Specs \cup {<<>>},
                    historical : Seq(Lines), current : Seq(Lines)]
        /\ Distinct(job.current)
        /\ Busy /\ job.pc # "spec" /\ ~job.moved => job.spec = spec
        /\ job.kind = "investigate" /\ job.pc = "current" /\ ~job.moved =>
             job.historical = historical

\* Before anything is logged.
LEMMA NothingDistinct == <<>> \in Seq(Lines) /\ Distinct(<<>>)
BY DEF Distinct

\* What becomes of a line: it may have been cut short.
LEMMA WrittenLine ==
  ASSUME NEW line \in unwritten, Logs, Write(line)
  PROVE  \E l \in Lines : l.at = line.at /\ current' = Append(current, l)
<1>1. line \in Lines
  BY DEF Logs
<1> DEFINE cut == [line EXCEPT !.method = Absent]
<1>2. cut \in Lines /\ cut.at = line.at
  BY <1>1 DEF Lines
<1> HIDE DEF cut
<1>3. current' = Append(current, line) \/ current' = Append(current, cut)
  BY DEF Write, cut
<1> QED BY <1>1, <1>2, <1>3

\* Logs holds before anything is logged.
LEMMA LogsInit == Init => Logs
BY NothingDistinct DEF Init, Logs

\* Gateways and rotations keep each request on at most one line.
LEMMA LogsStep == Logs /\ [Next]_vars => Logs'
<1> SUFFICES ASSUME Logs, [Next]_vars PROVE Logs'
  OBVIOUS
<1>1. ASSUME NEW r \in Requests, Call(r) PROVE Logs'
  <2> DEFINE line == [method |-> r.method, target |-> r.target, status |-> r.status,
                      who |-> r.who, at |-> clock + 1]
  <2>1. clock' = clock + 1 /\ unwritten' = unwritten \cup {line} /\ current' = current
        /\ historical' = historical
    BY <1>1 DEF Call
  <2>2. line \in Lines /\ line.at = clock + 1
    BY DEF Lines, Logs
  <2> HIDE DEF line
  <2>3. /\ \A l \in unwritten : l.at \in 1..clock
        /\ \A i \in DOMAIN current : current[i].at \in 1..clock
        /\ clock \in Nat
    BY DEF Logs
  <2>4. /\ \A l \in unwritten' : l.at \in 1..clock'
        /\ \A i \in DOMAIN current' : current'[i].at \in 1..clock'
        /\ clock' \in Nat
    BY <2>1, <2>2, <2>3
  <2>5. /\ \A l \in unwritten : l.at # line.at
        /\ \A i \in DOMAIN current : current[i].at # line.at
    BY <2>2, <2>3
  <2>6. \A l, m \in unwritten' : l.at = m.at => l = m
    BY <2>1, <2>5 DEF Logs
  <2>7. \A l \in unwritten' : \A i \in DOMAIN current' : l.at # current'[i].at
    BY <2>1, <2>5 DEF Logs
  <2> QED BY <2>1, <2>2, <2>4, <2>6, <2>7 DEF Logs
<1>2. ASSUME NEW line \in unwritten, Write(line) PROVE Logs'
  <2>1. PICK l \in Lines : l.at = line.at /\ current' = Append(current, l)
    BY <1>2, WrittenLine
  <2>2. clock' = clock /\ unwritten' = unwritten \ {line} /\ historical' = historical
    BY <1>2 DEF Write
  <2>3. /\ current' \in Seq(Lines) /\ DOMAIN current = 1..Len(current)
        /\ DOMAIN current' = 1..(Len(current) + 1) /\ Len(current) \in Nat
        /\ \A i \in 1..Len(current) : current'[i] = current[i]
        /\ current'[Len(current) + 1] = l
    BY <2>1 DEF Logs
  <2>4. \A i \in DOMAIN current' : \/ i \in DOMAIN current /\ current'[i] = current[i]
                                   \/ i = Len(current) + 1 /\ current'[i].at = line.at
    BY <2>1, <2>3
  <2>5. /\ \A m \in unwritten : m.at \in 1..clock
        /\ \A i \in DOMAIN current : current[i].at \in 1..clock
        /\ \A k, m \in unwritten : k.at = m.at => k = m
        /\ \A m \in unwritten : \A i \in DOMAIN current : m.at # current[i].at
        /\ \A i, j \in DOMAIN current : current[i].at = current[j].at => i = j
    BY DEF Logs, Distinct
  <2>6. \A i \in DOMAIN current' : current'[i].at \in 1..clock
    BY <2>4, <2>5
  <2>7. \A m \in unwritten' : m \in unwritten /\ m.at # line.at
    BY <2>2, <2>5
  <2>8. \A m \in unwritten' : \A i \in DOMAIN current' : m.at # current'[i].at
    BY <2>4, <2>5, <2>7
  <2>9. \A i, j \in DOMAIN current' : current'[i].at = current'[j].at => i = j
    BY <2>4, <2>5
  <2> QED BY <2>2, <2>3, <2>5, <2>6, <2>7, <2>8, <2>9 DEF Logs, Distinct
<1>3. CASE Rotate
  <2>1. clock' = clock /\ unwritten' = unwritten /\ current' = <<>>
        /\ historical' = historical \o current
    BY <1>3 DEF Rotate
  <2>2. historical' \in Seq(Lines)
    BY <2>1 DEF Logs
  <2>3. DOMAIN current' = {}
    BY <2>1
  <2> QED BY <2>1, <2>2, <2>3, NothingDistinct DEF Logs
<1>4. CASE UNCHANGED logs
  BY <1>4 DEF Logs, logs
<1> QED BY <1>1, <1>2, <1>3, <1>4
    DEF Next, vars, Deploy, Report, Investigate, ReadSpec, ReadHistorical, ReadForReport,
        ReadForFindings, ReadForRecommendations, ReadFails, RecommendFails, FailCommand, logs

\* Jobs holds before a command has begun.
LEMMA JobsInit == Init => Jobs
BY NothingDistinct DEF Init, Jobs, Busy

\* What a command has read is what the files hold, until they move.
LEMMA JobsStep == Logs /\ Jobs /\ [Next]_vars => Jobs'
<1> SUFFICES ASSUME Logs, Jobs, [Next]_vars PROVE Jobs'
  OBVIOUS
<1>0. CASE FailCommand
  <2>1. /\ job' = [kind |-> "none", pc |-> "failed", round |-> 1, moved |-> FALSE,
                   spec |-> <<>>, historical |-> <<>>, current |-> <<>>]
        /\ spec' = spec
    BY <1>0 DEF FailCommand
  <2>2. job'.pc = "failed" /\ job'.current = <<>>
    BY <2>1
  <2>3. /\ job' \in [kind : {"none", "report", "investigate"},
                     pc : {"done", "failed", "spec", "historical", "current"},
                     round : {1, 2}, moved : BOOLEAN, spec : Specs \cup {<<>>},
                     historical : Seq(Lines), current : Seq(Lines)]
    <3>1. <<>> \in Seq(Lines) /\ <<>> \in Specs \cup {<<>>}
      OBVIOUS
    <3> QED BY <2>1, <3>1, Zenon
  <2> QED BY <2>1, <2>2, <2>3, NothingDistinct DEF Jobs, Busy
<1>1. CASE Report \/ Investigate
  <2>1. PICK k \in {"report", "investigate"} :
        /\ job' = [kind |-> k, pc |-> "spec", round |-> 1, moved |-> FALSE,
                   spec |-> <<>>, historical |-> <<>>, current |-> <<>>]
        /\ spec' = spec
    BY <1>1 DEF Report, Investigate
  <2>2. job'.pc = "spec" /\ job'.current = <<>>
    BY <2>1
  <2>3. /\ job' \in [kind : {"none", "report", "investigate"},
                     pc : {"done", "failed", "spec", "historical", "current"},
                     round : {1, 2}, moved : BOOLEAN, spec : Specs \cup {<<>>},
                     historical : Seq(Lines), current : Seq(Lines)]
    <3>1. k \in {"none", "report", "investigate"} /\ <<>> \in Seq(Lines) /\ <<>> \in Specs \cup {<<>>}
      OBVIOUS
    <3> QED BY <2>1, <3>1, Zenon
  <2> QED BY <2>1, <2>2, <2>3, NothingDistinct DEF Jobs, Busy
<1>2. CASE ReadSpec
  BY <1>2 DEF ReadSpec, Jobs, Busy
<1>3. CASE ReadHistorical
  BY <1>3 DEF ReadHistorical, Jobs, Busy, Logs, logs
<1>4. CASE ReadForReport
  BY <1>4 DEF ReadForReport, Jobs, Busy, Logs, logs
<1>5. CASE ReadForFindings
  BY <1>5 DEF ReadForFindings, Jobs, Busy, Logs, logs
<1>6. CASE ReadForRecommendations
  BY <1>6, NothingDistinct DEF ReadForRecommendations, Jobs, Busy
<1>7. CASE Rotate
  BY <1>7 DEF Rotate, Jobs, Busy
<1>8. CASE Deploy
  BY <1>8 DEF Deploy, Jobs, Busy, logs
<1>9. CASE UNCHANGED <<spec, historical, job>>
  BY <1>9 DEF Jobs, Busy
<1> QED BY <1>0, <1>1, <1>2, <1>3, <1>4, <1>5, <1>6, <1>7, <1>8, <1>9
    DEF Next, vars, Call, Write, ReadFails, RecommendFails

-----------------------------------------------------------------------------
(* The findings.                                                           *)

\* Every finding cites the call that observed its claim; before the findings
\* there is discover's call alone.
Cites == /\ IsSeq(tools) /\ IsSeq(findings)
         /\ job.kind = "investigate" /\ job.round = 1 => Len(tools) = 1
         /\ \A i \in DOMAIN findings :
              /\ findings[i] = [claim |-> findings[i].claim, citation |-> findings[i].citation,
                                remediation |-> findings[i].remediation,
                                confidence |-> findings[i].confidence]
              /\ findings[i].confidence \in {60, 80, 85}
              /\ findings[i].citation \in DOMAIN tools
              /\ tools[findings[i].citation].observation = findings[i].claim

\* While the files stay where they are, what was found would be found again.
Covered == (job.kind = "investigate" /\ job.round = 2 /\ Busy /\ ~job.moved) =>
             \A i \in DOMAIN findings : findings[i].claim \in Found(spec, historical, current)

\* The claims are those of the files that were read.
Enumerated == FindingsAreMade =>
                {findings[i].claim : i \in DOMAIN findings}
                  = Found(job.spec, job.historical, job.current)

\* What was reported was in one of the logs, and what is settled is in the
\* historical one.
Reported == /\ settled \subseteq reported
            /\ \A x \in reported :
                 \E f \in Operations(x[1], ParseAccessLog(historical))
                            \cup Operations(x[1], ParseAccessLog(current)) :
                   x = <<x[1], Policy(f)>>
            /\ \A x \in settled :
                 \E f \in Operations(x[1], ParseAccessLog(historical)) : x = <<x[1], Policy(f)>>

\* The steps that leave the findings alone: they do not end an investigation,
\* and the files stay, or the current log grows, or the job has been moved.
LEMMA QuietStep ==
  ASSUME Logs, Jobs, [Next]_vars, ~ Report, ~ Investigate, ~ ReadForFindings,
         ~ ReadForRecommendations, ~ FailCommand
  PROVE  /\ UNCHANGED <<tools, findings, reported>>
         /\ job'.kind = job.kind /\ job'.round = job.round /\ (Busy' => Busy)
         /\ job.moved => job'.moved
         /\ \/ UNCHANGED <<spec, historical, current>> /\ job'.moved = job.moved
            \/ /\ \E line \in Lines : current' = Append(current, line)
               /\ UNCHANGED <<spec, historical, job>>
            \/ Busy => job'.moved
         /\ Done("investigate")' => Done("investigate")
         /\ FindingsAreMade' => /\ FindingsAreMade
                                /\ job'.spec = job.spec
                                /\ job'.historical = job.historical
                                /\ job'.current = job.current
<1> USE DEF Busy, Done, FindingsAreMade
<1>1. ASSUME NEW line \in unwritten, Write(line)
      PROVE  (\E l \in Lines : current' = Append(current, l)) /\ UNCHANGED <<spec, historical, job, tools, findings, reported>>
  BY <1>1, WrittenLine DEF Write
<1>2. CASE Rotate
  BY <1>2 DEF Rotate, Jobs
<1>3. CASE Deploy
  BY <1>3 DEF Deploy, Jobs, logs
<1>4. CASE ReadSpec
  BY <1>4 DEF ReadSpec, Jobs, logs
<1>5. CASE ReadHistorical
  BY <1>5 DEF ReadHistorical, Jobs, logs
<1>6. CASE ReadForReport
  BY <1>6 DEF ReadForReport, Jobs, logs
<1>7. ASSUME UNCHANGED <<spec, historical, job, tools, findings, reported>>,
             UNCHANGED current \/ \E l \in Lines : current' = Append(current, l)
      PROVE  /\ job'.kind = job.kind /\ job'.round = job.round /\ (Busy' => Busy)
             /\ job.moved => job'.moved
             /\ \/ UNCHANGED <<spec, historical, current>> /\ job'.moved = job.moved
                \/ /\ \E line \in Lines : current' = Append(current, line)
                   /\ UNCHANGED <<spec, historical, job>>
             /\ Done("investigate")' => Done("investigate")
             /\ FindingsAreMade' => /\ FindingsAreMade
                                    /\ job'.spec = job.spec
                                    /\ job'.historical = job.historical
                                    /\ job'.current = job.current
  BY <1>7
<1>8. CASE UNCHANGED <<spec, historical, job, tools, findings, reported, current>>
  BY <1>7, <1>8
<1> HIDE DEF Busy, Done, FindingsAreMade
<1> QED BY <1>1, <1>2, <1>3, <1>4, <1>5, <1>6, <1>7, <1>8
    DEF Next, vars, Call, ReadFails, RecommendFails

\* A command that fails leaves nothing behind.
LEMMA FailedStep ==
  ASSUME FailCommand
  PROVE  /\ DOMAIN findings' = {} /\ IsSeq(findings') /\ IsSeq(tools')
         /\ job'.kind = "none" /\ job'.pc = "failed"
<1>1. findings' = <<>> /\ tools' = <<>> /\ job'.kind = "none" /\ job'.pc = "failed"
  BY DEF FailCommand
<1>2. <<>> \in Seq({}) /\ DOMAIN <<>> = {}
  OBVIOUS
<1> QED BY <1>1, <1>2 DEF IsSeq

\* What ReadForFindings makes of the files it has read.
LEMMA FindingsStep ==
  ASSUME Logs, Jobs, Cites, ReadForFindings
  PROVE  LET b == BuildBaselines(ParseAccessLog(job.historical \o current), KnownAgents)
         IN  /\ IsSeq(tools') /\ IsSeq(findings')
             /\ \A i \in DOMAIN findings' :
                  /\ findings'[i] = [claim |-> findings'[i].claim, citation |-> findings'[i].citation,
                                     remediation |-> findings'[i].remediation,
                                     confidence |-> findings'[i].confidence]
                  /\ findings'[i].confidence = Confidence(findings'[i].claim, b)
                  /\ findings'[i].citation \in DOMAIN tools'
                  /\ tools'[findings'[i].citation].observation = findings'[i].claim
                  /\ findings'[i].claim \in Found(job.spec, job.historical, current)
             /\ \A x \in Found(job.spec, job.historical, current) :
                  \E i \in DOMAIN findings' : findings'[i].claim = x
             /\ UNCHANGED <<spec, historical, current, settled>>
             /\ job' = [job EXCEPT !.current = current, !.pc = "spec", !.round = 2]
             /\ job.kind = "investigate" /\ job.pc = "current" /\ job.round = 1
             /\ reported' = reported \cup
                  {<<job.spec, Policy(f)>> : f \in DetectFirstTimeOperations(job.spec,
                                                     ParseAccessLog(job.historical), ParseAccessLog(current))}
<1> DEFINE result == BaselineFromFiles(job.spec, job.historical, current)
           calls == Cited(result).calls
           found == Cited(result).findings
           b == BuildBaselines(ParseAccessLog(job.historical \o current), KnownAgents)
<1>1. /\ tools' = tools \o calls /\ findings' = found
      /\ UNCHANGED <<spec, historical, current, settled>>
      /\ job' = [job EXCEPT !.current = current, !.pc = "spec", !.round = 2]
      /\ job.kind = "investigate" /\ job.pc = "current" /\ job.round = 1
      /\ reported' = reported \cup {<<job.spec, Policy(f)>> : f \in result.first_time_operations}
  BY DEF ReadForFindings, logs
<1>2. /\ result.baselines = b
      /\ result.bola_findings = DetectSequentialIdAccess(job.spec, ParseAccessLog(current))
      /\ result.first_time_operations =
           DetectFirstTimeOperations(job.spec, ParseAccessLog(job.historical), ParseAccessLog(current))
      /\ result.bola_findings \cup result.first_time_operations = Found(job.spec, job.historical, current)
  BY ResultIs
<1>3. current \in Seq(Lines) /\ IsSeq(job.spec)
  <2>1. job.spec \in Specs \cup {<<>>} /\ current \in Seq(Lines)
    BY DEF Jobs, Logs
  <2>2. Specs \subseteq Seq([method : STRING, path : Seq(STRING)])
    BY TrafficWindowsAssumption DEF TrafficWindowsAssumption
  <2>3. job.spec \in Seq([method : STRING, path : Seq(STRING)])
    <3>1. <<>> \in Seq([method : STRING, path : Seq(STRING)])
      OBVIOUS
    <3> QED BY <2>1, <2>2, <3>1, Zenon
  <2> QED BY <2>1, <2>3 DEF IsSeq
<1>4. IsFiniteSet(result.bola_findings) /\ IsFiniteSet(result.first_time_operations)
  BY <1>2, <1>3, FoundIsFinite
<1> HIDE DEF result, b
<1>5. /\ IsSeq(calls) /\ IsSeq(found) /\ DOMAIN calls = DOMAIN found
      /\ \A i \in DOMAIN found :
           /\ found[i] = [claim |-> found[i].claim, citation |-> i + 1, remediation |-> 0,
                          confidence |-> Confidence(found[i].claim, result.baselines)]
           /\ found[i].claim \in result.bola_findings \cup result.first_time_operations
           /\ calls[i].observation = found[i].claim
      /\ \A x \in result.bola_findings \cup result.first_time_operations :
           \E i \in DOMAIN found : found[i].claim = x
  BY <1>4, CitedIs
<1> HIDE DEF calls, found
<1>6. IsSeq(tools) /\ Len(tools) = 1
  BY <1>1 DEF Cites
<1>7. /\ IsSeq(tools')
      /\ \A i \in DOMAIN calls : Len(tools) + i \in DOMAIN tools' /\ tools'[Len(tools) + i] = calls[i]
  <2>1. Joined(tools, calls, tools \o calls)
    BY <1>5, <1>6, SeqConcat
  <2>2. Joined(tools, calls, tools')
    BY <1>1, <2>1
  <2> QED BY <2>2, Zenon DEF Joined
<1>8. ASSUME NEW i \in DOMAIN found
      PROVE  /\ found[i] = [claim |-> found[i].claim, citation |-> found[i].citation,
                            remediation |-> found[i].remediation,
                            confidence |-> found[i].confidence]
             /\ found[i].confidence = Confidence(found[i].claim, b)
             /\ found[i].citation \in DOMAIN tools'
             /\ tools'[found[i].citation].observation = found[i].claim
             /\ found[i].claim \in Found(job.spec, job.historical, current)
  <2>1. found[i] = [claim |-> found[i].claim, citation |-> i + 1, remediation |-> 0,
                    confidence |-> Confidence(found[i].claim, b)]
    BY <1>2, <1>5
  <2>2. /\ found[i].citation = i + 1 /\ found[i].remediation = 0
        /\ found[i].confidence = Confidence(found[i].claim, b)
    BY <2>1
  <2>3. i \in DOMAIN calls /\ calls[i].observation = found[i].claim
    BY <1>5
  <2>4. i \in Nat
    BY <1>5, SeqType
  <2>5. Len(tools) + i = i + 1
    BY <1>6, <2>4
  <2>6. i + 1 \in DOMAIN tools' /\ tools'[i + 1] = calls[i]
    BY <1>7, <2>3, <2>5
  <2>7. found[i].claim \in Found(job.spec, job.historical, current)
    BY <1>2, <1>5
  <2> QED BY <2>1, <2>2, <2>3, <2>6, <2>7
<1>9. \A x \in Found(job.spec, job.historical, current) : \E i \in DOMAIN found : found[i].claim = x
  BY <1>2, <1>5
<1> QED BY <1>1, <1>2, <1>5, <1>7, <1>8, <1>9 DEF b

\* What ReadForRecommendations makes of the findings.
LEMMA RecommendationsStep ==
  ASSUME Cites, ReadForRecommendations
  PROVE  LET found == BaselineFromFiles(job.spec, job.historical, current)
         IN  /\ IsSeq(tools') /\ IsSeq(findings')
             /\ \A i \in DOMAIN tools : i \in DOMAIN tools' /\ tools'[i] = tools[i]
             /\ \A n \in DOMAIN findings' : \E i \in DOMAIN findings :
                  /\ findings'[n].claim = findings[i].claim
                  /\ findings'[n].citation = findings[i].citation
                  /\ findings'[n].confidence = findings[i].confidence
                  /\ findings'[n] = [claim |-> findings'[n].claim, citation |-> findings'[n].citation,
                                     remediation |-> findings'[n].remediation,
                                     confidence |-> findings'[n].confidence]
                  /\ Recommendations(found) # {} =>
                       /\ findings'[n].remediation = Len(tools) + 1
                       /\ tools'[Len(tools) + 1].observation = Recommendations(found)
             /\ UNCHANGED <<spec, historical, current, reported, settled>>
             /\ job' = [job EXCEPT !.spec = <<>>, !.historical = <<>>, !.current = <<>>, !.pc = "done"]
             /\ job.kind = "investigate" /\ job.pc = "current" /\ job.round = 2
<1> DEFINE found == BaselineFromFiles(job.spec, job.historical, current)
           recommended == Recommendations(found)
           cites == [i \in DOMAIN findings |->
                      [findings[i] EXCEPT !.remediation = Len(tools) + 1]]
<1>1. /\ UNCHANGED <<spec, historical, current, reported, settled>>
      /\ job' = [job EXCEPT !.spec = <<>>, !.historical = <<>>, !.current = <<>>, !.pc = "done"]
      /\ job.kind = "investigate" /\ job.pc = "current" /\ job.round = 2
      /\ IF recommended = {}
         THEN findings' = ByConfidence(findings) /\ UNCHANGED tools
         ELSE /\ findings' = ByConfidence(cites)
              /\ tools' = Append(tools, [tool |-> "policies_recommend", observation |-> recommended])
  BY Zenon DEF ReadForRecommendations, logs
<1>2. /\ IsSeq(tools) /\ IsSeq(findings)
      /\ \A i \in DOMAIN findings :
           /\ findings[i] = [claim |-> findings[i].claim, citation |-> findings[i].citation,
                             remediation |-> findings[i].remediation,
                             confidence |-> findings[i].confidence]
           /\ findings[i].confidence \in Int
  BY DEF Cites
<1> HIDE DEF recommended
<1>3. CASE recommended = {}
  <2>1. findings' = ByConfidence(findings) /\ tools' = tools
    BY <1>1, <1>3
  <2>2. IsSeq(findings') /\ DOMAIN findings' = DOMAIN findings
        /\ \A n \in DOMAIN findings : \E i \in DOMAIN findings : findings'[n] = findings[i]
    BY <1>2, <2>1, SortedAreFindings
  <2> QED BY <1>1, <1>2, <1>3, <2>1, <2>2 DEF recommended
<1>4. CASE recommended # {}
  <2> DEFINE call == [tool |-> "policies_recommend", observation |-> recommended]
  <2>1. findings' = ByConfidence(cites) /\ tools' = Append(tools, call)
    BY <1>1, <1>4
  <2>2. DOMAIN cites = DOMAIN findings
    OBVIOUS
  <2>3. ASSUME NEW i \in DOMAIN findings
        PROVE  /\ cites[i] = [claim |-> findings[i].claim, citation |-> findings[i].citation,
                              remediation |-> Len(tools) + 1, confidence |-> findings[i].confidence]
               /\ cites[i].confidence \in Int
    <3>1. cites[i] = [findings[i] EXCEPT !.remediation = Len(tools) + 1]
      OBVIOUS
    <3> HIDE DEF cites
    <3>2. cites[i] = [claim |-> findings[i].claim, citation |-> findings[i].citation,
                      remediation |-> Len(tools) + 1, confidence |-> findings[i].confidence]
      BY <1>2, <3>1
    <3>3. cites[i].confidence = findings[i].confidence
      BY <3>2
    <3> QED BY <1>2, <3>2, <3>3
  <2>4. DOMAIN findings = 1..Len(findings) /\ Len(findings) \in Nat
    BY <1>2, SeqType
  <2>5. cites = [i \in 1..Len(findings) |-> cites[i]]
    BY <2>4
  <2> HIDE DEF cites
  <2>6. IsSeq(cites)
    BY <2>2, <2>4, <2>5, SeqFun
  <2>7. IsSeq(findings') /\ DOMAIN findings' = DOMAIN findings
        /\ \A n \in DOMAIN findings : \E i \in DOMAIN findings : findings'[n] = cites[i]
    BY <2>1, <2>2, <2>3, <2>6, SortedAreFindings
  <2>8. /\ IsSeq(tools') /\ tools'[Len(tools) + 1] = call
        /\ \A i \in DOMAIN tools : i \in DOMAIN tools' /\ tools'[i] = tools[i]
    BY <1>2, <2>1, SeqAppend
  <2>9. tools'[Len(tools) + 1].observation = recommended
    BY <2>8
  <2>10. ASSUME NEW n \in DOMAIN findings'
         PROVE  \E i \in DOMAIN findings :
                  /\ findings'[n].claim = findings[i].claim
                  /\ findings'[n].citation = findings[i].citation
                  /\ findings'[n].confidence = findings[i].confidence
                  /\ findings'[n] = [claim |-> findings'[n].claim, citation |-> findings'[n].citation,
                                     remediation |-> findings'[n].remediation,
                                     confidence |-> findings'[n].confidence]
                  /\ findings'[n].remediation = Len(tools) + 1
    <3>1. PICK i \in DOMAIN findings : findings'[n] = cites[i]
      BY <2>7
    <3>2. findings'[n] = [claim |-> findings[i].claim, citation |-> findings[i].citation,
                          remediation |-> Len(tools) + 1, confidence |-> findings[i].confidence]
      BY <2>3, <3>1
    <3> QED BY <3>2
  <2> QED BY <1>1, <2>7, <2>8, <2>9, <2>10 DEF recommended
<1> QED BY <1>3, <1>4

\* No step takes a finding its citation.
LEMMA CitesStep == Logs /\ Jobs /\ Cites /\ [Next]_vars => Cites'
<1> SUFFICES ASSUME Logs, Jobs, Cites, [Next]_vars PROVE Cites'
  OBVIOUS
<1>1. CASE Report \/ Investigate
  <2>1. findings' = <<>> /\ DOMAIN findings' = {} /\ IsSeq(findings')
    <3>1. findings' = <<>>
      BY <1>1 DEF Report, Investigate
    <3>2. <<>> \in Seq({})
      OBVIOUS
    <3> QED BY <3>1, <3>2 DEF IsSeq
  <2>2. IsSeq(tools') /\ (job'.kind = "investigate" /\ job'.round = 1 => Len(tools') = 1)
    <3>1. CASE Report
      <4>1. tools' = <<>> /\ job'.kind = "report"
        BY <3>1 DEF Report
      <4>2. <<>> \in Seq({})
        OBVIOUS
      <4> QED BY <4>1, <4>2 DEF IsSeq
    <3>2. CASE Investigate
      <4> DEFINE call == [tool |-> "discover", observation |-> Len(spec)]
      <4>1. tools' = <<call>>
        BY <3>2 DEF Investigate
      <4> HIDE DEF call
      <4>2. <<call>> \in Seq({call}) /\ Len(<<call>>) = 1
        OBVIOUS
      <4> QED BY <4>1, <4>2 DEF IsSeq
    <3> QED BY <1>1, <3>1, <3>2
  <2> QED BY <2>1, <2>2 DEF Cites
<1>2. CASE ReadForFindings
  <2> DEFINE b == BuildBaselines(ParseAccessLog(job.historical \o current), KnownAgents)
  <2>1. /\ IsSeq(tools') /\ IsSeq(findings')
        /\ \A i \in DOMAIN findings' :
             /\ findings'[i] = [claim |-> findings'[i].claim, citation |-> findings'[i].citation,
                                remediation |-> findings'[i].remediation,
                                confidence |-> findings'[i].confidence]
             /\ findings'[i].confidence = Confidence(findings'[i].claim, b)
             /\ findings'[i].citation \in DOMAIN tools'
             /\ tools'[findings'[i].citation].observation = findings'[i].claim
        /\ job' = [job EXCEPT !.current = current, !.pc = "spec", !.round = 2]
    BY <1>2, FindingsStep
  <2> HIDE DEF b
  <2>2. job'.round = 2
    BY <2>1 DEF Jobs
  <2>3. \A i \in DOMAIN findings' : findings'[i].confidence \in {60, 80, 85}
    BY <2>1, ConfidenceType
  <2> QED BY <2>1, <2>2, <2>3 DEF Cites
<1>3. CASE ReadForRecommendations
  <2>1. /\ IsSeq(tools') /\ IsSeq(findings')
        /\ \A i \in DOMAIN tools : i \in DOMAIN tools' /\ tools'[i] = tools[i]
        /\ \A n \in DOMAIN findings' : \E i \in DOMAIN findings :
             /\ findings'[n].claim = findings[i].claim
             /\ findings'[n].citation = findings[i].citation
             /\ findings'[n].confidence = findings[i].confidence
             /\ findings'[n] = [claim |-> findings'[n].claim, citation |-> findings'[n].citation,
                                remediation |-> findings'[n].remediation,
                                confidence |-> findings'[n].confidence]
        /\ job' = [job EXCEPT !.spec = <<>>, !.historical = <<>>, !.current = <<>>, !.pc = "done"]
        /\ job.round = 2
    BY <1>3, RecommendationsStep, Zenon
  <2>2. job'.round = 2
    BY <2>1 DEF Jobs
  <2>3. \A i \in DOMAIN findings :
          /\ findings[i].confidence \in {60, 80, 85}
          /\ findings[i].citation \in DOMAIN tools
          /\ tools[findings[i].citation].observation = findings[i].claim
    BY DEF Cites
  <2>4. ASSUME NEW n \in DOMAIN findings'
        PROVE  /\ findings'[n].confidence \in {60, 80, 85}
               /\ findings'[n].citation \in DOMAIN tools'
               /\ tools'[findings'[n].citation].observation = findings'[n].claim
    BY <2>1, <2>3
  <2> QED BY <2>1, <2>2, <2>4 DEF Cites
<1>4. CASE ~ Report /\ ~ Investigate /\ ~ ReadForFindings /\ ~ ReadForRecommendations /\ ~ FailCommand
  <2>1. UNCHANGED <<tools, findings>> /\ job'.kind = job.kind /\ job'.round = job.round
    BY <1>4, QuietStep
  <2> QED BY <2>1 DEF Cites
<1>5. CASE FailCommand
  <2>1. \A i \in DOMAIN findings' : FALSE
    BY <1>5, FailedStep
  <2> QED BY <1>5, <2>1, FailedStep DEF Cites
<1> QED BY <1>1, <1>2, <1>3, <1>4, <1>5

\* Appending lines leaves every finding one that would be found again.
LEMMA CoveredStep == Logs /\ Jobs /\ Cites /\ Covered /\ [Next]_vars => Covered'
<1> SUFFICES ASSUME Logs, Jobs, Cites, Covered, [Next]_vars,
                    job'.kind = "investigate", job'.round = 2, Busy', ~job'.moved,
                    NEW i \in DOMAIN findings'
             PROVE  findings'[i].claim \in Found(spec', historical', current')
  BY DEF Covered
<1>1. CASE Report \/ Investigate
  BY <1>1 DEF Report, Investigate
<1>2. CASE ReadForFindings
  <2>1. /\ findings'[i].claim \in Found(job.spec, job.historical, current)
        /\ UNCHANGED <<spec, historical, current>>
        /\ job' = [job EXCEPT !.current = current, !.pc = "spec", !.round = 2]
        /\ job.kind = "investigate" /\ job.pc = "current" /\ job.round = 1
    BY <1>2, FindingsStep
  <2>2. ~job.moved
    BY <2>1 DEF Jobs
  <2>3. job.spec = spec /\ job.historical = historical
    BY <2>1, <2>2 DEF Jobs, Busy
  <2> QED BY <2>1, <2>3
<1>3. CASE ReadForRecommendations
  <2>1. job' = [job EXCEPT !.spec = <<>>, !.historical = <<>>, !.current = <<>>, !.pc = "done"]
    BY <1>3, RecommendationsStep
  <2> QED BY <2>1 DEF Jobs, Busy
<1>4. CASE ~ Report /\ ~ Investigate /\ ~ ReadForFindings /\ ~ ReadForRecommendations /\ ~ FailCommand
  <2>1. /\ UNCHANGED findings /\ job'.kind = job.kind /\ job'.round = job.round /\ Busy
        /\ ~job.moved
        /\ \/ UNCHANGED <<spec, historical, current>>
           \/ /\ \E line \in Lines : current' = Append(current, line)
              /\ UNCHANGED <<spec, historical, job>>
    BY <1>4, QuietStep
  <2>2. findings'[i].claim \in Found(spec, historical, current)
    BY <2>1 DEF Covered
  <2>3. CASE UNCHANGED <<spec, historical, current>>
    BY <2>2, <2>3
  <2>4. ASSUME NEW line \in Lines, current' = Append(current, line), UNCHANGED <<spec, historical>>
        PROVE  findings'[i].claim \in Found(spec', historical', current')
    <3>1. current \in Seq(Lines)
      BY DEF Logs
    <3>2. Found(spec, historical, current) \subseteq Found(spec, historical, Append(current, line))
      BY <3>1, FoundGrows
    <3> QED BY <2>2, <2>4, <3>2
  <2> QED BY <2>1, <2>3, <2>4
<1>5. CASE FailCommand
  BY <1>5, FailedStep
<1> QED BY <1>1, <1>2, <1>3, <1>4, <1>5

\* The findings are those of the files of the first round.
LEMMA EnumeratedStep == Logs /\ Jobs /\ Cites /\ Enumerated /\ [Next]_vars => Enumerated'
<1> SUFFICES ASSUME Logs, Jobs, Cites, Enumerated, [Next]_vars, FindingsAreMade'
             PROVE  {findings'[i].claim : i \in DOMAIN findings'}
                      = Found(job'.spec, job'.historical, job'.current)
  BY DEF Enumerated
<1>1. CASE Report \/ Investigate
  BY <1>1 DEF Report, Investigate, FindingsAreMade
<1>2. CASE ReadForFindings
  <2>1. /\ \A i \in DOMAIN findings' : findings'[i].claim \in Found(job.spec, job.historical, current)
        /\ \A x \in Found(job.spec, job.historical, current) :
             \E i \in DOMAIN findings' : findings'[i].claim = x
        /\ job' = [job EXCEPT !.current = current, !.pc = "spec", !.round = 2]
    BY <1>2, FindingsStep
  <2>2. job'.spec = job.spec /\ job'.historical = job.historical /\ job'.current = current
    BY <2>1 DEF Jobs
  <2> QED BY <2>1, <2>2
<1>3. CASE ReadForRecommendations
  <2>1. job' = [job EXCEPT !.spec = <<>>, !.historical = <<>>, !.current = <<>>, !.pc = "done"]
    BY <1>3, RecommendationsStep
  <2> QED BY <2>1 DEF Jobs, FindingsAreMade
<1>4. CASE ~ Report /\ ~ Investigate /\ ~ ReadForFindings /\ ~ ReadForRecommendations /\ ~ FailCommand
  <2>1. /\ UNCHANGED findings /\ FindingsAreMade
        /\ job'.spec = job.spec /\ job'.historical = job.historical /\ job'.current = job.current
    BY <1>4, QuietStep
  <2> QED BY <2>1 DEF Enumerated
<1>5. CASE FailCommand
  BY <1>5, FailedStep DEF FindingsAreMade
<1> QED BY <1>1, <1>2, <1>3, <1>4, <1>5

\* Rotations settle what was reported, and nothing else is settled.
LEMMA ReportedStep == Logs /\ Jobs /\ Cites /\ Reported /\ [Next]_vars => Reported'
<1> SUFFICES ASSUME Logs, Jobs, Cites, Reported, [Next]_vars PROVE Reported'
  OBVIOUS
<1> DEFINE InHistory(x) == \E f \in Operations(x[1], ParseAccessLog(historical)) : x = <<x[1], Policy(f)>>
           InCurrent(x) == \E f \in Operations(x[1], ParseAccessLog(current)) : x = <<x[1], Policy(f)>>
<1>1. /\ settled \subseteq reported
      /\ \A x \in reported : InHistory(x) \/ InCurrent(x)
      /\ \A x \in settled : InHistory(x)
  BY DEF Reported
<1>2. current \in Seq(Lines) /\ historical \in Seq(Lines)
  BY DEF Logs
<1>3. ASSUME settled' \subseteq reported',
             \A x \in reported' : InHistory(x)' \/ InCurrent(x)',
             \A x \in settled' : InHistory(x)'
      PROVE  Reported'
  BY <1>3 DEF Reported
<1>4. CASE Rotate
  <2>1. /\ historical' = historical \o current /\ reported' = reported /\ settled' = reported
    BY <1>4 DEF Rotate
  <2>2. \A x : Operations(x[1], ParseAccessLog(historical')) =
                 Operations(x[1], ParseAccessLog(historical)) \cup Operations(x[1], ParseAccessLog(current))
    BY <1>2, <2>1, OperationsConcat
  <2>3. ASSUME NEW x \in reported' PROVE InHistory(x)'
    <3>1. InHistory(x) \/ InCurrent(x)
      BY <1>1, <2>1
    <3> QED BY <2>2, <3>1
  <2> QED BY <1>3, <2>1, <2>3
<1>5. ASSUME NEW line \in unwritten, Write(line) PROVE Reported'
  <2>1. PICK l \in Lines : current' = Append(current, l)
    BY <1>5, WrittenLine
  <2>2. historical' = historical /\ reported' = reported /\ settled' = settled
    BY <1>5 DEF Write
  <2>3. \A x : Operations(x[1], ParseAccessLog(current)) \subseteq Operations(x[1], ParseAccessLog(current'))
    BY <1>2, <2>1, OperationsAppend
  <2>4. \A x : InCurrent(x) => InCurrent(x)'
    BY <2>3
  <2>5. \A x : InHistory(x) => InHistory(x)'
    BY <2>2
  <2> HIDE DEF InCurrent, InHistory
  <2> QED BY <1>1, <1>3, <2>2, <2>4, <2>5
<1>6. CASE ReadForFindings
  <2> DEFINE first == DetectFirstTimeOperations(job.spec, ParseAccessLog(job.historical), ParseAccessLog(current))
  <2>1. /\ UNCHANGED <<historical, current, settled>>
        /\ reported' = reported \cup {<<job.spec, Policy(f)>> : f \in first}
    BY <1>6, FindingsStep
  <2>2. \A f \in first : f \in Operations(job.spec, ParseAccessLog(current))
    BY DEF DetectFirstTimeOperations
  <2> HIDE DEF first
  <2>3. \A x \in {<<job.spec, Policy(f)>> : f \in first} : InCurrent(x)'
    BY <2>1, <2>2
  <2>4. \A x : (InCurrent(x) => InCurrent(x)') /\ (InHistory(x) => InHistory(x)')
    BY <2>1
  <2> HIDE DEF InCurrent, InHistory
  <2> QED BY <1>1, <1>3, <2>1, <2>3, <2>4
<1>7. CASE UNCHANGED <<historical, current, reported, settled>>
  BY <1>7 DEF Reported
<1> QED BY <1>4, <1>5, <1>6, <1>7
    DEF Next, vars, logs, Call, Deploy, Report, Investigate, ReadSpec, ReadHistorical, ReadForReport,
        ReadForRecommendations, ReadFails, RecommendFails, FailCommand

-----------------------------------------------------------------------------
(* What the runs check, for any constants.                                 *)

Inv == Logs /\ Jobs /\ Cites /\ Covered /\ Enumerated /\ Reported

\* Before there are findings.
LEMMA NoFindings == findings = <<>> /\ tools = <<>> => /\ IsSeq(tools) /\ IsSeq(findings)
                                                       /\ DOMAIN findings = {}
<1>1. <<>> \in Seq({}) /\ DOMAIN <<>> = {}
  OBVIOUS
<1> QED BY <1>1 DEF IsSeq

\* The six parts together are inductive.
LEMMA Invariant == Spec => []Inv
<1>1. Init => Inv
  <2> SUFFICES ASSUME Init PROVE Inv
    OBVIOUS
  <2>1. Logs /\ Jobs
    BY LogsInit, JobsInit
  <2>2. /\ findings = <<>> /\ tools = <<>> /\ job.kind = "none" /\ reported = {} /\ settled = {}
    BY DEF Init
  <2>3. Cites /\ Covered /\ Enumerated
    BY <2>2, NoFindings DEF Cites, Covered, Enumerated, FindingsAreMade
  <2>4. Reported
    BY <2>2 DEF Reported
  <2> QED BY <2>1, <2>3, <2>4 DEF Inv
<1>2. Inv /\ [Next]_vars => Inv'
  BY LogsStep, JobsStep, CitesStep, CoveredStep, EnumeratedStep, ReportedStep DEF Inv
<1> QED BY <1>1, <1>2, PTL DEF Spec

\* Whatever is asked, written, rotated and deployed while the commands read,
\* lines are of requests that have been made, a finding cites a call that there
\* is, and nothing is settled that has not been reported.
THEOREM TypeOKHolds == Spec => []TypeOK
<1>1. Inv => TypeOK
  BY DEF Inv, Logs, Jobs, Cites, Reported, TypeOK
<1> QED BY <1>1, Invariant, PTL

\* Of an identity whose lines are in the order of its requests, investigate
\* reports every run of ids one apart, and nothing else as long as no difference
\* of two ids overflows: for every number of ids, of requests in between and of
\* lines that cannot be read.
THEOREM EnumerationIsFoundHolds == Spec => []EnumerationIsFound
<1>1. Inv => EnumerationIsFound
  <2> SUFFICES ASSUME Inv, FindingsAreMade,
                      NEW w \in Identities(ParseAccessLog(job.current)), NEW e \in ToSet(job.spec),
                      InTimeOrder(job.current, w), SingleNumericParamIndex(e.path) # 0
               PROVE  LET asked == AccessedIds(Behind(job.current), w, e)
                          Claimed == \E i \in DOMAIN findings :
                            findings[i].claim = [kind |-> "bola", who |-> w, method |-> e.method,
                                                 path |-> e.path]
                      IN /\ HasRun(asked) => Claimed
                         /\ Claimed /\ Fits(asked) => HasRun(asked)
    BY Zenon DEF EnumerationIsFound
  <2> DEFINE p == ParseAccessLog(job.current)
             claim == [kind |-> "bola", who |-> w, method |-> e.method, path |-> e.path]
  <2>1. job.current \in Seq(Lines) /\ Distinct(job.current) /\ job.spec \in Specs \cup {<<>>}
    BY DEF Inv, Jobs
  <2>2. AccessedIds(Behind(job.current), w, e) = AccessedIds(p, w, e)
    BY <2>1, SameIds
  <2>3. Parsed(p)
    BY <2>1, ParseIs
  <2>4. \A d \in ToSet(job.spec) : d.method = e.method /\ d.path = e.path => d = e
    <3>1. \A d \in ToSet(job.spec) : d \in [method : STRING, path : Seq(STRING)]
      <4>1. CASE job.spec \in Specs
        <5>1. job.spec \in Seq([method : STRING, path : Seq(STRING)])
          BY <4>1, TrafficWindowsAssumption DEF TrafficWindowsAssumption
        <5>2. \A i \in DOMAIN job.spec : job.spec[i] \in [method : STRING, path : Seq(STRING)]
          <6> DEFINE E == [method : STRING, path : Seq(STRING)]
          <6>1. job.spec \in Seq(E)
            BY <5>1
          <6> HIDE DEF E
          <6>2. \A i \in DOMAIN job.spec : job.spec[i] \in E
            BY <6>1
          <6> QED BY <6>2 DEF E
        <5> QED BY <5>2, Zenon DEF ToSet
      <4>2. CASE job.spec = <<>>
        <5>1. DOMAIN job.spec = {}
          BY <4>2
        <5>2. ToSet(job.spec) = {}
          BY <5>1 DEF ToSet
        <5> QED BY <5>2
      <4> QED BY <2>1, <4>1, <4>2
    <3>2. \A c, d \in [method : STRING, path : Seq(STRING)] :
            c.method = d.method /\ c.path = d.path => c = d
      OBVIOUS
    <3> QED BY <3>1, <3>2
  <2>5. claim \in DetectSequentialIdAccess(job.spec, p) <=> CountedRun(AccessedIds(p, w, e))
    <3>1. claim \in DetectSequentialIdAccess(job.spec, p) <=>
            \E v \in Identities(p) : \E d \in ToSet(job.spec) :
               /\ claim = [kind |-> "bola", who |-> v, method |-> d.method, path |-> d.path]
               /\ SingleNumericParamIndex(d.path) # 0
               /\ CountedRun(AccessedIds(p, v, d))
      <4> HIDE DEF claim, p
      <4> QED BY <2>3, RunsAreReported
    <3>2. \A v, d : claim = [kind |-> "bola", who |-> v, method |-> d.method, path |-> d.path] =>
                      v = w /\ d.method = e.method /\ d.path = e.path
      OBVIOUS
    <3> QED BY <2>4, <3>1, <3>2
  <2>6. claim \in Found(job.spec, job.historical, job.current) <=> claim \in DetectSequentialIdAccess(job.spec, p)
    <3>1. claim \notin Operations(job.spec, p)
      BY DEF Operations
    <3> QED BY <3>1 DEF Found, DetectFirstTimeOperations
  <2>7. claim \in Found(job.spec, job.historical, job.current) <=>
          \E i \in DOMAIN findings : findings[i].claim = claim
    BY DEF Inv, Enumerated
  <2>8. LET asked == AccessedIds(p, w, e)
        IN /\ HasRun(asked) => CountedRun(asked)
           /\ CountedRun(asked) /\ Fits(asked) => HasRun(asked)
    BY <2>3, AccessedIdsType, RunsAreExact
  <2> HIDE DEF p, claim
  <2>9. LET asked == AccessedIds(p, w, e)
            Claimed == \E i \in DOMAIN findings : findings[i].claim = claim
        IN /\ HasRun(asked) => Claimed
           /\ Claimed /\ Fits(asked) => HasRun(asked)
    BY <2>5, <2>6, <2>7, <2>8
  <2> QED BY <2>2, <2>9, Zenon DEF p, claim
<1> QED BY <1>1, Invariant, PTL

\* However often the logs rotate, under whichever versions of the
\* specification, a first-time operation that has become history is not found
\* again.
THEOREM FirstTimeIsReportedOnceHolds == Spec => FirstTimeIsReportedOnce
<1> DEFINE A == FindingsAreMade' /\ ~FindingsAreMade /\ ~job.moved =>
                  \A i \in DOMAIN findings' :
                    findings'[i].claim.kind = "first" =>
                      <<job.spec, Policy(findings'[i].claim)>> \notin settled
<1>1. Inv /\ [Next]_vars => A
  <2> SUFFICES ASSUME Inv, [Next]_vars, FindingsAreMade', ~FindingsAreMade, ~job.moved,
                      NEW i \in DOMAIN findings', findings'[i].claim.kind = "first",
                      <<job.spec, Policy(findings'[i].claim)>> \in settled
               PROVE  FALSE
    OBVIOUS
  <2> DEFINE f == findings'[i].claim
             x == <<job.spec, Policy(f)>>
  <2>1. ReadForFindings
    <3>1. ~ Report /\ ~ Investigate
      BY DEF Report, Investigate, FindingsAreMade
    <3>2. ASSUME ReadForRecommendations PROVE FALSE
      <4>1. job'.pc = "done"
        BY <3>2, RecommendationsStep DEF Inv, Jobs
      <4> QED BY <4>1 DEF FindingsAreMade
    <3>3. ~ FailCommand
      BY FailedStep DEF FindingsAreMade
    <3> QED BY <3>1, <3>2, <3>3, QuietStep DEF Inv
  <2>2. /\ f \in Found(job.spec, job.historical, current)
        /\ job.kind = "investigate" /\ job.pc = "current"
    BY <2>1, FindingsStep DEF Inv
  <2>3. job.historical = historical
    BY <2>2 DEF Inv, Jobs
  <2>4. f \notin DetectSequentialIdAccess(job.spec, ParseAccessLog(current))
    <3>1. \A g \in DetectSequentialIdAccess(job.spec, ParseAccessLog(current)) : g.kind = "bola"
      BY DEF DetectSequentialIdAccess
    <3> QED BY <3>1
  <2>5. /\ f \in Operations(job.spec, ParseAccessLog(current))
        /\ f \notin Operations(job.spec, ParseAccessLog(historical))
    BY <2>2, <2>3, <2>4 DEF Found, DetectFirstTimeOperations
  <2>6. PICK g \in Operations(job.spec, ParseAccessLog(historical)) : Policy(f) = Policy(g)
    <3>1. PICK g \in Operations(x[1], ParseAccessLog(historical)) : x = <<x[1], Policy(g)>>
      BY DEF Inv, Reported
    <3>2. x[1] = job.spec /\ x[2] = Policy(f) /\ x[2] = Policy(g)
      BY <3>1
    <3> QED BY <3>1, <3>2
  <2>7. \A a, b : Policy(a) = Policy(b) => a.who = b.who /\ a.method = b.method /\ a.path = b.path
    BY DEF Policy
  <2>8. f.who = g.who /\ f.method = g.method /\ f.path = g.path
    BY <2>6, <2>7
  <2>9. \A t : \A a \in Operations(job.spec, t) :
          a = [kind |-> "first", who |-> a.who, method |-> a.method, path |-> a.path]
    BY DEF Operations
  <2>10. f = g
    BY <2>5, <2>6, <2>8, <2>9
  <2> QED BY <2>5, <2>6, <2>10
<1>2. Inv /\ [Next]_vars => [A]_vars
  BY <1>1
<1>3. Spec => [][A]_vars
  BY <1>2, Invariant, PTL DEF Spec
<1> QED BY <1>3, Zenon DEF FirstTimeIsReportedOnce, A

\* Declared agents are recognised, whatever the logs hold.
THEOREM AgentsAreRecognisedHolds == Spec => []AgentsAreRecognised
<1>1. Init => AgentsAreRecognised
  BY NoFindings DEF Init, AgentsAreRecognised
<1>2. Inv /\ AgentsAreRecognised /\ [Next]_vars => AgentsAreRecognised'
  <2> SUFFICES ASSUME Inv, AgentsAreRecognised, [Next]_vars,
                      NEW i \in DOMAIN findings', findings'[i].claim.kind = "first"
               PROVE  findings'[i].confidence = 80 <=> findings'[i].claim.who \in KnownAgents
    BY DEF AgentsAreRecognised
  <2>1. CASE Report \/ Investigate
    <3>1. findings' = <<>> /\ DOMAIN <<>> = {}
      BY <2>1 DEF Report, Investigate
    <3> QED BY <3>1
  <2>2. CASE ReadForFindings
    <3> DEFINE t == ParseAccessLog(job.historical \o current)
               b == BuildBaselines(t, KnownAgents)
               c == findings'[i].claim
    <3>1. findings'[i].confidence = Confidence(c, b) /\ c \in Found(job.spec, job.historical, current)
      BY <2>2, FindingsStep DEF Inv
    <3>2. c \in Operations(job.spec, ParseAccessLog(current))
      <4>1. \A g \in DetectSequentialIdAccess(job.spec, ParseAccessLog(current)) : g.kind = "bola"
        BY DEF DetectSequentialIdAccess
      <4> QED BY <3>1, <4>1 DEF Found, DetectFirstTimeOperations
    <3>3. c.who \in Identities(ParseAccessLog(current))
      BY <3>2 DEF Operations, Identities
    <3>4. ToSet(ParseAccessLog(current)) \subseteq ToSet(t)
      <4>1. job.historical \in Seq(Lines) /\ current \in Seq(Lines)
        BY DEF Inv, Jobs, Logs
      <4> QED BY <4>1, ParseConcat
    <3>5. c.who \in Identities(t)
      BY <3>3, <3>4 DEF Identities
    <3>6. DOMAIN b = Identities(t) /\ \A w \in Identities(t) : b[w].known <=> w \in KnownAgents
      BY DEF BuildBaselines
    <3> HIDE DEF b, t, c
    <3>7. c.kind = "first"
      BY DEF c
    <3>8. Confidence(c, b) = IF c.who \in {w \in DOMAIN b : b[w].known} THEN 80 ELSE 60
      BY <3>7 DEF Confidence
    <3> QED BY <3>1, <3>5, <3>6, <3>8 DEF c
  <2>3. CASE ReadForRecommendations
    <3>1. PICK k \in DOMAIN findings : /\ findings'[i].claim = findings[k].claim
                                       /\ findings'[i].confidence = findings[k].confidence
      BY <2>3, RecommendationsStep, Zenon DEF Inv
    <3> QED BY <3>1 DEF AgentsAreRecognised
  <2>5. CASE FailCommand
    BY <2>5, FailedStep
  <2>4. CASE ~ Report /\ ~ Investigate /\ ~ ReadForFindings /\ ~ ReadForRecommendations /\ ~ FailCommand
    <3>1. UNCHANGED findings
      BY <2>4, QuietStep DEF Inv
    <3> QED BY <3>1 DEF AgentsAreRecognised
  <2> QED BY <2>1, <2>2, <2>3, <2>4, <2>5
<1> QED BY <1>1, <1>2, Invariant, PTL DEF Spec

\* The recommendations of an investigation whose files were not rotated or
\* replaced cover all its findings, and the citations survive the sort.
THEOREM RemedyCoversFindingsHolds == Spec => []RemedyCoversFindings
<1> DEFINE Remedy(i) == /\ findings[i].remediation # 0
                        /\ Policy(findings[i].claim) \in tools[findings[i].remediation].observation
           Remedied == Done("investigate") /\ ~job.moved => \A i \in DOMAIN findings : Remedy(i)
<1>1. Init => Remedied
  BY DEF Init, Done
<1>2. Inv /\ Remedied /\ [Next]_vars => Remedied'
  <2> SUFFICES ASSUME Inv, Remedied, [Next]_vars, Done("investigate")', ~job'.moved,
                      NEW n \in DOMAIN findings'
               PROVE  Remedy(n)'
    OBVIOUS
  <2>1. CASE Report \/ Investigate \/ ReadForFindings
    <3>1. job'.pc = "spec"
      <4>1. CASE Report \/ Investigate
        BY <4>1 DEF Report, Investigate
      <4>2. CASE ReadForFindings
        <5>1. job' = [job EXCEPT !.current = current, !.pc = "spec", !.round = 2]
          BY <4>2, FindingsStep DEF Inv
        <5> QED BY <5>1 DEF Inv, Jobs
      <4> QED BY <2>1, <4>1, <4>2
    <3> QED BY <3>1 DEF Done
  <2>2. CASE ReadForRecommendations
    <3> DEFINE found == BaselineFromFiles(job.spec, job.historical, current)
               recommended == Recommendations(found)
    <3>1. PICK i \in DOMAIN findings :
            /\ findings'[n].claim = findings[i].claim
            /\ recommended # {} => /\ findings'[n].remediation = Len(tools) + 1
                                   /\ tools'[Len(tools) + 1].observation = recommended
      BY <2>2, RecommendationsStep, Zenon DEF Inv
    <3>2. /\ job' = [job EXCEPT !.spec = <<>>, !.historical = <<>>, !.current = <<>>, !.pc = "done"]
          /\ job.kind = "investigate" /\ job.pc = "current" /\ job.round = 2
      BY <2>2, RecommendationsStep DEF Inv
    <3>3. ~job.moved
      BY <3>2 DEF Inv, Jobs
    <3>4. job.spec = spec /\ job.historical = historical
      BY <3>2, <3>3 DEF Inv, Jobs, Busy
    <3>5. findings[i].claim \in Found(spec, historical, current)
      BY <3>2, <3>3 DEF Inv, Covered, Busy
    <3>6. recommended = {Policy(f) : f \in Found(job.spec, job.historical, current)}
      BY ResultIs DEF Recommendations, Claims
    <3>7. Policy(findings'[n].claim) \in recommended
      BY <3>1, <3>4, <3>5, <3>6
    <3>8. Len(tools) \in Nat
      BY SeqType DEF Inv, Cites
    <3> HIDE DEF recommended
    <3> QED BY <3>1, <3>7, <3>8
  <2>4. CASE FailCommand
    BY <2>4, FailedStep
  <2>3. CASE ~ Report /\ ~ Investigate /\ ~ ReadForFindings /\ ~ ReadForRecommendations /\ ~ FailCommand
    <3>1. /\ UNCHANGED <<tools, findings>> /\ (job.moved => job'.moved)
          /\ Done("investigate")' => Done("investigate")
      BY <2>3, QuietStep DEF Inv
    <3> QED BY <3>1
  <2> QED BY <2>1, <2>2, <2>3, <2>4
<1>3. Inv /\ Remedied => RemedyCoversFindings
  BY DEF Inv, Cites, RemedyCoversFindings
<1> HIDE DEF Remedied
<1> QED BY <1>1, <1>2, <1>3, Invariant, PTL DEF Spec

\* A report loses no request, for any inventory and any log.
THEOREM EveryRequestIsAccountedForHolds == Spec => []EveryRequestIsAccountedFor
<1>1. Inv => EveryRequestIsAccountedFor
  <2> SUFFICES ASSUME Inv, NEW k \in DOMAIN Behind(job.current)
               PROVE  LET r == BuildLifecycleReport(job.spec, ParseAccessLog(job.current))
                          read == Behind(job.current)
                      IN /\ \/ \E i \in DOMAIN r.active : Hits(read[k], job.spec[i])
                            \/ <<read[k].method, read[k].path>> \in DOMAIN r.shadow
                         /\ \A i \in r.zombie : ~Hits(read[k], job.spec[i])
    BY Zenon DEF EveryRequestIsAccountedFor
  <2> DEFINE p == ParseAccessLog(job.current)
             inventory == job.spec
             D == DOMAIN p
             calls == [i \in DOMAIN inventory |-> {j \in D : Hits(p[j], inventory[i])}]
             count == [i \in DOMAIN inventory |-> Cardinality(calls[i])]
             missed == {j \in D : \A i \in DOMAIN inventory : ~Hits(p[j], inventory[i])}
             r == BuildLifecycleReport(inventory, p)
  <2>1. job.current \in Seq(Lines) /\ Distinct(job.current)
    BY DEF Inv, Jobs
  <2>2. PICK j \in D : k = job.current[j].at
    BY <2>1, BehindIs
  <2>3. Behind(job.current)[k] = p[j]
    BY <2>1, <2>2, BehindIs
  <2>4. IsFiniteSet(D)
    BY <2>1, ParseIs DEF Parsed
  <2>5. /\ DOMAIN r.active = {i \in DOMAIN inventory : count[i] > 0}
        /\ r.zombie = {i \in DOMAIN inventory : count[i] = 0}
        /\ DOMAIN r.shadow = {<<p[l].method, p[l].path>> : l \in missed}
    BY DEF BuildLifecycleReport
  <2>6. ASSUME NEW i \in DOMAIN inventory, Hits(p[j], inventory[i]) PROVE count[i] > 0
    <3> DEFINE C == {l \in D : Hits(p[l], inventory[i])}
    <3>1. j \in C /\ C \in SUBSET D
      BY <2>6
    <3>2. count[i] = Cardinality(C)
      OBVIOUS
    <3> HIDE DEF C, D, count
    <3>3. IsFiniteSet(C) /\ Cardinality(C) \in Nat
      BY <2>4, <3>1, FS_Subset, FS_CardinalityType
    <3>4. Cardinality(C) # 0
      BY <3>1, <3>3, FS_EmptySet
    <3> QED BY <3>2, <3>3, <3>4
  <2>7. \A i \in r.zombie : ~Hits(p[j], inventory[i])
    <3> HIDE DEF count
    <3> QED BY <2>5, <2>6
  <2>8. \/ \E i \in DOMAIN r.active : Hits(p[j], inventory[i])
        \/ <<p[j].method, p[j].path>> \in DOMAIN r.shadow
    <3>1. CASE \E i \in DOMAIN inventory : Hits(p[j], inventory[i])
      <4> HIDE DEF count, r
      <4> QED BY <2>5, <2>6, <3>1
    <3>2. CASE \A i \in DOMAIN inventory : ~Hits(p[j], inventory[i])
      <4>1. j \in missed
        BY <3>2
      <4> HIDE DEF missed, r
      <4> QED BY <2>5, <4>1
    <3> QED BY <3>1, <3>2
  <2> HIDE DEF r, p
  <2> QED BY <2>3, <2>7, <2>8, Zenon DEF r, p
<1> QED BY <1>1, Invariant, PTL
=============================================================================
