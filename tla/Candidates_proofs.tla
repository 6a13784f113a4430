-------------------------- MODULE Candidates_proofs --------------------------
(***************************************************************************)
(* Proofs about Candidates for any number of candidates, sessions and      *)
(* operations.  The rows: whoever has loaded a row and is not late still   *)
(* holds what the row is, and a late one writes only the columns it        *)
(* changes, so that what was said of the others stays.  The walk: a commit *)
(* moves across the offset at most as many candidates as it adds to the    *)
(* list or takes from it, because a candidate moves only behind one that   *)
(* was added or ahead of one that was taken.                               *)
(***************************************************************************)
EXTENDS Candidates, FiniteSetTheorems, SequenceTheorems, TLAPS

-----------------------------------------------------------------------------
(* Sets of candidates and their order.                                     *)

LEMMA IdSets ==
  ASSUME NEW S \in SUBSET Ids
  PROVE  IsFiniteSet(S) /\ Cardinality(S) \in Nat
  <1>1. IsFiniteSet(1..MaxCandidates)
    BY PoolAssumption, FS_Interval
  <1>2. IsFiniteSet(S)
    BY <1>1, FS_Subset DEF Ids
  <1> QED
    BY <1>2, FS_CardinalityType

LEMMA Larger ==
  ASSUME NEW T \in SUBSET Ids, NEW S \in SUBSET T
  PROVE  Cardinality(S) <= Cardinality(T)
  BY IdSets, FS_Subset

\* The newer a candidate, the fewer come before it.
LEMMA Order ==
  ASSUME NEW S \in SUBSET Ids
  PROVE  /\ \A c \in Ids : Before(S, c) \in Nat
         /\ \A c \in S : Before(S, c) < Cardinality(S)
         /\ \A c, d \in Ids : d >= c => Before(S, d) <= Before(S, c)
         /\ \A c, d \in Ids : d \in S /\ d > c => Before(S, d) < Before(S, c)
  <1> DEFINE above(c) == {d \in S : d > c}
  <1>0. Ids \subseteq Nat
    BY DEF Ids
  <1>1. \A c \in Ids : above(c) \in SUBSET Ids /\ Before(S, c) = Cardinality(above(c))
    BY DEF Before
  <1>2. \A c \in Ids : Before(S, c) \in Nat
    BY <1>1, IdSets
  <1>3. ASSUME NEW c \in S PROVE Before(S, c) < Cardinality(S)
    <2>1. c \in S \ above(c) /\ above(c) \in SUBSET S
      BY <1>0
    <2> HIDE DEF above
    <2>2. Cardinality(above(c)) <= Cardinality(S) /\ Cardinality(above(c)) # Cardinality(S)
      BY <2>1, IdSets, FS_Subset
    <2> QED
      BY <1>1, <2>2, IdSets
  <1>4. ASSUME NEW c \in Ids, NEW d \in Ids, d >= c
        PROVE  Before(S, d) <= Before(S, c)
    <2>1. above(d) \in SUBSET above(c)
      <3> SUFFICES ASSUME NEW x \in S, x > d PROVE x > c
        OBVIOUS
      <3>1. x \in Nat /\ c \in Nat /\ d \in Nat
        BY <1>0
      <3> QED
        BY <1>4, <3>1
    <2> HIDE DEF above
    <2> QED
      BY <1>1, <2>1, Larger
  <1>5. ASSUME NEW c \in Ids, NEW d \in S, d > c
        PROVE  Before(S, d) < Before(S, c)
    <2>1. d \in above(c) \ above(d) /\ above(d) \in SUBSET above(c)
      <3>1. c \in Nat /\ d \in Nat /\ \A x \in S : x \in Nat
        BY <1>0
      <3>2. \A x \in S : x > d => x > c
        BY <1>5, <3>1
      <3>3. d \in above(c) /\ d \notin above(d)
        BY <1>5, <3>1
      <3> QED
        BY <3>2, <3>3
    <2> HIDE DEF above
    <2>2. Cardinality(above(d)) <= Cardinality(above(c))
          /\ Cardinality(above(d)) # Cardinality(above(c))
      BY <1>1, <2>1, IdSets, FS_Subset
    <2> QED
      BY <1>1, <2>2, IdSets
  <1> QED
    BY <1>2, <1>3, <1>4, <1>5

LEMMA OrderTellsApart ==
  ASSUME NEW S \in SUBSET Ids, NEW c \in S, NEW d \in S, Before(S, c) = Before(S, d)
  PROVE  c = d
  <1>1. c \in Nat /\ d \in Nat /\ c \in Ids /\ d \in Ids
    BY DEF Ids
  <1>2. ~(d > c) /\ ~(c > d)
    BY <1>1, Order
  <1> QED
    BY <1>1, <1>2

\* Every place of the list is taken.
LEMMA Places ==
  ASSUME NEW S \in SUBSET Ids, NEW i \in 0..Cardinality(S) - 1
  PROVE  \E c \in S : Before(S, c) = i
  <1> SUFFICES ASSUME \A c \in S : Before(S, c) # i PROVE FALSE
    OBVIOUS
  <1> DEFINE n == Cardinality(S)
             T == (0..n - 1) \ {i}
             f == [c \in S |-> Before(S, c)]
  <1>1. n \in Nat /\ IsFiniteSet(S)
    BY IdSets
  <1>2. IsFiniteSet(0..n - 1) /\ Cardinality(0..n - 1) = n
    <2>1. 0 \in Int /\ n - 1 \in Int
      BY <1>1
    <2> QED
      BY <1>1, <2>1, FS_Interval
  <1>3. IsFiniteSet(T) /\ Cardinality(T) = n - 1
    BY <1>2, FS_RemoveElement
  <1>4. f \in [S -> T]
    <2> SUFFICES ASSUME NEW c \in S PROVE Before(S, c) \in T
      OBVIOUS
    <2>1. Before(S, c) \in Nat /\ Before(S, c) < n
      BY Order
    <2> QED
      BY <1>1, <2>1
  <1>5. \A x, y \in S : f[x] = f[y] => x = y
    BY OrderTellsApart
  <1> HIDE DEF T, f
  <1>6. Cardinality(T) < Cardinality(S)
    BY <1>1, <1>3
  <1>7. \E x, y \in S : x # y /\ f[x] = f[y]
    BY <1>1, <1>3, <1>4, <1>6, FS_PigeonHole
  <1> QED
    BY <1>5, <1>7

\* The list, in its order, without repetition.
LEMMA ListOrder ==
  ASSUME NEW S \in SUBSET Ids
  PROVE  /\ NewestFirst(S) \in Seq(Ids) /\ Len(NewestFirst(S)) = Cardinality(S)
         /\ \A i \in 1..Cardinality(S) :
               NewestFirst(S)[i] \in S /\ Before(S, NewestFirst(S)[i]) = i - 1
  <1> DEFINE n == Cardinality(S)
             s == NewestFirst(S)
  <1>1. n \in Nat
    BY IdSets
  <1>2. ASSUME NEW i \in 1..n PROVE s[i] \in S /\ Before(S, s[i]) = i - 1
    <2>1. i - 1 \in 0..n - 1
      BY <1>1
    <2>2. \E c \in S : Before(S, c) = i - 1
      BY <2>1, Places
    <2>3. s[i] = CHOOSE c \in S : Before(S, c) = i - 1
      BY DEF NewestFirst, Before
    <2> QED
      BY <2>2, <2>3
  <1>3. s \in [1..n -> Ids]
    <2> DEFINE e(i) == CHOOSE c \in S : Before(S, c) = i - 1
    <2>1. s = [i \in 1..n |-> e(i)]
      BY DEF NewestFirst, Before
    <2>2. \A i \in 1..n : e(i) = s[i]
      BY <2>1
    <2> HIDE DEF e, s, n
    <2>3. \A i \in 1..n : e(i) \in Ids
      BY <1>2, <2>2
    <2> QED
      BY <2>1, <2>3
  <1> HIDE DEF s, n
  <1>5. s \in Seq(Ids) /\ Len(s) = n
    BY <1>1, <1>3
  <1> QED
    BY <1>2, <1>5 DEF s, n

\* At most n candidates are among the first n, and n when one comes later.
LEMMA FirstCount ==
  ASSUME NEW S \in SUBSET Ids, NEW n \in Nat
  PROVE  /\ FirstOf(S, n) \in SUBSET S
         /\ Cardinality(FirstOf(S, n)) <= n
         /\ (\E c \in S : Before(S, c) >= n) => Cardinality(FirstOf(S, n)) = n
  <1> DEFINE F == FirstOf(S, n)
             f == [c \in F |-> Before(S, c)]
             g == [i \in 0..n - 1 |-> CHOOSE c \in S : Before(S, c) = i]
  <1>1. F \in SUBSET S /\ F \in SUBSET Ids
    BY DEF FirstOf
  <1>2. Cardinality(F) \in Nat /\ IsFiniteSet(F)
    BY <1>1, IdSets
  <1>3. IsFiniteSet(0..n - 1) /\ Cardinality(0..n - 1) = n
    <2>1. 0 \in Int /\ n - 1 \in Int
      OBVIOUS
    <2> QED
      BY <2>1, FS_Interval
  <1>4. Cardinality(F) <= n
    <2>1. f \in [F -> 0..n - 1]
      <3> SUFFICES ASSUME NEW c \in F PROVE Before(S, c) \in 0..n - 1
        OBVIOUS
      <3>1. Before(S, c) \in Nat /\ Before(S, c) < n
        BY <1>1, Order DEF FirstOf
      <3> QED
        BY <3>1
    <2> HIDE DEF F
    <2>2. \A x, y \in F : f[x] = f[y] => x = y
      BY <1>1, OrderTellsApart
    <2> HIDE DEF f
    <2> QED
      BY <1>2, <1>3, <2>1, <2>2, FS_PigeonHole
  <1>5. ASSUME NEW c \in S, Before(S, c) >= n PROVE Cardinality(F) >= n
    <2>1. Cardinality(S) \in Nat /\ n < Cardinality(S)
      BY <1>5, Order, IdSets
    <2>2. \A i \in 0..n - 1 : g[i] \in S /\ Before(S, g[i]) = i
      <3> TAKE i \in 0..n - 1
      <3>1. i \in 0..Cardinality(S) - 1
        BY <2>1
      <3>2. \E d \in S : Before(S, d) = i
        BY <3>1, Places
      <3> QED
        BY <3>2
    <2> HIDE DEF g
    <2>3. \A i \in 0..n - 1 : g[i] \in F
      BY <2>2 DEF FirstOf
    <2>4. DOMAIN g = 0..n - 1 /\ g = [i \in 0..n - 1 |-> g[i]]
      BY DEF g
    <2>5. g \in [0..n - 1 -> F]
      BY <2>3, <2>4
    <2>6. \A i, j \in 0..n - 1 : g[i] = g[j] => i = j
      BY <2>2
    <2> HIDE DEF F
    <2> QED
      BY <1>2, <1>3, <2>5, <2>6, FS_PigeonHole
  <1> QED
    BY <1>1, <1>2, <1>4, <1>5

\* A change of the list moves across the offset, and takes from behind it, no more
\* candidates than it takes from the list.
LEMMA Crossing ==
  ASSUME NEW S \in SUBSET Ids, NEW T \in SUBSET Ids, NEW n \in Nat
  PROVE  Cardinality((FirstOf(T, n) \cap S) \ FirstOf(S, n))
           + Cardinality((S \ T) \ FirstOf(S, n)) <= Cardinality(S \ T)
  <1> DEFINE A == FirstOf(S, n)
             B == FirstOf(T, n)
             N == (B \cap S) \ A
             L == S \ T
  <1>1. /\ A \in SUBSET S /\ B \in SUBSET T
        /\ Cardinality(A) <= n /\ Cardinality(B) <= n
        /\ Cardinality(A) \in Nat /\ Cardinality(B) \in Nat
    BY FirstCount, IdSets DEF FirstOf
  <1>2. CASE N = {}
    <2> HIDE DEF A, L
    <2>1. Cardinality(N) = 0
      BY <1>2, FS_EmptySet
    <2>2. L \in SUBSET Ids /\ L \ A \in SUBSET L
      BY DEF L
    <2>3. Cardinality(L \ A) <= Cardinality(L) /\ Cardinality(L \ A) \in Nat
      BY <2>2, Larger, IdSets
    <2> HIDE DEF N
    <2> QED
      BY <2>1, <2>3 DEF N, L, A
  <1>3. ASSUME NEW c \in N PROVE Cardinality(N) + Cardinality(L \ A) <= Cardinality(L)
    <2>1. c \in S /\ c \in T /\ c \in Ids /\ Before(T, c) < n /\ Before(S, c) >= n
      <3>1. c \in S /\ c \in T /\ c \in Ids /\ Before(T, c) < n /\ ~(Before(S, c) < n)
        BY <1>3 DEF FirstOf
      <3> QED
        BY <3>1, Order
    <2>2. Cardinality(A) = n
      BY <2>1, FirstCount
    <2>3. A \ B \in SUBSET L
      <3> SUFFICES ASSUME NEW a \in A, a \in T PROVE a \in B
        BY <1>1
      <3>1. a \in S /\ a \in Ids /\ Before(S, a) < n
        BY DEF FirstOf
      <3>2. a \in Nat /\ c \in Nat
        BY <2>1, <3>1 DEF Ids
      <3>3. Before(S, a) \in Nat /\ Before(S, c) \in Nat
            /\ Before(T, a) \in Nat /\ Before(T, c) \in Nat
        BY <2>1, <3>1, Order
      <3>4. a >= c
        <4> SUFFICES ASSUME c >= a PROVE FALSE
          BY <3>2
        <4>1. Before(S, c) <= Before(S, a)
          BY <2>1, <3>1, Order
        <4> QED
          BY <2>1, <3>1, <3>3, <4>1
      <3>5. Before(T, a) <= Before(T, c)
        BY <2>1, <3>1, <3>4, Order
      <3> QED
        BY <2>1, <3>3, <3>5 DEF FirstOf
    <2> HIDE DEF A, B
    <2>4. /\ N \in SUBSET (B \ A) /\ A \ B \in SUBSET (L \cap A)
          /\ A \in SUBSET Ids /\ B \in SUBSET Ids /\ L \in SUBSET Ids
          /\ B \ A \in SUBSET Ids /\ L \cap A \in SUBSET Ids /\ A \ B \in SUBSET Ids
          /\ A \cap B \in SUBSET Ids /\ L \ A \in SUBSET Ids /\ N \in SUBSET Ids
      BY <1>1, <2>3
    <2> HIDE DEF N, L
    <2>5. Cardinality(N) <= Cardinality(B \ A) /\ Cardinality(A \ B) <= Cardinality(L \cap A)
      BY <2>4, Larger
    <2>6. /\ Cardinality(B \ A) = Cardinality(B) - Cardinality(B \cap A)
          /\ Cardinality(A \ B) = Cardinality(A) - Cardinality(A \cap B)
          /\ Cardinality(L \ A) = Cardinality(L) - Cardinality(L \cap A)
      BY <2>4, IdSets, FS_Difference
    <2>7. A \cap B = B \cap A
      OBVIOUS
    <2>8. /\ Cardinality(N) \in Nat /\ Cardinality(B \ A) \in Nat /\ Cardinality(L \cap A) \in Nat
          /\ Cardinality(A \ B) \in Nat /\ Cardinality(A \cap B) \in Nat
          /\ Cardinality(L) \in Nat /\ Cardinality(L \ A) \in Nat
      BY <2>4, IdSets
    <2>9. Cardinality(B \ A) <= Cardinality(A \ B)
      <3>1. Cardinality(A \ B) = n - Cardinality(A \cap B)
        BY <2>2, <2>6
      <3>2. Cardinality(B \ A) = Cardinality(B) - Cardinality(A \cap B)
        BY <2>6, <2>7, Zenon
      <3> QED
        BY <1>1, <2>8, <3>1, <3>2
    <2>10. Cardinality(N) <= Cardinality(L \cap A)
      BY <2>5, <2>8, <2>9
    <2> QED
      BY <2>6, <2>8, <2>10
  <1> HIDE DEF N
  <1>4. N # {} => \E c : c \in N
    OBVIOUS
  <1>5. Cardinality(N) + Cardinality(L \ A) <= Cardinality(L)
    BY <1>2, <1>3, <1>4 DEF N
  <1> QED
    BY <1>5 DEF N

-----------------------------------------------------------------------------
(* The walk.                                                               *)

Members(s) == {s[i] : i \in DOMAIN s}

LEMMA MembersOf ==
  ASSUME NEW s \in Seq(Ids)
  PROVE  /\ Members(s) \in SUBSET Ids
         /\ DOMAIN s = 1..Len(s) /\ Len(s) \in Nat
         /\ \A i \in 1..Len(s) : s[i] \in Ids
  <1>1. DOMAIN s = 1..Len(s) /\ Len(s) \in Nat /\ \A i \in 1..Len(s) : s[i] \in Ids
    BY LenProperties, ElementOfSeq
  <1> QED
    BY <1>1 DEF Members

LEMMA MembersOfBoth ==
  ASSUME NEW s \in Seq(Ids), NEW t \in Seq(Ids)
  PROVE  /\ s \o t \in Seq(Ids) /\ Len(s \o t) = Len(s) + Len(t)
         /\ Members(s \o t) = Members(s) \cup Members(t)
  <1> DEFINE b == s \o t
  <1>1. /\ b \in Seq(Ids) /\ Len(b) = Len(s) + Len(t)
        /\ \A i \in 1..Len(s) + Len(t) : b[i] = IF i <= Len(s) THEN s[i] ELSE t[i - Len(s)]
    BY ConcatProperties
  <1>2. /\ DOMAIN s = 1..Len(s) /\ Len(s) \in Nat
        /\ DOMAIN t = 1..Len(t) /\ Len(t) \in Nat
        /\ DOMAIN b = 1..Len(b)
    BY <1>1, MembersOf
  <1> HIDE DEF b
  <1>3. Members(b) \subseteq Members(s) \cup Members(t)
    <2> SUFFICES ASSUME NEW i \in 1..Len(s) + Len(t)
                 PROVE  b[i] \in Members(s) \cup Members(t)
      BY <1>1, <1>2 DEF Members
    <2>1. CASE i <= Len(s)
      <3>1. i \in 1..Len(s) /\ b[i] = s[i]
        BY <1>1, <1>2, <2>1
      <3> QED
        BY <1>2, <3>1 DEF Members
    <2>2. CASE ~(i <= Len(s))
      <3>1. i - Len(s) \in 1..Len(t) /\ b[i] = t[i - Len(s)]
        BY <1>1, <1>2, <2>2
      <3> QED
        BY <1>2, <3>1 DEF Members
    <2> QED
      BY <2>1, <2>2
  <1>4. Members(s) \subseteq Members(b)
    <2> SUFFICES ASSUME NEW i \in 1..Len(s) PROVE s[i] \in Members(b)
      BY <1>2 DEF Members
    <2>1. i \in 1..Len(b) /\ b[i] = s[i]
      BY <1>1, <1>2
    <2> QED
      BY <1>2, <2>1 DEF Members
  <1>5. Members(t) \subseteq Members(b)
    <2> SUFFICES ASSUME NEW i \in 1..Len(t) PROVE t[i] \in Members(b)
      BY <1>2 DEF Members
    <2>1. i + Len(s) \in 1..Len(b) /\ b[i + Len(s)] = t[i]
      <3>1. i + Len(s) \in 1..Len(s) + Len(t) /\ ~(i + Len(s) <= Len(s))
            /\ (i + Len(s)) - Len(s) = i
        BY <1>2
      <3> QED
        BY <1>1, <3>1
    <2> QED
      BY <1>2, <2>1 DEF Members
  <1> QED
    BY <1>1, <1>3, <1>4, <1>5 DEF b

\* A page holds, once each, those that come at its offset or after it and before the next
\* page, and a page that is not full ends the list.
LEMMA PageHolds ==
  ASSUME NEW S \in SUBSET Ids, NEW n \in Nat, NEW page, page = Slice(NewestFirst(S), n)
  PROVE  /\ page \in Seq(Ids)
         /\ Members(page) = FirstOf(S, n + PageSize) \ FirstOf(S, n)
         /\ Len(page) = Cardinality(Members(page))
         /\ Len(page) # PageSize => FirstOf(S, n + PageSize) = S
  <1> DEFINE all == NewestFirst(S)
             k == Cardinality(S)
             m == IF n + PageSize < k THEN n + PageSize ELSE k
             P == FirstOf(S, n + PageSize) \ FirstOf(S, n)
  <1>1. /\ all \in Seq(Ids) /\ Len(all) = k /\ k \in Nat
        /\ \A i \in 1..k : all[i] \in S /\ Before(S, all[i]) = i - 1
    BY ListOrder, IdSets
  <1>2. \A c \in S : Before(S, c) \in Nat /\ Before(S, c) < k
    BY Order
  <1>3. PageSize \in Nat \ {0} /\ m \in Nat /\ m <= k /\ m <= n + PageSize
    BY <1>1, PoolAssumption
  <1>4. page = SubSeq(all, n + 1, m)
    BY <1>1 DEF Slice
  <1>5. \A c \in S : c \in P <=> n <= Before(S, c) /\ Before(S, c) < n + PageSize
    BY <1>2, <1>3 DEF FirstOf
  <1>6. P \in SUBSET S
    BY DEF FirstOf
  <1>7. /\ page \in Seq(Ids)
        /\ Len(page) = IF n + 1 <= m THEN m - (n + 1) + 1 ELSE 0
        /\ \A i \in 1..m - (n + 1) + 1 : page[i] = all[n + 1 + i - 1]
    <2>1. n + 1 \in Int /\ m \in Int
      BY <1>3
    <2>2. \A i \in n + 1..m : all[i] \in Ids
      BY <1>1, <1>3
    <2> HIDE DEF all, m
    <2> QED
      BY <1>4, <2>1, <2>2, SubSeqProperties
  <1> HIDE DEF all, P
  <1>8. ASSUME NEW i \in 1..Len(page)
        PROVE  n + i \in 1..k /\ page[i] = all[n + i] /\ Before(S, page[i]) = n + i - 1
               /\ page[i] \in P
    <2>1. i \in Nat /\ i >= 1 /\ n + i <= m /\ n + 1 <= m
      BY <1>3, <1>7
    <2>2. i \in 1..m - (n + 1) + 1 /\ n + 1 + i - 1 = n + i /\ n + i \in 1..k
      BY <1>1, <1>3, <2>1
    <2>3. page[i] = all[n + i]
      BY <1>7, <2>2
    <2>4. page[i] \in S /\ Before(S, page[i]) = n + i - 1
      BY <1>1, <2>2, <2>3
    <2>5. n <= n + i - 1 /\ n + i - 1 < n + PageSize
      BY <1>3, <2>1
    <2>6. page[i] \in P
      BY <1>5, <2>4, <2>5
    <2> QED
      BY <2>2, <2>3, <2>4, <2>6
  <1>9. ASSUME NEW c \in P PROVE \E i \in 1..Len(page) : page[i] = c
    <2>1. c \in S /\ n <= Before(S, c) /\ Before(S, c) < n + PageSize /\ Before(S, c) < k
          /\ Before(S, c) \in Nat
      BY <1>2, <1>5, <1>6
    <2> DEFINE i == Before(S, c) - n + 1
    <2>2. i \in 1..Len(page) /\ n + i - 1 = Before(S, c)
      <3>1. Before(S, c) < m
        BY <1>1, <2>1, PoolAssumption
      <3>2. Len(page) = m - (n + 1) + 1
        BY <1>1, <1>3, <1>7, <2>1, <3>1
      <3> HIDE DEF m
      <3> QED
        BY <1>3, <2>1, <3>1, <3>2
    <2> HIDE DEF i
    <2>3. page[i] \in S /\ Before(S, page[i]) = Before(S, c)
      BY <1>6, <1>8, <2>2
    <2>4. page[i] = c
      BY <2>1, <2>3, OrderTellsApart
    <2> QED
      BY <2>2, <2>4
  <1>10. DOMAIN page = 1..Len(page) /\ Len(page) \in Nat
    BY <1>7, MembersOf
  <1>11. Members(page) = P
    <2>1. Members(page) = {page[i] : i \in 1..Len(page)}
      BY <1>10 DEF Members
    <2>2. \A i \in 1..Len(page) : page[i] \in P
      BY <1>8
    <2>3. \A c \in P : \E i \in 1..Len(page) : page[i] = c
      BY <1>9
    <2> QED
      BY <2>1, <2>2, <2>3
  <1>12. Len(page) = Cardinality(P)
    <2>1. page \in [1..Len(page) -> P]
      BY <1>7, <1>8, LenProperties
    <2>2. \A i, j \in 1..Len(page) : page[i] = page[j] => i = j
      <3> SUFFICES ASSUME NEW i \in 1..Len(page), NEW j \in 1..Len(page), page[i] = page[j]
                   PROVE  i = j
        OBVIOUS
      <3>1. n + i - 1 = n + j - 1
        BY <1>8
      <3> QED
        BY <3>1
    <2>3. page \in Bijection(1..Len(page), P)
      <3>1. \A c \in P : \E i \in 1..Len(page) : page[i] = c
        BY <1>9
      <3>2. page \in Injection(1..Len(page), P)
        BY <2>1, <2>2 DEF Injection, IsInjective
      <3>3. page \in Surjection(1..Len(page), P)
        BY <2>1, <3>1 DEF Surjection
      <3> QED
        BY <3>2, <3>3 DEF Bijection
    <2>4. ExistsBijection(1..Len(page), P)
      BY <2>3 DEF ExistsBijection
    <2> QED
      BY <1>10, <2>4, FS_CountingElements
  <1>13. ASSUME Len(page) # PageSize PROVE FirstOf(S, n + PageSize) = S
    <2>1. k <= n + PageSize
      <3> SUFFICES ASSUME n + PageSize < k PROVE FALSE
        BY <1>1, <1>3
      <3>1. m = n + PageSize /\ n + 1 <= m
        BY <1>3
      <3>2. Len(page) = PageSize
        BY <1>3, <1>7, <3>1
      <3> QED
        BY <1>13, <3>2
    <2>2. \A c \in S : Before(S, c) < n + PageSize
      BY <1>1, <1>2, <1>3, <2>1
    <2> QED
      BY <2>2 DEF FirstOf
  <1> QED
    BY <1>7, <1>11, <1>12, <1>13 DEF P

\* What TypeOK says of the walk.
WalkTyped ==
    /\ walk \in [state : {"before", "walking", "done"}, tagged : BOOLEAN, offset : Nat,
                 shown : Seq(Ids), stayed : SUBSET Ids, entered : Nat, left : Nat]
    /\ \E n \in 0..walk.offset : walk.offset = n * PageSize

WalkIInv == WalkTyped /\ WalkSound /\ WalkAccounts

LEMMA ShownIs ==
  ASSUME WalkTyped
  PROVE  /\ Shown = Members(walk.shown) /\ Shown \in SUBSET Ids
         /\ Len(walk.shown) \in Nat
         /\ WalkAccounts <=>
              /\ walk.state = "done" => Cardinality(walk.stayed \ Shown) <= walk.left
              /\ Len(walk.shown) - Cardinality(Shown) <= walk.entered
  <1>1. Shown = Members(walk.shown)
    BY DEF Shown, Members
  <1>2. walk.shown \in Seq(Ids)
    BY DEF WalkTyped
  <1> QED
    BY <1>1, <1>2, MembersOf DEF WalkAccounts, Shown

LEMMA ShownIsNext ==
  ASSUME WalkTyped'
  PROVE  /\ Shown' = Members(walk'.shown)
         /\ WalkAccounts' <=>
              /\ walk'.state = "done" => Cardinality(walk'.stayed \ Shown') <= walk'.left
              /\ Len(walk'.shown) - Cardinality(Shown') <= walk'.entered
  BY DEF Shown, Members, WalkAccounts

LEMMA ListedAre == Listed(cand, tag, walk.tagged) \in SUBSET Ids
  BY DEF Listed, Active

LEMMA WalkStill ==
  ASSUME WalkIInv, UNCHANGED <<cand, tag, walk>>
  PROVE  WalkIInv'
  <1>1. WalkTyped' /\ WalkAccounts'
    BY DEF WalkIInv, WalkTyped, WalkAccounts
  <1>2. WalkSound'
    BY DEF WalkIInv, WalkSound, Shown
  <1> QED
    BY <1>1, <1>2 DEF WalkIInv

LEMMA InitWalk == Init => WalkIInv
  <1> SUFFICES ASSUME Init PROVE WalkIInv
    OBVIOUS
  <1>1. walk.state = "before" /\ walk.offset = 0 /\ walk.shown = <<>> /\ walk.entered = 0
    BY DEF Init
  <1>2. WalkTyped
    <2>1. 0 = 0 * PageSize
      BY PoolAssumption
    <2>2. \E n \in 0..walk.offset : walk.offset = n * PageSize
      BY <1>1, <2>1
    <2> QED
      BY <2>2 DEF WalkTyped, Init
  <1>3. Shown = {}
    BY <1>1 DEF Shown
  <1>4. Len(walk.shown) - Cardinality(Shown) <= walk.entered
    BY <1>1, <1>3, FS_EmptySet
  <1>5. WalkAccounts
    BY <1>1, <1>2, <1>4, ShownIs
  <1>6. WalkSound
    BY <1>1 DEF WalkSound
  <1> QED
    BY <1>2, <1>5, <1>6 DEF WalkIInv

LEMMA StartWalkWalk ==
  ASSUME WalkIInv, StartWalk
  PROVE  WalkIInv'
  <1> DEFINE all == Listed(cand', tag', walk'.tagged)
  <1>1. /\ walk.shown = <<>> /\ walk.offset = 0 /\ walk.entered = 0
        /\ walk.left \in Nat
    BY DEF WalkIInv, WalkSound, WalkTyped, StartWalk
  <1>2. PICK tagged \in BOOLEAN :
          walk' = [walk EXCEPT !.state = "walking", !.tagged = tagged,
                               !.stayed = Listed(cand, tag, tagged)]
    BY DEF StartWalk
  <1>3. cand' = cand /\ tag' = tag
    BY DEF StartWalk
  <1>4. /\ walk'.state = "walking" /\ walk'.tagged = tagged
        /\ walk'.stayed = Listed(cand, tag, tagged)
        /\ walk'.shown = <<>> /\ walk'.offset = 0 /\ walk'.entered = 0
        /\ walk'.left = walk.left
    BY <1>1, <1>2 DEF WalkIInv, WalkTyped
  <1>5. all \in SUBSET Ids /\ walk'.stayed = all
    BY <1>3, <1>4 DEF Listed, Active
  <1> HIDE DEF all
  <1>6. WalkTyped'
    <2>1. Listed(cand, tag, tagged) \in SUBSET Ids
      BY DEF Listed, Active
    <2>2. walk' \in [state : {"before", "walking", "done"}, tagged : BOOLEAN, offset : Nat,
                     shown : Seq(Ids), stayed : SUBSET Ids, entered : Nat, left : Nat]
      BY <1>2, <2>1 DEF WalkIInv, WalkTyped
    <2>3. walk'.offset = walk.offset
      BY <1>1, <1>4
    <2> QED
      BY <2>2, <2>3 DEF WalkIInv, WalkTyped
  <1>7. Shown' = {}
    BY <1>4 DEF Shown
  <1>8. FirstOf(all, 0) = {}
    <2>1. \A c \in all : ~(Before(all, c) < 0)
      BY <1>5, Order
    <2> QED
      BY <2>1 DEF FirstOf
  <1>9. Len(walk'.shown) - Cardinality(Shown') <= walk'.entered
    BY <1>4, <1>7, FS_EmptySet
  <1>10. WalkAccounts'
    <2>1. WalkAccounts' <=>
             /\ walk'.state = "done" => Cardinality(walk'.stayed \ Shown') <= walk'.left
             /\ Len(walk'.shown) - Cardinality(Shown') <= walk'.entered
      BY <1>6, ShownIsNext
    <2> QED
      BY <1>4, <1>9, <2>1
  <1>11. WalkSound'
    <2>1. (walk'.stayed \cap FirstOf(all, walk'.offset)) \ Shown' = {}
      BY <1>4, <1>8
    <2>2. (all \cap Shown') \ FirstOf(all, walk'.offset) = {}
      BY <1>7
    <2>3. Cardinality((walk'.stayed \cap FirstOf(all, walk'.offset)) \ Shown') <= walk'.left
      BY <1>1, <1>4, <2>1, FS_EmptySet
    <2>4. Len(walk'.shown) - Cardinality(Shown')
            + Cardinality((all \cap Shown') \ FirstOf(all, walk'.offset)) <= walk'.entered
      BY <1>4, <1>7, <2>2, FS_EmptySet
    <2> QED
      BY <1>4, <1>5, <2>3, <2>4 DEF WalkSound, all
  <1> QED
    BY <1>6, <1>10, <1>11 DEF WalkIInv

\* A page shows whoever it passes, and whoever it shows again is no longer ahead.
LEMMA PageWalk ==
  ASSUME WalkIInv, Page
  PROVE  WalkIInv'
  <1> DEFINE S == Listed(cand, tag, walk.tagged)
             page == Slice(NewestFirst(S), walk.offset)
             A == FirstOf(S, walk.offset)
             B == FirstOf(S, walk.offset + PageSize)
             P == Members(page)
  <1>1. /\ walk.state = "walking" /\ cand' = cand /\ tag' = tag
        /\ walk' = [walk EXCEPT !.shown = @ \o page, !.offset = NextOffset(@),
                                !.state = IF More(page) THEN "walking" ELSE "done"]
    BY DEF Page
  <1>2. /\ walk.shown \in Seq(Ids) /\ walk.offset \in Nat /\ walk.entered \in Nat
        /\ walk.left \in Nat /\ walk.stayed \in SUBSET Ids /\ S \in SUBSET Ids
        /\ PageSize \in Nat \ {0}
    BY ListedAre, PoolAssumption DEF WalkIInv, WalkTyped
  <1>3. /\ page \in Seq(Ids) /\ P = B \ A /\ Len(page) = Cardinality(P)
        /\ Len(page) # PageSize => B = S
    BY <1>2, PageHolds
  <1>4. /\ walk'.shown = walk.shown \o page /\ walk'.offset = walk.offset + PageSize
        /\ walk'.state = (IF More(page) THEN "walking" ELSE "done")
        /\ walk'.tagged = walk.tagged /\ walk'.stayed = walk.stayed
        /\ walk'.entered = walk.entered /\ walk'.left = walk.left
    BY <1>1 DEF WalkIInv, WalkTyped, NextOffset
  <1>5. A \in SUBSET B /\ B \in SUBSET S
    <2>1. \A c \in S : Before(S, c) \in Nat
      BY <1>2, Order
    <2> QED
      BY <1>2, <2>1 DEF FirstOf
  <1>6. S = Listed(cand, tag, walk.tagged)' /\ B = FirstOf(S', walk'.offset)
    BY <1>1, <1>4
  <1> HIDE DEF S, page, A, B, P
  <1>7. /\ walk'.shown \in Seq(Ids) /\ Len(walk'.shown) = Len(walk.shown) + Cardinality(P)
        /\ Members(walk'.shown) = Members(walk.shown) \cup P
    BY <1>2, <1>3, <1>4, MembersOfBoth DEF P
  <1>8. WalkTyped'
    <2>1. PICK n \in 0..walk.offset : walk.offset = n * PageSize
      BY DEF WalkIInv, WalkTyped
    <2>2. n + 1 \in 0..walk'.offset /\ walk'.offset = (n + 1) * PageSize
      <3>1. n \in Nat /\ n <= walk.offset
        BY <1>2
      <3>2. (n + 1) * PageSize = n * PageSize + PageSize
        BY <1>2, <3>1
      <3> QED
        BY <1>2, <1>4, <2>1, <3>1, <3>2
    <2>3. walk' \in [state : {"before", "walking", "done"}, tagged : BOOLEAN, offset : Nat,
                     shown : Seq(Ids), stayed : SUBSET Ids, entered : Nat, left : Nat]
      <3>1. walk.shown \o page \in Seq(Ids) /\ NextOffset(walk.offset) \in Nat
        BY <1>2, <1>4, <1>7 DEF NextOffset
      <3> QED
        BY <1>1, <3>1 DEF WalkIInv, WalkTyped
    <2> QED
      BY <2>2, <2>3 DEF WalkTyped
  <1> DEFINE R == Members(walk.shown)
             C == A \cap R
             D == (S \cap R) \ A
  <1>9. R = Shown /\ R \in SUBSET Ids /\ Len(walk.shown) \in Nat /\ Shown' = R \cup P
    <2>1. Shown' = Members(walk'.shown)
      BY <1>8, ShownIsNext
    <2> QED
      BY <1>7, <2>1, ShownIs DEF WalkIInv
  <1> HIDE DEF R
  <1>10. /\ walk.stayed \subseteq S
         /\ Cardinality((walk.stayed \cap A) \ R) <= walk.left
         /\ Len(walk.shown) - Cardinality(R) + Cardinality(D) <= walk.entered
    BY <1>1, <1>9 DEF WalkIInv, WalkSound, S, A
  <1> DEFINE E == (S \cap (R \cup P)) \ B
  <1>11. Len(walk.shown) + Cardinality(P) - Cardinality(R \cup P) + Cardinality(E)
           <= walk.entered
    <2>1. P \in SUBSET Ids /\ R \cap P \in SUBSET Ids /\ R \cup P \in SUBSET Ids
      BY <1>2, <1>3, <1>5, <1>9
    <2>2. Cardinality(R \cup P) = Cardinality(R) + Cardinality(P) - Cardinality(R \cap P)
      BY <1>9, <2>1, IdSets, FS_Union
    <2>3. D = E \cup (R \cap P) /\ E \cap (R \cap P) = {}
      BY <1>3, <1>5
    <2>4. E \in SUBSET Ids /\ D \in SUBSET Ids
      BY <1>2
    <2> HIDE DEF D, E
    <2>5. Cardinality(D) = Cardinality(E) + Cardinality(R \cap P)
      <3>1. Cardinality(D) = Cardinality(E) + Cardinality(R \cap P) - Cardinality({})
        BY <2>1, <2>3, <2>4, IdSets, FS_Union
      <3> QED
        BY <2>1, <2>4, <3>1, IdSets, FS_EmptySet
    <2>6. /\ Cardinality(R) \in Nat /\ Cardinality(P) \in Nat /\ Cardinality(R \cap P) \in Nat
          /\ Cardinality(R \cup P) \in Nat /\ Cardinality(E) \in Nat /\ Cardinality(D) \in Nat
      BY <1>9, <2>1, <2>4, IdSets
    <2> QED
      BY <1>2, <1>9, <1>10, <2>2, <2>5, <2>6
  <1>12. Cardinality((walk.stayed \cap B) \ (R \cup P)) <= walk.left
    <2>1. (walk.stayed \cap B) \ (R \cup P) \in SUBSET ((walk.stayed \cap A) \ R)
      BY <1>3
    <2>2. (walk.stayed \cap A) \ R \in SUBSET Ids
      BY <1>2
    <2> DEFINE X == (walk.stayed \cap B) \ (R \cup P)
               Y == (walk.stayed \cap A) \ R
    <2>3. X \in SUBSET Y /\ Y \in SUBSET Ids /\ X \in SUBSET Ids
      BY <2>1, <2>2
    <2>4. Cardinality(Y) <= walk.left
      BY <1>10
    <2> HIDE DEF X, Y
    <2>5. Cardinality(X) <= walk.left
      BY <1>2, <2>3, <2>4, Larger, IdSets
    <2> QED
      BY <2>5 DEF X
  <1>13. WalkSound'
    <2>1. walk'.state # "before"
      BY <1>4
    <2>2. (walk'.stayed \cap B) \ Shown' = (walk.stayed \cap B) \ (R \cup P)
          /\ (S \cap Shown') \ B = E
      BY <1>4, <1>9
    <2> HIDE DEF E
    <2>3. Cardinality((walk'.stayed \cap B) \ Shown') <= walk'.left
      BY <1>4, <1>12, <2>2
    <2>4. Len(walk'.shown) - Cardinality(Shown') + Cardinality((S \cap Shown') \ B)
            <= walk'.entered
      <3>1. Len(walk'.shown) = Len(walk.shown) + Cardinality(P) /\ Shown' = R \cup P
            /\ walk'.entered = walk.entered
        BY <1>4, <1>7, <1>9
      <3>2. /\ Cardinality(P) \in Nat /\ Cardinality(R \cup P) \in Nat
            /\ Cardinality(E) \in Nat
        <4>1. P \in SUBSET Ids /\ R \cup P \in SUBSET Ids /\ E \in SUBSET Ids
          BY <1>2, <1>3, <1>5, <1>9 DEF E
        <4> QED
          BY <4>1, IdSets
      <3>3. Len(walk.shown) + Cardinality(P) - Cardinality(R \cup P) + Cardinality(E)
              <= walk.entered
        BY <1>11
      <3>4. Cardinality((S \cap Shown') \ B) = Cardinality(E)
        BY <2>2
      <3> DEFINE e == Cardinality((S \cap Shown') \ B)
      <3> HIDE DEF e
      <3>5. e = Cardinality(E)
        BY <3>4 DEF e
      <3>6. Len(walk'.shown) - Cardinality(Shown') + e <= walk'.entered
        BY <1>9, <3>1, <3>2, <3>3, <3>5
      <3> QED
        BY <3>6 DEF e
    <2>5. walk'.stayed \subseteq S
      BY <1>4, <1>10
    <2> QED
      BY <1>1, <1>4, <2>1, <2>3, <2>4, <2>5 DEF WalkSound, S, B
  <1>14. WalkAccounts'
    <2>1. WalkAccounts' <=>
             /\ walk'.state = "done" => Cardinality(walk'.stayed \ Shown') <= walk'.left
             /\ Len(walk'.shown) - Cardinality(Shown') <= walk'.entered
      BY <1>8, ShownIsNext
    <2>2. ASSUME walk'.state = "done" PROVE Cardinality(walk'.stayed \ Shown') <= walk'.left
      <3>1. B = S
        BY <1>3, <1>4, <2>2 DEF More
      <3>2. walk'.stayed \ Shown' = (walk.stayed \cap B) \ (R \cup P)
        BY <1>4, <1>9, <1>10, <3>1
      <3> QED
        BY <1>4, <1>12, <3>2
    <2>3. Len(walk'.shown) - Cardinality(Shown') <= walk'.entered
      <3>1. E \in SUBSET Ids /\ R \cup P \in SUBSET Ids /\ P \in SUBSET Ids
        BY <1>2, <1>3, <1>5, <1>9
      <3> HIDE DEF E
      <3>2. /\ Cardinality(E) \in Nat /\ Cardinality(R \cup P) \in Nat
            /\ Cardinality(P) \in Nat
        BY <3>1, IdSets
      <3>3. Len(walk.shown) + Cardinality(P) - Cardinality(R \cup P) <= walk.entered
        BY <1>2, <1>9, <1>11, <3>2
      <3> QED
        <4>1. Len(walk'.shown) = Len(walk.shown) + Cardinality(P) /\ Shown' = R \cup P
              /\ walk'.entered = walk.entered
          BY <1>4, <1>7, <1>9
        <4> QED
          BY <1>9, <3>2, <3>3, <4>1
    <2> QED
      BY <2>1, <2>2, <2>3
  <1> QED
    BY <1>8, <1>13, <1>14 DEF WalkIInv

\* Whoever slips to a page already fetched is accounted for by one that left the list, and
\* whoever moves back to a page to come by one that entered it.
LEMMA FollowWalk ==
  ASSUME WalkIInv, Follow(cand', tag')
  PROVE  WalkIInv'
  <1> DEFINE S == Listed(cand, tag, walk.tagged)
             T == Listed(cand', tag', walk.tagged)
  <1>1. S \in SUBSET Ids /\ T \in SUBSET Ids
    BY DEF Listed, Active
  <1>2. walk' = IF walk.state = "walking"
                  THEN [walk EXCEPT !.stayed = @ \cap T,
                                    !.entered = @ + Cardinality(T \ S),
                                    !.left = @ + Cardinality(S \ T)]
                  ELSE walk
    BY DEF Follow
  <1>3. /\ walk.shown \in Seq(Ids) /\ walk.offset \in Nat /\ walk.entered \in Nat
        /\ walk.left \in Nat /\ walk.stayed \in SUBSET Ids
    BY DEF WalkIInv, WalkTyped
  <1> HIDE DEF S, T
  <1>4. CASE walk.state # "walking"
    <2>1. walk' = walk
      BY <1>2, <1>4
    <2>2. WalkTyped'
      BY <2>1 DEF WalkIInv, WalkTyped
    <2>3. WalkAccounts'
      BY <2>1 DEF WalkIInv, WalkAccounts
    <2>4. WalkSound'
      BY <1>4, <2>1 DEF WalkIInv, WalkSound
    <2> QED
      BY <2>2, <2>3, <2>4 DEF WalkIInv
  <1>5. CASE walk.state = "walking"
    <2>1. /\ walk'.state = "walking" /\ walk'.tagged = walk.tagged
          /\ walk'.offset = walk.offset /\ walk'.shown = walk.shown
          /\ walk'.stayed = walk.stayed \cap T
          /\ walk'.entered = walk.entered + Cardinality(T \ S)
          /\ walk'.left = walk.left + Cardinality(S \ T)
      BY <1>2, <1>5 DEF WalkIInv, WalkTyped
    <2>2. Cardinality(T \ S) \in Nat /\ Cardinality(S \ T) \in Nat
      BY <1>1, IdSets
    <2>3. WalkTyped'
      <3>1. walk' \in [state : {"before", "walking", "done"}, tagged : BOOLEAN, offset : Nat,
                       shown : Seq(Ids), stayed : SUBSET Ids, entered : Nat, left : Nat]
        <4>1. /\ walk.stayed \cap T \in SUBSET Ids
              /\ walk.entered + Cardinality(T \ S) \in Nat
              /\ walk.left + Cardinality(S \ T) \in Nat
          BY <1>3, <2>2
        <4> QED
          BY <1>2, <1>5, <4>1 DEF WalkIInv, WalkTyped
      <3> QED
        BY <2>1, <3>1 DEF WalkIInv, WalkTyped
    <2> DEFINE A == FirstOf(S, walk.offset)
               B == FirstOf(T, walk.offset)
               R == Shown
    <2>4. R \in SUBSET Ids /\ Len(walk.shown) \in Nat /\ Shown' = R
      <3>1. Shown' = R
        BY <2>1 DEF Shown
      <3> QED
        BY <3>1, ShownIs DEF WalkIInv
    <2>5. /\ walk.stayed \subseteq S
          /\ Cardinality((walk.stayed \cap A) \ R) <= walk.left
          /\ Len(walk.shown) - Cardinality(R) + Cardinality((S \cap R) \ A) <= walk.entered
          /\ Len(walk.shown) - Cardinality(R) <= walk.entered
      BY <1>5, ShownIs DEF WalkIInv, WalkSound, S
    <2>6. /\ A \in SUBSET S /\ B \in SUBSET T
          /\ Cardinality((B \cap S) \ A) + Cardinality((S \ T) \ A) <= Cardinality(S \ T)
          /\ Cardinality((A \cap T) \ B) + Cardinality((T \ S) \ B) <= Cardinality(T \ S)
      BY <1>1, <1>3, Crossing DEF FirstOf
    <2> HIDE DEF A, B, R
    <2>7. Cardinality((walk'.stayed \cap B) \ R) <= walk'.left
      <3> DEFINE X == (walk'.stayed \cap B) \ R
                 Y == (walk.stayed \cap A) \ R
                 N == (B \cap S) \ A
      <3>1. /\ X \in SUBSET (Y \cup N) /\ X \in SUBSET Ids /\ Y \in SUBSET Ids
            /\ N \in SUBSET Ids /\ Y \cup N \in SUBSET Ids /\ Y \cap N \in SUBSET Ids
            /\ (S \ T) \ A \in SUBSET Ids
        BY <1>1, <1>3, <2>1, <2>5, <2>6
      <3>2. Cardinality(Y) <= walk.left
            /\ Cardinality(N) + Cardinality((S \ T) \ A) <= Cardinality(S \ T)
        BY <2>5, <2>6
      <3> HIDE DEF X, Y, N
      <3>3. /\ Cardinality(X) <= Cardinality(Y \cup N)
            /\ Cardinality(Y \cup N) = Cardinality(Y) + Cardinality(N) - Cardinality(Y \cap N)
        BY <3>1, Larger, IdSets, FS_Union
      <3>4. /\ Cardinality(X) \in Nat /\ Cardinality(Y) \in Nat /\ Cardinality(N) \in Nat
            /\ Cardinality(Y \cap N) \in Nat /\ Cardinality(Y \cup N) \in Nat
            /\ Cardinality((S \ T) \ A) \in Nat
        BY <3>1, IdSets
      <3>5. Cardinality(N) <= Cardinality(S \ T)
        BY <2>2, <3>2, <3>4
      <3>6. Cardinality(X) <= walk.left + Cardinality(S \ T)
        BY <1>3, <2>2, <3>2, <3>3, <3>4, <3>5
      <3> QED
        BY <2>1, <3>6 DEF X
    <2>8. Len(walk.shown) - Cardinality(R) + Cardinality((T \cap R) \ B)
            <= walk.entered + Cardinality(T \ S)
      <3> DEFINE X == (T \cap R) \ B
                 Y == (S \cap R) \ A
                 N == (A \cap T) \ B
                 M == (T \ S) \ B
      <3>1. /\ X \in SUBSET (Y \cup (N \cup M))
            /\ X \in SUBSET Ids /\ Y \in SUBSET Ids /\ N \in SUBSET Ids /\ M \in SUBSET Ids
            /\ N \cup M \in SUBSET Ids /\ N \cap M \in SUBSET Ids
            /\ Y \cup (N \cup M) \in SUBSET Ids /\ Y \cap (N \cup M) \in SUBSET Ids
        BY <1>1, <2>4, <2>6
      <3>2. /\ Len(walk.shown) - Cardinality(R) + Cardinality(Y) <= walk.entered
            /\ Cardinality(N) + Cardinality(M) <= Cardinality(T \ S)
        BY <2>5, <2>6
      <3> HIDE DEF X, Y, N, M
      <3>3. /\ Cardinality(X) <= Cardinality(Y \cup (N \cup M))
            /\ Cardinality(Y \cup (N \cup M))
                 = Cardinality(Y) + Cardinality(N \cup M) - Cardinality(Y \cap (N \cup M))
            /\ Cardinality(N \cup M) = Cardinality(N) + Cardinality(M) - Cardinality(N \cap M)
        BY <3>1, Larger, IdSets, FS_Union
      <3>4. /\ Cardinality(X) \in Nat /\ Cardinality(Y) \in Nat /\ Cardinality(N) \in Nat
            /\ Cardinality(M) \in Nat /\ Cardinality(N \cap M) \in Nat
            /\ Cardinality(N \cup M) \in Nat /\ Cardinality(Y \cup (N \cup M)) \in Nat
            /\ Cardinality(Y \cap (N \cup M)) \in Nat /\ Cardinality(R) \in Nat
        BY <2>4, <3>1, IdSets
      <3> DEFINE x == Cardinality(X)
                 y == Cardinality(Y)
                 r == Cardinality(R)
                 t == Cardinality(T \ S)
      <3>5. x <= y + t
        <4>1. Cardinality(N \cup M) <= t
          <5>1. Cardinality(N) + Cardinality(M) <= t
            BY <3>2
          <5> HIDE DEF t
          <5> QED
            BY <2>2, <3>3, <3>4, <5>1 DEF t
        <4>2. Cardinality(Y \cup (N \cup M)) <= y + Cardinality(N \cup M)
          BY <3>3, <3>4
        <4>3. x <= y + Cardinality(N \cup M)
          <5>1. x <= Cardinality(Y \cup (N \cup M))
            BY <3>3
          <5> HIDE DEF x, y
          <5> QED
            BY <3>4, <4>2, <5>1 DEF x, y
        <4> HIDE DEF x, y, t
        <4> QED
          BY <2>2, <3>4, <4>1, <4>3 DEF x, y, t
      <3>7. x \in Nat /\ y \in Nat /\ r \in Nat /\ t \in Nat
            /\ Len(walk.shown) - r + y <= walk.entered
        BY <2>2, <3>2, <3>4
      <3> HIDE DEF x, y, r, t
      <3>8. Len(walk.shown) - r + x <= walk.entered + t
        BY <1>3, <2>4, <3>5, <3>7
      <3>6. Len(walk.shown) - Cardinality(R) + Cardinality(X)
              <= walk.entered + Cardinality(T \ S)
        BY <3>8 DEF x, r, t
      <3> QED
        BY <3>6 DEF X
    <2>9. WalkSound'
      <3>1. T = Listed(cand, tag, walk.tagged)' /\ B = FirstOf(T, walk'.offset)
        BY <2>1 DEF T, B
      <3>2. walk'.stayed \subseteq T
        BY <2>1
      <3>3. Cardinality((walk'.stayed \cap FirstOf(T, walk'.offset)) \ Shown') <= walk'.left
        BY <2>4, <2>7, <3>1, Zenon
      <3>4. Len(walk'.shown) - Cardinality(Shown')
              + Cardinality((T \cap Shown') \ FirstOf(T, walk'.offset)) <= walk'.entered
        BY <2>1, <2>4, <2>8, <3>1, Zenon
      <3> QED
        BY <2>1, <3>1, <3>2, <3>3, <3>4 DEF WalkSound
    <2>10. WalkAccounts'
      <3>1. Len(walk'.shown) - Cardinality(Shown') <= walk'.entered
        <4>1. Cardinality(R) \in Nat
          BY <2>4, IdSets
        <4> QED
          BY <1>3, <2>1, <2>2, <2>4, <2>5, <4>1
      <3> QED
        BY <2>1, <2>3, <3>1, ShownIsNext
    <2> QED
      BY <2>3, <2>9, <2>10 DEF WalkIInv
  <1> QED
    BY <1>4, <1>5

-----------------------------------------------------------------------------
(* The rows and the operations.                                            *)

\* What TypeOK says of the rest.
RowsTyped ==
    /\ cand \in [Ids -> Row \cup {None}] /\ born \in Initial..MaxCandidates
    /\ tag \in [Ids -> 0..MaxOps] /\ note \in [Notes -> NoteRow \cup {None}]
    /\ search \in [Searches -> SearchRow \cup {None}]
    /\ op \in [Sessions -> Operation \cup {None}]
    /\ \A c \in Ids : cand[c] # None => c <= born
    /\ \A c \in Ids : tag[c] # 0 => cand[c] # None
    /\ used \in 0..MaxOps
    /\ said \in [profile : [Ids -> Ghost], private : [Notes -> BOOLEAN \cup {None}],
                shared : [Searches -> BOOLEAN \cup {None}]]

RowsIInv == RowsTyped /\ OperationsSound /\ AddressesSound /\ SaidOfRows /\ EditsStand

LEMMA IInvParts == /\ IInv <=> RowsIInv /\ WalkIInv
                   /\ IInv' <=> RowsIInv' /\ WalkIInv'
  <1>1. TypeOK <=> RowsTyped /\ WalkTyped
    BY DEF TypeOK, RowsTyped, WalkTyped
  <1>2. TypeOK' <=> RowsTyped' /\ WalkTyped'
    BY DEF TypeOK, RowsTyped, WalkTyped
  <1> QED
    BY <1>1, <1>2 DEF IInv, RowsIInv, WalkIInv

\* What a step may not bring back.
Kept ==
    /\ \A c \in Ids : cand[c] # None /\ cand[c].archived => cand'[c].archived
    /\ \A n \in Notes : note[n] # None /\ note[n].archived => note'[n].archived
    /\ \A q \in Searches : search[q] # None /\ search[q].deleted => search'[q].deleted

\* What the record of an operation holds, by its kind.
LEMMA OperationFields ==
  ASSUME NEW o \in Operation
  PROVE  /\ o.late \in BOOLEAN
         /\ o.kind \in {"create"} \cup OnCandidate \cup OnTag \cup OnNote \cup OnSearch
         /\ o.kind = "create" => o.on \in Ids /\ o.row \in Row
         /\ o.kind \in OnCandidate => o.on \in Ids /\ o.loaded \in Row
         /\ o.kind \in {"look", "update"} => o.edit \in Edits
         /\ o.kind = "enrich" => o.found \in Resumes
         /\ o.kind \in OnTag => o.on = 0 /\ o.of \in Ids /\ o.id \in 1..MaxOps
         /\ o.kind \in OnNote => o.on \in Notes /\ o.loaded \in NoteRow
         /\ o.kind \in OnSearch => o.on \in Searches
         /\ o.kind = "edit search" => o.loaded \in SearchRow
         /\ o.kind \in {"edit note", "edit search"} => o.asked \in BOOLEAN \cup {None}
  BY DEF Operation, OnCandidate, OnTag, OnNote, OnSearch

\* To make an operation late changes nothing else of it.
LEMMA MadeLate ==
  ASSUME NEW o \in Operation
  PROVE  /\ [o EXCEPT !.late = TRUE] \in Operation
         /\ [o EXCEPT !.late = TRUE].kind = o.kind /\ [o EXCEPT !.late = TRUE].on = o.on
         /\ [o EXCEPT !.late = TRUE].late
         /\ o.kind = "create" => [o EXCEPT !.late = TRUE].row = o.row
         /\ o.kind = "tag" => [o EXCEPT !.late = TRUE].of = o.of
  BY DEF Operation, OnTag

LEMMA WrittenRow ==
  ASSUME NEW row \in Row, NEW loaded \in Row, NEW new \in Row
  PROVE  /\ Written(row, loaded, new) \in Row
         /\ Written(row, loaded, new).email =
              (IF new.email = loaded.email THEN row.email ELSE new.email)
         /\ Written(row, loaded, new).title =
              (IF new.title = loaded.title THEN row.title ELSE new.title)
         /\ Written(row, loaded, new).skills =
              (IF new.skills = loaded.skills THEN row.skills ELSE new.skills)
         /\ Written(row, loaded, new).archived =
              (IF new.archived = loaded.archived THEN row.archived ELSE new.archived)
  <1> DEFINE w == Written(row, loaded, new)
  <1>1. DOMAIN row = {"email", "title", "skills", "archived"}
    BY DEF Row
  <1>2. w = [f \in {"email", "title", "skills", "archived"} |->
               IF new[f] = loaded[f] THEN row[f] ELSE new[f]]
    BY <1>1 DEF Written
  <1>3. w = [email |-> IF new.email = loaded.email THEN row.email ELSE new.email,
             title |-> IF new.title = loaded.title THEN row.title ELSE new.title,
             skills |-> IF new.skills = loaded.skills THEN row.skills ELSE new.skills,
             archived |-> IF new.archived = loaded.archived THEN row.archived
                          ELSE new.archived]
    BY <1>2
  <1> HIDE DEF w
  <1>4. w \in Row
    BY <1>3 DEF Row
  <1> QED
    BY <1>3, <1>4 DEF w

LEMMA WrittenNote ==
  ASSUME NEW row \in NoteRow, NEW loaded \in NoteRow, NEW new \in NoteRow
  PROVE  /\ Written(row, loaded, new) \in NoteRow
         /\ Written(row, loaded, new).private =
              (IF new.private = loaded.private THEN row.private ELSE new.private)
         /\ Written(row, loaded, new).archived =
              (IF new.archived = loaded.archived THEN row.archived ELSE new.archived)
  <1> DEFINE w == Written(row, loaded, new)
  <1>1. DOMAIN row = {"author", "private", "archived"}
    BY DEF NoteRow
  <1>2. w = [f \in {"author", "private", "archived"} |->
               IF new[f] = loaded[f] THEN row[f] ELSE new[f]]
    BY <1>1 DEF Written
  <1>3. w = [author |-> IF new.author = loaded.author THEN row.author ELSE new.author,
             private |-> IF new.private = loaded.private THEN row.private ELSE new.private,
             archived |-> IF new.archived = loaded.archived THEN row.archived
                          ELSE new.archived]
    BY <1>2
  <1> HIDE DEF w
  <1>4. w \in NoteRow
    BY <1>3 DEF NoteRow
  <1> QED
    BY <1>3, <1>4 DEF w

LEMMA WrittenSearch ==
  ASSUME NEW row \in SearchRow, NEW loaded \in SearchRow, NEW new \in SearchRow
  PROVE  /\ Written(row, loaded, new) \in SearchRow
         /\ Written(row, loaded, new).shared =
              (IF new.shared = loaded.shared THEN row.shared ELSE new.shared)
         /\ Written(row, loaded, new).deleted =
              (IF new.deleted = loaded.deleted THEN row.deleted ELSE new.deleted)
  <1> DEFINE w == Written(row, loaded, new)
  <1>1. DOMAIN row = {"creator", "shared", "deleted"}
    BY DEF SearchRow
  <1>2. w = [f \in {"creator", "shared", "deleted"} |->
               IF new[f] = loaded[f] THEN row[f] ELSE new[f]]
    BY <1>1 DEF Written
  <1>3. w = [creator |-> IF new.creator = loaded.creator THEN row.creator ELSE new.creator,
             shared |-> IF new.shared = loaded.shared THEN row.shared ELSE new.shared,
             deleted |-> IF new.deleted = loaded.deleted THEN row.deleted
                         ELSE new.deleted]
    BY <1>2
  <1> HIDE DEF w
  <1>4. w \in SearchRow
    BY <1>3 DEF SearchRow
  <1> QED
    BY <1>3, <1>4 DEF w

\* A session goes to its next step, or ends, and no row changes.
LEMMA StepOps ==
  ASSUME RowsTyped, OperationsSound, NEW p \in Sessions,
         op' = [op EXCEPT ![p] = op'[p]], UNCHANGED <<cand, note, search>>,
         born' \in Nat, born <= born',
         op'[p] # None => op'[p] \in Operation /\ Loads(op[p])',
         op'[p] # None /\ op'[p].kind = "create" => op'[p].on = born + 1
  PROVE  OperationsSound' /\ op' \in [Sessions -> Operation \cup {None}]
  <1>1. op' \in [Sessions -> Operation \cup {None}]
    BY DEF RowsTyped
  <1>2. ASSUME NEW q \in Sessions, op'[q] # None PROVE Loads(op[q])'
    <2>1. CASE q = p
      BY <1>2, <2>1
    <2>2. CASE q # p
      <3>1. op'[q] = op[q] /\ op[q] \in Operation /\ Loads(op[q])
        BY <1>2, <2>2 DEF RowsTyped, OperationsSound
      <3>2. born \in Nat
        BY PoolAssumption DEF RowsTyped
      <3>3. op[q].kind = "create" => op[q].on <= born'
        <4> SUFFICES ASSUME op[q].kind = "create" PROVE op[q].on <= born'
          OBVIOUS
        <4>1. op[q].on \in Ids /\ op[q].on <= born
          BY <3>1, OperationFields DEF Loads
        <4>2. op[q].on \in Nat
          BY <4>1 DEF Ids
        <4> QED
          BY <3>2, <4>1, <4>2
      <3> QED
        BY <3>1, <3>3 DEF Loads
    <2> QED
      BY <2>1, <2>2
  <1>3. ASSUME NEW q \in Sessions, NEW r \in Sessions, q # r,
               op'[q] # None, op'[q].kind = "create", op'[r] # None, op'[r].kind = "create"
        PROVE  op'[q].on # op'[r].on
    <2>1. \A s \in Sessions : op[s] # None /\ op[s].kind = "create" =>
             op[s].on \in Nat /\ op[s].on <= born
      <3> SUFFICES ASSUME NEW s \in Sessions, op[s] # None, op[s].kind = "create"
                   PROVE  op[s].on \in Nat /\ op[s].on <= born
        OBVIOUS
      <3>1. op[s] \in Operation /\ Loads(op[s])
        BY DEF RowsTyped, OperationsSound
      <3>2. op[s].on \in Ids /\ op[s].on <= born
        BY <3>1, OperationFields DEF Loads
      <3> QED
        BY <3>2 DEF Ids
    <2>2. born \in Nat
      BY PoolAssumption DEF RowsTyped
    <2>3. CASE q = p
      <3>1. op'[q].on = born + 1 /\ op'[r] = op[r]
        BY <1>3, <2>3 DEF RowsTyped
      <3> QED
        BY <1>3, <2>1, <2>2, <3>1
    <2>4. CASE r = p
      <3>1. op'[r].on = born + 1 /\ op'[q] = op[q]
        BY <1>3, <2>4 DEF RowsTyped
      <3> QED
        BY <1>3, <2>1, <2>2, <3>1
    <2>5. CASE q # p /\ r # p
      BY <1>3, <2>5 DEF RowsTyped, OperationsSound
    <2> QED
      BY <2>3, <2>4, <2>5
  <1> QED
    BY <1>1, <1>2, <1>3 DEF OperationsSound

\* A session commits a change of the row x, and makes the others that have loaded it late.
LEMMA EndedOps ==
  ASSUME RowsTyped, OperationsSound, NEW p \in Sessions, NEW x, Ended(p, x), born' = born,
         \A c \in Ids : (cand[c] # None => cand'[c] # None)
                        /\ (c # x => cand'[c] = cand[c]),
         \A n \in Notes : (note[n] # None => note'[n] # None)
                          /\ (n # x => note'[n] = note[n]),
         \A s \in Searches : (search[s] # None => search'[s] # None)
                             /\ (s # x => search'[s] = search[s]),
         \A q \in Sessions \ {p} : op[q] # None /\ op[q].kind = "create" =>
             cand'[op[q].on] = None
  PROVE  OperationsSound' /\ op' \in [Sessions -> Operation \cup {None}]
  <1>1. /\ op' \in [Sessions -> Operation \cup {None}] /\ op'[p] = None
        /\ \A q \in Sessions \ {p} :
              op'[q] = IF op[q] # None /\ op[q].on = x THEN [op[q] EXCEPT !.late = TRUE]
                       ELSE op[q]
    <2>1. \A q \in Sessions : op[q] # None => [op[q] EXCEPT !.late = TRUE] \in Operation
      BY MadeLate DEF RowsTyped
    <2> QED
      BY <2>1 DEF Ended, RowsTyped
  <1>2. ASSUME NEW q \in Sessions \ {p}, op[q] # None
        PROVE  /\ op[q] \in Operation /\ Loads(op[q])
               /\ op'[q].kind = op[q].kind /\ op'[q].on = op[q].on
               /\ op[q].kind = "create" => op'[q].row = op[q].row
               /\ op[q].kind = "tag" => op'[q].of = op[q].of
               /\ ~op'[q].late => op[q].on # x /\ op'[q] = op[q]
    <2>1. op[q] \in Operation /\ Loads(op[q])
      BY <1>2 DEF RowsTyped, OperationsSound
    <2>2. CASE op[q].on = x
      <3>1. op'[q] = [op[q] EXCEPT !.late = TRUE]
        BY <1>1, <1>2, <2>2
      <3> QED
        BY <2>1, <3>1, MadeLate
    <2>3. CASE op[q].on # x
      BY <1>1, <1>2, <2>1, <2>3
    <2> QED
      BY <2>2, <2>3
  <1>3. ASSUME NEW q \in Sessions, op'[q] # None
        PROVE  q # p /\ op[q] # None
    BY <1>1, <1>3
  <1>4. ASSUME NEW q \in Sessions \ {p}, op[q] # None PROVE Loads(op[q])'
    <2> DEFINE k == op[q].kind
    <2>1. /\ op[q] \in Operation /\ Loads(op[q])
          /\ op'[q].kind = k /\ op'[q].on = op[q].on
          /\ k = "create" => op'[q].row = op[q].row
          /\ k = "tag" => op'[q].of = op[q].of
          /\ ~op'[q].late => op[q].on # x /\ op'[q] = op[q]
      BY <1>2, <1>4
    <2>2. k = "create" => cand'[op[q].on] = None
      BY <1>4
    <2>3. k = "create" => op'[q].on <= born' /\ cand'[op'[q].on] = None
                          /\ (op'[q].row.email # None => ~op'[q].row.email.capitals)
      BY <2>1, <2>2 DEF Loads
    <2>4. k \in OnCandidate =>
            cand'[op'[q].on] # None /\ (~op'[q].late => op'[q].loaded = cand'[op'[q].on])
      <3> SUFFICES ASSUME k \in OnCandidate
                   PROVE  /\ cand'[op[q].on] # None
                          /\ ~op'[q].late => op[q].loaded = cand'[op[q].on]
        BY <2>1
      <3>1. op[q].on \in Ids
        BY <2>1, OperationFields
      <3>2. cand[op[q].on] # None /\ (~op[q].late => op[q].loaded = cand[op[q].on])
        BY <2>1 DEF Loads
      <3> QED
        BY <2>1, <3>1, <3>2
    <2>5. k = "tag" => cand'[op'[q].of] # None
      <3> SUFFICES ASSUME k = "tag"
                   PROVE  cand'[op[q].of] # None
        BY <2>1
      <3>1. op[q].of \in Ids
        BY <2>1, OperationFields DEF OnTag
      <3>2. cand[op[q].of] # None
        BY <2>1 DEF Loads
      <3> QED
        BY <3>1, <3>2
    <2>6. k \in OnNote =>
            note'[op'[q].on] # None /\ (~op'[q].late => op'[q].loaded = note'[op'[q].on])
      <3> SUFFICES ASSUME k \in OnNote
                   PROVE  /\ note'[op[q].on] # None
                          /\ ~op'[q].late => op[q].loaded = note'[op[q].on]
        BY <2>1
      <3>1. op[q].on \in Notes
        BY <2>1, OperationFields
      <3>2. note[op[q].on] # None /\ (~op[q].late => op[q].loaded = note[op[q].on])
        BY <2>1 DEF Loads
      <3> QED
        BY <2>1, <3>1, <3>2
    <2>7. k \in OnSearch => search'[op'[q].on] # None
      <3> SUFFICES ASSUME k \in OnSearch
                   PROVE  search'[op[q].on] # None
        BY <2>1
      <3>1. op[q].on \in Searches
        BY <2>1, OperationFields
      <3>2. search[op[q].on] # None
        BY <2>1 DEF Loads
      <3> QED
        BY <3>1, <3>2
    <2>8. k = "edit search" /\ ~op'[q].late => op'[q].loaded = search'[op'[q].on]
      <3> SUFFICES ASSUME k = "edit search", ~op'[q].late
                   PROVE  op'[q].loaded = search'[op'[q].on]
        OBVIOUS
      <3>1. op[q].on \in Searches
        BY <2>1, OperationFields DEF OnSearch
      <3>2. op[q].on # x /\ op'[q] = op[q]
        BY <2>1
      <3>3. search'[op[q].on] = search[op[q].on]
        BY <3>1, <3>2
      <3>4. op[q].loaded = search[op[q].on]
        BY <2>1, <3>2 DEF Loads
      <3> QED
        BY <3>2, <3>3, <3>4
    <2> HIDE DEF k
    <2> QED
      BY <2>1, <2>3, <2>4, <2>5, <2>6, <2>7, <2>8 DEF Loads
  <1>5. ASSUME NEW q \in Sessions, NEW r \in Sessions,
               op'[q] # None, op'[q].kind = "create", op'[r] # None, op'[r].kind = "create",
               op'[q].on = op'[r].on
        PROVE  q = r
    <2>1. q \in Sessions \ {p} /\ r \in Sessions \ {p} /\ op[q] # None /\ op[r] # None
      BY <1>3, <1>5
    <2>2. op[q].kind = "create" /\ op[r].kind = "create" /\ op[q].on = op[r].on
      BY <1>2, <1>5, <2>1
    <2> QED
      BY <2>1, <2>2 DEF OperationsSound
  <1> QED
    BY <1>1, <1>3, <1>4, <1>5 DEF OperationsSound

\* A step that writes no row of candidates, notes or searches.
LEMMA StillRows ==
  ASSUME RowsIInv, OperationsSound', op' \in [Sessions -> Operation \cup {None}],
         UNCHANGED <<cand, note, search, said>>,
         born' \in Initial..MaxCandidates, born <= born',
         tag' \in [Ids -> 0..MaxOps], \A c \in Ids : tag'[c] # 0 => cand[c] # None,
         used' \in 0..MaxOps
  PROVE  RowsIInv' /\ Kept
  <1>1. RowsTyped'
    <2>1. \A c \in Ids : cand'[c] # None => c <= born'
      <3> SUFFICES ASSUME NEW c \in Ids, cand[c] # None PROVE c <= born'
        OBVIOUS
      <3>1. c \in Nat /\ c <= born /\ born \in Nat /\ born' \in Nat
        BY PoolAssumption DEF RowsIInv, RowsTyped, Ids
      <3> QED
        BY <3>1
    <2> QED
      BY <2>1 DEF RowsIInv, RowsTyped
  <1>2. AddressesSound' /\ SaidOfRows' /\ EditsStand'
    BY DEF RowsIInv, AddressesSound, SaidOfRows, EditsStand
  <1>3. Kept
    BY DEF Kept
  <1> QED
    BY <1>1, <1>2, <1>3 DEF RowsIInv

\* An operation other than a create begins.
LEMMA StartRows ==
  ASSUME RowsIInv, NEW p \in Sessions, used < MaxOps, used' = used + 1,
         op' = [op EXCEPT ![p] = op'[p]], op'[p] \in Operation, op'[p].kind # "create",
         Loads(op[p])', UNCHANGED <<cand, born, tag, note, search, said>>
  PROVE  RowsIInv' /\ Kept
  <1>1. /\ born' \in Nat /\ born <= born' /\ born' \in Initial..MaxCandidates
        /\ used' \in 0..MaxOps
    <2>1. born' = born /\ born \in Initial..MaxCandidates /\ used \in 0..MaxOps
      BY DEF RowsIInv, RowsTyped
    <2> QED
      BY <2>1, PoolAssumption
  <1>2. OperationsSound' /\ op' \in [Sessions -> Operation \cup {None}]
    BY <1>1, StepOps DEF RowsIInv
  <1>3. tag' \in [Ids -> 0..MaxOps] /\ \A c \in Ids : tag'[c] # 0 => cand[c] # None
    BY DEF RowsIInv, RowsTyped
  <1> QED
    BY <1>1, <1>2, <1>3, StillRows

\* An operation ends without a write, and a tag may change.
LEMMA EndRows ==
  ASSUME RowsIInv, NEW p \in Sessions, op' = [op EXCEPT ![p] = None],
         UNCHANGED <<cand, born, note, search, said, used>>,
         tag' \in [Ids -> 0..MaxOps], \A c \in Ids : tag'[c] # 0 => cand[c] # None
  PROVE  RowsIInv' /\ Kept
  <1>1. /\ born' \in Nat /\ born <= born' /\ born' \in Initial..MaxCandidates
        /\ used' \in 0..MaxOps
    <2>1. born' = born /\ born \in Initial..MaxCandidates /\ used' = used /\ used \in 0..MaxOps
      BY DEF RowsIInv, RowsTyped
    <2> QED
      BY <2>1, PoolAssumption
  <1>2. op'[p] = None /\ op' = [op EXCEPT ![p] = op'[p]]
    BY DEF RowsIInv, RowsTyped
  <1>3. OperationsSound' /\ op' \in [Sessions -> Operation \cup {None}]
    BY <1>1, <1>2, StepOps DEF RowsIInv
  <1> QED
    BY <1>1, <1>3, StillRows

LEMMA GivesUpRows ==
  ASSUME RowsIInv, NEW p \in Sessions, GivesUp(p), UNCHANGED <<born, used>>
  PROVE  RowsIInv' /\ Kept
  <1>1. tag' \in [Ids -> 0..MaxOps] /\ \A c \in Ids : tag'[c] # 0 => cand[c] # None
    BY DEF GivesUp, RowsIInv, RowsTyped
  <1> QED
    BY <1>1, EndRows DEF GivesUp

\* What the commit of a candidate's row by session p must respect: the addresses, what was
\* said and an archived row.
SoundCommit(p) ==
    LET c == op[p].on
        g == said'.profile[c]
    IN  /\ op[p] # None /\ op[p].kind \in {"create"} \cup OnCandidate /\ c \in Ids
        /\ cand' = [cand EXCEPT ![c] = cand'[c]] /\ Ended(p, c)
        /\ UNCHANGED <<born, tag, note, search, used>>
        /\ cand'[c] \in Row
        /\ \A d \in Ids \ {c} : cand[d] # None /\ cand[d].email # None =>
               cand[d].email # cand'[c].email
        /\ said' = [said EXCEPT !.profile[c] = g] /\ g \in Ghost
        /\ cand'[c].email # None /\ cand'[c].email.capitals => g.parsed
        /\ g.title # None => cand'[c].title = g.title
        /\ g.skills \subseteq cand'[c].skills
        /\ cand[c] # None /\ cand[c].archived => cand'[c].archived

LEMMA CommitRows ==
  ASSUME RowsIInv, NEW p \in Sessions, SoundCommit(p)
  PROVE  RowsIInv' /\ Kept
  <1> DEFINE c == op[p].on
  <1>0. /\ op[p] # None /\ op[p].kind \in {"create"} \cup OnCandidate /\ c \in Ids
        /\ cand' = [cand EXCEPT ![c] = cand'[c]] /\ Ended(p, c)
        /\ UNCHANGED <<born, tag, note, search, used>>
        /\ cand'[c] \in Row
        /\ \A d \in Ids \ {c} : cand[d] # None /\ cand[d].email # None =>
               cand[d].email # cand'[c].email
        /\ said' = [said EXCEPT !.profile[c] = said'.profile[c]] /\ said'.profile[c] \in Ghost
        /\ cand'[c].email # None /\ cand'[c].email.capitals => said'.profile[c].parsed
        /\ said'.profile[c].title # None => cand'[c].title = said'.profile[c].title
        /\ said'.profile[c].skills \subseteq cand'[c].skills
        /\ cand[c] # None /\ cand[c].archived => cand'[c].archived
    BY DEF SoundCommit
  <1>00. c = op[p].on
    OBVIOUS
  <1> HIDE DEF c
  <1>1. cand'[c] # None
    BY <1>0, ValuesAssumption
  <1>2. \A d \in Ids \ {c} : cand'[d] = cand[d]
    BY <1>0 DEF RowsIInv, RowsTyped
  <1>3. op[p] \in Operation /\ Loads(op[p])
    BY <1>0 DEF RowsIInv, RowsTyped, OperationsSound
  <1>4. c <= born
    BY <1>0, <1>00, <1>3, OperationFields DEF Loads, RowsIInv, RowsTyped
  <1>5. OperationsSound' /\ op' \in [Sessions -> Operation \cup {None}]
    <2>1. ASSUME NEW q \in Sessions \ {p}, op[q] # None, op[q].kind = "create"
          PROVE  cand'[op[q].on] = None
      <3>1. op[q] \in Operation /\ Loads(op[q])
        BY <1>0, <2>1 DEF RowsIInv, RowsTyped, OperationsSound
      <3>2. cand[op[q].on] = None /\ op[q].on \in Ids
        BY <1>0, <2>1, <3>1, OperationFields DEF Loads
      <3>3. op[q].on # c
        <4>1. CASE op[p].kind = "create"
          BY <1>0, <1>00, <2>1, <4>1 DEF RowsIInv, OperationsSound
        <4>2. CASE op[p].kind \in OnCandidate
          BY <1>0, <1>00, <1>3, <3>2, <4>2 DEF Loads
        <4> QED
          BY <1>0, <4>1, <4>2
      <3> QED
        BY <1>0, <1>2, <3>2, <3>3
    <2> QED
      BY <1>0, <1>1, <1>2, <2>1, EndedOps DEF RowsIInv
  <1>6. /\ said'.private = said.private /\ said'.shared = said.shared
        /\ \A d \in Ids \ {c} : said'.profile[d] = said.profile[d]
        /\ said' \in [profile : [Ids -> Ghost], private : [Notes -> BOOLEAN \cup {None}],
                      shared : [Searches -> BOOLEAN \cup {None}]]
    BY <1>0 DEF RowsIInv, RowsTyped
  <1>7. RowsTyped'
    <2>1. cand' \in [Ids -> Row \cup {None}]
      BY <1>0 DEF RowsIInv, RowsTyped
    <2>2. \A d \in Ids : cand'[d] # None => d <= born'
      BY <1>0, <1>2, <1>4 DEF RowsIInv, RowsTyped
    <2>3. \A d \in Ids : tag'[d] # 0 => cand'[d] # None
      BY <1>0, <1>1, <1>2 DEF RowsIInv, RowsTyped
    <2> QED
      BY <1>0, <1>5, <1>6, <2>1, <2>2, <2>3 DEF RowsIInv, RowsTyped
  <1>8. AddressesSound'
    BY <1>0, <1>1, <1>2, <1>6 DEF RowsIInv, AddressesSound
  <1>9. SaidOfRows'
    BY <1>0, <1>1, <1>2, <1>6 DEF RowsIInv, SaidOfRows
  <1>10. EditsStand'
    <2>1. ASSUME NEW d \in Ids
          PROVE  /\ said'.profile[d].title # None => cand'[d].title = said'.profile[d].title
                 /\ said'.profile[d].skills # {} =>
                      said'.profile[d].skills \subseteq cand'[d].skills
      <3>1. CASE d = c
        BY <1>0, <3>1
      <3>2. CASE d # c
        BY <1>0, <1>2, <1>6, <3>2 DEF RowsIInv, EditsStand
      <3> QED
        BY <1>0, <3>1, <3>2
    <2> QED
      BY <1>0, <1>6, <2>1 DEF RowsIInv, EditsStand
  <1>11. Kept
    BY <1>0, <1>2 DEF Kept
  <1> QED
    BY <1>0, <1>5, <1>7, <1>8, <1>9, <1>10, <1>11 DEF RowsIInv

-----------------------------------------------------------------------------
(* The steps on candidates.                                                *)

LEMMA SameSpelling ==
  ASSUME NEW e \in Spelling, NEW f \in Spelling,
         e.address = f.address, e.capitals = f.capitals
  PROVE  e = f
  BY DEF Spelling

LEMMA FoldedSpelling ==
  ASSUME NEW e \in Spelling
  PROVE  /\ Folded(e) \in Spelling /\ Folded(e).capitals = FALSE
         /\ Folded(Folded(e)) = Folded(e) /\ Folded(e) # None /\ e # None
  <1>1. e \in [address : Addresses, capitals : BOOLEAN]
    BY DEF Spelling
  <1>2. Folded(e) \in Spelling /\ Folded(e).capitals = FALSE
    BY <1>1 DEF Folded, Spelling
  <1>3. Folded(Folded(e)) \in Spelling /\ Folded(Folded(e)).capitals = FALSE
        /\ Folded(Folded(e)).address = Folded(e).address
    BY <1>1 DEF Folded, Spelling
  <1>4. Folded(Folded(e)) = Folded(e)
    BY <1>2, <1>3, SameSpelling
  <1>5. Folded(e) # None /\ e # None
    BY <1>2, ValuesAssumption
  <1> QED
    BY <1>2, <1>4, <1>5

LEMMA BlankRow ==
  /\ Blank \in Row
  /\ \A e \in Spelling \cup {None} : [Blank EXCEPT !.email = e] \in Row
                                     /\ [Blank EXCEPT !.email = e].email = e
  BY DEF Blank, Row

LEMMA StartCreateRows ==
  ASSUME RowsIInv, NEW p \in Sessions, StartCreate(p)
  PROVE  RowsIInv' /\ Kept
  <1>1. PICK e \in Spelling \cup {None} :
          Starts(p, [kind |-> "create", on |-> born + 1, late |-> FALSE,
                     row |-> [Blank EXCEPT !.email = IF e = None THEN None ELSE Folded(e)]])
    BY DEF StartCreate
  <1> DEFINE clean == IF e = None THEN None ELSE Folded(e)
             row == [Blank EXCEPT !.email = clean]
             o == [kind |-> "create", on |-> born + 1, late |-> FALSE, row |-> row]
  <1>2. clean \in Spelling \cup {None} /\ (clean # None => ~clean.capitals)
    BY FoldedSpelling
  <1> HIDE DEF clean
  <1>3. row \in Row /\ row.email = clean
    BY <1>2, BlankRow
  <1>4. /\ born < MaxCandidates /\ born' = born + 1
        /\ used < MaxOps /\ used' = used + 1 /\ op' = [op EXCEPT ![p] = o]
        /\ UNCHANGED <<cand, tag, note, search, said>>
    BY <1>1 DEF StartCreate, Starts, clean
  <1> HIDE DEF row
  <1>5. born \in Nat /\ born' \in Nat /\ born <= born' /\ born' \in Initial..MaxCandidates
        /\ born + 1 \in Ids /\ used' \in 0..MaxOps
    <2>1. born \in Initial..MaxCandidates /\ used \in 0..MaxOps
      BY DEF RowsIInv, RowsTyped
    <2> QED
      BY <1>4, <2>1, PoolAssumption DEF Ids
  <1>6. o \in Operation /\ op'[p] = o
    BY <1>3, <1>4, <1>5 DEF RowsIInv, RowsTyped, Operation
  <1>7. cand[born + 1] = None
    <2>1. ~(born + 1 <= born)
      BY <1>5
    <2> QED
      BY <1>5, <2>1 DEF RowsIInv, RowsTyped
  <1>8. Loads(op[p])'
    <2>1. op'[p].kind = "create" /\ op'[p].on = born + 1 /\ op'[p].row = row
      BY <1>6
    <2>2. born + 1 <= born' /\ cand'[born + 1] = None
      BY <1>4, <1>5, <1>7
    <2> QED
      BY <1>2, <1>3, <2>1, <2>2 DEF Loads, OnCandidate, OnNote, OnSearch
  <1>9. op' = [op EXCEPT ![p] = op'[p]] /\ op'[p].on = born + 1
    <2>1. op'[p].on = born + 1
      BY <1>6
    <2> HIDE DEF o
    <2> QED
      BY <1>4, <1>6, <2>1
  <1>10. OperationsSound' /\ op' \in [Sessions -> Operation \cup {None}]
    BY <1>4, <1>5, <1>6, <1>8, <1>9, StepOps DEF RowsIInv
  <1>11. tag' \in [Ids -> 0..MaxOps] /\ \A c \in Ids : tag'[c] # 0 => cand[c] # None
    BY <1>4 DEF RowsIInv, RowsTyped
  <1> QED
    BY <1>4, <1>5, <1>10, <1>11, StillRows

LEMMA FinishCreateRows ==
  ASSUME RowsIInv, NEW p \in Sessions, FinishCreate(p)
  PROVE  RowsIInv' /\ Kept
  <1> DEFINE c == op[p].on
  <1>1. /\ op[p] # None /\ op[p].kind = "create" /\ op[p] \in Operation /\ Loads(op[p])
        /\ c \in Ids /\ op[p].row \in Row /\ cand[c] = None
        /\ op[p].row.email # None => ~op[p].row.email.capitals
    <2>1. op[p] # None /\ op[p].kind = "create" /\ op[p] \in Operation /\ Loads(op[p])
      BY DEF FinishCreate, RowsIInv, RowsTyped, OperationsSound
    <2> QED
      BY <2>1, OperationFields DEF Loads
  <1>2. CASE Collides(c, op[p].row)
    BY <1>2, GivesUpRows DEF FinishCreate
  <1>3. CASE ~Collides(c, op[p].row)
    <2>1. /\ cand' = [cand EXCEPT ![c] = op[p].row] /\ Ended(p, c)
          /\ UNCHANGED <<born, tag, note, search, used, said>>
      BY <1>3 DEF FinishCreate, Commits
    <2>2. cand'[c] = op[p].row /\ cand' = [cand EXCEPT ![c] = cand'[c]]
      BY <1>1, <2>1 DEF RowsIInv, RowsTyped
    <2>3. \A d \in Ids \ {c} : cand[d] # None /\ cand[d].email # None =>
             cand[d].email # cand'[c].email
      BY <1>3, <2>2 DEF Collides, Found
    <2>4. /\ said'.profile[c] \in Ghost /\ said' = [said EXCEPT !.profile[c] = said'.profile[c]]
          /\ said'.profile[c].title = None /\ said'.profile[c].skills = {}
      BY <1>1, <2>1 DEF RowsIInv, RowsTyped, SaidOfRows
    <2> QED
      BY <1>1, <2>1, <2>2, <2>3, <2>4, CommitRows DEF SoundCommit
  <1> QED
    BY <1>2, <1>3

\* The edit of a row, field by field.
LEMMA EditedRow ==
  ASSUME NEW row \in Row, NEW edit \in Edits
  PROVE  /\ Edited(row, edit) \in Row /\ Edited(row, edit).archived = row.archived
         /\ ChangesEmail(row, edit) =>
              /\ Edited(row, edit).email \in Spelling /\ Edited(row, edit).email # row.email
              /\ ~Edited(row, edit).email.capitals
         /\ ~ChangesEmail(row, edit) => Edited(row, edit).email = row.email
         /\ edit.title = None => Edited(row, edit).title = row.title
         /\ edit.title # None => Edited(row, edit).title = edit.title
         /\ edit.skills = None => Edited(row, edit).skills = row.skills
         /\ edit.skills # None => Edited(row, edit).skills = edit.skills
                                  /\ edit.skills \in SUBSET Skills
  <1> DEFINE new == Edited(row, edit)
  <1>1. edit \in [email : Spelling \cup {None}, title : Titles \cup {None},
                  skills : (SUBSET Skills) \cup {None}]
    BY ValuesAssumption
  <1>2. /\ row.email \in Spelling \cup {None} /\ row.title \in Titles \cup {None}
        /\ row.skills \in SUBSET Skills /\ row.archived \in BOOLEAN
    BY DEF Row
  <1>3. /\ new.email = IF ChangesEmail(row, edit) THEN Folded(edit.email) ELSE row.email
        /\ new.title = IF edit.title = None THEN row.title ELSE edit.title
        /\ new.skills = IF edit.skills = None THEN row.skills ELSE edit.skills
        /\ new.archived = row.archived
    BY DEF Edited, Row
  <1>4. ChangesEmail(row, edit) =>
          /\ Folded(edit.email) \in Spelling /\ Folded(edit.email) # row.email
          /\ ~Folded(edit.email).capitals
    <2> SUFFICES ASSUME ChangesEmail(row, edit)
                 PROVE  /\ Folded(edit.email) \in Spelling /\ Folded(edit.email) # row.email
                        /\ ~Folded(edit.email).capitals
      OBVIOUS
    <2>1. edit.email \in Spelling
      BY <1>1 DEF ChangesEmail
    <2>2. Folded(edit.email) # row.email
      <3> SUFFICES ASSUME Folded(edit.email) = row.email PROVE FALSE
        OBVIOUS
      <3>1. row.email # None
        BY <2>1, FoldedSpelling
      <3>2. Folded(edit.email) # Folded(Folded(edit.email))
        BY <3>1 DEF ChangesEmail
      <3> QED
        BY <2>1, <3>2, FoldedSpelling
    <2> QED
      BY <2>1, <2>2, FoldedSpelling
  <1>5. /\ new.email \in Spelling \cup {None} /\ new.title \in Titles \cup {None}
        /\ new.skills \in SUBSET Skills
    <2>1. new.email \in Spelling \cup {None}
      BY <1>2, <1>3, <1>4
    <2>2. new.title \in Titles \cup {None}
      BY <1>1, <1>2, <1>3
    <2>3. new.skills \in SUBSET Skills
      BY <1>1, <1>2, <1>3
    <2> QED
      BY <2>1, <2>2, <2>3
  <1>6. new \in Row
    <2>1. new = [row EXCEPT !.email = new.email, !.title = new.title, !.skills = new.skills]
      BY DEF Edited, Row
    <2> HIDE DEF new
    <2> QED
      BY <1>2, <1>5, <2>1 DEF Row
  <1>7. edit.skills # None => edit.skills \in SUBSET Skills
    BY <1>1
  <1> HIDE DEF new
  <1> QED
    BY <1>3, <1>4, <1>6, <1>7 DEF new

\* What the operation of session p may write as its row: the columns it changed, and the
\* skills again although they are the same.
MayWrite(w, row, loaded, new) ==
    w \in {Written(row, loaded, new), [Written(row, loaded, new) EXCEPT !.skills = new.skills]}

LEMMA OutcomeRow ==
  ASSUME NEW row \in Row, NEW loaded \in Row, NEW new \in Row,
         NEW w, MayWrite(w, row, loaded, new)
  PROVE  /\ w \in Row
         /\ w.email = (IF new.email = loaded.email THEN row.email ELSE new.email)
         /\ w.title = (IF new.title = loaded.title THEN row.title ELSE new.title)
         /\ \/ w.skills = row.skills /\ new.skills = loaded.skills
            \/ w.skills = new.skills
         /\ w.archived = (IF new.archived = loaded.archived THEN row.archived
                          ELSE new.archived)
  <1> DEFINE v == Written(row, loaded, new)
  <1>1. /\ v \in Row
        /\ v.email = (IF new.email = loaded.email THEN row.email ELSE new.email)
        /\ v.title = (IF new.title = loaded.title THEN row.title ELSE new.title)
        /\ v.skills = (IF new.skills = loaded.skills THEN row.skills ELSE new.skills)
        /\ v.archived = (IF new.archived = loaded.archived THEN row.archived
                         ELSE new.archived)
    BY WrittenRow
  <1>2. w = v \/ w = [v EXCEPT !.skills = new.skills]
    BY DEF MayWrite
  <1>3. new.skills \in SUBSET Skills
    BY DEF Row
  <1> HIDE DEF v
  <1>4. /\ w \in Row /\ w.email = v.email /\ w.title = v.title /\ w.archived = v.archived
        /\ w.skills = v.skills \/ w.skills = new.skills
    BY <1>1, <1>2, <1>3 DEF Row
  <1> QED
    BY <1>1, <1>4

LEMMA FinishUpdateRows ==
  ASSUME RowsIInv, NEW p \in Sessions, FinishUpdate(p)
  PROVE  RowsIInv' /\ Kept
  <1> DEFINE o == op[p]
             c == o.on
             edit == o.edit
             new == Edited(o.loaded, edit)
             g == said.profile[c]
  <1>1. /\ o # None /\ o.kind = "update" /\ o \in Operation /\ Loads(o)
        /\ c \in Ids /\ edit \in Edits /\ o.loaded \in Row
        /\ cand[c] \in Row /\ cand[c] # None /\ (~o.late => o.loaded = cand[c])
        /\ o.kind \in OnCandidate
    <2>1. o # None /\ o.kind = "update" /\ o \in Operation /\ Loads(o)
          /\ o.kind \in OnCandidate
      BY DEF FinishUpdate, RowsIInv, RowsTyped, OperationsSound, OnCandidate
    <2>2. c \in Ids /\ edit \in Edits /\ o.loaded \in Row
      BY <2>1, OperationFields
    <2>3. cand[c] # None /\ (~o.late => o.loaded = cand[c])
      BY <2>1 DEF Loads
    <2> QED
      BY <2>1, <2>2, <2>3 DEF RowsIInv, RowsTyped
  <1>2. UNCHANGED <<born, used>>
    BY DEF FinishUpdate
  <1>3. PICK row \in {Written(cand[c], o.loaded, new),
                      [Written(cand[c], o.loaded, new) EXCEPT !.skills = new.skills]} :
          /\ edit.skills = None => row = Written(cand[c], o.loaded, new)
          /\ IF Collides(c, row) THEN GivesUp(p)
             ELSE /\ Commits(p, c, row)
                  /\ said' = [said EXCEPT !.profile[c] =
                        [title |-> IF edit.title = None THEN @.title
                                   ELSE IF o.late /\ edit.title = o.loaded.title
                                     THEN None ELSE edit.title,
                         skills |-> IF edit.skills = None THEN @.skills
                                    ELSE IF o.late /\ edit.skills = o.loaded.skills
                                      THEN {} ELSE edit.skills,
                         parsed |-> @.parsed /\ ~ChangesEmail(o.loaded, edit)]]
    BY DEF FinishUpdate, Outcomes
  <1>4. CASE Collides(c, row)
    BY <1>2, <1>3, <1>4, GivesUpRows
  <1>5. CASE ~Collides(c, row)
    <2>1. /\ cand' = [cand EXCEPT ![c] = row] /\ Ended(p, c)
          /\ UNCHANGED <<tag, note, search>>
      BY <1>3, <1>5 DEF Commits
    <2>2. /\ new \in Row /\ new.archived = o.loaded.archived
          /\ ChangesEmail(o.loaded, edit) =>
               /\ new.email \in Spelling /\ new.email # o.loaded.email
               /\ ~new.email.capitals
          /\ ~ChangesEmail(o.loaded, edit) => new.email = o.loaded.email
          /\ edit.title = None => new.title = o.loaded.title
          /\ edit.title # None => new.title = edit.title
          /\ edit.skills = None => new.skills = o.loaded.skills
          /\ edit.skills # None => new.skills = edit.skills /\ edit.skills \in SUBSET Skills
      BY <1>1, EditedRow
    <2>3. edit.title \in Titles \cup {None}
      BY <1>1, ValuesAssumption
    <2>4. /\ g \in Ghost /\ (g.title # None => cand[c].title = g.title)
          /\ g.skills \subseteq cand[c].skills
          /\ cand[c].email # None /\ cand[c].email.capitals => g.parsed
      BY <1>1 DEF RowsIInv, RowsTyped, EditsStand, AddressesSound
    <2> DEFINE h == [title |-> IF edit.title = None THEN g.title
                               ELSE IF o.late /\ edit.title = o.loaded.title
                                 THEN None ELSE edit.title,
                     skills |-> IF edit.skills = None THEN g.skills
                                ELSE IF o.late /\ edit.skills = o.loaded.skills
                                  THEN {} ELSE edit.skills,
                     parsed |-> g.parsed /\ ~ChangesEmail(o.loaded, edit)]
    <2>5. said' = [said EXCEPT !.profile[c] = h]
      BY <1>3, <1>5
    <2>6. h \in Ghost
      BY <2>2, <2>3, <2>4 DEF Ghost
    <2> HIDE DEF new, g
    <2>7. /\ row \in Row
          /\ row.email = (IF new.email = o.loaded.email THEN cand[c].email ELSE new.email)
          /\ row.title = (IF new.title = o.loaded.title THEN cand[c].title ELSE new.title)
          /\ \/ row.skills = cand[c].skills /\ new.skills = o.loaded.skills
             \/ row.skills = new.skills
          /\ row.archived = cand[c].archived
      <3>1. /\ row \in Row
            /\ row.email = (IF new.email = o.loaded.email THEN cand[c].email ELSE new.email)
            /\ row.title = (IF new.title = o.loaded.title THEN cand[c].title ELSE new.title)
            /\ \/ row.skills = cand[c].skills /\ new.skills = o.loaded.skills
               \/ row.skills = new.skills
            /\ row.archived = (IF new.archived = o.loaded.archived THEN cand[c].archived
                               ELSE new.archived)
        <4>1. cand[c] \in Row /\ o.loaded \in Row /\ new \in Row
          BY <1>1, <2>2
        <4>2. MayWrite(row, cand[c], o.loaded, new)
          BY DEF MayWrite
        <4> HIDE DEF o, c
        <4> QED
          BY <4>1, <4>2, OutcomeRow
      <3> QED
        BY <2>2, <3>1
    <2>8. edit.skills = None => row.skills = cand[c].skills
      BY <1>1, <1>3, <2>2, WrittenRow
    <2>9. row.email # None /\ row.email.capitals => h.parsed
      BY <2>2, <2>4, <2>7
    <2>10. h.title # None => row.title = h.title
      BY <1>1, <2>2, <2>4, <2>7
    <2>11. h.skills \subseteq row.skills
      BY <1>1, <2>2, <2>4, <2>7, <2>8
    <2> HIDE DEF h, c, o, edit
    <2>12. /\ cand'[c] = row /\ cand' = [cand EXCEPT ![c] = cand'[c]]
           /\ said'.profile[c] = h /\ said' = [said EXCEPT !.profile[c] = said'.profile[c]]
      BY <1>1, <2>1, <2>5 DEF RowsIInv, RowsTyped
    <2>13. \A d \in Ids \ {c} : cand[d] # None /\ cand[d].email # None =>
              cand[d].email # row.email
      BY <1>5 DEF Collides, Found
    <2>14. RowsIInv' /\ Kept
      <3>1. op[p] # None /\ op[p].kind \in {"create"} \cup OnCandidate /\ c = op[p].on
        BY <1>1 DEF o, c
      <3>2. /\ cand'[c] \in Row /\ said'.profile[c] \in Ghost
            /\ cand'[c].email # None /\ cand'[c].email.capitals => said'.profile[c].parsed
            /\ said'.profile[c].title # None => cand'[c].title = said'.profile[c].title
            /\ said'.profile[c].skills \subseteq cand'[c].skills
            /\ cand[c] # None /\ cand[c].archived => cand'[c].archived
        BY <2>6, <2>7, <2>9, <2>10, <2>11, <2>12
      <3>3. \A d \in Ids \ {c} : cand[d] # None /\ cand[d].email # None =>
               cand[d].email # cand'[c].email
        BY <2>12, <2>13
      <3>4. UNCHANGED <<born, tag, note, search, used>>
        BY <1>2, <2>1
      <3>5. c \in Ids
        BY <1>1
      <3>6. SoundCommit(p)
        BY <2>1, <2>12, <3>1, <3>2, <3>3, <3>4, <3>5 DEF SoundCommit
      <3> QED
        BY <3>6, CommitRows
    <2> QED
      BY <2>14
  <1> QED
    BY <1>4, <1>5

\* The enrichment of a row, field by field.
LEMMA EnrichedRow ==
  ASSUME NEW row \in Row, NEW found \in Resumes
  PROVE  /\ Enriched(row, found) \in Row /\ Enriched(row, found).archived = row.archived
         /\ row.email # None => Enriched(row, found).email = row.email
         /\ row.title # None => Enriched(row, found).title = row.title
         /\ Enriched(row, found).skills = row.skills \cup found.skills
         /\ found.skills \in SUBSET Skills
  <1> DEFINE new == Enriched(row, found)
  <1>1. found \in [email : Spelling \cup {None}, title : Titles \cup {None},
                   skills : SUBSET Skills]
    BY ValuesAssumption
  <1>2. /\ row.email \in Spelling \cup {None} /\ row.title \in Titles \cup {None}
        /\ row.skills \in SUBSET Skills /\ row.archived \in BOOLEAN
    BY DEF Row
  <1>3. /\ new.email = Filled(row.email, found.email)
        /\ new.title = Filled(row.title, found.title)
        /\ new.skills = row.skills \cup found.skills
        /\ new.archived = row.archived
    BY DEF Enriched, Row
  <1>4. new = [row EXCEPT !.email = new.email, !.title = new.title, !.skills = new.skills]
    BY DEF Enriched, Row
  <1> HIDE DEF new
  <1>5. /\ new.email \in Spelling \cup {None} /\ new.title \in Titles \cup {None}
        /\ new.skills \in SUBSET Skills
    <2>1. new.email \in Spelling \cup {None}
      BY <1>1, <1>2, <1>3 DEF Filled
    <2>2. new.title \in Titles \cup {None}
      BY <1>1, <1>2, <1>3 DEF Filled
    <2>3. new.skills \in SUBSET Skills
      BY <1>1, <1>2, <1>3
    <2> QED
      BY <2>1, <2>2, <2>3
  <1>6. new \in Row
    BY <1>2, <1>4, <1>5 DEF Row
  <1>7. found.skills \in SUBSET Skills
    BY <1>1
  <1> QED
    BY <1>3, <1>6, <1>7 DEF new, Filled

LEMMA FinishEnrichRows ==
  ASSUME RowsIInv, NEW p \in Sessions, FinishEnrich(p)
  PROVE  RowsIInv' /\ Kept
  <1> DEFINE o == op[p]
             c == o.on
             new == Enriched(o.loaded, o.found)
             g == said.profile[c]
  <1>1. /\ o # None /\ o.kind = "enrich" /\ o \in Operation /\ Loads(o)
        /\ c \in Ids /\ o.found \in Resumes /\ o.loaded \in Row
        /\ cand[c] \in Row /\ cand[c] # None /\ (~o.late => o.loaded = cand[c])
        /\ o.kind \in OnCandidate
    <2>1. o # None /\ o.kind = "enrich" /\ o \in Operation /\ Loads(o)
          /\ o.kind \in OnCandidate
      BY DEF FinishEnrich, RowsIInv, RowsTyped, OperationsSound, OnCandidate
    <2>2. c \in Ids /\ o.found \in Resumes /\ o.loaded \in Row
      BY <2>1, OperationFields
    <2>3. cand[c] # None /\ (~o.late => o.loaded = cand[c])
      BY <2>1 DEF Loads
    <2> QED
      BY <2>1, <2>2, <2>3 DEF RowsIInv, RowsTyped
  <1>2. UNCHANGED <<born, used>>
    BY DEF FinishEnrich
  <1>3. PICK row \in {Written(cand[c], o.loaded, new),
                      [Written(cand[c], o.loaded, new) EXCEPT !.skills = new.skills]} :
          IF Collides(c, row) THEN GivesUp(p)
          ELSE /\ Commits(p, c, row)
               /\ said' = [said EXCEPT !.profile[c] =
                     [title |-> IF o.late /\ row.title # cand[c].title
                                  THEN None ELSE @.title,
                      skills |-> IF ~o.late THEN @.skills \cup o.found.skills
                                 ELSE IF row.skills = cand[c].skills THEN @.skills
                                 ELSE o.found.skills,
                      parsed |-> @.parsed \/ row.email # cand[c].email]]
    BY DEF FinishEnrich, Outcomes
  <1>4. CASE Collides(c, row)
    BY <1>2, <1>3, <1>4, GivesUpRows
  <1>5. CASE ~Collides(c, row)
    <2>1. /\ cand' = [cand EXCEPT ![c] = row] /\ Ended(p, c)
          /\ UNCHANGED <<tag, note, search>>
      BY <1>3, <1>5 DEF Commits
    <2>2. /\ new \in Row /\ new.archived = o.loaded.archived
          /\ o.loaded.email # None => new.email = o.loaded.email
          /\ o.loaded.title # None => new.title = o.loaded.title
          /\ new.skills = o.loaded.skills \cup o.found.skills
          /\ o.found.skills \in SUBSET Skills
      BY <1>1, EnrichedRow
    <2>3. /\ g \in Ghost /\ (g.title # None => cand[c].title = g.title)
          /\ g.skills \subseteq cand[c].skills
          /\ cand[c].email # None /\ cand[c].email.capitals => g.parsed
      BY <1>1 DEF RowsIInv, RowsTyped, EditsStand, AddressesSound
    <2> DEFINE h == [title |-> IF o.late /\ row.title # cand[c].title
                                 THEN None ELSE g.title,
                     skills |-> IF ~o.late THEN g.skills \cup o.found.skills
                                ELSE IF row.skills = cand[c].skills THEN g.skills
                                ELSE o.found.skills,
                     parsed |-> g.parsed \/ row.email # cand[c].email]
    <2>4. said' = [said EXCEPT !.profile[c] = h]
      BY <1>3, <1>5
    <2>5. h \in Ghost
      BY <2>2, <2>3 DEF Ghost
    <2> HIDE DEF new, g
    <2>6. /\ row \in Row
          /\ row.title = (IF new.title = o.loaded.title THEN cand[c].title ELSE new.title)
          /\ \/ row.skills = cand[c].skills /\ new.skills = o.loaded.skills
             \/ row.skills = new.skills
          /\ row.archived = cand[c].archived
      <3>1. /\ row \in Row
            /\ row.title = (IF new.title = o.loaded.title THEN cand[c].title ELSE new.title)
            /\ \/ row.skills = cand[c].skills /\ new.skills = o.loaded.skills
               \/ row.skills = new.skills
            /\ row.archived = (IF new.archived = o.loaded.archived THEN cand[c].archived
                               ELSE new.archived)
        <4>1. cand[c] \in Row /\ o.loaded \in Row /\ new \in Row
          BY <1>1, <2>2
        <4>2. MayWrite(row, cand[c], o.loaded, new)
          BY DEF MayWrite
        <4> HIDE DEF o, c
        <4> QED
          BY <4>1, <4>2, OutcomeRow
      <3> QED
        BY <2>2, <3>1
    <2>7. row.email # None /\ row.email.capitals => h.parsed
      BY <2>3
    <2>8. h.title # None => row.title = h.title
      BY <1>1, <2>2, <2>3, <2>6
    <2>9. h.skills \subseteq row.skills
      <3>1. CASE ~o.late
        <4>1. h.skills = g.skills \cup o.found.skills
          BY <3>1
        <4>2. cand[c].skills \cup o.found.skills \subseteq row.skills
          BY <1>1, <2>2, <2>6, <3>1
        <4> QED
          BY <2>3, <4>1, <4>2
      <3>2. CASE o.late
        BY <2>2, <2>3, <2>6, <3>2
      <3> QED
        BY <3>1, <3>2
    <2> HIDE DEF h, c, o
    <2>10. /\ cand'[c] = row /\ cand' = [cand EXCEPT ![c] = cand'[c]]
           /\ said'.profile[c] = h /\ said' = [said EXCEPT !.profile[c] = said'.profile[c]]
      BY <1>1, <2>1, <2>4 DEF RowsIInv, RowsTyped
    <2>11. \A d \in Ids \ {c} : cand[d] # None /\ cand[d].email # None =>
              cand[d].email # cand'[c].email
      BY <1>5, <2>10 DEF Collides, Found
    <2>12. /\ cand'[c] \in Row /\ said'.profile[c] \in Ghost
           /\ cand'[c].email # None /\ cand'[c].email.capitals => said'.profile[c].parsed
           /\ said'.profile[c].title # None => cand'[c].title = said'.profile[c].title
           /\ said'.profile[c].skills \subseteq cand'[c].skills
           /\ cand[c] # None /\ cand[c].archived => cand'[c].archived
      BY <2>5, <2>6, <2>7, <2>8, <2>9, <2>10
    <2>13. op[p] # None /\ op[p].kind \in {"create"} \cup OnCandidate /\ c = op[p].on
           /\ c \in Ids
      BY <1>1 DEF o, c
    <2>14. UNCHANGED <<born, tag, note, search, used>>
      BY <1>2, <2>1
    <2>15. SoundCommit(p)
      BY <2>1, <2>10, <2>11, <2>12, <2>13, <2>14 DEF SoundCommit
    <2> QED
      BY <2>15, CommitRows
  <1> QED
    BY <1>4, <1>5

LEMMA FinishArchiveRows ==
  ASSUME RowsIInv, NEW p \in Sessions, FinishArchive(p)
  PROVE  RowsIInv' /\ Kept
  <1> DEFINE o == op[p]
             c == o.on
             new == [o.loaded EXCEPT !.archived = TRUE]
             row == Written(cand[c], o.loaded, new)
             g == said.profile[c]
  <1>1. /\ o # None /\ o.kind = "archive" /\ o \in Operation /\ Loads(o)
        /\ c \in Ids /\ o.loaded \in Row
        /\ cand[c] \in Row /\ cand[c] # None
        /\ o.kind \in OnCandidate
    <2>1. o # None /\ o.kind = "archive" /\ o \in Operation /\ Loads(o)
          /\ o.kind \in OnCandidate
      BY DEF FinishArchive, RowsIInv, RowsTyped, OperationsSound, OnCandidate
    <2>2. c \in Ids /\ o.loaded \in Row
      BY <2>1, OperationFields
    <2>3. cand[c] # None
      BY <2>1 DEF Loads
    <2> QED
      BY <2>1, <2>2, <2>3 DEF RowsIInv, RowsTyped
  <1>2. /\ cand' = [cand EXCEPT ![c] = row] /\ Ended(p, c)
        /\ UNCHANGED <<born, tag, note, search, used, said>>
    BY DEF FinishArchive, Commits
  <1>3. /\ new \in Row /\ new.email = o.loaded.email /\ new.title = o.loaded.title
        /\ new.skills = o.loaded.skills /\ new.archived = TRUE
    BY <1>1 DEF Row
  <1> HIDE DEF new
  <1>4. /\ row \in Row /\ row.email = cand[c].email /\ row.title = cand[c].title
        /\ row.skills = cand[c].skills
        /\ row.archived = (IF new.archived = o.loaded.archived THEN cand[c].archived
                           ELSE new.archived)
    BY <1>1, <1>3, WrittenRow
  <1>5. /\ g \in Ghost /\ (g.title # None => cand[c].title = g.title)
        /\ g.skills \subseteq cand[c].skills
        /\ cand[c].email # None /\ cand[c].email.capitals => g.parsed
    BY <1>1 DEF RowsIInv, RowsTyped, EditsStand, AddressesSound
  <1>6. \A d \in Ids \ {c} : cand[d] # None /\ cand[d].email # None =>
           cand[d].email # row.email
    BY <1>1, <1>4 DEF RowsIInv, AddressesSound
  <1> HIDE DEF row
  <1>7. /\ cand'[c] = row /\ cand' = [cand EXCEPT ![c] = cand'[c]]
        /\ said' = [said EXCEPT !.profile[c] = said'.profile[c]] /\ said'.profile[c] = g
    BY <1>1, <1>2 DEF RowsIInv, RowsTyped
  <1>8. cand[c].archived => cand'[c].archived
    BY <1>3, <1>4, <1>7
  <1> HIDE DEF g
  <1>9. /\ cand'[c] \in Row
        /\ \A d \in Ids \ {c} : cand[d] # None /\ cand[d].email # None =>
               cand[d].email # cand'[c].email
    BY <1>4, <1>6, <1>7
  <1>10. /\ cand'[c].email # None /\ cand'[c].email.capitals => g.parsed
         /\ g.title # None => cand'[c].title = g.title
         /\ g.skills \subseteq cand'[c].skills
    BY <1>4, <1>5, <1>7
  <1>11. SoundCommit(p)
    BY <1>1, <1>2, <1>5, <1>7, <1>8, <1>9, <1>10 DEF SoundCommit
  <1> QED
    BY <1>11, CommitRows

\* An update, an archive or an enrichment loads the row.
LEMMA StartCandidateRows ==
  ASSUME RowsIInv, NEW p \in Sessions, StartUpdate(p) \/ StartArchive(p) \/ StartEnrich(p)
  PROVE  RowsIInv' /\ Kept
  <1>1. /\ used < MaxOps /\ used' = used + 1 /\ op' = [op EXCEPT ![p] = op'[p]]
        /\ op'[p] \in Operation /\ op'[p].kind \in OnCandidate
        /\ cand[op'[p].on] # None /\ op'[p].loaded = cand[op'[p].on]
        /\ UNCHANGED <<cand, born, tag, note, search, said>>
    <2>1. CASE StartUpdate(p)
      <3>1. PICK c \in Ids, edit \in Edits :
               /\ cand[c] # None
               /\ Starts(p, [kind |-> IF ChangesEmail(cand[c], edit) THEN "look" ELSE "update",
                             on |-> c, late |-> FALSE, loaded |-> cand[c], edit |-> edit])
               /\ UNCHANGED <<cand, born, tag, note, search, said>>
        BY <2>1 DEF StartUpdate
      <3> DEFINE o == [kind |-> IF ChangesEmail(cand[c], edit) THEN "look" ELSE "update",
                       on |-> c, late |-> FALSE, loaded |-> cand[c], edit |-> edit]
      <3>2. o \in Operation /\ o.kind \in OnCandidate /\ o.on = c /\ o.loaded = cand[c]
        BY <3>1 DEF RowsIInv, RowsTyped, Operation, OnCandidate
      <3>3. used < MaxOps /\ used' = used + 1 /\ op' = [op EXCEPT ![p] = o]
        BY <3>1 DEF Starts
      <3> HIDE DEF o
      <3>4. op'[p] = o
        BY <3>3 DEF RowsIInv, RowsTyped
      <3> QED
        BY <3>1, <3>2, <3>3, <3>4
    <2>2. CASE StartArchive(p)
      <3>1. PICK c \in Ids :
               /\ cand[c] # None
               /\ Starts(p, [kind |-> "archive", on |-> c, late |-> FALSE, loaded |-> cand[c]])
               /\ UNCHANGED <<cand, born, tag, note, search, said>>
        BY <2>2 DEF StartArchive
      <3> DEFINE o == [kind |-> "archive", on |-> c, late |-> FALSE, loaded |-> cand[c]]
      <3>2. o \in Operation /\ o.kind \in OnCandidate /\ o.on = c /\ o.loaded = cand[c]
        BY <3>1 DEF RowsIInv, RowsTyped, Operation, OnCandidate
      <3>3. used < MaxOps /\ used' = used + 1 /\ op' = [op EXCEPT ![p] = o]
        BY <3>1 DEF Starts
      <3> HIDE DEF o
      <3>4. op'[p] = o
        BY <3>3 DEF RowsIInv, RowsTyped
      <3> QED
        BY <3>1, <3>2, <3>3, <3>4
    <2>3. CASE StartEnrich(p)
      <3>1. PICK c \in Ids, found \in Resumes :
               /\ cand[c] # None
               /\ Starts(p, [kind |-> "enrich", on |-> c, late |-> FALSE,
                             loaded |-> cand[c], found |-> found])
               /\ UNCHANGED <<cand, born, tag, note, search, said>>
        BY <2>3 DEF StartEnrich
      <3> DEFINE o == [kind |-> "enrich", on |-> c, late |-> FALSE,
                       loaded |-> cand[c], found |-> found]
      <3>2. o \in Operation /\ o.kind \in OnCandidate /\ o.on = c /\ o.loaded = cand[c]
        BY <3>1 DEF RowsIInv, RowsTyped, Operation, OnCandidate
      <3>3. used < MaxOps /\ used' = used + 1 /\ op' = [op EXCEPT ![p] = o]
        BY <3>1 DEF Starts
      <3> HIDE DEF o
      <3>4. op'[p] = o
        BY <3>3 DEF RowsIInv, RowsTyped
      <3> QED
        BY <3>1, <3>2, <3>3, <3>4
    <2> QED
      BY <2>1, <2>2, <2>3
  <1>2. op'[p].kind \notin {"create", "tag"} \cup OnNote \cup OnSearch
    BY <1>1 DEF OnCandidate, OnNote, OnSearch
  <1>3. Loads(op[p])'
    BY <1>1, <1>2 DEF Loads, OnSearch
  <1> QED
    BY <1>1, <1>2, <1>3, StartRows

\* The duplicate lookup lets the update go on or refuses it.
LEMMA LookUpRows ==
  ASSUME RowsIInv, NEW p \in Sessions, LookUp(p)
  PROVE  RowsIInv' /\ Kept
  <1> DEFINE o == op[p]
  <1>1. /\ o # None /\ o.kind = "look" /\ o \in Operation /\ Loads(o)
        /\ UNCHANGED <<cand, born, tag, note, search, used, said>>
    BY DEF LookUp, RowsIInv, RowsTyped, OperationsSound
  <1>2. tag' \in [Ids -> 0..MaxOps] /\ \A c \in Ids : tag'[c] # 0 => cand[c] # None
    BY <1>1 DEF RowsIInv, RowsTyped
  <1>3. CASE op' = [op EXCEPT ![p] = None]
    BY <1>1, <1>2, <1>3, EndRows
  <1>4. CASE op' = [op EXCEPT ![p] = [@ EXCEPT !.kind = "update"]]
    <2>1. op'[p] = [o EXCEPT !.kind = "update"]
      BY <1>4 DEF RowsIInv, RowsTyped
    <2>2. /\ op'[p] \in Operation /\ op'[p].kind = "update" /\ op'[p].on = o.on
          /\ op'[p].late = o.late /\ op'[p].loaded = o.loaded
      BY <1>1, <2>1 DEF Operation, OnTag
    <2>3. op' = [op EXCEPT ![p] = op'[p]]
      BY <1>4, <2>1
    <2>4. cand[o.on] # None /\ (~o.late => o.loaded = cand[o.on])
      BY <1>1 DEF Loads, OnCandidate
    <2>5. Loads(op[p])'
      <3>1. "update" \notin OnNote /\ "update" \notin OnSearch
        BY DEF OnNote, OnSearch
      <3> QED
        BY <1>1, <2>2, <2>4, <3>1 DEF Loads
    <2>6. /\ born' \in Nat /\ born <= born' /\ born' \in Initial..MaxCandidates
          /\ used' \in 0..MaxOps
      <3>1. born' = born /\ born \in Initial..MaxCandidates /\ used' = used
            /\ used \in 0..MaxOps
        BY <1>1 DEF RowsIInv, RowsTyped
      <3> QED
        BY <3>1, PoolAssumption
    <2>7. OperationsSound' /\ op' \in [Sessions -> Operation \cup {None}]
      BY <1>1, <2>2, <2>3, <2>5, <2>6, StepOps DEF RowsIInv
    <2> QED
      BY <1>1, <1>2, <2>6, <2>7, StillRows
  <1> QED
    BY <1>3, <1>4 DEF LookUp

-----------------------------------------------------------------------------
(* The steps on tags, notes and saved searches.                            *)

LEMMA StartTagRows ==
  ASSUME RowsIInv, NEW p \in Sessions, StartTag(p) \/ StartUntag(p)
  PROVE  RowsIInv' /\ Kept
  <1>1. /\ used < MaxOps /\ used' = used + 1 /\ op' = [op EXCEPT ![p] = op'[p]]
        /\ op'[p] \in Operation /\ op'[p].kind \in OnTag
        /\ cand[op'[p].of] # None
        /\ UNCHANGED <<cand, born, tag, note, search, said>>
    <2>1. CASE StartTag(p)
      <3>1. PICK c \in Ids :
               /\ cand[c] # None
               /\ Starts(p, [kind |-> "tag", on |-> 0, late |-> FALSE,
                             of |-> c, id |-> used + 1])
               /\ UNCHANGED <<cand, born, tag, note, search, said>>
        BY <2>1 DEF StartTag
      <3> DEFINE o == [kind |-> "tag", on |-> 0, late |-> FALSE, of |-> c, id |-> used + 1]
      <3>2. used < MaxOps /\ used' = used + 1 /\ op' = [op EXCEPT ![p] = o]
        BY <3>1 DEF Starts
      <3>3. used + 1 \in 1..MaxOps
        BY <3>2, PoolAssumption DEF RowsIInv, RowsTyped
      <3>4. o \in Operation /\ o.kind \in OnTag /\ o.of = c
        BY <3>3 DEF Operation, OnTag
      <3> HIDE DEF o
      <3>5. op'[p] = o
        BY <3>2 DEF RowsIInv, RowsTyped
      <3> QED
        BY <3>1, <3>2, <3>4, <3>5
    <2>2. CASE StartUntag(p)
      <3>1. PICK c \in Ids :
               /\ HasTag(c)
               /\ Starts(p, [kind |-> "untag", on |-> 0, late |-> FALSE, of |-> c,
                             id |-> tag[c]])
               /\ UNCHANGED <<cand, born, tag, note, search, said>>
        BY <2>2 DEF StartUntag
      <3> DEFINE o == [kind |-> "untag", on |-> 0, late |-> FALSE, of |-> c, id |-> tag[c]]
      <3>2. used < MaxOps /\ used' = used + 1 /\ op' = [op EXCEPT ![p] = o]
        BY <3>1 DEF Starts
      <3>3. tag[c] \in 1..MaxOps /\ cand[c] # None
        <4>1. tag[c] \in 0..MaxOps /\ tag[c] # 0 /\ cand[c] # None
          BY <3>1 DEF HasTag, RowsIInv, RowsTyped
        <4> QED
          BY <4>1, PoolAssumption
      <3>4. o \in Operation /\ o.kind \in OnTag /\ o.of = c
        BY <3>3 DEF Operation, OnTag
      <3> HIDE DEF o
      <3>5. op'[p] = o
        BY <3>2 DEF RowsIInv, RowsTyped
      <3> QED
        BY <3>1, <3>2, <3>3, <3>4, <3>5
    <2> QED
      BY <2>1, <2>2
  <1>2. op'[p].kind \notin {"create", "edit search"} \cup OnCandidate \cup OnNote \cup OnSearch
    BY <1>1 DEF OnTag, OnCandidate, OnNote, OnSearch
  <1>3. Loads(op[p])'
    BY <1>1, <1>2 DEF Loads
  <1> QED
    BY <1>1, <1>2, <1>3, StartRows

LEMMA FinishTagRows ==
  ASSUME RowsIInv, NEW p \in Sessions, FinishTag(p) \/ FinishUntag(p)
  PROVE  RowsIInv' /\ Kept
  <1>1. UNCHANGED <<born, used>>
    BY DEF FinishTag, FinishUntag
  <1>2. CASE GivesUp(p)
    BY <1>1, <1>2, GivesUpRows
  <1>3. CASE op[p] # None /\ op[p].kind = "tag" /\ Tags(p, [tag EXCEPT ![op[p].of] = op[p].id])
    <2>1. op[p].of \in Ids /\ op[p].id \in 1..MaxOps /\ cand[op[p].of] # None
      <3>1. op[p] \in Operation /\ Loads(op[p])
        BY <1>3 DEF RowsIInv, RowsTyped, OperationsSound
      <3> QED
        BY <1>3, <3>1, OperationFields DEF Loads, OnTag
    <2>2. tag' \in [Ids -> 0..MaxOps] /\ \A c \in Ids : tag'[c] # 0 => cand[c] # None
      <3>1. tag' = [tag EXCEPT ![op[p].of] = op[p].id]
        BY <1>3 DEF Tags
      <3>2. op[p].id \in 0..MaxOps
        BY <2>1, PoolAssumption
      <3> QED
        BY <2>1, <3>1, <3>2 DEF RowsIInv, RowsTyped
    <2> QED
      BY <1>1, <1>3, <2>2, EndRows DEF Tags
  <1>4. CASE op[p] # None /\ op[p].kind = "untag" /\ Tags(p, Without(op[p].id))
    <2>1. tag' \in [Ids -> 0..MaxOps] /\ \A c \in Ids : tag'[c] # 0 => cand[c] # None
      <3>1. tag' = Without(op[p].id) /\ 0 \in 0..MaxOps
        BY <1>4, PoolAssumption DEF Tags
      <3> QED
        BY <3>1 DEF Without, RowsIInv, RowsTyped
    <2> QED
      BY <1>1, <1>4, <2>1, EndRows DEF Tags
  <1> QED
    BY <1>2, <1>3, <1>4 DEF FinishTag, FinishUntag

\* What the write of a note's row must respect.
SoundNote(n) ==
    /\ n \in Notes /\ UNCHANGED <<cand, born, tag, search>>
    /\ note' = [note EXCEPT ![n] = note'[n]] /\ note'[n] \in NoteRow
    /\ said' = [said EXCEPT !.private[n] = said'.private[n]]
    /\ said'.private[n] \in BOOLEAN \cup {None}
    /\ said'.private[n] # None => note'[n].private = said'.private[n]
    /\ note[n] # None /\ note[n].archived => note'[n].archived

LEMMA NoteRows ==
  ASSUME RowsIInv, NEW n \in Notes, SoundNote(n), OperationsSound',
         op' \in [Sessions -> Operation \cup {None}], used' \in 0..MaxOps
  PROVE  RowsIInv' /\ Kept
  <1>1. note'[n] # None /\ \A m \in Notes \ {n} : note'[m] = note[m]
    BY ValuesAssumption DEF SoundNote, RowsIInv, RowsTyped
  <1>2. /\ said'.profile = said.profile /\ said'.shared = said.shared
        /\ \A m \in Notes \ {n} : said'.private[m] = said.private[m]
        /\ said' \in [profile : [Ids -> Ghost], private : [Notes -> BOOLEAN \cup {None}],
                      shared : [Searches -> BOOLEAN \cup {None}]]
    BY DEF SoundNote, RowsIInv, RowsTyped
  <1>3. RowsTyped'
    BY <1>2 DEF SoundNote, RowsIInv, RowsTyped
  <1>4. AddressesSound'
    BY <1>2 DEF SoundNote, RowsIInv, AddressesSound
  <1>5. SaidOfRows'
    BY <1>1, <1>2 DEF SoundNote, RowsIInv, SaidOfRows
  <1>6. EditsStand'
    <2>1. ASSUME NEW m \in Notes, said'.private[m] # None
          PROVE  note'[m].private = said'.private[m]
      <3>1. CASE m = n
        BY <2>1, <3>1 DEF SoundNote
      <3>2. CASE m # n
        BY <1>1, <1>2, <2>1, <3>2 DEF RowsIInv, EditsStand
      <3> QED
        BY <3>1, <3>2
    <2> QED
      BY <1>2, <2>1 DEF SoundNote, RowsIInv, EditsStand
  <1>7. Kept
    BY <1>1 DEF SoundNote, Kept
  <1> QED
    BY <1>3, <1>4, <1>5, <1>6, <1>7 DEF RowsIInv

\* What the write of a search's row must respect.
SoundSearch(q) ==
    /\ q \in Searches /\ UNCHANGED <<cand, born, tag, note>>
    /\ search' = [search EXCEPT ![q] = search'[q]] /\ search'[q] \in SearchRow
    /\ said' = [said EXCEPT !.shared[q] = said'.shared[q]]
    /\ said'.shared[q] \in BOOLEAN \cup {None}
    /\ said'.shared[q] # None => search'[q].shared = said'.shared[q]
    /\ search[q] # None /\ search[q].deleted => search'[q].deleted

LEMMA SearchRows ==
  ASSUME RowsIInv, NEW q \in Searches, SoundSearch(q), OperationsSound',
         op' \in [Sessions -> Operation \cup {None}], used' \in 0..MaxOps
  PROVE  RowsIInv' /\ Kept
  <1>1. search'[q] # None /\ \A r \in Searches \ {q} : search'[r] = search[r]
    BY ValuesAssumption DEF SoundSearch, RowsIInv, RowsTyped
  <1>2. /\ said'.profile = said.profile /\ said'.private = said.private
        /\ \A r \in Searches \ {q} : said'.shared[r] = said.shared[r]
        /\ said' \in [profile : [Ids -> Ghost], private : [Notes -> BOOLEAN \cup {None}],
                      shared : [Searches -> BOOLEAN \cup {None}]]
    BY DEF SoundSearch, RowsIInv, RowsTyped
  <1>3. RowsTyped'
    BY <1>2 DEF SoundSearch, RowsIInv, RowsTyped
  <1>4. AddressesSound'
    BY <1>2 DEF SoundSearch, RowsIInv, AddressesSound
  <1>5. SaidOfRows'
    BY <1>1, <1>2 DEF SoundSearch, RowsIInv, SaidOfRows
  <1>6. EditsStand'
    <2>1. ASSUME NEW r \in Searches, said'.shared[r] # None
          PROVE  search'[r].shared = said'.shared[r]
      <3>1. CASE r = q
        BY <2>1, <3>1 DEF SoundSearch
      <3>2. CASE r # q
        BY <1>1, <1>2, <2>1, <3>2 DEF RowsIInv, EditsStand
      <3> QED
        BY <3>1, <3>2
    <2> QED
      BY <1>2, <2>1 DEF SoundSearch, RowsIInv, EditsStand
  <1>7. Kept
    BY <1>1 DEF SoundSearch, Kept
  <1> QED
    BY <1>3, <1>4, <1>5, <1>6, <1>7 DEF RowsIInv

\* A new note or search: nobody has loaded it.
LEMMA NewRowOps ==
  ASSUME RowsIInv, CreateNote \/ CreateSearch
  PROVE  /\ OperationsSound' /\ op' \in [Sessions -> Operation \cup {None}]
         /\ used' \in 0..MaxOps
  <1>1. used' = used + 1 /\ used < MaxOps /\ op' = op /\ cand' = cand /\ born' = born
    BY DEF CreateNote, CreateSearch
  <1>2. used' \in 0..MaxOps
    BY <1>1, PoolAssumption DEF RowsIInv, RowsTyped
  <1>3. /\ \A n \in Notes : note[n] # None => note'[n] = note[n]
        /\ \A q \in Searches : search[q] # None => search'[q] = search[q]
    BY DEF CreateNote, CreateSearch, RowsIInv, RowsTyped
  <1>4. ASSUME NEW p \in Sessions, op[p] # None PROVE Loads(op[p])'
    <2>1. op[p] \in Operation /\ Loads(op[p])
      BY <1>4 DEF RowsIInv, RowsTyped, OperationsSound
    <2>2. op[p].kind \in OnNote => op[p].on \in Notes
      BY <2>1, OperationFields
    <2>3. op[p].kind \in OnSearch => op[p].on \in Searches
      BY <2>1, OperationFields
    <2> QED
      BY <1>1, <1>3, <2>1, <2>2, <2>3 DEF Loads, OnSearch
  <1> QED
    BY <1>1, <1>2, <1>4 DEF RowsIInv, RowsTyped, OperationsSound

LEMMA CreateNoteRows ==
  ASSUME RowsIInv, CreateNote
  PROVE  RowsIInv' /\ Kept
  <1>1. PICK n \in Notes, u \in Users, private \in BOOLEAN :
          /\ note[n] = None
          /\ note' = [note EXCEPT ![n] =
                        [author |-> u, private |-> private, archived |-> FALSE]]
          /\ said' = [said EXCEPT !.private[n] = private]
          /\ UNCHANGED <<cand, born, tag, search>>
    BY DEF CreateNote
  <1> DEFINE row == [author |-> u, private |-> private, archived |-> FALSE]
  <1>2. row \in NoteRow /\ row.private = private
    BY DEF NoteRow
  <1> HIDE DEF row
  <1>3. note' = [note EXCEPT ![n] = row]
    BY <1>1 DEF row
  <1>4. note'[n] = row /\ said'.private[n] = private
    BY <1>1, <1>3 DEF RowsIInv, RowsTyped
  <1>5. SoundNote(n)
    BY <1>1, <1>2, <1>3, <1>4 DEF SoundNote
  <1> QED
    BY <1>5, NewRowOps, NoteRows

LEMMA CreateSearchRows ==
  ASSUME RowsIInv, CreateSearch
  PROVE  RowsIInv' /\ Kept
  <1>1. PICK q \in Searches, u \in Users, shared \in BOOLEAN :
          /\ search[q] = None
          /\ search' = [search EXCEPT ![q] =
                          [creator |-> u, shared |-> shared, deleted |-> FALSE]]
          /\ said' = [said EXCEPT !.shared[q] = shared]
          /\ UNCHANGED <<cand, born, tag, note>>
    BY DEF CreateSearch
  <1> DEFINE row == [creator |-> u, shared |-> shared, deleted |-> FALSE]
  <1>2. row \in SearchRow /\ row.shared = shared
    BY DEF SearchRow
  <1> HIDE DEF row
  <1>3. search' = [search EXCEPT ![q] = row]
    BY <1>1 DEF row
  <1>4. search'[q] = row /\ said'.shared[q] = shared
    BY <1>1, <1>3 DEF RowsIInv, RowsTyped
  <1>5. SoundSearch(q)
    BY <1>1, <1>2, <1>3, <1>4 DEF SoundSearch
  <1> QED
    BY <1>5, NewRowOps, SearchRows

\* An edit or an archive of a note, an edit or a delete of a search loads the row.
LEMMA StartNoteRows ==
  ASSUME RowsIInv, NEW p \in Sessions,
         \/ StartNoteEdit(p) \/ StartNoteArchive(p)
         \/ StartSearchEdit(p) \/ StartSearchDelete(p)
  PROVE  RowsIInv' /\ Kept
  <1>1. /\ used < MaxOps /\ used' = used + 1 /\ op' = [op EXCEPT ![p] = op'[p]]
        /\ op'[p] \in Operation /\ op'[p].kind \in OnNote \cup OnSearch
        /\ op'[p].kind \in OnNote => note[op'[p].on] # None /\ op'[p].loaded = note[op'[p].on]
        /\ op'[p].kind \in OnSearch => search[op'[p].on] # None
        /\ op'[p].kind = "edit search" => op'[p].loaded = search[op'[p].on]
        /\ UNCHANGED <<cand, born, tag, note, search, said>>
    <2>1. CASE StartNoteEdit(p)
      <3>1. PICK n \in Notes, private \in BOOLEAN \cup {None} :
               /\ note[n] # None
               /\ Starts(p, [kind |-> "edit note", on |-> n, late |-> FALSE,
                             loaded |-> note[n], asked |-> private])
               /\ UNCHANGED <<cand, born, tag, note, search, said>>
        BY <2>1 DEF StartNoteEdit, Readable
      <3> DEFINE o == [kind |-> "edit note", on |-> n, late |-> FALSE,
                       loaded |-> note[n], asked |-> private]
      <3>2. o \in Operation /\ o.kind \in OnNote \ OnSearch /\ o.on = n /\ o.loaded = note[n]
            /\ o.kind # "edit search"
        BY <3>1 DEF RowsIInv, RowsTyped, Operation, OnNote, OnSearch
      <3>3. used < MaxOps /\ used' = used + 1 /\ op' = [op EXCEPT ![p] = o]
        BY <3>1 DEF Starts
      <3> HIDE DEF o
      <3>4. op'[p] = o
        BY <3>3 DEF RowsIInv, RowsTyped
      <3> QED
        BY <3>1, <3>2, <3>3, <3>4
    <2>2. CASE StartNoteArchive(p)
      <3>1. PICK n \in Notes :
               /\ note[n] # None
               /\ Starts(p, [kind |-> "archive note", on |-> n, late |-> FALSE,
                             loaded |-> note[n]])
               /\ UNCHANGED <<cand, born, tag, note, search, said>>
        BY <2>2 DEF StartNoteArchive, Readable
      <3> DEFINE o == [kind |-> "archive note", on |-> n, late |-> FALSE, loaded |-> note[n]]
      <3>2. o \in Operation /\ o.kind \in OnNote \ OnSearch /\ o.on = n /\ o.loaded = note[n]
            /\ o.kind # "edit search"
        BY <3>1 DEF RowsIInv, RowsTyped, Operation, OnNote, OnSearch
      <3>3. used < MaxOps /\ used' = used + 1 /\ op' = [op EXCEPT ![p] = o]
        BY <3>1 DEF Starts
      <3> HIDE DEF o
      <3>4. op'[p] = o
        BY <3>3 DEF RowsIInv, RowsTyped
      <3> QED
        BY <3>1, <3>2, <3>3, <3>4
    <2>3. CASE StartSearchEdit(p)
      <3>1. PICK q \in Searches, shared \in BOOLEAN \cup {None} :
               /\ search[q] # None
               /\ Starts(p, [kind |-> "edit search", on |-> q, late |-> FALSE,
                             loaded |-> search[q], asked |-> shared])
               /\ UNCHANGED <<cand, born, tag, note, search, said>>
        BY <2>3 DEF StartSearchEdit, MayChange
      <3> DEFINE o == [kind |-> "edit search", on |-> q, late |-> FALSE,
                       loaded |-> search[q], asked |-> shared]
      <3>2. o \in Operation /\ o.kind \in OnSearch \ OnNote /\ o.on = q
            /\ o.loaded = search[q]
        BY <3>1 DEF RowsIInv, RowsTyped, Operation, OnNote, OnSearch
      <3>3. used < MaxOps /\ used' = used + 1 /\ op' = [op EXCEPT ![p] = o]
        BY <3>1 DEF Starts
      <3> HIDE DEF o
      <3>4. op'[p] = o
        BY <3>3 DEF RowsIInv, RowsTyped
      <3> QED
        BY <3>1, <3>2, <3>3, <3>4
    <2>4. CASE StartSearchDelete(p)
      <3>1. PICK q \in Searches :
               /\ search[q] # None
               /\ Starts(p, [kind |-> "delete search", on |-> q, late |-> FALSE])
               /\ UNCHANGED <<cand, born, tag, note, search, said>>
        BY <2>4 DEF StartSearchDelete, MayChange
      <3> DEFINE o == [kind |-> "delete search", on |-> q, late |-> FALSE]
      <3>2. o \in Operation /\ o.kind \in OnSearch \ OnNote /\ o.on = q
            /\ o.kind # "edit search"
        BY <3>1 DEF RowsIInv, RowsTyped, Operation, OnNote, OnSearch
      <3>3. used < MaxOps /\ used' = used + 1 /\ op' = [op EXCEPT ![p] = o]
        BY <3>1 DEF Starts
      <3> HIDE DEF o
      <3>4. op'[p] = o
        BY <3>3 DEF RowsIInv, RowsTyped
      <3> QED
        BY <3>1, <3>2, <3>3, <3>4
    <2> QED
      BY <2>1, <2>2, <2>3, <2>4
  <1>2. op'[p].kind \notin {"create", "tag"} \cup OnCandidate
    BY <1>1 DEF OnCandidate, OnNote, OnSearch
  <1>3. Loads(op[p])'
    BY <1>1, <1>2 DEF Loads
  <1> QED
    BY <1>1, <1>2, <1>3, StartRows

LEMMA FinishNoteEditRows ==
  ASSUME RowsIInv, NEW p \in Sessions, FinishNoteEdit(p)
  PROVE  RowsIInv' /\ Kept
  <1> DEFINE o == op[p]
             n == o.on
             new == Reworded(o.loaded, o.asked)
             row == Written(note[n], o.loaded, new)
             k == Known(said.private[n], o, o.loaded.private)
  <1>1. /\ o # None /\ o \in Operation /\ n \in Notes /\ o.loaded \in NoteRow
        /\ note[n] \in NoteRow /\ (~o.late => o.loaded = note[n])
        /\ o.asked \in BOOLEAN \cup {None}
    <2>1. o # None /\ o.kind = "edit note" /\ o \in Operation /\ Loads(o)
      BY DEF FinishNoteEdit, RowsIInv, RowsTyped, OperationsSound
    <2>2. n \in Notes /\ o.loaded \in NoteRow /\ o.asked \in BOOLEAN \cup {None}
      BY <2>1, OperationFields DEF OnNote
    <2>3. note[n] # None /\ (~o.late => o.loaded = note[n])
      BY <2>1 DEF Loads, OnNote
    <2> QED
      BY <2>1, <2>2, <2>3 DEF RowsIInv, RowsTyped
  <1>2. /\ note' = [note EXCEPT ![n] = row] /\ Ended(p, n)
        /\ said' = [said EXCEPT !.private[n] = k]
        /\ UNCHANGED <<cand, born, tag, search, used>>
    BY DEF FinishNoteEdit
  <1>3. /\ new \in NoteRow /\ new.archived = o.loaded.archived
        /\ o.asked = None => new.private = o.loaded.private
        /\ o.asked # None => new.private = o.asked
    <2>1. CASE o.asked = None
      BY <1>1, <2>1 DEF Reworded
    <2>2. CASE o.asked # None
      <3>1. o.asked \in BOOLEAN /\ new = [o.loaded EXCEPT !.private = o.asked]
        BY <1>1, <2>2 DEF Reworded
      <3> QED
        BY <1>1, <2>2, <3>1 DEF NoteRow
    <2> QED
      BY <2>1, <2>2
  <1> HIDE DEF new
  <1>4. /\ row \in NoteRow /\ row.archived = note[n].archived
        /\ row.private = (IF new.private = o.loaded.private THEN note[n].private
                          ELSE new.private)
    BY <1>1, <1>3, WrittenNote
  <1>5. said.private[n] \in BOOLEAN \cup {None}
        /\ (said.private[n] # None => note[n].private = said.private[n])
    BY <1>1 DEF RowsIInv, RowsTyped, EditsStand
  <1>6. k \in BOOLEAN \cup {None}
        /\ (k # None => (IF new.private = o.loaded.private THEN note[n].private
                         ELSE new.private) = k)
    <2>1. ~o.late => o.loaded.private = note[n].private
      BY <1>1
    <2> HIDE DEF o, n
    <2>2. k \in BOOLEAN \cup {None}
      BY <1>1, <1>5 DEF Known
    <2>3. ASSUME k # None
          PROVE  (IF new.private = o.loaded.private THEN note[n].private ELSE new.private) = k
      BY <1>1, <1>3, <1>5, <2>1, <2>3 DEF Known
    <2> QED
      BY <2>2, <2>3
  <1> HIDE DEF row, k, o
  <1>7. /\ note'[n] = row /\ note' = [note EXCEPT ![n] = note'[n]]
        /\ said'.private[n] = k /\ said' = [said EXCEPT !.private[n] = said'.private[n]]
    BY <1>1, <1>2 DEF RowsIInv, RowsTyped
  <1>8. SoundNote(n)
    BY <1>1, <1>2, <1>4, <1>6, <1>7 DEF SoundNote
  <1>9. OperationsSound' /\ op' \in [Sessions -> Operation \cup {None}]
        /\ used' \in 0..MaxOps
    <2>1. /\ \A m \in Notes : (note[m] # None => note'[m] # None)
                              /\ (m # n => note'[m] = note[m])
          /\ used' \in 0..MaxOps
      BY <1>1, <1>2, <1>4, <1>7, ValuesAssumption DEF RowsIInv, RowsTyped
    <2>2. ASSUME NEW q \in Sessions \ {p}, op[q] # None, op[q].kind = "create"
          PROVE  cand'[op[q].on] = None
      BY <1>2, <2>2 DEF RowsIInv, OperationsSound, Loads
    <2> QED
      BY <1>2, <2>1, <2>2, EndedOps DEF RowsIInv
  <1> QED
    BY <1>1, <1>8, <1>9, NoteRows

LEMMA FinishNoteArchiveRows ==
  ASSUME RowsIInv, NEW p \in Sessions, FinishNoteArchive(p)
  PROVE  RowsIInv' /\ Kept
  <1> DEFINE o == op[p]
             n == o.on
             new == [o.loaded EXCEPT !.archived = TRUE]
             row == Written(note[n], o.loaded, new)
  <1>1. /\ o # None /\ o \in Operation /\ n \in Notes /\ o.loaded \in NoteRow
        /\ note[n] \in NoteRow
    <2>1. o # None /\ o.kind = "archive note" /\ o \in Operation /\ Loads(o)
      BY DEF FinishNoteArchive, RowsIInv, RowsTyped, OperationsSound
    <2>2. n \in Notes /\ o.loaded \in NoteRow
      BY <2>1, OperationFields DEF OnNote
    <2>3. note[n] # None
      BY <2>1 DEF Loads, OnNote
    <2> QED
      BY <2>1, <2>2, <2>3 DEF RowsIInv, RowsTyped
  <1>2. /\ note' = [note EXCEPT ![n] = row] /\ Ended(p, n)
        /\ UNCHANGED <<cand, born, tag, search, used, said>>
    BY DEF FinishNoteArchive
  <1>3. /\ new \in NoteRow /\ new.private = o.loaded.private /\ new.archived = TRUE
    BY <1>1 DEF NoteRow
  <1> HIDE DEF new
  <1>4. /\ row \in NoteRow /\ row.private = note[n].private
        /\ row.archived = (IF new.archived = o.loaded.archived THEN note[n].archived
                           ELSE new.archived)
    BY <1>1, <1>3, WrittenNote
  <1>5. note[n].archived => row.archived
    BY <1>3, <1>4
  <1>6. said.private[n] \in BOOLEAN \cup {None}
        /\ (said.private[n] # None => note[n].private = said.private[n])
    BY <1>1 DEF RowsIInv, RowsTyped, EditsStand
  <1> HIDE DEF row, o
  <1>7. /\ note'[n] = row /\ note' = [note EXCEPT ![n] = note'[n]]
        /\ said'.private[n] = said.private[n]
        /\ said' = [said EXCEPT !.private[n] = said'.private[n]]
    BY <1>1, <1>2 DEF RowsIInv, RowsTyped
  <1>8. SoundNote(n)
    BY <1>1, <1>2, <1>4, <1>5, <1>6, <1>7 DEF SoundNote
  <1>9. OperationsSound' /\ op' \in [Sessions -> Operation \cup {None}]
        /\ used' \in 0..MaxOps
    <2>1. /\ \A m \in Notes : (note[m] # None => note'[m] # None)
                              /\ (m # n => note'[m] = note[m])
          /\ used' \in 0..MaxOps
      BY <1>1, <1>2, <1>4, <1>7, ValuesAssumption DEF RowsIInv, RowsTyped
    <2>2. ASSUME NEW q \in Sessions \ {p}, op[q] # None, op[q].kind = "create"
          PROVE  cand'[op[q].on] = None
      BY <1>2, <2>2 DEF RowsIInv, OperationsSound, Loads
    <2> QED
      BY <1>2, <2>1, <2>2, EndedOps DEF RowsIInv
  <1> QED
    BY <1>1, <1>8, <1>9, NoteRows

LEMMA FinishSearchEditRows ==
  ASSUME RowsIInv, NEW p \in Sessions, FinishSearchEdit(p)
  PROVE  RowsIInv' /\ Kept
  <1> DEFINE o == op[p]
             n == o.on
             new == Reshared(o.loaded, o.asked)
             row == Written(search[n], o.loaded, new)
             k == Known(said.shared[n], o, o.loaded.shared)
  <1>0. UNCHANGED <<born, used>>
    BY DEF FinishSearchEdit
  <1>1. /\ o # None /\ o \in Operation /\ n \in Searches /\ o.loaded \in SearchRow
        /\ search[n] \in SearchRow /\ (~o.late => o.loaded = search[n])
        /\ o.asked \in BOOLEAN \cup {None}
    <2>1. o # None /\ o.kind = "edit search" /\ o \in Operation /\ Loads(o)
      BY DEF FinishSearchEdit, RowsIInv, RowsTyped, OperationsSound
    <2>2. n \in Searches /\ o.loaded \in SearchRow /\ o.asked \in BOOLEAN \cup {None}
      BY <2>1, OperationFields DEF OnSearch
    <2>3. search[n] # None /\ (~o.late => o.loaded = search[n])
      BY <2>1 DEF Loads, OnSearch
    <2> QED
      BY <2>1, <2>2, <2>3 DEF RowsIInv, RowsTyped
  <1>2. CASE search[n].deleted
    BY <1>0, <1>2, GivesUpRows DEF FinishSearchEdit
  <1>3. CASE ~search[n].deleted
    <2>1. /\ search' = [search EXCEPT ![n] = row] /\ Ended(p, n)
          /\ said' = [said EXCEPT !.shared[n] = k]
          /\ UNCHANGED <<cand, tag, note>>
      BY <1>3 DEF FinishSearchEdit
    <2>2. /\ new \in SearchRow /\ new.deleted = o.loaded.deleted
          /\ o.asked = None => new.shared = o.loaded.shared
          /\ o.asked # None => new.shared = o.asked
      <3>1. CASE o.asked = None
        BY <1>1, <3>1 DEF Reshared
      <3>2. CASE o.asked # None
        <4>1. o.asked \in BOOLEAN /\ new = [o.loaded EXCEPT !.shared = o.asked]
          BY <1>1, <3>2 DEF Reshared
        <4> QED
          BY <1>1, <3>2, <4>1 DEF SearchRow
      <3> QED
        BY <3>1, <3>2
    <2> HIDE DEF new
    <2>3. /\ row \in SearchRow /\ row.deleted = search[n].deleted
          /\ row.shared = (IF new.shared = o.loaded.shared THEN search[n].shared
                           ELSE new.shared)
      BY <1>1, <2>2, WrittenSearch
    <2>4. said.shared[n] \in BOOLEAN \cup {None}
          /\ (said.shared[n] # None => search[n].shared = said.shared[n])
      BY <1>1 DEF RowsIInv, RowsTyped, EditsStand
    <2>5. k \in BOOLEAN \cup {None}
          /\ (k # None => (IF new.shared = o.loaded.shared THEN search[n].shared
                           ELSE new.shared) = k)
      <3>1. ~o.late => o.loaded.shared = search[n].shared
        BY <1>1
      <3> HIDE DEF o, n
      <3>2. k \in BOOLEAN \cup {None}
        BY <1>1, <2>4 DEF Known
      <3>3. ASSUME k # None
            PROVE  (IF new.shared = o.loaded.shared THEN search[n].shared ELSE new.shared) = k
        BY <1>1, <2>2, <2>4, <3>1, <3>3 DEF Known
      <3> QED
        BY <3>2, <3>3
    <2> HIDE DEF row, k, o
    <2>6. /\ search'[n] = row /\ search' = [search EXCEPT ![n] = search'[n]]
          /\ said'.shared[n] = k /\ said' = [said EXCEPT !.shared[n] = said'.shared[n]]
      BY <1>1, <2>1 DEF RowsIInv, RowsTyped
    <2>7. SoundSearch(n)
      BY <1>0, <1>1, <2>1, <2>3, <2>5, <2>6 DEF SoundSearch
    <2>8. OperationsSound' /\ op' \in [Sessions -> Operation \cup {None}]
          /\ used' \in 0..MaxOps
      <3>1. /\ \A m \in Searches : (search[m] # None => search'[m] # None)
                                   /\ (m # n => search'[m] = search[m])
            /\ used' \in 0..MaxOps
        BY <1>0, <1>1, <2>1, <2>3, <2>6, ValuesAssumption DEF RowsIInv, RowsTyped
      <3>2. ASSUME NEW q \in Sessions \ {p}, op[q] # None, op[q].kind = "create"
            PROVE  cand'[op[q].on] = None
        BY <2>1, <3>2 DEF RowsIInv, OperationsSound, Loads
      <3> QED
        BY <1>0, <2>1, <3>1, <3>2, EndedOps DEF RowsIInv
    <2> QED
      BY <1>1, <2>7, <2>8, SearchRows
  <1> QED
    BY <1>2, <1>3

LEMMA FinishSearchDeleteRows ==
  ASSUME RowsIInv, NEW p \in Sessions, FinishSearchDelete(p)
  PROVE  RowsIInv' /\ Kept
  <1> DEFINE n == op[p].on
             row == [search[n] EXCEPT !.deleted = TRUE]
  <1>1. n \in Searches /\ search[n] \in SearchRow
    <2>1. op[p] \in Operation /\ Loads(op[p]) /\ op[p].kind = "delete search"
      BY DEF FinishSearchDelete, RowsIInv, RowsTyped, OperationsSound
    <2>2. n \in Searches /\ search[n] # None
      BY <2>1, OperationFields DEF Loads, OnSearch
    <2> QED
      BY <2>2 DEF RowsIInv, RowsTyped
  <1>2. /\ search' = [search EXCEPT ![n] = row] /\ Ended(p, n)
        /\ UNCHANGED <<cand, born, tag, note, used, said>>
    BY DEF FinishSearchDelete
  <1>3. row \in SearchRow /\ row.shared = search[n].shared /\ row.deleted = TRUE
    BY <1>1 DEF SearchRow
  <1>4. said.shared[n] \in BOOLEAN \cup {None}
        /\ (said.shared[n] # None => search[n].shared = said.shared[n])
    BY <1>1 DEF RowsIInv, RowsTyped, EditsStand
  <1> HIDE DEF row, n
  <1>5. /\ search'[n] = row /\ search' = [search EXCEPT ![n] = search'[n]]
        /\ said'.shared[n] = said.shared[n]
        /\ said' = [said EXCEPT !.shared[n] = said'.shared[n]]
    BY <1>1, <1>2 DEF RowsIInv, RowsTyped
  <1>6. SoundSearch(n)
    BY <1>1, <1>2, <1>3, <1>4, <1>5 DEF SoundSearch
  <1>7. OperationsSound' /\ op' \in [Sessions -> Operation \cup {None}]
        /\ used' \in 0..MaxOps
    <2>1. /\ \A m \in Searches : (search[m] # None => search'[m] # None)
                                 /\ (m # n => search'[m] = search[m])
          /\ used' \in 0..MaxOps
      BY <1>1, <1>2, <1>3, <1>5, ValuesAssumption DEF RowsIInv, RowsTyped
    <2>2. ASSUME NEW q \in Sessions \ {p}, op[q] # None, op[q].kind = "create"
          PROVE  cand'[op[q].on] = None
      BY <1>2, <2>2 DEF RowsIInv, OperationsSound, Loads
    <2> QED
      BY <1>2, <2>1, <2>2, EndedOps DEF RowsIInv
  <1> QED
    BY <1>1, <1>6, <1>7, SearchRows

-----------------------------------------------------------------------------
(* The theorems.                                                           *)

LEMMA InitIInv == Init => IInv
  <1> SUFFICES ASSUME Init PROVE IInv
    OBVIOUS
  <1>1. 0 \in 0..MaxOps /\ Initial \in Nat /\ Initial \in Initial..MaxCandidates
    BY PoolAssumption
  <1>2. Blank \in Row /\ Blank # None /\ Blank.email = None /\ Blank.title = None
    BY BlankRow, ValuesAssumption DEF Blank
  <1>3. [title |-> None, skills |-> {}, parsed |-> FALSE] \in Ghost
    BY DEF Ghost
  <1>4. /\ \A c \in Ids : cand[c] = IF c <= Initial THEN Blank ELSE None
        /\ \A c \in Ids : said.profile[c] = [title |-> None, skills |-> {}, parsed |-> FALSE]
        /\ \A p \in Sessions : op[p] = None
        /\ \A n \in Notes : said.private[n] = None
        /\ \A q \in Searches : said.shared[q] = None
    BY DEF Init
  <1>5. RowsTyped
    <2>1. said \in [profile : [Ids -> Ghost], private : [Notes -> BOOLEAN \cup {None}],
                    shared : [Searches -> BOOLEAN \cup {None}]]
      BY <1>3 DEF Init
    <2>2. cand \in [Ids -> Row \cup {None}]
      BY <1>2 DEF Init
    <2>3. \A c \in Ids : cand[c] # None => c <= born
      BY <1>4 DEF Init
    <2> QED
      BY <1>1, <2>1, <2>2, <2>3 DEF Init, RowsTyped
  <1>6. OperationsSound
    BY <1>4 DEF OperationsSound
  <1>7. AddressesSound
    BY <1>2, <1>4 DEF AddressesSound
  <1>8. SaidOfRows /\ EditsStand
    BY <1>4 DEF SaidOfRows, EditsStand
  <1> QED
    BY <1>5, <1>6, <1>7, <1>8, InitWalk, IInvParts DEF RowsIInv

LEMMA NextIInv == IInv /\ [Next]_vars => IInv' /\ (Kept \/ UNCHANGED vars)
  <1>1. ASSUME IInv, UNCHANGED vars PROVE IInv'
    <2>1. UNCHANGED <<cand, born, tag, note, search, op, walk, used, said>>
      BY <1>1 DEF vars
    <2>2. WalkIInv'
      BY <1>1, <2>1, WalkStill, IInvParts
    <2>3. RowsTyped'
      BY <1>1, <2>1, IInvParts DEF RowsIInv, RowsTyped
    <2>4. OperationsSound'
      BY <1>1, <2>1 DEF IInv, OperationsSound, Loads
    <2>5. AddressesSound' /\ SaidOfRows' /\ EditsStand'
      BY <1>1, <2>1 DEF IInv, AddressesSound, SaidOfRows, EditsStand
    <2> QED
      BY <2>2, <2>3, <2>4, <2>5, IInvParts DEF RowsIInv
  <1>2. ASSUME IInv, StartWalk \/ Page PROVE RowsIInv' /\ Kept /\ WalkIInv'
    <2>1. UNCHANGED <<cand, born, tag, note, search, op, used, said>>
      BY <1>2 DEF StartWalk, Page
    <2>2. RowsIInv
      BY <1>2, IInvParts
    <2>3. OperationsSound'
      BY <2>1, <2>2 DEF RowsIInv, OperationsSound, Loads
    <2>4. RowsTyped'
      BY <2>1, <2>2 DEF RowsIInv, RowsTyped
    <2>5. AddressesSound' /\ SaidOfRows' /\ EditsStand' /\ Kept
      BY <2>1, <2>2 DEF RowsIInv, AddressesSound, SaidOfRows, EditsStand, Kept
    <2>6. WalkIInv'
      BY <1>2, StartWalkWalk, PageWalk, IInvParts
    <2> QED
      BY <2>3, <2>4, <2>5, <2>6 DEF RowsIInv
  <1>3. ASSUME IInv, CreateNote \/ CreateSearch PROVE RowsIInv' /\ Kept /\ WalkIInv'
    <2>1. UNCHANGED <<cand, tag, walk>>
      BY <1>3 DEF CreateNote, CreateSearch
    <2> QED
      BY <1>3, <2>1, WalkStill, CreateNoteRows, CreateSearchRows, IInvParts
  <1>4. ASSUME IInv, NEW p \in Sessions,
               \/ StartCreate(p) \/ StartUpdate(p) \/ LookUp(p) \/ StartArchive(p)
               \/ StartEnrich(p) \/ StartTag(p) \/ StartUntag(p)
               \/ StartNoteEdit(p) \/ FinishNoteEdit(p)
               \/ StartNoteArchive(p) \/ FinishNoteArchive(p)
               \/ StartSearchEdit(p) \/ FinishSearchEdit(p)
               \/ StartSearchDelete(p) \/ FinishSearchDelete(p)
        PROVE  RowsIInv' /\ Kept /\ WalkIInv'
    <2>1. UNCHANGED <<cand, tag, walk>>
      BY <1>4 DEF StartCreate, StartUpdate, LookUp, StartArchive, StartEnrich, StartTag,
                  StartUntag, StartNoteEdit, FinishNoteEdit, StartNoteArchive,
                  FinishNoteArchive, StartSearchEdit, FinishSearchEdit,
                  StartSearchDelete, FinishSearchDelete, GivesUp
    <2>2. WalkIInv'
      BY <1>4, <2>1, WalkStill, IInvParts
    <2>3. RowsIInv' /\ Kept
      BY <1>4, IInvParts, StartCreateRows, StartCandidateRows, LookUpRows, StartTagRows,
         StartNoteRows, FinishNoteEditRows, FinishNoteArchiveRows, FinishSearchEditRows,
         FinishSearchDeleteRows
    <2> QED
      BY <2>2, <2>3
  <1>5. ASSUME IInv, NEW p \in Sessions,
               \/ FinishCreate(p) \/ FinishUpdate(p) \/ FinishArchive(p)
               \/ FinishEnrich(p) \/ FinishTag(p) \/ FinishUntag(p)
        PROVE  RowsIInv' /\ Kept /\ WalkIInv'
    <2>1. UNCHANGED <<cand, tag, walk>> \/ Follow(cand', tag')
      <3>1. ASSUME NEW c, NEW row, Commits(p, c, row) PROVE Follow(cand', tag')
        BY <3>1 DEF Commits, Follow
      <3>2. ASSUME NEW tags, Tags(p, tags) PROVE Follow(cand', tag')
        BY <3>2 DEF Tags, Follow
      <3>3. GivesUp(p) => UNCHANGED <<cand, tag, walk>>
        BY DEF GivesUp
      <3> QED
        BY <1>5, <3>1, <3>2, <3>3 DEF FinishCreate, FinishUpdate, FinishArchive,
           FinishEnrich, FinishTag, FinishUntag
    <2>2. WalkIInv'
      BY <1>5, <2>1, WalkStill, FollowWalk, IInvParts
    <2>3. RowsIInv' /\ Kept
      BY <1>5, IInvParts, FinishCreateRows, FinishUpdateRows, FinishArchiveRows,
         FinishEnrichRows, FinishTagRows
    <2> QED
      BY <2>2, <2>3
  <1>6. ASSUME IInv, Next PROVE RowsIInv' /\ Kept /\ WalkIInv'
    BY <1>2, <1>3, <1>4, <1>5, <1>6 DEF Next
  <1> QED
    BY <1>1, <1>6, IInvParts

\* The inductive invariant holds in every reachable state, for any number of candidates,
\* sessions, operations and pages.
THEOREM IInvHolds == Spec => []IInv
  <1>1. IInv /\ [Next]_vars => IInv'
    BY NextIInv
  <1> QED
    BY <1>1, InitIInv, PTL DEF Spec

\* Every variable stays in its type: tags are on candidates that exist, the cursor is at a
\* multiple of the page size, and an operation holds what its kind loads.
THEOREM TypeCorrect == Spec => []TypeOK
  <1>1. IInv => TypeOK
    BY DEF IInv
  <1> QED
    BY <1>1, IInvHolds, PTL

\* Two candidates have the same address, up to case, only when a parse stored one of them
\* with capitals: neither the duplicate lookup nor the unique index compares it then.
THEOREM DuplicatesNeedAParse == Spec => []EmailsTellApart
  <1>1. ASSUME IInv, NEW c \in Ids, NEW d \in Ids, c # d, cand[c] # None, cand[d] # None,
               cand[c].email # None, cand[d].email # None,
               cand[c].email.address = cand[d].email.address
        PROVE  \E x \in {c, d} : said.profile[x].parsed /\ cand[x].email.capitals
    <2>1. cand[c].email \in Spelling /\ cand[d].email \in Spelling
      BY <1>1 DEF IInv, TypeOK, Row
    <2>2. cand[c].email # cand[d].email
      BY <1>1 DEF IInv, AddressesSound
    <2>3. cand[c].email.capitals # cand[d].email.capitals
      BY <1>1, <2>1, <2>2, SameSpelling
    <2>4. cand[c].email.capitals \in BOOLEAN /\ cand[d].email.capitals \in BOOLEAN
      BY <2>1 DEF Spelling
    <2>5. cand[c].email.capitals \/ cand[d].email.capitals
      BY <2>3, <2>4
    <2> QED
      BY <1>1, <2>5 DEF IInv, AddressesSound
  <1>2. IInv => EmailsTellApart
    BY <1>1 DEF EmailsTellApart
  <1> QED
    BY <1>2, IInvHolds, PTL

\* What a recruiter gave stays until another request changes it, whatever else is saved
\* meanwhile on the same row, unless the writer was late.
THEOREM EditsAreKept == Spec => []EditsStand
  <1>1. IInv => EditsStand
    BY DEF IInv
  <1> QED
    BY <1>1, IInvHolds, PTL

\* No save brings an archived candidate or note or a deleted search back.
THEOREM NothingComesBack == Spec => ArchivedStays
  <1>1. IInv /\ [Next]_vars => [Kept]_vars
    BY NextIInv
  <1>2. Spec => [][Kept]_vars
    BY <1>1, IInvHolds, PTL DEF Spec
  <1> QED
    BY <1>2, PTL DEF ArchivedStays, Kept

\* A client that follows the cursors to the end misses at most one of the candidates listed
\* all along for each that left the list meanwhile, and sees at most one twice for each
\* that entered it.
THEOREM WalkMissesFew == Spec => []WalkAccounts
  <1>1. IInv => WalkAccounts
    BY DEF IInv
  <1> QED
    BY <1>1, IInvHolds, PTL
=============================================================================
