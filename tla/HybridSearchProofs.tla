------------------------- MODULE HybridSearchProofs --------------------------
(***************************************************************************)
(* Theorems about a hybrid search and about the scoring of its results, for  *)
(* every set of chunks, every k and any number of versions of a row.         *)
(***************************************************************************)
EXTENDS Relevance, FiniteSetTheorems, TLAPS

-----------------------------------------------------------------------------
(* Numbers. *)

(* Every set of natural numbers that is not empty has a least element.       *)
LEMMA LeastNumber ==
  ASSUME NEW S, S \subseteq Nat, S # {}
  PROVE  \E m \in S : \A n \in S : m <= n
<1> DEFINE R == OpToRel(<, Nat)
<1>1. IsWellFoundedOn(R, Nat)
  BY NatLessThanWellFounded
<1>2. PICK m \in S : \A n \in S : <<n, m>> \notin R
  <2> HIDE DEF R
  <2> QED BY <1>1, WFMin
<1>3. \A n \in S : <<n, m>> \notin R => m <= n
  BY DEF OpToRel
<1> QED BY <1>2, <1>3

(* One with an upper bound has a greatest. *)
LEMMA GreatestNumber ==
  ASSUME NEW b \in Nat, NEW S, S \subseteq 0 .. b, S # {}
  PROVE  \E m \in S : \A n \in S : n <= m
<1> DEFINE U == {u \in Nat : \A s \in S : s <= u}
<1>1. U \subseteq Nat /\ b \in U
  OBVIOUS
<1>2. PICK u \in U : \A v \in U : u <= v
  <2> HIDE DEF U
  <2> QED BY <1>1, LeastNumber
<1>3. ASSUME u \notin S PROVE FALSE
  <2>1. \A s \in S : s \in Nat /\ s < u
    BY <1>2, <1>3
  <2>2. u - 1 \in U
    <3>1. PICK s \in S : TRUE
      OBVIOUS
    <3>2. u - 1 \in Nat /\ \A t \in S : t <= u - 1
      BY <2>1, <3>1, <1>2
    <3> QED BY <3>2
  <2> QED BY <2>2, <1>2
<1> QED BY <1>2, <1>3

(* Induction, over a set instead of a predicate: what holds of 0, and of n+1  *)
(* if it holds of n, holds up to N.                                          *)
LEMMA UpTo ==
  ASSUME NEW N \in Nat, NEW S, 0 \in S,
         \A n \in 0 .. N : n < N /\ n \in S => n + 1 \in S
  PROVE  0 .. N \subseteq S
<1> DEFINE Missing == {n \in 0 .. N : n \notin S}
<1>1. SUFFICES ASSUME Missing # {} PROVE FALSE
  OBVIOUS
<1>2. PICK m \in Missing : \A n \in Missing : m <= n
  <2>1. Missing \subseteq Nat
    OBVIOUS
  <2> HIDE DEF Missing
  <2> QED BY <1>1, <2>1, LeastNumber
<1>3. m # 0 /\ m - 1 \in 0 .. N /\ m - 1 < N
  OBVIOUS
<1>4. m - 1 \in S
  BY <1>2, <1>3
<1> QED BY <1>3, <1>4

LEMMA InInterval ==
  ASSUME NEW n \in Nat, NEW T \in SUBSET (1 .. n)
  PROVE  IsFiniteSet(T) /\ Cardinality(T) \in Nat
<1>1. IsFiniteSet(1 .. n)
  BY FS_Interval
<1>2. IsFiniteSet(T)
  BY <1>1, FS_Subset
<1> QED BY <1>2, FS_CardinalityType

LEMMA CountUp ==
  ASSUME NEW n \in Nat
  PROVE  IsFiniteSet(1 .. n) /\ Cardinality(1 .. n) = n
<1>1. 1 \in Int /\ n \in Int
  OBVIOUS
<1> QED BY <1>1, FS_Interval

(* A finite set of natural numbers can be gone through in order.             *)
LEMMA OrderExists ==
  ASSUME NEW N \in Nat, NEW S \in SUBSET (1 .. N)
  PROVE  /\ InOrder(S) \in [1 .. Cardinality(S) -> S]
         /\ \A i, j \in 1 .. Cardinality(S) : i < j => InOrder(S)[i] < InOrder(S)[j]
         /\ \A i, j \in 1 .. Cardinality(S) : InOrder(S)[i] = InOrder(S)[j] => i = j
         /\ \A c \in S : \E i \in 1 .. Cardinality(S) : InOrder(S)[i] = c
<1> DEFINE Ordered(T) == \E p \in [1 .. Cardinality(T) -> T] :
                           \A i, j \in DOMAIN p : i < j => p[i] < p[j]
           Good == {n \in 0 .. N : \A T \in SUBSET (1 .. n) : Ordered(T)}
<1>2. 0 \in Good
  <2>1. ASSUME NEW T \in SUBSET (1 .. 0) PROVE Ordered(T)
    <3>1. T = {}
      OBVIOUS
    <3>2. Cardinality(T) = 0
      BY <3>1, FS_EmptySet
    <3> DEFINE none == [i \in 1 .. 0 |-> 0]
    <3>3. none \in [1 .. Cardinality(T) -> T]
      BY <3>1, <3>2
    <3>4. \A i, j \in DOMAIN none : i < j => none[i] < none[j]
      OBVIOUS
    <3> HIDE DEF none
    <3> QED BY <3>3, <3>4
  <2> HIDE DEF Ordered
  <2> QED BY <2>1
<1>3. ASSUME NEW n \in 0 .. N, n < N, n \in Good PROVE n + 1 \in Good
  <2>1. ASSUME NEW T \in SUBSET (1 .. n + 1) PROVE Ordered(T)
    <3>1. CASE T \in SUBSET (1 .. n)
      BY <1>3, <3>1
    <3>2. CASE T \notin SUBSET (1 .. n)
      <4> DEFINE U == T \ {n + 1}
      <4>1. n + 1 \in T /\ U \in SUBSET (1 .. n) /\ T = U \cup {n + 1} /\ n + 1 \notin U
        BY <3>2
      <4>2. PICK p \in [1 .. Cardinality(U) -> U] : \A i, j \in DOMAIN p : i < j => p[i] < p[j]
        BY <1>3, <4>1
      <4>3. PICK c \in Nat : c = Cardinality(U) /\ Cardinality(T) = c + 1
        <5> HIDE DEF U
        <5>1. IsFiniteSet(U) /\ Cardinality(U) \in Nat
          BY <4>1, InInterval
        <5>2. Cardinality(U \cup {n + 1}) = Cardinality(U) + 1
          BY <5>1, <4>1, FS_AddElement
        <5> QED BY <5>1, <5>2, <4>1
      <4> DEFINE q == [i \in 1 .. c + 1 |-> IF i = c + 1 THEN n + 1 ELSE p[i]]
      <4> HIDE DEF U
      <4>4. p \in [1 .. c -> U] /\ \A i, j \in 1 .. c : i < j => p[i] < p[j]
        BY <4>2, <4>3
      <4>5. \A i \in 1 .. c : p[i] \in 1 .. n
        BY <4>1, <4>4
      <4>6. q \in [1 .. Cardinality(T) -> T]
        BY <4>1, <4>3, <4>4
      <4>7. \A i, j \in DOMAIN q : i < j => q[i] < q[j]
        BY <4>4, <4>5
      <4> HIDE DEF q
      <4> QED BY <4>6, <4>7
    <3> HIDE DEF Ordered
    <3> QED BY <3>1, <3>2
  <2>2. n + 1 \in 0 .. N
    BY <1>3
  <2> HIDE DEF Ordered
  <2> QED BY <2>1, <2>2
<1>4. Ordered(S)
  <2>1. \A n \in 0 .. N : n < N /\ n \in Good => n + 1 \in Good
    BY <1>3
  <2>2. 0 .. N \subseteq Good
    <3> HIDE DEF Good
    <3> QED BY <1>2, <2>1, UpTo
  <2> HIDE DEF Ordered
  <2> QED BY <2>2
<1>5. InOrder(S) \in [1 .. Cardinality(S) -> S] /\ \A i, j \in DOMAIN InOrder(S) : i < j => InOrder(S)[i] < InOrder(S)[j]
  BY <1>4 DEF InOrder
<1>6. IsFiniteSet(S) /\ Cardinality(S) \in Nat /\ Cardinality(1 .. Cardinality(S)) = Cardinality(S)
  BY InInterval, CountUp
<1>7. \A i, j \in 1 .. Cardinality(S) : InOrder(S)[i] = InOrder(S)[j] => i = j
  <2> DEFINE p == InOrder(S)
             n == Cardinality(S)
  <2>1. \A i \in 1 .. n : p[i] \in Int
    <3>1. \A x \in S : x \in Int
      OBVIOUS
    <3> HIDE DEF p
    <3> QED BY <1>5, <3>1 DEF p
  <2>2. ASSUME NEW i \in 1 .. n, NEW j \in 1 .. n, p[i] = p[j] PROVE i = j
    <3>1. ~(p[i] < p[j]) /\ ~(p[j] < p[i])
      BY <2>1, <2>2
    <3>2. ~(i < j) /\ ~(j < i)
      BY <1>5, <3>1
    <3> QED BY <1>6, <3>2
  <2> QED BY <2>2
<1>8. InOrder(S) \in Injection(1 .. Cardinality(S), S)
  BY <1>5, <1>7 DEF Injection, IsInjective
<1>9. InOrder(S) \in Surjection(1 .. Cardinality(S), S)
  BY <1>6, <1>8, FS_Injection
<1> QED BY <1>5, <1>7, <1>9 DEF Surjection

-----------------------------------------------------------------------------
(* Rankings and lists of rows. *)

(* No chunk is in the list twice. *)
Distinct(list) == \A i, j \in DOMAIN list : list[i].id = list[j].id => i = j

(* No row in a is newer than the row of the same chunk in b.                 *)
NotNewer(a, b) == \A i \in DOMAIN a, j \in DOMAIN b : a[i].id = b[j].id => a[i].v <= b[j].v

(* No row in the list is newer than the one in the table.                    *)
NotAhead(list) == \A i \in DOMAIN list : list[i].v <= table[list[i].id]

LEMMA FiniteChunks ==
  ASSUME NEW S \in SUBSET Chunk
  PROVE  IsFiniteSet(S) /\ Cardinality(S) \in Nat /\ Cardinality(S) <= Cardinality(Chunk)
<1>1. IsFiniteSet(Chunk)
  BY SearchAssumption
<1>2. IsFiniteSet(S) /\ Cardinality(S) <= Cardinality(Chunk)
  BY <1>1, FS_Subset
<1> QED BY <1>2, FS_CardinalityType

(* A ranking has no chunk twice and n chunks at most, and all if fewer.      *)
LEMMA RankingFacts ==
  ASSUME NEW S \in SUBSET Chunk, NEW n \in Nat, NEW q \in Ranking(S, n)
  PROVE  /\ q \in Seq(S) /\ Len(q) <= n /\ Len(q) <= Cardinality(S)
         /\ DOMAIN q = 1 .. Len(q)
         /\ \A i, j \in DOMAIN q : q[i] = q[j] => i = j
         /\ Len(q) < n \/ Cardinality(S) <= n =>
              Len(q) = Cardinality(S) /\ \A c \in S : \E i \in DOMAIN q : q[i] = c
<1> DEFINE m == Least(n, Cardinality(S))
<1>1. IsFiniteSet(S) /\ Cardinality(S) \in Nat
  BY FiniteChunks
<1>2. /\ m \in Nat /\ m <= n /\ m <= Cardinality(S)
      /\ (m < n \/ Cardinality(S) <= n => m = Cardinality(S))
  BY <1>1 DEF Least
<1>3. q \in Injection(1 .. m, S)
  BY DEF Ranking
<1> HIDE DEF m
<1>4. q \in [1 .. m -> S] /\ \A i, j \in 1 .. m : q[i] = q[j] => i = j
  BY <1>3 DEF Injection, IsInjective
<1>5. q \in Seq(S) /\ Len(q) = m /\ DOMAIN q = 1 .. m
  BY <1>2, <1>4
<1>6. ASSUME m = Cardinality(S) PROVE \A c \in S : \E i \in 1 .. m : q[i] = c
  <2>1. Cardinality(1 .. m) = m
    BY <1>2, CountUp
  <2>2. q \in Surjection(1 .. m, S)
    BY <1>1, <1>3, <1>6, <2>1, FS_Injection
  <2> QED BY <2>2 DEF Surjection
<1> QED BY <1>2, <1>4, <1>5, <1>6

LEMMA RowType ==
  ASSUME NEW list \in Seq(Row), NEW i \in DOMAIN list
  PROVE  list[i] \in Row /\ list[i].id \in Chunk /\ list[i].v \in Int
<1>1. list[i] \in Row
  OBVIOUS
<1>2. list[i].id \in Chunk /\ list[i].v \in 1 .. LastVersion
  BY <1>1 DEF Row
<1> QED BY <1>1, <1>2

(* The row at the position of a chunk is that chunk's.                       *)
LEMMA PosFacts ==
  ASSUME NEW list \in Seq(Row)
  PROVE  /\ Ids(list) \in SUBSET Chunk
         /\ \A c \in Ids(list) : Pos(list, c) \in 1 .. Len(list) /\ list[Pos(list, c)].id = c
         /\ Distinct(list) => \A i \in DOMAIN list : Pos(list, list[i].id) = i
<1>1. Ids(list) \in SUBSET Chunk
  BY RowType DEF Ids
<1>2. \A c \in Ids(list) : Pos(list, c) \in DOMAIN list /\ list[Pos(list, c)].id = c
  BY DEF Ids, Pos
<1>3. \A i \in DOMAIN list : list[i].id \in Ids(list)
  BY DEF Ids
<1> QED BY <1>1, <1>2, <1>3 DEF Distinct

(* A list without repetition is no longer than there are chunks.             *)
LEMMA LengthBounded ==
  ASSUME NEW list \in Seq(Row), Distinct(list)
  PROVE  /\ Cardinality(Ids(list)) = Len(list)
         /\ Len(list) <= Cardinality(Chunk)
<1> DEFINE f == [i \in 1 .. Len(list) |-> list[i].id]
<1>1. f \in Injection(1 .. Len(list), Ids(list)) /\ f \in Surjection(1 .. Len(list), Ids(list))
  BY DEF Distinct, Ids, Injection, IsInjective, Surjection
<1>2. Ids(list) \in SUBSET Chunk
  BY PosFacts
<1>3. IsFiniteSet(Ids(list)) /\ Cardinality(Ids(list)) <= Cardinality(Chunk)
  BY <1>2, FiniteChunks
<1>4. Len(list) \in Nat /\ Cardinality(1 .. Len(list)) = Len(list)
  <2>1. Len(list) \in Nat
    OBVIOUS
  <2> QED BY <2>1, CountUp
<1> HIDE DEF f
<1> QED BY <1>1, <1>3, <1>4, FS_Injection

(* What a read returns is in the table, as it is now.                        *)
LEMMA RowsFacts ==
  ASSUME table \in [Chunk -> 0 .. LastVersion], NEW S \in SUBSET Stored,
         NEW n \in Nat, NEW q \in Ranking(S, n)
  PROVE  /\ Rows(q) \in Seq(Row) /\ Len(Rows(q)) = Len(q)
         /\ \A i \in 1 .. Len(q) : Rows(q)[i].id = q[i] /\ Rows(q)[i].v = table[q[i]]
         /\ Distinct(Rows(q))
         /\ \A i \in 1 .. Len(q) : q[i] \in Chunk
<1>1. S \in SUBSET Chunk
  BY DEF Stored
<1>2. q \in Seq(S) /\ DOMAIN q = 1 .. Len(q) /\ \A i, j \in DOMAIN q : q[i] = q[j] => i = j
  BY <1>1, RankingFacts
<1>3. \A i \in 1 .. Len(q) : q[i] \in Chunk /\ table[q[i]] \in 1 .. LastVersion
  BY <1>2, SearchAssumption DEF Stored
<1>4. Rows(q) = [i \in 1 .. Len(q) |-> [id |-> q[i], v |-> table[q[i]]]]
  BY <1>2 DEF Rows
<1>5. \A i \in 1 .. Len(q) : [id |-> q[i], v |-> table[q[i]]] \in Row
  BY <1>3 DEF Row
<1>6. Rows(q) \in Seq(Row) /\ Len(Rows(q)) = Len(q)
  BY <1>2, <1>4, <1>5
<1> QED BY <1>2, <1>3, <1>4, <1>6 DEF Distinct

(* The row of a chunk after the fusion is the newest of those that were read. *)
LEMMA FusedRowFacts ==
  ASSUME vec \in Seq(Row), key \in Seq(Row), Distinct(vec), Distinct(key), NotNewer(vec, key),
         NEW c \in Ids(vec) \cup Ids(key)
  PROVE  /\ FusedRow(c) \in Row /\ FusedRow(c).id = c
         /\ \A i \in DOMAIN vec : vec[i].id = c => vec[i].v <= FusedRow(c).v
         /\ \A i \in DOMAIN key : key[i].id = c => key[i].v <= FusedRow(c).v
<1>1. /\ \A i \in DOMAIN vec : vec[i] \in Row /\ vec[i].v \in Int
      /\ \A i \in DOMAIN key : key[i] \in Row /\ key[i].v \in Int
  BY RowType
<1>2. CASE c \in Ids(key)
  <2>1. Pos(key, c) \in DOMAIN key /\ key[Pos(key, c)].id = c
    BY <1>2, PosFacts
  <2>2. FusedRow(c) = key[Pos(key, c)]
    BY <1>2 DEF FusedRow
  <2>3. \A i \in DOMAIN key : key[i].id = c => i = Pos(key, c)
    BY <2>1 DEF Distinct
  <2> QED BY <1>1, <2>1, <2>2, <2>3 DEF NotNewer
<1>3. CASE c \notin Ids(key)
  <2>1. Pos(vec, c) \in DOMAIN vec /\ vec[Pos(vec, c)].id = c
    BY <1>3, PosFacts
  <2>2. FusedRow(c) = vec[Pos(vec, c)]
    BY <1>3 DEF FusedRow
  <2>3. \A i \in DOMAIN vec : vec[i].id = c => i = Pos(vec, c)
    BY <2>1 DEF Distinct
  <2>4. \A i \in DOMAIN key : key[i].id # c
    BY <1>3 DEF Ids
  <2> QED BY <1>1, <2>1, <2>2, <2>3, <2>4
<1> QED BY <1>2, <1>3

(* So is every row of a list that the fusion makes of a ranking.             *)
LEMMA FusedListFacts ==
  ASSUME vec \in Seq(Row), key \in Seq(Row), Distinct(vec), Distinct(key), NotNewer(vec, key),
         NEW q \in Seq(Ids(vec) \cup Ids(key)),
         \A i, j \in DOMAIN q : q[i] = q[j] => i = j,
         NEW list, list = [i \in DOMAIN q |-> FusedRow(q[i])]
  PROVE  /\ list \in Seq(Row) /\ Len(list) = Len(q) /\ Distinct(list)
         /\ NotNewer(vec, list) /\ NotNewer(key, list)
         /\ \A i \in DOMAIN q : list[i].id = q[i]
         /\ Ids(list) = {q[i] : i \in DOMAIN q}
<1>1. \A i \in DOMAIN q : list[i] \in Row /\ list[i].id = q[i]
  BY FusedRowFacts
<1>2. DOMAIN q = 1 .. Len(q) /\ Len(q) \in Nat
  OBVIOUS
<1>3. list \in Seq(Row) /\ Len(list) = Len(q) /\ DOMAIN list = DOMAIN q
  BY <1>1, <1>2
<1>4. NotNewer(vec, list) /\ NotNewer(key, list)
  BY <1>2, <1>3, FusedRowFacts DEF NotNewer
<1> QED BY <1>1, <1>3, <1>4 DEF Distinct, Ids

(* Where the entries of two lists are once one is appended to the other.     *)
LEMMA Appended ==
  ASSUME NEW R, NEW s \in Seq(R), NEW t \in Seq(R)
  PROVE  /\ s \o t \in Seq(R) /\ Len(s \o t) = Len(s) + Len(t)
         /\ DOMAIN (s \o t) = 1 .. Len(s) + Len(t) /\ DOMAIN s = 1 .. Len(s)
         /\ \A i \in 1 .. Len(s) : i \in DOMAIN (s \o t) /\ (s \o t)[i] = s[i]
         /\ \A i \in 1 .. Len(t) : (s \o t)[Len(s) + i] = t[i]
OBVIOUS

(* mergeDocResults keeps every chunk, in one place, in its newest version.   *)
LEMMA MergedFacts ==
  ASSUME vec \in Seq(Row), key \in Seq(Row), res \in Seq(Row), NEW found \in Seq(Row),
         Distinct(res), Distinct(found),
         NotNewer(vec, res), NotNewer(key, res), NotNewer(vec, found), NotNewer(key, found)
  PROVE  /\ Merged(found) \in Seq(Row) /\ Distinct(Merged(found))
         /\ NotNewer(vec, Merged(found)) /\ NotNewer(key, Merged(found))
         /\ NotNewer(found, Merged(found))
         /\ Ids(found) \cup Ids(res) \subseteq Ids(Merged(found))
         /\ Len(res) <= Len(Merged(found)) /\ Len(found) <= Len(Merged(found))
<1> DEFINE other == {i \in DOMAIN res : res[i].id \notin Ids(found)}
           n == Cardinality(other)
           p == InOrder(other)
           rest == [i \in 1 .. n |-> res[p[i]]]
           all == Merged(found)
<1>1. Len(res) \in Nat /\ Len(found) \in Nat /\ other \in SUBSET (1 .. Len(res))
  OBVIOUS
<1>2. /\ n \in Nat /\ p \in [1 .. n -> other]
      /\ \A i, j \in 1 .. n : p[i] = p[j] => i = j
      /\ \A c \in other : \E i \in 1 .. n : p[i] = c
  <2> HIDE DEF other
  <2> QED BY <1>1, OrderExists, InInterval
<1>3. /\ \A i \in DOMAIN res : res[i] \in Row /\ res[i].v \in Int
      /\ \A i \in DOMAIN found : found[i] \in Row /\ found[i].v \in Int
  BY RowType
<1> HIDE DEF n, p
<1>4. /\ rest \in Seq(Row) /\ Len(rest) = n
      /\ \A i \in 1 .. n : rest[i] = res[p[i]] /\ p[i] \in DOMAIN res /\ res[p[i]].id \notin Ids(found)
  BY <1>2, <1>3
<1>5. all = found \o rest
  BY DEF Merged, n, p
<1> HIDE DEF other, rest, all
<1>6. /\ all \in Seq(Row) /\ Len(all) = Len(found) + n
      /\ DOMAIN all = 1 .. Len(found) + n /\ DOMAIN found = 1 .. Len(found)
      /\ \A i \in 1 .. Len(found) : i \in DOMAIN all /\ all[i] = found[i]
      /\ \A i \in 1 .. n : all[Len(found) + i] = rest[i]
  BY <1>4, <1>5, Appended
<1>7. \A i \in DOMAIN all :
        \/ i \in DOMAIN found /\ all[i] = found[i]
        \/ \E j \in 1 .. n : i = Len(found) + j /\ all[i] = res[p[j]]
  <2> TAKE i \in DOMAIN all
  <2>1. CASE i <= Len(found)
    BY <1>1, <1>2, <1>6, <2>1
  <2>2. CASE ~(i <= Len(found))
    <3>1. i - Len(found) \in 1 .. n /\ i = Len(found) + (i - Len(found))
      BY <1>1, <1>2, <1>6, <2>2
    <3>2. PICK j \in 1 .. n : i = Len(found) + j
      BY <3>1
    <3>3. all[i] = rest[j]
      BY <1>6, <3>2
    <3>4. all[i] = res[p[j]]
      BY <1>4, <3>3
    <3> QED BY <3>2, <3>4
  <2> QED BY <2>1, <2>2
<1>8. Distinct(all)
  <2> SUFFICES ASSUME NEW i \in DOMAIN all, NEW j \in DOMAIN all, all[i].id = all[j].id
               PROVE  i = j
    BY DEF Distinct
  <2>1. \A x \in DOMAIN found : found[x].id \in Ids(found)
    BY DEF Ids
  <2>2. CASE i \in DOMAIN found /\ all[i] = found[i]
    <3>1. CASE j \in DOMAIN found /\ all[j] = found[j]
      BY <2>2, <3>1 DEF Distinct
    <3>2. CASE \E y \in 1 .. n : all[j] = res[p[y]]
      BY <2>1, <2>2, <3>2, <1>4
    <3> QED BY <3>1, <3>2, <1>7
  <2>3. CASE \E x \in 1 .. n : i = Len(found) + x /\ all[i] = res[p[x]]
    <3>1. CASE j \in DOMAIN found /\ all[j] = found[j]
      BY <2>1, <2>3, <3>1, <1>4
    <3>2. CASE \E y \in 1 .. n : j = Len(found) + y /\ all[j] = res[p[y]]
      <4>1. PICK x \in 1 .. n : i = Len(found) + x /\ all[i] = res[p[x]]
        BY <2>3
      <4>2. PICK y \in 1 .. n : j = Len(found) + y /\ all[j] = res[p[y]]
        BY <3>2
      <4>3. p[x] \in DOMAIN res /\ p[y] \in DOMAIN res /\ res[p[x]].id = res[p[y]].id
        BY <1>4, <4>1, <4>2
      <4>4. p[x] = p[y]
        BY <4>3 DEF Distinct
      <4> QED BY <1>2, <4>1, <4>2, <4>4
    <3> QED BY <3>1, <3>2, <1>7
  <2> QED BY <2>2, <2>3, <1>7
<1>9. NotNewer(vec, all) /\ NotNewer(key, all)
  <2> SUFFICES ASSUME NEW list \in {vec, key}, NEW i \in DOMAIN list, NEW j \in DOMAIN all,
                      list[i].id = all[j].id
               PROVE  list[i].v <= all[j].v
    BY Zenon DEF NotNewer
  <2>1. NotNewer(list, found) /\ NotNewer(list, res)
    OBVIOUS
  <2>2. \/ j \in DOMAIN found /\ all[j] = found[j]
        \/ \E y \in DOMAIN res : all[j] = res[y]
    BY <1>4, <1>7
  <2> QED BY <2>1, <2>2 DEF NotNewer
<1>10. NotNewer(found, all)
  <2> SUFFICES ASSUME NEW i \in DOMAIN found, NEW j \in DOMAIN all, found[i].id = all[j].id
               PROVE  found[i].v <= all[j].v
    BY DEF NotNewer
  <2>1. i \in DOMAIN all /\ all[i] = found[i]
    BY <1>6
  <2>2. i = j
    BY <1>8, <2>1 DEF Distinct
  <2> QED BY <1>3, <2>1, <2>2
<1>11. Ids(found) \cup Ids(res) \subseteq Ids(all)
  <2>1. ASSUME NEW i \in DOMAIN found PROVE found[i].id \in Ids(all)
    <3>1. i \in DOMAIN all /\ all[i] = found[i]
      BY <1>6
    <3> QED BY <3>1 DEF Ids
  <2>2. ASSUME NEW i \in other PROVE res[i].id \in Ids(all)
    <3>1. PICK j \in 1 .. n : p[j] = i
      BY <1>2
    <3>2. Len(found) + j \in DOMAIN all /\ all[Len(found) + j] = res[i]
      BY <1>1, <1>2, <1>4, <1>6, <3>1
    <3> QED BY <3>2 DEF Ids
  <2>3. Ids(found) \subseteq Ids(all)
    BY <2>1 DEF Ids
  <2>4. ASSUME NEW i \in DOMAIN res PROVE res[i].id \in Ids(all)
    <3>1. CASE res[i].id \in Ids(found)
      BY <2>3, <3>1
    <3>2. CASE res[i].id \notin Ids(found)
      BY <2>2, <3>2 DEF other
    <3> QED BY <3>1, <3>2
  <2>5. Ids(res) \subseteq Ids(all)
    BY <2>4 DEF Ids
  <2> QED BY <2>3, <2>5
<1>12. Len(res) <= Len(all)
  <2>1. Ids(all) \in SUBSET Chunk
    BY <1>6, PosFacts
  <2>2. IsFiniteSet(Ids(all)) /\ Ids(res) \in SUBSET Ids(all)
    BY <2>1, <1>11, FiniteChunks
  <2>3. Cardinality(Ids(res)) <= Cardinality(Ids(all))
    BY <2>2, FS_Subset
  <2> QED BY <2>3, <1>6, <1>8, LengthBounded
<1> QED BY <1>1, <1>2, <1>6, <1>8, <1>9, <1>10, <1>11, <1>12 DEF all

-----------------------------------------------------------------------------
(* Scores. *)

(* The recursive definition of the product has a solution.                   *)
LEMMA ProductDef ==
  \A n \in 0 .. Cardinality(Chunk) :
    Product[n] = IF n = 0 THEN 1 ELSE (60 + n) * Product[n - 1]
<1> DEFINE N == Cardinality(Chunk)
           Solves(g, n) == g = [i \in 0 .. n |-> IF i = 0 THEN 1 ELSE (60 + i) * g[i - 1]]
           Good == {n \in 0 .. N : \E g : Solves(g, n)}
<1>1. N \in Nat
  BY FiniteChunks
<1>2. 0 \in Good
  <2> DEFINE g == [i \in 0 .. 0 |-> 1]
  <2>1. Solves(g, 0)
    OBVIOUS
  <2> HIDE DEF Solves, g
  <2> QED BY <1>1, <2>1
<1>3. ASSUME NEW n \in 0 .. N, n < N, n \in Good PROVE n + 1 \in Good
  <2>1. PICK g : Solves(g, n)
    BY <1>3
  <2> DEFINE h == [i \in 0 .. n + 1 |-> IF i = n + 1 THEN (60 + i) * g[n] ELSE g[i]]
  <2>2. \A i \in 0 .. n : h[i] = g[i] /\ g[i] = IF i = 0 THEN 1 ELSE (60 + i) * g[i - 1]
    BY <1>1, <2>1
  <2>3. ASSUME NEW i \in 0 .. n + 1 PROVE h[i] = IF i = 0 THEN 1 ELSE (60 + i) * h[i - 1]
    <3>1. CASE i = n + 1
      BY <1>1, <2>2, <3>1
    <3>2. CASE i \in 0 .. n
      <4>1. i = 0 \/ i - 1 \in 0 .. n
        BY <1>1, <3>2
      <4> QED BY <2>2, <3>2, <4>1
    <3> QED BY <3>1, <3>2, <1>1
  <2>4. Solves(h, n + 1)
    BY <2>3
  <2> HIDE DEF Solves, h
  <2> QED BY <1>1, <1>3, <2>4
<1>4. \E g : Solves(g, N)
  <2>1. \A n \in 0 .. N : n < N /\ n \in Good => n + 1 \in Good
    BY <1>3
  <2>2. 0 .. N \subseteq Good
    <3> HIDE DEF Good, N
    <3> QED BY <1>1, <1>2, <2>1, UpTo
  <2> HIDE DEF Solves, N
  <2> QED BY <1>1, <2>2
<1>5. Product = [i \in 0 .. N |-> IF i = 0 THEN 1 ELSE (60 + i) * Product[i - 1]]
  BY <1>4, Zenon DEF Product
<1> QED BY <1>5

(* So the unit is a multiple of each denominator a list can have.            *)
LEMMA UnitFacts ==
  /\ Unit \in Nat /\ Unit > 0
  /\ \A i \in 1 .. Cardinality(Chunk) :
       Unit \div (60 + i) \in Nat /\ Unit = (60 + i) * (Unit \div (60 + i))
<1> DEFINE N == Cardinality(Chunk)
           Divides(d, u) == \E m \in Nat : u = d * m
           Good == {n \in 0 .. N : /\ Product[n] \in Nat /\ Product[n] > 0
                                   /\ \A i \in 1 .. n : Divides(60 + i, Product[n])}
<1>1. N \in Nat
  BY FiniteChunks
<1>2. 0 \in Good
  BY <1>1, ProductDef
<1>3. ASSUME NEW n \in 0 .. N, n < N, n \in Good PROVE n + 1 \in Good
  <2>1. PICK u \in Nat : u = Product[n] /\ u > 0 /\ \A i \in 1 .. n : Divides(60 + i, u)
    BY <1>3
  <2>2. n + 1 \in 0 .. N /\ n + 1 # 0 /\ (n + 1) - 1 = n /\ 60 + (n + 1) \in Nat
    BY <1>1, <1>3
  <2>3. Product[n + 1] = (60 + (n + 1)) * u
    BY <2>1, <2>2, ProductDef
  <2>4. \A d, m, e \in Nat : e * (d * m) = d * (e * m) /\ e * m \in Nat /\ (e > 0 /\ m > 0 => e * m > 0)
    OBVIOUS
  <2>5. ASSUME NEW i \in 1 .. n + 1 PROVE Divides(60 + i, Product[n + 1])
    <3>1. CASE i = n + 1
      BY <2>3, <3>1
    <3>2. CASE i \in 1 .. n
      <4>1. PICK m \in Nat : u = (60 + i) * m
        BY <2>1, <3>2
      <4>2. 60 + i \in Nat
        OBVIOUS
      <4>3. Product[n + 1] = (60 + i) * ((60 + (n + 1)) * m) /\ (60 + (n + 1)) * m \in Nat
        BY <2>2, <2>3, <2>4, <4>1, <4>2
      <4> QED BY <4>3
    <3> QED BY <3>1, <3>2, <1>1
  <2>6. Product[n + 1] \in Nat /\ Product[n + 1] > 0
    BY <2>1, <2>2, <2>3, <2>4
  <2> HIDE DEF Divides
  <2> QED BY <2>2, <2>5, <2>6
<1>4. N \in Good
  <2>1. \A n \in 0 .. N : n < N /\ n \in Good => n + 1 \in Good
    BY <1>3
  <2>2. 0 .. N \subseteq Good
    <3> HIDE DEF Good, N
    <3> QED BY <1>1, <1>2, <2>1, UpTo
  <2> HIDE DEF Good
  <2> QED BY <1>1, <2>2
<1>5. Unit \in Nat /\ Unit > 0 /\ \A i \in 1 .. N : Divides(60 + i, Unit)
  BY <1>4 DEF Unit
<1>6. ASSUME NEW i \in 1 .. N
      PROVE  Unit \div (60 + i) \in Nat /\ Unit = (60 + i) * (Unit \div (60 + i))
  <2>1. PICK m \in Nat : Unit = (60 + i) * m
    BY <1>5
  <2>2. PICK d \in Nat : d = 60 + i /\ d > 0
    BY <1>1
  <2>3. Unit \div d = m
    <3>1. (d * m) \div d = m
      BY <2>2
    <3> QED BY <3>1, <2>1, <2>2
  <2> QED BY <2>1, <2>2, <2>3
<1> QED BY <1>5, <1>6

(* Two shares of the last places that count are more than one of the first.  *)
LEMMA BothOutweighOne ==
  ASSUME vec \in Seq(Row), key \in Seq(Row), Distinct(vec), Distinct(key),
         Len(vec) <= 61, Len(key) <= 61,
         NEW c \in Ids(vec) \cap Ids(key), NEW d \in Ids(vec) \cup Ids(key),
         d \notin Ids(vec) \cap Ids(key)
  PROVE  Score(c) \in Int /\ Score(d) \in Int /\ Score(c) > Score(d)
<1> DEFINE share(i) == Unit \div (60 + i)
<1>1. /\ Len(vec) <= Cardinality(Chunk) /\ Len(key) <= Cardinality(Chunk)
      /\ Cardinality(Chunk) \in Nat /\ Len(vec) \in Nat /\ Len(key) \in Nat
  BY LengthBounded, FiniteChunks
<1>2. PICK i \in 1 .. 61, j \in 1 .. 61 :
        /\ Score(c) = share(i) + share(j)
        /\ i <= Cardinality(Chunk) /\ j <= Cardinality(Chunk)
  <2>1. PICK i \in 1 .. Len(vec) : i = Pos(vec, c)
    BY PosFacts
  <2>2. PICK j \in 1 .. Len(key) : j = Pos(key, c)
    BY PosFacts
  <2>3. Score(c) = share(i) + share(j)
    BY <2>1, <2>2 DEF Score, Share
  <2>4. i \in 1 .. 61 /\ i <= Cardinality(Chunk) /\ j \in 1 .. 61 /\ j <= Cardinality(Chunk)
    BY <1>1
  <2> HIDE DEF share
  <2> QED BY <2>3, <2>4
<1>3. PICK l \in 1 .. Cardinality(Chunk) : Score(d) = share(l)
  <2>1. CASE d \in Ids(vec)
    <3>1. Pos(vec, d) \in 1 .. Len(vec)
      BY <2>1, PosFacts
    <3>2. Score(d) = share(Pos(vec, d)) + 0
      BY <2>1 DEF Score, Share
    <3>3. Pos(vec, d) \in 1 .. Cardinality(Chunk)
      BY <1>1, <3>1
    <3> QED BY <3>2, <3>3, UnitFacts
  <2>2. CASE d \in Ids(key)
    <3>1. Pos(key, d) \in 1 .. Len(key)
      BY <2>2, PosFacts
    <3>2. Score(d) = 0 + share(Pos(key, d))
      BY <2>2 DEF Score, Share
    <3>3. Pos(key, d) \in 1 .. Cardinality(Chunk)
      BY <1>1, <3>1
    <3> QED BY <3>2, <3>3, UnitFacts
  <2> QED BY <2>1, <2>2
<1>4. /\ share(i) \in Nat /\ Unit = (60 + i) * share(i)
      /\ share(j) \in Nat /\ Unit = (60 + j) * share(j)
      /\ share(l) \in Nat /\ Unit = (60 + l) * share(l)
      /\ Unit > 0 /\ Unit \in Nat
  <2>1. i \in 1 .. Cardinality(Chunk) /\ j \in 1 .. Cardinality(Chunk)
    BY <1>1, <1>2
  <2>2. l \in 1 .. Cardinality(Chunk)
    BY <1>3
  <2> QED BY <2>1, <2>2, UnitFacts
<1> HIDE DEF share
<1>5. Unit <= 121 * share(i) /\ Unit <= 121 * share(j)
  <2>1. \A x \in 1 .. 61, y \in Nat : (60 + x) * y <= 121 * y
    OBVIOUS
  <2> QED BY <2>1, <1>4
<1>6. 61 * share(l) <= Unit /\ share(l) \in Nat
  <2>1. \A x \in Nat, y \in Nat : x >= 1 => 61 * y <= (60 + x) * y
    OBVIOUS
  <2>2. l \in Nat /\ l >= 1
    BY <1>1
  <2>3. 61 * share(l) <= (60 + l) * share(l)
    BY <2>1, <2>2, <1>4
  <2>4. (60 + l) * share(l) = Unit /\ share(l) \in Nat
    BY <1>4
  <2> QED BY <2>3, <2>4
<1>7. \A x, y, z, u \in Nat : u > 0 /\ u <= 121 * x /\ u <= 121 * y /\ 61 * z <= u => x + y > z
  OBVIOUS
<1>8. PICK x \in Nat, y \in Nat, z \in Nat : x = share(i) /\ y = share(j) /\ z = share(l)
  BY <1>4
<1>9. x + y > z
  BY <1>4, <1>5, <1>6, <1>7, <1>8
<1> QED BY <1>2, <1>3, <1>8, <1>9

-----------------------------------------------------------------------------
(* The inductive invariant. *)

(* What has been read, and what has been returned, at each point.            *)
Stage ==
  /\ pc = "vector" => vec = <<>>
  /\ pc \in {"vector", "keyword"} => key = <<>>
  /\ pc # "returned" => docs = <<>> /\ outcome = "none"
  /\ pc \in {"boost", "docs"} => overview
  /\ outcome = "panic" => k < 0 /\ overview /\ docs # <<>>

(* The results show the newest of what the two halves have read, and leave    *)
(* out some of it only if there is no more room.                             *)
Ranked ==
  /\ Distinct(res) /\ NotNewer(vec, res) /\ NotNewer(key, res)
  /\ Len(res) <= FuseLimit
  /\ Len(res) < FuseLimit => Ids(vec) \cup Ids(key) \subseteq Ids(res)

(* The documents that were merged in are there, and are as new as any.       *)
WithDocs ==
  /\ NotNewer(docs, res)
  /\ Len(res) < FuseLimit => Ids(docs) \subseteq Ids(res)

Merging == pc \in {"boost", "docs"}

IInv ==
  /\ TypeOK
  /\ Stage
  /\ Distinct(vec) /\ Distinct(key)
  /\ NotAhead(vec) /\ NotAhead(key) /\ NotNewer(vec, key)
  /\ Merging => Ranked /\ Ids(res) \subseteq Ids(vec) \cup Ids(key)
  /\ Ok => Ranked /\ WithDocs
  /\ BothBeatOne

LEMMA Types ==
  ASSUME TypeOK
  PROVE  /\ vec \in Seq(Row) /\ key \in Seq(Row) /\ docs \in Seq(Row) /\ res \in Seq(Row)
         /\ k \in Int /\ FuseLimit \in Nat /\ FuseLimit > 0
         /\ SearchLimit(3 * k) \in Nat /\ SqlLimit(k) \in Nat
         /\ Cardinality(Chunk) \in Nat /\ IsFiniteSet(Chunk)
<1>1. k \in Int
  BY SearchAssumption DEF TypeOK
<1>2. Cardinality(Chunk) \in Nat /\ IsFiniteSet(Chunk)
  BY FiniteChunks, SearchAssumption
<1> QED BY <1>1, <1>2 DEF TypeOK, FuseLimit, SearchLimit, SqlLimit

(* A list that is empty has no repetition and nothing in it is out of date.  *)
LEMMA EmptyList ==
  ASSUME NEW list
  PROVE  /\ Distinct(<<>>) /\ NotNewer(<<>>, list) /\ NotNewer(list, <<>>)
         /\ NotAhead(<<>>) /\ Ids(<<>>) = {}
BY DEF Distinct, NotNewer, NotAhead, Ids

LEMMA InitIInv == Init => IInv
<1> SUFFICES ASSUME Init PROVE IInv
  OBVIOUS
<1>1. TypeOK
  <2>1. 0 .. 1 \subseteq 0 .. LastVersion
    BY SearchAssumption
  <2> QED BY <2>1 DEF Init, TypeOK
<1>2. Stage
  BY DEF Init, Stage
<1> QED BY <1>1, <1>2, EmptyList DEF Init, IInv, Merging, Ok, BothBeatOne

LEMMA UpsertStep == IInv /\ Upsert => IInv'
<1> SUFFICES ASSUME IInv, Upsert PROVE IInv'
  OBVIOUS
<1> USE DEF IInv
<1>1. PICK c \in Chunk : table[c] < LastVersion /\ table' = [table EXCEPT ![c] = @ + 1]
  BY DEF Upsert
<1>2. UNCHANGED <<query, pc, vec, key, docs, res, outcome>>
  BY DEF Upsert
<1>3. /\ table' \in [Chunk -> 0 .. LastVersion]
      /\ \A d \in Chunk : table[d] \in Int /\ table'[d] \in Int /\ table[d] <= table'[d]
  BY <1>1, SearchAssumption DEF TypeOK
<1>4. TypeOK'
  BY <1>2, <1>3 DEF TypeOK, query
<1>5. NotAhead(vec)' /\ NotAhead(key)'
  <2>1. ASSUME NEW list \in Seq(Row), NEW i \in DOMAIN list, list[i].v <= table[list[i].id]
        PROVE  list[i].v <= table'[list[i].id]
    BY <1>3, <2>1, RowType
  <2> QED BY <1>2, <2>1, Types DEF NotAhead
<1>6. (Ranked => Ranked') /\ (WithDocs => WithDocs') /\ (BothBeatOne => BothBeatOne')
  BY <1>2 DEF Ranked, WithDocs, FuseLimit, BothBeatOne, query, Ok, Share, Score, Unit
<1> QED BY <1>2, <1>4, <1>5, <1>6 DEF Stage, Merging, Ok, query

LEMMA VectorStep == IInv /\ VectorSearch => IInv'
<1> SUFFICES ASSUME IInv, VectorSearch PROVE IInv'
  OBVIOUS
<1> USE DEF IInv
<1>0. PICK M \in SUBSET Stored : \E q \in Ranking(M, SearchLimit(3 * k)) : vec' = Rows(q)
  BY DEF VectorSearch
<1>1. PICK q \in Ranking(M, SearchLimit(3 * k)) : vec' = Rows(q)
  BY <1>0
<1>2. pc = "vector" /\ pc' = "keyword" /\ UNCHANGED <<table, query, key, docs, res, outcome>>
  BY DEF VectorSearch
<1>3. /\ vec' \in Seq(Row) /\ Len(vec') = Len(q) /\ Distinct(vec')
      /\ \A i \in 1 .. Len(q) : vec'[i].id = q[i] /\ vec'[i].v = table[q[i]] /\ q[i] \in Chunk
  <2>1. SearchLimit(3 * k) \in Nat /\ table \in [Chunk -> 0 .. LastVersion]
    BY Types DEF TypeOK
  <2> QED BY <1>1, <2>1, RowsFacts
<1>4. key = <<>> /\ outcome = "none"
  BY <1>2 DEF Stage
<1>5. NotAhead(vec)'
  <2>1. \A d \in Chunk : table[d] \in Int
    BY DEF TypeOK
  <2> QED BY <1>2, <1>3, <2>1 DEF NotAhead
<1>6. NotNewer(vec, key)' /\ NotAhead(key)'
  BY <1>2, <1>4, EmptyList DEF NotNewer, NotAhead
<1>7. TypeOK'
  BY <1>2, <1>3 DEF TypeOK, query
<1>8. Stage'
  BY <1>2, <1>4 DEF Stage, query
<1> QED BY <1>2, <1>3, <1>4, <1>5, <1>6, <1>7, <1>8 DEF Merging, Ok, BothBeatOne

LEMMA KeywordStep == IInv /\ KeywordSearch => IInv'
<1> SUFFICES ASSUME IInv, KeywordSearch PROVE IInv'
  OBVIOUS
<1> USE DEF IInv
<1>0. PICK M \in SUBSET Stored : \E q \in Ranking(M, SearchLimit(3 * k)) : key' = Rows(q)
  BY DEF KeywordSearch
<1>1. PICK q \in Ranking(M, SearchLimit(3 * k)) : key' = Rows(q)
  BY <1>0
<1>2. pc = "keyword" /\ pc' = "fuse" /\ UNCHANGED <<table, query, vec, docs, res, outcome>>
  BY DEF KeywordSearch
<1>3. /\ key' \in Seq(Row) /\ Len(key') = Len(q) /\ Distinct(key')
      /\ \A i \in 1 .. Len(q) : key'[i].id = q[i] /\ key'[i].v = table[q[i]] /\ q[i] \in Chunk
  BY <1>1, Types, RowsFacts DEF TypeOK
<1>4. outcome = "none"
  BY <1>2 DEF Stage
<1>5. NotAhead(key)' /\ NotAhead(vec)'
  <2>1. \A d \in Chunk : table[d] \in Int
    BY DEF TypeOK
  <2> QED BY <1>2, <1>3, <2>1 DEF NotAhead
<1>6. NotNewer(vec, key)'
  BY <1>2, <1>3 DEF NotAhead, NotNewer
<1>7. TypeOK'
  BY <1>2, <1>3 DEF TypeOK, query
<1>8. Stage'
  BY <1>2, <1>4 DEF Stage, query
<1> QED BY <1>2, <1>3, <1>4, <1>5, <1>6, <1>7, <1>8 DEF Merging, Ok, BothBeatOne

LEMMA ReadFailsStep == IInv /\ ReadFails => IInv'
<1> SUFFICES ASSUME IInv, ReadFails PROVE IInv'
  OBVIOUS
<1> USE DEF IInv
<1>1. /\ pc \in {"vector", "keyword"} /\ pc' = "returned" /\ outcome' = "error"
      /\ UNCHANGED <<table, query, vec, key, docs, res>>
  BY DEF ReadFails, Return
<1>2. TypeOK'
  BY <1>1 DEF TypeOK, query
<1>3. Stage'
  BY <1>1 DEF Stage, query
<1> QED BY <1>1, <1>2, <1>3 DEF Merging, Ok, BothBeatOne, NotAhead

(* FuseRRF leaves a ranking of what the two halves have read.                *)
LEMMA FuseResults ==
  ASSUME IInv, pc = "fuse",
         NEW q \in Sorted(Ids(vec) \cup Ids(key), Score, FuseLimit),
         NEW list, list = [i \in DOMAIN q |-> FusedRow(q[i])]
  PROVE  /\ list \in Seq(Row) /\ Distinct(list) /\ NotNewer(vec, list) /\ NotNewer(key, list)
         /\ Len(list) <= FuseLimit /\ Ids(list) \subseteq Ids(vec) \cup Ids(key)
         /\ Len(list) < FuseLimit => Ids(vec) \cup Ids(key) \subseteq Ids(list)
         /\ Len(vec) <= 61 /\ Len(key) <= 61 =>
              \A c \in Ids(vec) \cap Ids(key) :
                \A d \in Ids(list) : d \notin Ids(vec) \cap Ids(key) =>
                  c \in Ids(list) /\ Pos(list, c) < Pos(list, d)
<1> DEFINE S == Ids(vec) \cup Ids(key)
<1> USE DEF IInv
<1>1. S \in SUBSET Chunk /\ FuseLimit \in Nat
  BY Types, PosFacts
<1>2. /\ q \in Ranking(S, FuseLimit)
      /\ \A i, j \in DOMAIN q : i < j => Score(q[i]) >= Score(q[j])
      /\ \A c \in S \ Range(q), i \in DOMAIN q : Score(q[i]) >= Score(c)
  BY DEF Sorted
<1>3. /\ q \in Seq(S) /\ Len(q) <= FuseLimit /\ DOMAIN q = 1 .. Len(q)
      /\ \A i, j \in DOMAIN q : q[i] = q[j] => i = j
      /\ Len(q) < FuseLimit => \A c \in S : \E i \in DOMAIN q : q[i] = c
  <2> HIDE DEF S
  <2> QED BY <1>1, <1>2, RankingFacts
<1>4. /\ list \in Seq(Row) /\ Len(list) = Len(q) /\ Distinct(list)
      /\ NotNewer(vec, list) /\ NotNewer(key, list)
      /\ \A i \in DOMAIN q : list[i].id = q[i]
      /\ Ids(list) = {q[i] : i \in DOMAIN q}
  <2>1. vec \in Seq(Row) /\ key \in Seq(Row)
    BY Types
  <2>2. q \in Seq(Ids(vec) \cup Ids(key)) /\ \A i, j \in DOMAIN q : q[i] = q[j] => i = j
    BY <1>3
  <2> HIDE DEF S, IInv
  <2>3. Distinct(vec) /\ Distinct(key) /\ NotNewer(vec, key)
    BY DEF IInv
  <2>4. list = [i \in DOMAIN q |-> FusedRow(q[i])]
    OBVIOUS
  <2> QED BY <2>1, <2>2, <2>3, <2>4, FusedListFacts
<1>5. Len(list) < FuseLimit => S \subseteq Ids(list)
  BY <1>3, <1>4
<1>6. ASSUME Len(vec) <= 61, Len(key) <= 61, NEW c \in Ids(vec) \cap Ids(key),
             NEW d \in Ids(list), d \notin Ids(vec) \cap Ids(key)
      PROVE  c \in Ids(list) /\ Pos(list, c) < Pos(list, d)
  <2>1. PICK j \in DOMAIN q : q[j] = d
    BY <1>4
  <2>2. Score(c) \in Int /\ Score(d) \in Int /\ Score(c) > Score(d)
    <3>1. d \in Ids(vec) \cup Ids(key)
      BY <1>3, <2>1
    <3> QED BY <1>6, <3>1, Types, BothOutweighOne
  <2>3. c \in Range(q)
    BY <1>2, <2>1, <2>2
  <2>4. PICK i \in DOMAIN q : q[i] = c
    BY <2>3 DEF Range
  <2>5. i < j
    <3>1. i # j
      BY <2>1, <2>2, <2>4
    <3>2. ~(j < i)
      BY <1>2, <2>1, <2>2, <2>4
    <3> QED BY <1>3, <3>1, <3>2
  <2>6. i \in DOMAIN list /\ j \in DOMAIN list /\ list[i].id = c /\ list[j].id = d
    BY <1>3, <1>4, <2>1, <2>4
  <2>7. Pos(list, c) = i /\ Pos(list, d) = j
    BY <1>4, <2>6, PosFacts
  <2> QED BY <2>5, <2>6, <2>7 DEF Ids
<1>7. Ids(list) \subseteq S
  BY <1>3, <1>4
<1> QED BY <1>3, <1>4, <1>5, <1>6, <1>7

LEMMA FuseStep == IInv /\ Fuse => IInv'
<1> SUFFICES ASSUME IInv, Fuse PROVE IInv'
  OBVIOUS
<1> USE DEF IInv
<1>1. pc = "fuse" /\ UNCHANGED <<table, query, vec, key, docs>>
  BY DEF Fuse
<1>2. ~(FuseLimit < 0)
  BY Types
<1>3. PICK q \in Sorted(Ids(vec) \cup Ids(key), Score, FuseLimit) :
        res' = [i \in DOMAIN q |-> FusedRow(q[i])]
  BY <1>2 DEF Fuse
<1>4. \/ ~overview /\ pc' = "returned" /\ outcome' = "ok"
      \/ overview /\ pc' \in {"boost", "docs"} /\ outcome' = outcome
  BY <1>2 DEF Fuse, Return
<1>5. docs = <<>> /\ outcome = "none"
  BY <1>1 DEF Stage
<1> DEFINE list == [i \in DOMAIN q |-> FusedRow(q[i])]
<1>6. /\ list \in Seq(Row) /\ Distinct(list) /\ NotNewer(vec, list) /\ NotNewer(key, list)
      /\ Len(list) <= FuseLimit /\ Ids(list) \subseteq Ids(vec) \cup Ids(key)
      /\ Len(list) < FuseLimit => Ids(vec) \cup Ids(key) \subseteq Ids(list)
      /\ Len(vec) <= 61 /\ Len(key) <= 61 =>
           \A c \in Ids(vec) \cap Ids(key) :
             \A d \in Ids(list) : d \notin Ids(vec) \cap Ids(key) =>
               c \in Ids(list) /\ Pos(list, c) < Pos(list, d)
  BY <1>1, FuseResults
<1> HIDE DEF list
<1>7. res' = list
  BY <1>3 DEF list
<1>8. TypeOK'
  BY <1>1, <1>4, <1>6, <1>7 DEF TypeOK, query
<1>9. Stage'
  BY <1>1, <1>4, <1>5 DEF Stage, query
<1>10. Ranked' /\ (Ids(res) \subseteq Ids(vec) \cup Ids(key))'
  BY <1>1, <1>6, <1>7 DEF Ranked, FuseLimit, query
<1>11. WithDocs'
  BY <1>1, <1>5, EmptyList DEF WithDocs
<1>12. BothBeatOne'
  BY <1>1, <1>6, <1>7 DEF BothBeatOne, query
<1> QED BY <1>1, <1>8, <1>9, <1>10, <1>11, <1>12 DEF NotAhead

(* The boost reorders the results.                                           *)
LEMMA BoostStep == IInv /\ Boost => IInv'
<1> SUFFICES ASSUME IInv, Boost PROVE IInv'
  OBVIOUS
<1> USE DEF IInv
<1>1. /\ pc = "boost" /\ pc' = "returned" /\ outcome' = "ok"
      /\ UNCHANGED <<table, query, vec, key, docs>>
  BY DEF Boost, Return
<1>2. PICK q \in Ranking(Ids(res), Len(res)) : res' = [i \in DOMAIN q |-> FusedRow(q[i])]
  BY DEF Boost, Sorted
<1>3. docs = <<>> /\ overview /\ Ranked /\ Ids(res) \subseteq Ids(vec) \cup Ids(key)
  BY <1>1 DEF Stage, Merging
<1>4. /\ vec \in Seq(Row) /\ key \in Seq(Row) /\ res \in Seq(Row) /\ Len(res) \in Nat
      /\ Ids(res) \in SUBSET Chunk /\ Cardinality(Ids(res)) = Len(res)
  <2>1. vec \in Seq(Row) /\ key \in Seq(Row) /\ res \in Seq(Row)
    BY Types
  <2> QED BY <1>3, <2>1, PosFacts, LengthBounded DEF Ranked
<1>5. /\ q \in Seq(Ids(res)) /\ Len(q) = Len(res) /\ DOMAIN q = 1 .. Len(q)
      /\ \A i, j \in DOMAIN q : q[i] = q[j] => i = j
      /\ \A c \in Ids(res) : \E i \in DOMAIN q : q[i] = c
  BY <1>4, RankingFacts
<1> DEFINE list == [i \in DOMAIN q |-> FusedRow(q[i])]
<1>6. /\ list \in Seq(Row) /\ Len(list) = Len(q) /\ Distinct(list)
      /\ NotNewer(vec, list) /\ NotNewer(key, list)
      /\ Ids(list) = {q[i] : i \in DOMAIN q}
  <2>1. q \in Seq(Ids(vec) \cup Ids(key))
    BY <1>3, <1>5
  <2> HIDE DEF IInv
  <2>2. Distinct(vec) /\ Distinct(key) /\ NotNewer(vec, key)
    BY DEF IInv
  <2> QED BY <1>4, <1>5, <2>1, <2>2, FusedListFacts
<1>7. Ids(list) = Ids(res)
  <2>1. \A i \in DOMAIN q : q[i] \in Ids(res)
    BY <1>5
  <2>2. {q[i] : i \in DOMAIN q} = Ids(res)
    BY <1>5, <2>1
  <2> HIDE DEF list
  <2> QED BY <1>6, <2>2
<1> HIDE DEF list
<1>8. res' = list
  BY <1>2 DEF list
<1>9. TypeOK'
  BY <1>1, <1>6, <1>8 DEF TypeOK, query
<1>10. Stage'
  BY <1>1, <1>3 DEF Stage, query
<1>11. Ranked'
  BY <1>1, <1>3, <1>5, <1>6, <1>7, <1>8 DEF Ranked, FuseLimit, query
<1>12. WithDocs'
  BY <1>1, <1>3, EmptyList DEF WithDocs
<1>13. BothBeatOne'
  BY <1>1, <1>3 DEF BothBeatOne, query
<1> QED BY <1>1, <1>9, <1>10, <1>11, <1>12, <1>13 DEF NotAhead, Merging

(* Cutting a list keeps it in order.                                         *)
LEMMA CutFacts ==
  ASSUME NEW list \in Seq(Row), NEW n \in 0 .. Len(list), Distinct(list)
  PROVE  /\ SubSeq(list, 1, n) \in Seq(Row) /\ Len(SubSeq(list, 1, n)) = n
         /\ Distinct(SubSeq(list, 1, n))
         /\ \A other : NotNewer(other, list) => NotNewer(other, SubSeq(list, 1, n))
<1>1. /\ SubSeq(list, 1, n) \in Seq(Row) /\ Len(SubSeq(list, 1, n)) = n
      /\ \A i \in 1 .. n : SubSeq(list, 1, n)[i] = list[i] /\ i \in DOMAIN list
  OBVIOUS
<1>2. DOMAIN SubSeq(list, 1, n) = 1 .. n
  BY <1>1
<1> QED BY <1>1, <1>2 DEF Distinct, NotNewer

(* The documents come first, and the results that are left behind them.      *)
LEMMA DocSearchStep == IInv /\ DocSearch => IInv'
<1> SUFFICES ASSUME IInv, DocSearch PROVE IInv'
  OBVIOUS
<1> USE DEF IInv
<1>1. pc = "docs" /\ UNCHANGED <<table, query, vec, key>>
  BY DEF DocSearch
<1>2. PICK M \in SUBSET (Stored \cap Doc) : \E q \in Ranking(M, SqlLimit(k)) :
        LET found == Rows(q)
            all == Merged(found)
        IN /\ docs' = found
           /\ IF found = <<>> \/ Len(all) <= k THEN
                Return("ok") /\ res' = (IF found = <<>> THEN res ELSE all)
              ELSE IF k < 0 THEN Return("panic") /\ UNCHANGED res
              ELSE Return("ok") /\ res' = SubSeq(all, 1, k)
  BY DEF DocSearch
<1>3. PICK q \in Ranking(M, SqlLimit(k)) :
        /\ docs' = Rows(q)
        /\ IF Rows(q) = <<>> \/ Len(Merged(Rows(q))) <= k THEN
             Return("ok") /\ res' = (IF Rows(q) = <<>> THEN res ELSE Merged(Rows(q)))
           ELSE IF k < 0 THEN Return("panic") /\ UNCHANGED res
           ELSE Return("ok") /\ res' = SubSeq(Merged(Rows(q)), 1, k)
  BY <1>2
<1> DEFINE found == Rows(q)
           all == Merged(found)
<1>4. overview /\ docs = <<>> /\ outcome = "none" /\ Ranked
  BY <1>1 DEF Stage, Merging
<1>5. /\ vec \in Seq(Row) /\ key \in Seq(Row) /\ res \in Seq(Row) /\ k \in Int
      /\ FuseLimit \in Nat /\ FuseLimit > 0 /\ SqlLimit(k) \in Nat
  BY Types
<1>6. /\ found \in Seq(Row) /\ Len(found) = Len(q) /\ Distinct(found)
      /\ \A i \in 1 .. Len(q) : found[i].id = q[i] /\ found[i].v = table[q[i]]
  <2>1. M \in SUBSET Stored /\ table \in [Chunk -> 0 .. LastVersion]
    BY DEF TypeOK
  <2> QED BY <1>5, <2>1, RowsFacts
<1>7. Len(q) <= SqlLimit(k)
  BY <1>5, RankingFacts DEF Stored
<1>8. NotNewer(vec, found) /\ NotNewer(key, found)
  BY <1>6 DEF NotAhead, NotNewer
<1> HIDE DEF found
<1>9. /\ all \in Seq(Row) /\ Distinct(all)
      /\ NotNewer(vec, all) /\ NotNewer(key, all) /\ NotNewer(found, all)
      /\ Ids(found) \cup Ids(res) \subseteq Ids(all)
      /\ Len(res) <= Len(all) /\ Len(found) <= Len(all)
  BY <1>4, <1>5, <1>6, <1>8, MergedFacts DEF Ranked
<1> HIDE DEF all
<1>10. docs' = found /\ pc' = "returned" /\ outcome' \in {"ok", "panic"}
  BY <1>3 DEF Return, found
<1>11. /\ found = <<>> => res' = res /\ outcome' = "ok"
       /\ found # <<>> /\ Len(all) <= k => res' = all /\ outcome' = "ok"
       /\ found # <<>> /\ Len(all) > k /\ k < 0 => res' = res /\ outcome' = "panic"
       /\ found # <<>> /\ Len(all) > k /\ k >= 0 => res' = SubSeq(all, 1, k) /\ outcome' = "ok"
  <2>1. Len(all) \in Nat
    BY <1>9
  <2> QED BY <1>3, <1>5, <2>1 DEF Return, found, all
<1>12. found # <<>> => k # 0 /\ Len(found) > 0 /\ (k > 0 => FuseLimit = k)
  <2>1. found # <<>> => Len(found) > 0
    BY <1>6
  <2> QED BY <1>5, <1>6, <1>7, <2>1 DEF SqlLimit, FuseLimit
<1>13. \/ res' = res /\ (outcome' = "ok" => found = <<>>) /\ (outcome' = "panic" => found # <<>> /\ k < 0)
       \/ res' = all /\ Len(all) <= k /\ outcome' = "ok" /\ found # <<>>
       \/ res' = SubSeq(all, 1, k) /\ k \in 0 .. Len(all) /\ outcome' = "ok" /\ found # <<>>
  <2>1. Len(all) \in Nat
    BY <1>9
  <2> QED BY <1>5, <1>11, <2>1
<1>14. res' \in Seq(Row)
  BY <1>5, <1>9, <1>13, CutFacts
<1>15. TypeOK'
  BY <1>1, <1>6, <1>10, <1>14 DEF TypeOK, query
<1>16. Stage'
  BY <1>1, <1>4, <1>10, <1>13 DEF Stage, query
<1>17. ASSUME outcome' = "ok" PROVE Ranked' /\ WithDocs'
  <2>1. CASE res' = res /\ found = <<>>
    BY <1>1, <1>4, <1>10, <2>1, EmptyList DEF Ranked, WithDocs, FuseLimit, query
  <2>2. CASE res' = all /\ Len(all) <= k /\ found # <<>>
    <3>1. k > 0 /\ FuseLimit = k
      BY <1>5, <1>9, <1>6, <1>12, <2>2
    <3>2. Len(all) < FuseLimit => Ids(vec) \cup Ids(key) \subseteq Ids(all)
      <4>1. Len(all) < FuseLimit => Len(res) < FuseLimit
        BY <1>5, <1>9
      <4> QED BY <1>4, <1>9, <4>1 DEF Ranked
    <3> QED BY <1>1, <1>9, <1>10, <2>2, <3>1, <3>2 DEF Ranked, WithDocs, FuseLimit, query
  <2>3. CASE res' = SubSeq(all, 1, k) /\ k \in 0 .. Len(all) /\ found # <<>>
    <3>1. k > 0 /\ FuseLimit = k
      BY <1>5, <1>12, <2>3
    <3>2. /\ Len(res') = k /\ Distinct(res') /\ NotNewer(vec, res') /\ NotNewer(key, res')
          /\ NotNewer(docs', res')
      BY <1>9, <1>10, <2>3, CutFacts
    <3>3. ~(Len(res') < FuseLimit) /\ Len(res') <= FuseLimit
      BY <1>5, <3>1, <3>2
    <3> QED BY <1>1, <3>2, <3>3 DEF Ranked, WithDocs, FuseLimit, query
  <2> QED BY <1>13, <1>17, <2>1, <2>2, <2>3
<1>18. BothBeatOne'
  BY <1>1, <1>4 DEF BothBeatOne, query
<1> QED BY <1>1, <1>10, <1>15, <1>16, <1>17, <1>18 DEF NotAhead, Merging, Ok

-----------------------------------------------------------------------------
(* Theorems. *)

(* IInv holds in every state of a hybrid search.                             *)
THEOREM Invariance == Spec => []IInv
<1>1. Init => IInv
  BY InitIInv
<1>2. IInv /\ [Next]_vars => IInv'
  <2> SUFFICES ASSUME IInv, [Next]_vars PROVE IInv'
    OBVIOUS
  <2>1. CASE UNCHANGED vars
    BY <2>1 DEF IInv, TypeOK, Stage, Ranked, WithDocs, Merging, NotAhead, Ok, BothBeatOne,
                FuseLimit, vars, query
  <2>2. CASE Next
    <3>1. CASE Returned
      BY <2>1, <3>1 DEF Returned, IInv, TypeOK, Stage, Ranked, WithDocs, Merging, NotAhead,
                        Ok, BothBeatOne, FuseLimit, vars, query
    <3> QED BY <2>2, <3>1, UpsertStep, VectorStep, KeywordStep, ReadFailsStep, FuseStep,
               BoostStep, DocSearchStep DEF Next
  <2> QED BY <2>1, <2>2
<1> QED BY <1>1, <1>2, PTL DEF Spec

(* The lists are of rows that were stored, and the search is where it can be. *)
THEOREM TypeCorrect == Spec => []TypeOK
<1>1. IInv => TypeOK
  BY DEF IInv
<1> QED BY <1>1, Invariance, PTL

(* No result of HybridSearch is older than what the search itself has read.  *)
THEOREM ShowsNewestRead == Spec => []NewestRead
<1>1. IInv => NewestRead
  <2> SUFFICES ASSUME IInv, Ok, NEW i \in DOMAIN res, NEW list \in {vec, key, docs},
                      NEW j \in DOMAIN list, list[j].id = res[i].id
               PROVE  list[j].v <= res[i].v
    BY DEF NewestRead
  <2>1. NotNewer(list, res)
    BY DEF IInv, Ranked, WithDocs
  <2> QED BY <2>1 DEF NotNewer
<1> QED BY <1>1, Invariance, PTL

(* What both halves of FuseRRF found is never behind what only one of them did. *)
THEOREM RanksBothFirst == Spec => []BothBeatOne
<1>1. IInv => BothBeatOne
  BY DEF IInv
<1> QED BY <1>1, Invariance, PTL

(* The results are a ranking of k at most that leaves out nothing it has room *)
(* for, whatever FuseRRF, applyDocBoost and mergeDocResults do in turn.      *)
THEOREM ReturnsRanking == Spec => []ResultIsRanking
<1>1. IInv => ResultIsRanking
  BY DEF IInv, ResultIsRanking, Ranked, WithDocs, Distinct
<1> QED BY <1>1, Invariance, PTL

(* Only a negative k with documents to merge makes the merge panic.          *)
THEOREM PanicsOnlyOnNegativeK == Spec => []PanicsOnNegativeK
<1>1. IInv => PanicsOnNegativeK
  BY DEF IInv, Stage, PanicsOnNegativeK
<1> QED BY <1>1, Invariance, PTL

-----------------------------------------------------------------------------
(* Scoring the results. *)

(* The judgments met by the first n results are paired with as many of them,  *)
(* and every other of these results meets only judgments that are met.       *)
PairedWith(results, expected, n, met, hits) ==
  /\ met \in SUBSET DOMAIN expected /\ hits = Cardinality(met)
  /\ \E f \in [met -> 1 .. n] :
       /\ \A i \in met : results[f[i]].id \in expected[i]
       /\ \A i, j \in met : f[i] = f[j] => i = j
       /\ \A x \in 1 .. n : (\A i \in met : f[i] # x) =>
            \A i \in DOMAIN expected \ met : results[x].id \notin expected[i]

Paired(results, expected, n, s) == PairedWith(results, expected, n, s.met, s.hits)

(* One step of scoreQuery.                                                   *)
ScoreNext(results, expected, s, n) ==
  LET open == Open(expected, s.met, results[n].id)
  IN IF open = {} THEN s
     ELSE [met |-> s.met \cup {First(open)}, hits |-> s.hits + 1]

(* The recursive definition of the score has a solution.                     *)
LEMMA ScoredDef ==
  ASSUME NEW results \in Seq(Row), NEW expected
  PROVE  \A n \in 0 .. Len(results) :
           Scored(results, expected)[n] =
             IF n = 0 THEN [met |-> {}, hits |-> 0]
             ELSE ScoreNext(results, expected, Scored(results, expected)[n - 1], n)
<1> DEFINE N == Len(results)
           step(g, i) == IF i = 0 THEN [met |-> {}, hits |-> 0]
                         ELSE ScoreNext(results, expected, g[i - 1], i)
           Solves(g, n) == g = [i \in 0 .. n |-> step(g, i)]
           Good == {n \in 0 .. N : \E g : Solves(g, n)}
<1>1. N \in Nat
  OBVIOUS
<1> HIDE DEF N
<1>2. 0 \in Good
  <2> DEFINE g == [i \in 0 .. 0 |-> [met |-> {}, hits |-> 0]]
  <2>1. Solves(g, 0)
    OBVIOUS
  <2> HIDE DEF Solves, g
  <2> QED BY <1>1, <2>1
<1>3. ASSUME NEW n \in 0 .. N, n < N, n \in Good PROVE n + 1 \in Good
  <2>1. PICK g : Solves(g, n)
    BY <1>3
  <2> DEFINE h == [i \in 0 .. n + 1 |-> IF i = n + 1 THEN step(g, n + 1) ELSE g[i]]
  <2>2. \A i \in 0 .. n : h[i] = g[i] /\ g[i] = step(g, i)
    <3> HIDE DEF step
    <3>1. g = [i \in 0 .. n |-> step(g, i)]
      BY <2>1
    <3>2. \A i \in 0 .. n : i \in 0 .. n + 1 /\ i # n + 1
      BY <1>1
    <3> QED BY <3>1, <3>2
  <2>3. ASSUME NEW i \in 0 .. n + 1 PROVE h[i] = step(h, i)
    <3>1. CASE i = n + 1
      <4>1. (n + 1) - 1 = n /\ n + 1 # 0 /\ n \in 0 .. n /\ n + 1 \in 0 .. n + 1
        BY <1>1
      <4>2. h[i] = ScoreNext(results, expected, g[n], n + 1) /\ h[n] = g[n]
        BY <2>2, <3>1, <4>1
      <4> HIDE DEF h
      <4> QED BY <3>1, <4>1, <4>2
    <3>2. CASE i \in 0 .. n
      <4>1. i = 0 \/ i - 1 \in 0 .. n
        BY <1>1, <3>2
      <4> HIDE DEF h
      <4> QED BY <2>2, <3>2, <4>1
    <3> QED BY <3>1, <3>2, <1>1
  <2>4. Solves(h, n + 1)
    <3>1. h = [i \in 0 .. n + 1 |-> h[i]]
      OBVIOUS
    <3> HIDE DEF h, step
    <3> QED BY <2>3, <3>1
  <2> HIDE DEF Solves, h
  <2> QED BY <1>1, <1>3, <2>4
<1>4. \E g : Solves(g, N)
  <2>1. \A n \in 0 .. N : n < N /\ n \in Good => n + 1 \in Good
    BY <1>3
  <2>2. 0 .. N \subseteq Good
    <3> HIDE DEF Good, N
    <3> QED BY <1>1, <1>2, <2>1, UpTo
  <2> HIDE DEF Solves, N
  <2> QED BY <1>1, <2>2
<1>5. Scored(results, expected) = CHOOSE g : Solves(g, N)
  BY Zenon DEF Scored, ScoreNext, N
<1>6. Solves(Scored(results, expected), N)
  <2> HIDE DEF Solves
  <2> QED BY <1>4, <1>5
<1> QED BY <1>6 DEF N

(* Every step keeps the pairing.                                             *)
LEMMA PairedStep ==
  ASSUME NEW results \in Seq(Row), NEW m \in Nat, NEW expected \in [1 .. m -> SUBSET Chunk],
         NEW n \in 1 .. Len(results), NEW s, Paired(results, expected, n - 1, s)
  PROVE  Paired(results, expected, n, ScoreNext(results, expected, s, n))
<1> DEFINE open == Open(expected, s.met, results[n].id)
           i0 == First(open)
           met == s.met \cup {i0}
<1>1. /\ s.met \in SUBSET (1 .. m) /\ s.hits = Cardinality(s.met)
      /\ DOMAIN expected = 1 .. m /\ n \in Nat /\ n - 1 \in Nat
      /\ 1 .. n - 1 \subseteq 1 .. n /\ n \notin 1 .. n - 1
      /\ \A x \in 1 .. n : x = n \/ x \in 1 .. n - 1
  BY DEF Paired, PairedWith
<1>2. PICK f \in [s.met -> 1 .. n - 1] :
        /\ \A i \in s.met : results[f[i]].id \in expected[i]
        /\ \A i, j \in s.met : f[i] = f[j] => i = j
        /\ \A x \in 1 .. n - 1 : (\A i \in s.met : f[i] # x) =>
             \A i \in DOMAIN expected \ s.met : results[x].id \notin expected[i]
  BY DEF Paired, PairedWith
<1>3. open = {i \in DOMAIN expected \ s.met : results[n].id \in expected[i]}
  BY DEF Open
<1>4. CASE open = {}
  <2>1. ScoreNext(results, expected, s, n) = s
    BY <1>4 DEF ScoreNext
  <2>2. f \in [s.met -> 1 .. n]
    BY <1>1, <1>2
  <2>3. \A x \in 1 .. n : (\A i \in s.met : f[i] # x) =>
             \A i \in DOMAIN expected \ s.met : results[x].id \notin expected[i]
    BY <1>1, <1>2, <1>3, <1>4
  <2> HIDE DEF open
  <2>4. Paired(results, expected, n, s)
    BY <1>1, <1>2, <2>2, <2>3 DEF Paired, PairedWith
  <2> QED BY <2>1, <2>4
<1>5. CASE open # {}
  <2>1. i0 \in open
    <3>1. open \subseteq Nat
      BY <1>1, <1>3
    <3>2. \E i \in open : \A j \in open : i <= j
      <4> HIDE DEF open
      <4> QED BY <1>5, <3>1, LeastNumber
    <3> HIDE DEF open
    <3> QED BY <3>2 DEF First
  <2>2. i0 \in 1 .. m /\ i0 \notin s.met /\ results[n].id \in expected[i0]
    BY <1>1, <1>3, <2>1
  <2>3. ScoreNext(results, expected, s, n) = [met |-> met, hits |-> s.hits + 1]
    BY <1>5 DEF ScoreNext
  <2> HIDE DEF i0
  <2>4. met \in SUBSET (1 .. m) /\ Cardinality(met) = s.hits + 1
    <3>1. IsFiniteSet(s.met)
      BY <1>1, InInterval
    <3> QED BY <1>1, <2>2, <3>1, FS_AddElement
  <2> DEFINE g == [i \in met |-> IF i = i0 THEN n ELSE f[i]]
  <2>5. \A i \in s.met : i \in met /\ g[i] = f[i] /\ f[i] \in 1 .. n - 1 /\ i # i0
    BY <1>2, <2>2
  <2>6. i0 \in met /\ g[i0] = n /\ \A i \in met : i = i0 \/ i \in s.met
    OBVIOUS
  <2>7. g \in [met -> 1 .. n]
    BY <1>1, <2>5, <2>6
  <2> HIDE DEF g, met, open
  <2>8. \A i \in met : results[g[i]].id \in expected[i]
    BY <1>2, <2>2, <2>5, <2>6
  <2>9. \A i, j \in met : g[i] = g[j] => i = j
    BY <1>1, <1>2, <2>5, <2>6
  <2>10. ASSUME NEW x \in 1 .. n, \A i \in met : g[i] # x,
                NEW i \in DOMAIN expected \ met
         PROVE  results[x].id \notin expected[i]
    <3>1. x \in 1 .. n - 1 /\ \A j \in s.met : f[j] # x
      BY <1>1, <2>5, <2>6, <2>10
    <3>2. i \in DOMAIN expected \ s.met
      BY <2>5
    <3> QED BY <1>2, <3>1, <3>2
  <2>11. Paired(results, expected, n, [met |-> met, hits |-> s.hits + 1])
    <3> DEFINE t == [met |-> met, hits |-> s.hits + 1]
    <3>1. t.met = met /\ t.hits = s.hits + 1
      OBVIOUS
    <3> HIDE DEF t
    <3>2. met \in SUBSET DOMAIN expected /\ s.hits + 1 = Cardinality(met)
      BY <1>1, <2>4
    <3>3. PairedWith(results, expected, n, met, s.hits + 1)
      BY <2>7, <2>8, <2>9, <2>10, <3>2 DEF PairedWith
    <3>4. Paired(results, expected, n, t)
      BY <3>1, <3>3 DEF Paired
    <3> QED BY <3>4 DEF t
  <2> QED BY <2>3, <2>11
<1> QED BY <1>4, <1>5

(* So the score of all results is a pairing.                                 *)
LEMMA ScoredPairs ==
  ASSUME NEW results \in Seq(Row), NEW m \in Nat, NEW expected \in [1 .. m -> SUBSET Chunk]
  PROVE  Paired(results, expected, Len(results), Scored(results, expected)[Len(results)])
<1> DEFINE N == Len(results)
           sc == Scored(results, expected)
           Good == {n \in 0 .. N : Paired(results, expected, n, sc[n])}
<1>1. N \in Nat
  OBVIOUS
<1>2. 0 \in Good
  <2>1. sc[0] = [met |-> {}, hits |-> 0]
    BY <1>1, ScoredDef
  <2> HIDE DEF sc
  <2>2. [i \in {} |-> 0] \in [{} -> 1 .. 0] /\ Cardinality({}) = 0 /\ \A x \in 1 .. 0 : FALSE
    BY FS_EmptySet
  <2>3. Paired(results, expected, 0, [met |-> {}, hits |-> 0])
    BY <2>2 DEF Paired, PairedWith
  <2> QED BY <1>1, <2>1, <2>3
<1>3. \A n \in 0 .. N : n < N /\ n \in Good => n + 1 \in Good
  <2> SUFFICES ASSUME NEW n \in 0 .. N, n < N, n \in Good PROVE n + 1 \in Good
    OBVIOUS
  <2>1. n + 1 \in 1 .. N /\ n + 1 \in 0 .. N /\ (n + 1) - 1 = n /\ n + 1 # 0
    BY <1>1
  <2>2. sc[n + 1] = ScoreNext(results, expected, sc[n], n + 1)
    BY <2>1, ScoredDef
  <2>3. Paired(results, expected, (n + 1) - 1, sc[n])
    BY <2>1
  <2> HIDE DEF sc
  <2>4. Paired(results, expected, n + 1, ScoreNext(results, expected, sc[n], n + 1))
    BY <2>1, <2>3, PairedStep
  <2> QED BY <2>1, <2>2, <2>4
<1>4. 0 .. N \subseteq Good
  <2> HIDE DEF N, Good
  <2> QED BY <1>1, <1>2, <1>3, UpTo
<1> QED BY <1>1, <1>4

(* No set of judgments that can be met is more than twice as large, and none  *)
(* is larger if no result meets two judgments.                               *)
LEMMA AssignableBound ==
  ASSUME NEW results \in Seq(Row), NEW m \in Nat, NEW expected \in [1 .. m -> SUBSET Chunk],
         NEW s, Paired(results, expected, Len(results), s),
         NEW J \in SUBSET DOMAIN expected, Assignable(results, expected, J)
  PROVE  /\ Cardinality(J) \in Nat /\ s.hits \in Nat /\ Cardinality(J) <= 2 * s.hits
         /\ (\A i, j \in DOMAIN expected : \A n \in DOMAIN results :
               results[n].id \in expected[i] \cap expected[j] => i = j)
              => Cardinality(J) <= s.hits
<1>1. /\ DOMAIN expected = 1 .. m /\ DOMAIN results = 1 .. Len(results)
      /\ s.met \in SUBSET (1 .. m) /\ s.hits = Cardinality(s.met)
  BY DEF Paired, PairedWith
<1>2. PICK f \in [s.met -> 1 .. Len(results)] :
        /\ \A i \in s.met : results[f[i]].id \in expected[i]
        /\ \A i, j \in s.met : f[i] = f[j] => i = j
        /\ \A x \in 1 .. Len(results) : (\A i \in s.met : f[i] # x) =>
             \A i \in DOMAIN expected \ s.met : results[x].id \notin expected[i]
  BY DEF Paired, PairedWith
<1>3. PICK g \in [J -> 1 .. Len(results)] :
        /\ \A i \in J : results[g[i]].id \in expected[i]
        /\ \A i, j \in J : g[i] = g[j] => i = j
  BY <1>1 DEF Assignable
<1>4. /\ IsFiniteSet(s.met) /\ s.hits \in Nat
      /\ IsFiniteSet(J) /\ Cardinality(J) \in Nat
  BY <1>1, InInterval
<1> DEFINE rest == J \ s.met
\* the judgment that has the result which i was to have
           taken(i) == CHOOSE j \in s.met : f[j] = g[i]
           t == [i \in rest |-> taken(i)]
<1>5. \A i \in rest : taken(i) \in s.met /\ f[taken(i)] = g[i]
  <2> SUFFICES ASSUME NEW i \in rest PROVE \E j \in s.met : f[j] = g[i]
    OBVIOUS
  <2>1. g[i] \in 1 .. Len(results) /\ results[g[i]].id \in expected[i] /\ i \in DOMAIN expected \ s.met
    BY <1>3
  <2> QED BY <1>2, <2>1
<1>6. \A i \in rest : i \in J
  OBVIOUS
<1> HIDE DEF rest, taken
<1>7. t \in Injection(rest, s.met)
  <2>1. t \in [rest -> s.met] /\ \A i, j \in rest : t[i] = t[j] => i = j
    BY <1>3, <1>5, <1>6
  <2> QED BY <2>1 DEF Injection, IsInjective
<1>8. Cardinality(J) <= 2 * s.hits
  <2>1. IsFiniteSet(rest) /\ Cardinality(rest) <= s.hits
    <3> HIDE DEF t
    <3> QED BY <1>1, <1>4, <1>7, FS_Injection
  <2>2. Cardinality(rest) = Cardinality(J) - Cardinality(J \cap s.met)
    BY <1>4, FS_Difference DEF rest
  <2>3. Cardinality(J \cap s.met) <= s.hits
    <3>1. J \cap s.met \in SUBSET s.met
      OBVIOUS
    <3> QED BY <1>1, <1>4, <3>1, FS_Subset
  <2>4. Cardinality(J \cap s.met) \in Nat /\ Cardinality(rest) \in Nat
    <3>1. IsFiniteSet(J \cap s.met)
      BY <1>4, FS_Intersection
    <3> QED BY <2>1, <3>1, FS_CardinalityType
  <2> QED BY <1>4, <2>1, <2>2, <2>3, <2>4
<1>9. ASSUME \A i, j \in DOMAIN expected : \A n \in DOMAIN results :
               results[n].id \in expected[i] \cap expected[j] => i = j
      PROVE  Cardinality(J) <= s.hits
  <2>1. ASSUME NEW i \in J, i \notin s.met PROVE FALSE
    <3>1. i \in rest
      BY <2>1 DEF rest
    <3>2. taken(i) \in s.met /\ f[taken(i)] = g[i] /\ g[i] \in DOMAIN results
      BY <1>1, <1>3, <1>5, <3>1
    <3>3. results[g[i]].id \in expected[i] \cap expected[taken(i)]
      BY <1>2, <1>3, <3>2
    <3>4. taken(i) = i
      BY <1>1, <1>9, <3>2, <3>3
    <3> QED BY <2>1, <3>2, <3>4
  <2>2. J \in SUBSET s.met
    BY <2>1
  <2> QED BY <1>1, <1>4, <2>2, FS_Subset
<1> QED BY <1>4, <1>8, <1>9

(* The score against the best pairing, for any results and judgments.        *)
LEMMA HitsBound ==
  ASSUME NEW results \in Seq(Row), NEW m \in Nat, NEW expected \in [1 .. m -> SUBSET Chunk]
  PROVE  /\ Hits(results, expected) <= Best(results, expected)
         /\ Best(results, expected) <= 2 * Hits(results, expected)
         /\ (\A i, j \in DOMAIN expected : \A n \in DOMAIN results :
               results[n].id \in expected[i] \cap expected[j] => i = j)
              => Hits(results, expected) = Best(results, expected)
<1> DEFINE s == Scored(results, expected)[Len(results)]
           sizes == {Cardinality(J) : J \in {J \in SUBSET DOMAIN expected :
                                               Assignable(results, expected, J)}}
           best == Best(results, expected)
           apart == \A i, j \in DOMAIN expected : \A n \in DOMAIN results :
                      results[n].id \in expected[i] \cap expected[j] => i = j
<1>1. Paired(results, expected, Len(results), s) /\ Hits(results, expected) = s.hits
  BY ScoredPairs DEF Hits
<1> HIDE DEF s
<1>2. s.hits \in sizes
  <2>1. s.met \in SUBSET DOMAIN expected /\ s.hits = Cardinality(s.met)
    BY <1>1 DEF Paired, PairedWith
  <2>2. DOMAIN results = 1 .. Len(results)
    OBVIOUS
  <2>3. Assignable(results, expected, s.met)
    BY <1>1, <2>2 DEF Paired, PairedWith, Assignable
  <2> QED BY <2>1, <2>3
<1>3. \A n \in sizes : n \in Nat /\ s.hits \in Nat /\ n <= 2 * s.hits /\ (apart => n <= s.hits)
  <2> SUFFICES ASSUME NEW J \in SUBSET DOMAIN expected, Assignable(results, expected, J)
               PROVE  /\ Cardinality(J) \in Nat /\ s.hits \in Nat
                      /\ Cardinality(J) <= 2 * s.hits /\ (apart => Cardinality(J) <= s.hits)
    OBVIOUS
  <2> QED BY <1>1, AssignableBound
<1>4. best = CHOOSE n \in sizes : \A l \in sizes : l <= n
  BY DEF Best
<1> HIDE DEF sizes, best, apart
<1>5. best \in sizes /\ \A l \in sizes : l <= best
  <2>1. s.hits \in Nat /\ 2 * s.hits \in Nat /\ sizes \subseteq 0 .. 2 * s.hits /\ sizes # {}
    BY <1>2, <1>3
  <2>2. \E n \in sizes : \A l \in sizes : l <= n
    BY <2>1, GreatestNumber
  <2> QED BY <1>4, <2>2
<1>6. s.hits <= best /\ best <= 2 * s.hits /\ (apart => s.hits = best)
  BY <1>2, <1>3, <1>5
<1> QED BY <1>1, <1>6 DEF best, apart

(* Precision and recall as scoreQuery counts them are those of a pairing, at  *)
(* least half as good as the best there is, and the best where no result     *)
(* meets two judgments.                                                      *)
THEOREM ScoresPairs == Spec => []HitsArePairs
<1>1. TypeOK => HitsArePairs
  <2> SUFFICES ASSUME TypeOK, NEW expected \in Judgments
               PROVE  LET hits == Hits(res, expected)
                          best == Best(res, expected)
                          apart == \A i, j \in DOMAIN expected : \A n \in DOMAIN res :
                                     res[n].id \in expected[i] \cap expected[j] => i = j
                      IN /\ hits <= best /\ best <= 2 * hits
                         /\ apart => hits = best
    BY Zenon DEF HitsArePairs
  <2>1. PICK m \in Nat : expected \in [1 .. m -> SUBSET Chunk]
    <3>1. PICK n \in 1 .. 2 : expected \in [1 .. n -> SUBSET Chunk]
      BY DEF Judgments
    <3>2. n \in Nat
      OBVIOUS
    <3> QED BY <3>1, <3>2
  <2>2. res \in Seq(Row)
    BY Types
  <2> QED BY <2>1, <2>2, HitsBound
<1> QED BY <1>1, TypeCorrect, PTL
=============================================================================
