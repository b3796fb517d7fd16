----------------------------- MODULE FilesProofs -----------------------------
(***************************************************************************)
(* Theorems about files on their way through ingestion, for files and trees   *)
(* of any length, any limits and any types of units.                         *)
(***************************************************************************)
EXTENDS Files, FiniteSetTheorems, TLAPS

-----------------------------------------------------------------------------
(* Numbers. *)

(* Every set of natural numbers that is not empty has a least element.       *)
LEMMA LeastNumber ==
  ASSUME NEW S, S \subseteq Nat, S # {}
  PROVE  \E m \in S : \A n \in S : m <= n
<1> DEFINE R == OpToRel(<, Nat)
<1>1. IsWellFoundedOn(R, Nat)
  BY NatLessThanWellFounded
<1>2. PICK m \in S : \A n \in S : <<n, m>> \notin R
  <2> HIDE DEF R
  <2> QED BY <1>1, WFMin
<1>3. \A n \in S : <<n, m>> \notin R => m <= n
  BY DEF OpToRel
<1> QED BY <1>2, <1>3

(* One with an upper bound has a greatest. *)
LEMMA GreatestNumber ==
  ASSUME NEW b \in Nat, NEW S, S \subseteq 0 .. b, S # {}
  PROVE  \E m \in S : \A n \in S : n <= m
<1> DEFINE U == {u \in Nat : \A s \in S : s <= u}
<1>1. U \subseteq Nat /\ b \in U
  OBVIOUS
<1>2. PICK u \in U : \A v \in U : u <= v
  <2> HIDE DEF U
  <2> QED BY <1>1, LeastNumber
<1>3. ASSUME u \notin S PROVE FALSE
  <2>1. \A s \in S : s \in Nat /\ s < u
    BY <1>2, <1>3
  <2>2. u - 1 \in U
    <3>1. PICK s \in S : TRUE
      OBVIOUS
    <3>2. u - 1 \in Nat /\ \A t \in S : t <= u - 1
      BY <2>1, <3>1, <1>2
    <3> QED BY <3>2
  <2> QED BY <2>2, <1>2
<1> QED BY <1>2, <1>3

(* Induction, over a set instead of a predicate: what holds of 0, and of n+1  *)
(* if it holds of n, holds up to N.                                          *)
LEMMA UpTo ==
  ASSUME NEW N \in Nat, NEW S, 0 \in S,
         \A n \in 0 .. N : n < N /\ n \in S => n + 1 \in S
  PROVE  0 .. N \subseteq S
<1> DEFINE Missing == {n \in 0 .. N : n \notin S}
<1>1. SUFFICES ASSUME Missing # {} PROVE FALSE
  OBVIOUS
<1>2. PICK m \in Missing : \A n \in Missing : m <= n
  <2>1. Missing \subseteq Nat
    OBVIOUS
  <2> HIDE DEF Missing
  <2> QED BY <1>1, <2>1, LeastNumber
<1>3. m # 0 /\ m - 1 \in 0 .. N /\ m - 1 < N
  OBVIOUS
<1>4. m - 1 \in S
  BY <1>2, <1>3
<1> QED BY <1>3, <1>4

LEMMA InInterval ==
  ASSUME NEW n \in Nat, NEW T \in SUBSET (1 .. n)
  PROVE  IsFiniteSet(T) /\ Cardinality(T) \in Nat
<1>1. IsFiniteSet(1 .. n)
  BY FS_Interval
<1>2. IsFiniteSet(T)
  BY <1>1, FS_Subset
<1> QED BY <1>2, FS_CardinalityType

LEMMA CountUp ==
  ASSUME NEW n \in Nat
  PROVE  IsFiniteSet(1 .. n) /\ Cardinality(1 .. n) = n
<1>1. 1 \in Int /\ n \in Int
  OBVIOUS
<1> QED BY <1>1, FS_Interval

(* A finite set of natural numbers can be gone through in order.             *)
LEMMA OrderExists ==
  ASSUME NEW N \in Nat, NEW S \in SUBSET (1 .. N)
  PROVE  /\ InOrder(S) \in [1 .. Cardinality(S) -> S]
         /\ \A i, j \in 1 .. Cardinality(S) : i < j => InOrder(S)[i] < InOrder(S)[j]
         /\ \A i, j \in 1 .. Cardinality(S) : InOrder(S)[i] = InOrder(S)[j] => i = j
         /\ \A c \in S : \E i \in 1 .. Cardinality(S) : InOrder(S)[i] = c
<1> DEFINE Ordered(T) == \E p \in [1 .. Cardinality(T) -> T] :
                           \A i, j \in DOMAIN p : i < j => p[i] < p[j]
           Good == {n \in 0 .. N : \A T \in SUBSET (1 .. n) : Ordered(T)}
<1>2. 0 \in Good
  <2>1. ASSUME NEW T \in SUBSET (1 .. 0) PROVE Ordered(T)
    <3>1. T = {}
      OBVIOUS
    <3>2. Cardinality(T) = 0
      BY <3>1, FS_EmptySet
    <3> DEFINE none == [i \in 1 .. 0 |-> 0]
    <3>3. none \in [1 .. Cardinality(T) -> T]
      BY <3>1, <3>2
    <3>4. \A i, j \in DOMAIN none : i < j => none[i] < none[j]
      OBVIOUS
    <3> HIDE DEF none
    <3> QED BY <3>3, <3>4
  <2> HIDE DEF Ordered
  <2> QED BY <2>1
<1>3. ASSUME NEW n \in 0 .. N, n < N, n \in Good PROVE n + 1 \in Good
  <2>1. ASSUME NEW T \in SUBSET (1 .. n + 1) PROVE Ordered(T)
    <3>1. CASE T \in SUBSET (1 .. n)
      BY <1>3, <3>1
    <3>2. CASE T \notin SUBSET (1 .. n)
      <4> DEFINE U == T \ {n + 1}
      <4>1. n + 1 \in T /\ U \in SUBSET (1 .. n) /\ T = U \cup {n + 1} /\ n + 1 \notin U
        BY <3>2
      <4>2. PICK p \in [1 .. Cardinality(U) -> U] : \A i, j \in DOMAIN p : i < j => p[i] < p[j]
        BY <1>3, <4>1
      <4>3. PICK c \in Nat : c = Cardinality(U) /\ Cardinality(T) = c + 1
        <5> HIDE DEF U
        <5>1. IsFiniteSet(U) /\ Cardinality(U) \in Nat
          BY <4>1, InInterval
        <5>2. Cardinality(U \cup {n + 1}) = Cardinality(U) + 1
          BY <5>1, <4>1, FS_AddElement
        <5> QED BY <5>1, <5>2, <4>1
      <4> DEFINE q == [i \in 1 .. c + 1 |-> IF i = c + 1 THEN n + 1 ELSE p[i]]
      <4> HIDE DEF U
      <4>4. p \in [1 .. c -> U] /\ \A i, j \in 1 .. c : i < j => p[i] < p[j]
        BY <4>2, <4>3
      <4>5. \A i \in 1 .. c : p[i] \in 1 .. n
        BY <4>1, <4>4
      <4>6. q \in [1 .. Cardinality(T) -> T]
        BY <4>1, <4>3, <4>4
      <4>7. \A i, j \in DOMAIN q : i < j => q[i] < q[j]
        BY <4>4, <4>5
      <4> HIDE DEF q
      <4> QED BY <4>6, <4>7
    <3> HIDE DEF Ordered
    <3> QED BY <3>1, <3>2
  <2>2. n + 1 \in 0 .. N
    BY <1>3
  <2> HIDE DEF Ordered
  <2> QED BY <2>1, <2>2
<1>4. Ordered(S)
  <2>1. \A n \in 0 .. N : n < N /\ n \in Good => n + 1 \in Good
    BY <1>3
  <2>2. 0 .. N \subseteq Good
    <3> HIDE DEF Good
    <3> QED BY <1>2, <2>1, UpTo
  <2> HIDE DEF Ordered
  <2> QED BY <2>2
<1>5. InOrder(S) \in [1 .. Cardinality(S) -> S] /\ \A i, j \in DOMAIN InOrder(S) : i < j => InOrder(S)[i] < InOrder(S)[j]
  BY <1>4 DEF InOrder
<1>6. IsFiniteSet(S) /\ Cardinality(S) \in Nat /\ Cardinality(1 .. Cardinality(S)) = Cardinality(S)
  BY InInterval, CountUp
<1>7. \A i, j \in 1 .. Cardinality(S) : InOrder(S)[i] = InOrder(S)[j] => i = j
  <2> DEFINE p == InOrder(S)
             n == Cardinality(S)
  <2>1. \A i \in 1 .. n : p[i] \in Int
    <3>1. \A x \in S : x \in Int
      OBVIOUS
    <3> HIDE DEF p
    <3> QED BY <1>5, <3>1 DEF p
  <2>2. ASSUME NEW i \in 1 .. n, NEW j \in 1 .. n, p[i] = p[j] PROVE i = j
    <3>1. ~(p[i] < p[j]) /\ ~(p[j] < p[i])
      BY <2>1, <2>2
    <3>2. ~(i < j) /\ ~(j < i)
      BY <1>5, <3>1
    <3> QED BY <1>6, <3>2
  <2> QED BY <2>2
<1>8. InOrder(S) \in Injection(1 .. Cardinality(S), S)
  BY <1>5, <1>7 DEF Injection, IsInjective
<1>9. InOrder(S) \in Surjection(1 .. Cardinality(S), S)
  BY <1>6, <1>8, FS_Injection
<1> QED BY <1>5, <1>7, <1>9 DEF Surjection

-----------------------------------------------------------------------------
(* The parts of a unit. *)

(* How many parts of M lines are needed for len lines.                       *)
LEMMA PartsNeeded ==
  ASSUME NEW len \in Nat, NEW M \in Nat, len > 0, M > 0
  PROVE  LET n == (len + M - 1) \div M
         IN  n \in Nat /\ n > 0 /\ (n - 1) * M < len /\ len <= n * M /\ n <= len
<1> DEFINE n == (len + M - 1) \div M
           r == (len + M - 1) % M
<1>1. len + M - 1 = M * n + r /\ r \in 0 .. M - 1 /\ n \in Int
  OBVIOUS
<1> HIDE DEF n, r
<1>2. n * M <= len + M - 1 /\ len + M - 1 < n * M + M
  BY <1>1
<1>3. n > 0
  <2>1. n <= 0 => n * M <= 0
    BY <1>1
  <2> QED BY <1>1, <1>2, <2>1
<1>4. (n - 1) * M = n * M - M
  BY <1>1
<1>5. n <= len
  <2>1. n - 1 <= (n - 1) * M
    BY <1>1, <1>3
  <2> QED BY <1>1, <1>2, <1>4, <2>1
<1> QED BY <1>1, <1>2, <1>3, <1>4, <1>5 DEF n

(* What buildChunkFromLines makes of the lines from the opening to ln.       *)
LEMMA SplitFacts ==
  ASSUME NEW o \in Scope, NEW ln \in LineNo, o.start <= ln
  PROVE  LET u == Split(o, ln)
         IN  /\ u \in Seq(Part) /\ Len(u) \in Nat /\ Len(u) > 0 /\ DOMAIN u = 1 .. Len(u)
             /\ FirstLine(u) = o.start /\ FinalLine(u) = ln
             /\ \A j \in 1 .. Len(u) :
                  /\ u[j].t = o.t /\ u[j].name = o.name /\ u[j].decls = o.decls
                  /\ u[j].part = IF Len(u) = 1 THEN 0 ELSE j
                  /\ u[j].start = o.start + (j - 1) * MaxLines
                  /\ u[j].end = IF j = Len(u) THEN ln ELSE o.start + j * MaxLines - 1
                  /\ u[j].start \in Int /\ u[j].end \in Int
                  /\ o.start <= u[j].start /\ u[j].start <= u[j].end /\ u[j].end <= ln
                  /\ u[j].end - u[j].start < MaxLines
             /\ Len(u) > 1 => ln - o.start >= MaxLines
<1> DEFINE len == ln - o.start + 1
           n == (len + MaxLines - 1) \div MaxLines
           part(i) == [t |-> o.t, name |-> o.name, part |-> IF n = 1 THEN 0 ELSE i,
                       start |-> o.start + (i - 1) * MaxLines,
                       end |-> IF i = n THEN ln ELSE o.start + i * MaxLines - 1,
                       decls |-> o.decls]
           u == Split(o, ln)
<1>1. /\ MaxLines \in Nat /\ MaxLines > 0 /\ LastLine \in Nat
      /\ o.start \in 1 .. LastLine /\ ln \in 1 .. LastLine
      /\ o.t \in UnitType /\ o.name \in Name /\ o.decls \in SUBSET LineNo
  BY ChunkerAssumption DEF MaxLines, Scope, LineNo
<1>2. len \in Nat /\ len > 0 /\ len <= LastLine
  BY <1>1
<1>3. /\ n \in Nat /\ n > 0 /\ (n - 1) * MaxLines < len /\ len <= n * MaxLines /\ n <= len
  <2> HIDE DEF len
  <2> QED BY <1>1, <1>2, PartsNeeded
<1>4. u = [i \in 1 .. n |-> part(i)]
  BY DEF Split
<1> HIDE DEF n
<1>5. ASSUME NEW i \in 1 .. n
      PROVE  /\ o.start + (i - 1) * MaxLines \in Int /\ o.start + i * MaxLines - 1 \in Int
             /\ o.start <= o.start + (i - 1) * MaxLines
             /\ o.start + (i - 1) * MaxLines <= ln
             /\ i # n => o.start + i * MaxLines - 1 < ln
             /\ o.start + i * MaxLines - 1 = o.start + (i - 1) * MaxLines + MaxLines - 1
             /\ i = n => ln <= o.start + i * MaxLines - 1
  <2>1. i \in Int /\ i * MaxLines \in Int /\ (i - 1) * MaxLines \in Int
        /\ (i - 1) * MaxLines = i * MaxLines - MaxLines /\ (i - 1) * MaxLines >= 0
    BY <1>1, <1>3
  <2>2. (i - 1) * MaxLines <= (n - 1) * MaxLines
    BY <1>1, <1>3
  <2>3. i # n => i * MaxLines <= (n - 1) * MaxLines
    <3>1. i # n => i <= n - 1
      BY <1>3
    <3> QED BY <1>1, <1>3, <3>1
  <2>4. (n - 1) * MaxLines \in Int /\ n * MaxLines \in Int
    BY <1>1, <1>3
  <2> QED BY <1>1, <1>3, <2>1, <2>2, <2>3, <2>4
<1>6. ASSUME NEW i \in 1 .. n
      PROVE  /\ part(i) \in Part
             /\ o.start <= part(i).start /\ part(i).start <= part(i).end /\ part(i).end <= ln
             /\ part(i).end - part(i).start < MaxLines
             /\ part(i).start \in Int /\ part(i).end \in Int
  <2>1. /\ part(i).start \in 1 .. LastLine /\ part(i).end \in 1 .. LastLine
        /\ o.start <= part(i).start /\ part(i).start <= part(i).end /\ part(i).end <= ln
        /\ part(i).end - part(i).start < MaxLines
    BY <1>1, <1>5
  <2>2. part(i).part \in 0 .. LastLine
    BY <1>1, <1>2, <1>3
  <2>3. part(i) \in Part
    BY <1>1, <2>1, <2>2 DEF Part, LineNo
  <2> QED BY <2>1, <2>3
<1> HIDE DEF part, u
<1>7. u \in Seq(Part) /\ Len(u) = n /\ DOMAIN u = 1 .. n /\ \A i \in 1 .. n : u[i] = part(i)
  BY <1>3, <1>4, <1>6
<1>8. 1 \in 1 .. n /\ n \in 1 .. n
  BY <1>3
<1>9. FirstLine(u) = o.start /\ FinalLine(u) = ln
  BY <1>1, <1>7, <1>8 DEF FirstLine, FinalLine, part
<1>10. n > 1 => ln - o.start >= MaxLines
  <2>1. n > 1 => 1 * MaxLines <= (n - 1) * MaxLines
    BY <1>1, <1>3
  <2> QED BY <1>1, <1>3, <2>1
<1>11. \A i \in 1 .. n :
         /\ u[i].t = o.t /\ u[i].name = o.name /\ u[i].decls = o.decls
         /\ u[i].part = IF n = 1 THEN 0 ELSE i
         /\ u[i].start = o.start + (i - 1) * MaxLines
         /\ u[i].end = IF i = n THEN ln ELSE o.start + i * MaxLines - 1
  BY <1>7 DEF part
<1>12. \A i \in 1 .. n :
         /\ u[i].start \in Int /\ u[i].end \in Int
         /\ o.start <= u[i].start /\ u[i].start <= u[i].end /\ u[i].end <= ln
         /\ u[i].end - u[i].start < MaxLines
  BY <1>6, <1>7
<1> QED BY <1>3, <1>7, <1>9, <1>10, <1>11, <1>12 DEF u

-----------------------------------------------------------------------------
(* Counting openings and ends. *)

LEMMA CountType ==
  ASSUME NEW key, NEW s \in Int, NEW e \in Int
  PROVE  Count(key, s, e) \in Nat
<1>1. IsFiniteSet(s .. e)
  BY FS_Interval
<1>2. IsFiniteSet({i \in s .. e : src[i].k = key})
  BY <1>1, FS_Subset
<1> QED BY <1>2, FS_CardinalityType DEF Count

(* A line that is added changes no count of the lines before it.             *)
LEMMA CountBefore ==
  ASSUME src \in Seq(Line), NEW line \in Line, src' = Append(src, line),
         NEW key, NEW s \in Nat \ {0}, NEW e \in 0 .. Len(src)
  PROVE  Count(key, s, e)' = Count(key, s, e)
<1>1. \A i \in s .. e : src'[i] = src[i]
  OBVIOUS
<1>2. {i \in s .. e : src'[i].k = key} = {i \in s .. e : src[i].k = key}
  BY <1>1
<1> QED BY <1>2 DEF Count

LEMMA CountAdded ==
  ASSUME src \in Seq(Line), NEW line \in Line, src' = Append(src, line),
         NEW L \in Nat, L = Len(src), NEW key, NEW s \in 1 .. L + 1
  PROVE  Count(key, s, L + 1)' = Count(key, s, L) + (IF line.k = key THEN 1 ELSE 0)
<1> DEFINE old == {i \in s .. L : src[i].k = key}
           new == {i \in s .. L + 1 : src'[i].k = key}
<1>1. L \in Nat /\ src'[L + 1] = line /\ \A i \in s .. L : src'[i] = src[i]
  OBVIOUS
<1>2. L + 1 \notin old /\ \A i \in s .. L + 1 : i = L + 1 \/ i \in s .. L
  BY <1>1
<1>3. L + 1 \in s .. L + 1 /\ s .. L \subseteq s .. L + 1
  BY <1>1
<1>4. IsFiniteSet(old) /\ Cardinality(old) \in Nat
  <2>1. IsFiniteSet(s .. L)
    BY <1>1, FS_Interval
  <2>2. IsFiniteSet(old)
    BY <2>1, FS_Subset
  <2> QED BY <2>2, FS_CardinalityType
<1>5. CASE line.k = key
  <2>1. new = old \cup {L + 1}
    BY <1>1, <1>2, <1>3, <1>5
  <2> HIDE DEF old, new
  <2>2. Cardinality(new) = Cardinality(old) + 1
    BY <1>2, <1>4, <2>1, FS_AddElement
  <2> QED BY <1>5, <2>2 DEF Count, old, new
<1>6. CASE line.k # key
  <2>1. new = old
    BY <1>1, <1>2, <1>3, <1>6
  <2> HIDE DEF old, new
  <2>2. Cardinality(new) = Cardinality(old) + 0
    BY <1>4, <2>1
  <2> QED BY <1>6, <2>2 DEF Count, old, new
<1> QED BY <1>5, <1>6

(* How the depth changes with a line. *)
Step(line) == IF line.k = "open" THEN 1 ELSE IF line.k = "end" THEN -1 ELSE 0

LEMMA DepthFacts ==
  ASSUME src \in Seq(Line), NEW line \in Line, src' = Append(src, line),
         NEW L \in Nat, L = Len(src), NEW s \in Nat \ {0}
  PROVE  /\ \A e \in 0 .. L : Depth(s, e)' = Depth(s, e) /\ Depth(s, e) \in Int
         /\ s <= L + 1 => Depth(s, L + 1)' = Depth(s, L) + Step(line)
         /\ s = L + 1 => Depth(s, L) = 0
<1>2. ASSUME NEW e \in 0 .. L PROVE Depth(s, e)' = Depth(s, e) /\ Depth(s, e) \in Int
  <2>1. Count("open", s, e)' = Count("open", s, e) /\ Count("end", s, e)' = Count("end", s, e)
    BY CountBefore
  <2>2. Count("open", s, e) \in Nat /\ Count("end", s, e) \in Nat
    BY CountType
  <2> QED BY <2>1, <2>2 DEF Depth
<1>3. ASSUME s <= L + 1
      PROVE  Depth(s, L + 1)' = Depth(s, L) + Step(line)
  <2>1. s \in 1 .. L + 1
    BY <1>3
  <2>2. /\ Count("open", s, L + 1)'
             = Count("open", s, L) + (IF line.k = "open" THEN 1 ELSE 0)
        /\ Count("end", s, L + 1)'
             = Count("end", s, L) + (IF line.k = "end" THEN 1 ELSE 0)
    BY <2>1, CountAdded
  <2>3. Count("open", s, L) \in Nat /\ Count("end", s, L) \in Nat
    BY CountType
  <2>4. Depth(s, L + 1)'
          = Count("open", s, L + 1)' - Count("end", s, L + 1)'
    BY DEF Depth
  <2>5. Depth(s, L) = Count("open", s, L) - Count("end", s, L)
    BY DEF Depth
  <2> HIDE DEF Depth
  <2> QED BY <2>2, <2>3, <2>4, <2>5 DEF Step
<1>4. ASSUME s = L + 1 PROVE Depth(s, L) = 0
  <2>1. s .. L = {}
    BY <1>4
  <2>2. \A key : {i \in s .. L : src[i].k = key} = {}
    BY <2>1
  <2>3. \A key : Count(key, s, L) = 0
    BY <2>2, FS_EmptySet DEF Count
  <2> QED BY <2>3 DEF Depth
<1> QED BY <1>2, <1>3, <1>4

-----------------------------------------------------------------------------
(* The inductive invariant of the chunker. *)

(* The chunks of one unit. *)
IsUnit(u) == \E o \in Scope, e \in LineNo : o.start < e /\ u = Split(o, e)

(* The one chunk of a file that has no other.                                *)
Base == [t |-> "unknown", name |-> "base", part |-> 0,
         start |-> 1, end |-> Len(src), decls |-> {}]

Shapes ==
  /\ ended => units # <<>> /\ src # <<>>
  /\ \A i \in DOMAIN units : WholeFile(units[i]) \/ IsUnit(units[i])
  /\ \A i \in DOMAIN units : WholeFile(units[i]) =>
       ended /\ Len(units) = 1 /\ units[i] = <<Base>>

(* The open units, each opened inside the one before, with as many openings   *)
(* too many since its own as the stack is higher.                            *)
Opened ==
  /\ \A p \in DOMAIN stack :
       /\ stack[p].start <= Len(src) /\ src[stack[p].start].k = "open"
       /\ Depth(stack[p].start, Len(src)) = Len(stack) - p + 1
       /\ \A m \in stack[p].start .. Len(src) : Depth(stack[p].start, m) > 0
  /\ \A p, q \in DOMAIN stack : p < q => stack[p].start < stack[q].start

(* Every unit that was closed is balanced, and no opening is forgotten.      *)
Balanced ==
  /\ \A i \in Unit :
       FinalLine(units[i]) <= Len(src) /\ Matched(FirstLine(units[i]), FinalLine(units[i]))
  /\ \A s \in DOMAIN src : src[s].k = "open" =>
       \/ \E p \in DOMAIN stack : stack[p].start = s
       \/ \E i \in Unit : FirstLine(units[i]) = s

(* Units are nested in one another or apart, and closed before all around.   *)
Laminar ==
  /\ \A i, j \in Unit : i < j =>
       /\ FinalLine(units[i]) < FinalLine(units[j])
       /\ \/ FirstLine(units[j]) < FirstLine(units[i])
          \/ FinalLine(units[i]) < FirstLine(units[j])
  /\ \A i \in Unit, p \in DOMAIN stack :
       \/ stack[p].start < FirstLine(units[i])
       \/ FinalLine(units[i]) < stack[p].start

(* Declarations are in the lines of their unit, and in no routine within it.  *)
Declared ==
  /\ \A p \in DOMAIN stack : \A d \in stack[p].decls :
       /\ stack[p].start < d /\ d <= Len(src)
       /\ \A q \in DOMAIN stack : p < q /\ stack[q].t \in Routine => d < stack[q].start
       /\ \A j \in Unit : units[j][1].t \in Routine /\ stack[p].start < FirstLine(units[j]) =>
            d \notin FirstLine(units[j]) .. FinalLine(units[j])
  /\ DeclsAreInnermost

CInv == TypeOK /\ Shapes /\ Opened /\ Balanced /\ Laminar /\ Declared

LEMMA UnitShape ==
  ASSUME NEW u, IsUnit(u)
  PROVE  /\ u \in Seq(Part) /\ Len(u) > 0 /\ DOMAIN u = 1 .. Len(u)
         /\ FirstLine(u) \in LineNo /\ FinalLine(u) \in LineNo /\ FirstLine(u) < FinalLine(u)
         /\ ~WholeFile(u)
<1>1. PICK o \in Scope, e \in LineNo : o.start < e /\ u = Split(o, e)
  BY DEF IsUnit
<1>2. o.start \in LineNo /\ o.t \in UnitType /\ o.start \in Int /\ e \in Int
  BY DEF Scope, LineNo
<1>3. o.start <= e
  BY <1>1, <1>2
<1>4. /\ u \in Seq(Part) /\ Len(u) \in Nat /\ Len(u) > 0 /\ DOMAIN u = 1 .. Len(u)
      /\ FirstLine(u) = o.start /\ FinalLine(u) = e
      /\ \A j \in 1 .. Len(u) : u[j].t = o.t
  BY <1>1, <1>3, SplitFacts
<1>5. u[1].t = o.t /\ "unknown" \notin UnitType
  BY <1>4, ChunkerAssumption DEF Routine
<1> QED BY <1>1, <1>2, <1>4, <1>5 DEF WholeFile

LEMMA UnitsAre ==
  ASSUME Shapes
  PROVE  /\ Unit \subseteq DOMAIN units /\ \A i \in Unit : IsUnit(units[i])
         /\ ~ended => Unit = DOMAIN units
BY DEF Shapes, Unit

LEMMA LineRead ==
  ASSUME src \in Seq(Line), NEW line \in Line, src' = Append(src, line),
         NEW L \in Nat, L = Len(src)
  PROVE  /\ src' \in Seq(Line) /\ Len(src') = L + 1 /\ src'[L + 1] = line
         /\ DOMAIN src = 1 .. L /\ DOMAIN src' = 1 .. L + 1
         /\ \A i \in 1 .. L : src'[i] = src[i]
  OBVIOUS

(* A pair that is matched stays so. *)
LEMMA MatchedKept ==
  ASSUME src \in Seq(Line), NEW line \in Line, src' = Append(src, line),
         NEW s \in 1 .. Len(src), NEW e \in 1 .. Len(src), Matched(s, e)
  PROVE  Matched(s, e)'
<1>1. PICK L \in Nat : L = Len(src)
  OBVIOUS
<1>2. \A m \in 0 .. L : Depth(s, m)' = Depth(s, m)
  BY <1>1, DepthFacts
<1>3. src'[s] = src[s]
  BY <1>1, LineRead
<1>4. e \in 0 .. L /\ \A m \in s .. e - 1 : m \in 0 .. L
  BY <1>1
<1> QED BY <1>2, <1>3, <1>4 DEF Matched

LEMMA ScopeFacts ==
  ASSUME NEW st \in Seq(Scope)
  PROVE  /\ DOMAIN st = 1 .. Len(st) /\ Len(st) \in Nat
         /\ \A p \in DOMAIN st :
              /\ st[p] \in Scope /\ st[p].start \in Nat \ {0} /\ st[p].start \in LineNo
              /\ st[p].t \in UnitType /\ st[p].decls \in SUBSET LineNo
<1>1. \A p \in DOMAIN st : st[p] \in Scope
  OBVIOUS
<1> QED BY <1>1 DEF Scope, LineNo

(* So do the units that are closed. *)
LEMMA BalancedKept ==
  ASSUME CInv, NEW line \in Line, src' = Append(src, line), NEW i \in Unit, IsUnit(units[i]),
         NEW L \in Nat, L = Len(src), units'[i] = units[i]
  PROVE  /\ FinalLine(units[i]) <= L + 1
         /\ Matched(FirstLine(units[i]), FinalLine(units[i]))'
<1>0. src \in Seq(Line)
  BY DEF CInv, TypeOK
<1>1. PICK s \in LineNo, e \in LineNo : s = FirstLine(units[i]) /\ e = FinalLine(units[i]) /\ s < e
  BY UnitShape
<1>2. e <= L /\ Matched(s, e)
  BY <1>1 DEF CInv, Balanced
<1>3. s \in 1 .. Len(src) /\ e \in 1 .. Len(src)
  BY <1>1, <1>2 DEF LineNo
<1>4. Matched(s, e)'
  BY <1>0, <1>2, <1>3, MatchedKept
<1>5. FirstLine(units[i])' = s /\ FinalLine(units[i])' = e
  BY <1>1 DEF FirstLine, FinalLine
<1> QED BY <1>1, <1>3, <1>4, <1>5

(* A line that opens nothing and ends no open unit, whatever it declares,     *)
(* leaves the nesting as it is.                                              *)
LEMMA NestingKept ==
  ASSUME CInv, NEW line \in Line, ReadLine(line), line.k # "open",
         line.k = "end" => stack = <<>>,
         units' = units, stack' \in Seq(Scope), Len(stack') = Len(stack),
         \A p \in DOMAIN stack : stack'[p].start = stack[p].start
  PROVE  Shapes' /\ Opened' /\ Balanced' /\ Laminar'
<1>1. PICK L \in Nat : L = Len(src)
  BY DEF CInv, TypeOK
<1>2. /\ src \in Seq(Line) /\ stack \in Seq(Scope) /\ ~ended /\ ended' = ended
      /\ src' = Append(src, line)
  BY DEF CInv, TypeOK, ReadLine
<1>3. /\ src' \in Seq(Line) /\ Len(src') = L + 1 /\ src'[L + 1] = line
      /\ DOMAIN src = 1 .. L /\ DOMAIN src' = 1 .. L + 1
      /\ \A i \in 1 .. L : src'[i] = src[i]
  BY <1>1, <1>2, LineRead
<1>4. DOMAIN stack' = DOMAIN stack /\ \A p \in DOMAIN stack : stack[p].start \in Nat \ {0}
  <2>1. DOMAIN stack = 1 .. Len(stack) /\ DOMAIN stack' = 1 .. Len(stack')
    BY <1>2
  <2> QED BY <1>2, <2>1, ScopeFacts
<1>5. Unit' = Unit /\ \A i \in Unit : IsUnit(units[i])
  BY UnitsAre DEF CInv, Unit
<1>6. Shapes'
  BY <1>2 DEF CInv, Shapes
<1>7. Opened'
  <2>1. ASSUME NEW p \in DOMAIN stack
        PROVE  /\ stack[p].start <= L + 1 /\ src'[stack[p].start].k = "open"
               /\ Depth(stack[p].start, L + 1)' = Len(stack) - p + 1
               /\ \A m \in stack[p].start .. L + 1 : Depth(stack[p].start, m)' > 0
    <3>1. PICK s \in Nat \ {0} : s = stack[p].start
      BY <1>4
    <3>2. /\ s <= L /\ src[s].k = "open" /\ Depth(s, L) = Len(stack) - p + 1
          /\ \A m \in s .. L : Depth(s, m) > 0
      BY <1>1, <3>1 DEF CInv, Opened
    <3>7. /\ \A e \in 0 .. L : Depth(s, e)' = Depth(s, e) /\ Depth(s, e) \in Int
          /\ s <= L + 1 => Depth(s, L + 1)' = Depth(s, L) + Step(line)
      BY <1>1, <1>2, DepthFacts
    <3>8. Step(line) = 0 /\ s <= L + 1
      <4>1. stack # <<>>
        OBVIOUS
      <4> QED BY <3>2, <4>1 DEF Step
    <3>3. /\ \A e \in 0 .. L : Depth(s, e)' = Depth(s, e) /\ Depth(s, e) \in Int
          /\ Depth(s, L + 1)' = Depth(s, L) + 0
      BY <3>7, <3>8
    <3>4. Depth(s, L + 1)' = Depth(s, L) /\ L \in s .. L /\ \A m \in s .. L + 1 : m = L + 1 \/ (m \in s .. L /\ m \in 0 .. L)
      BY <3>2, <3>3
    <3>5. \A m \in s .. L + 1 : Depth(s, m)' > 0
      BY <3>2, <3>3, <3>4
    <3>6. s <= L + 1 /\ src'[s].k = "open"
      BY <1>3, <3>2
    <3> QED BY <3>1, <3>2, <3>4, <3>5, <3>6
  <2>2. \A p, q \in DOMAIN stack : p < q => stack[p].start < stack[q].start
    BY DEF CInv, Opened
  <2> QED BY <1>3, <1>4, <2>1, <2>2 DEF Opened
<1>8. Balanced'
  <2>1. ASSUME NEW i \in Unit
        PROVE  FinalLine(units[i]) <= L + 1 /\ Matched(FirstLine(units[i]), FinalLine(units[i]))'
    BY <1>1, <1>2, <1>5, BalancedKept
  <2>2. ASSUME NEW s \in 1 .. L + 1, src'[s].k = "open"
        PROVE  (\E p \in DOMAIN stack : stack[p].start = s) \/ (\E i \in Unit : FirstLine(units[i]) = s)
    <3>1. s \in 1 .. L /\ src[s].k = "open"
      BY <1>3, <2>2
    <3> QED BY <1>3, <3>1 DEF CInv, Balanced
  <2> QED BY <1>3, <1>4, <1>5, <2>1, <2>2 DEF Balanced
<1>9. Laminar'
  BY <1>4, <1>5 DEF CInv, Laminar
<1> QED BY <1>6, <1>7, <1>8, <1>9

(* It leaves the declarations in their routines, its own being the innermost's. *)
LEMMA DeclaredKept ==
  ASSUME CInv, NEW line \in Line, ReadLine(line), units' = units,
         stack' \in Seq(Scope), Len(stack') = Len(stack),
         \A p \in DOMAIN stack : stack'[p].start = stack[p].start /\ stack'[p].t = stack[p].t,
         NEW r, \A p \in DOMAIN stack : p # r => stack'[p].decls = stack[p].decls,
         r \in DOMAIN stack =>
           /\ stack'[r].decls = stack[r].decls \cup {Ln}
           /\ \A q \in DOMAIN stack : stack[q].t \in Routine => q <= r
  PROVE  Declared'
<1>1. PICK L \in Nat : L = Len(src)
  BY DEF CInv, TypeOK
<1>2. src \in Seq(Line) /\ stack \in Seq(Scope) /\ src' = Append(src, line) /\ Ln = L + 1 /\ Len(src') = L + 1
  BY <1>1 DEF CInv, TypeOK, ReadLine, Ln
<1>3. DOMAIN stack' = DOMAIN stack /\ DOMAIN stack = 1 .. Len(stack) /\ Len(stack) \in Nat
      /\ \A p \in DOMAIN stack : stack[p].start \in Nat \ {0} /\ stack[p].decls \in SUBSET LineNo
  <2>1. DOMAIN stack' = 1 .. Len(stack')
    BY <1>2
  <2> QED BY <1>2, <2>1, ScopeFacts
<1>4. Unit' = Unit /\ \A i \in Unit : IsUnit(units[i])
  BY UnitsAre DEF CInv, Unit
<1>5. DeclsAreInnermost'
  BY <1>4 DEF CInv, Declared, DeclsAreInnermost
<1>6. ASSUME NEW p \in DOMAIN stack, NEW d \in stack'[p].decls
      PROVE  /\ stack[p].start < d /\ d <= L + 1
             /\ \A q \in DOMAIN stack : p < q /\ stack[q].t \in Routine => d < stack[q].start
             /\ \A j \in Unit : units[j][1].t \in Routine /\ stack[p].start < FirstLine(units[j]) =>
                  d \notin FirstLine(units[j]) .. FinalLine(units[j])
  <2>1. CASE d \in stack[p].decls
    <3>1. d \in LineNo /\ stack[p].start < d /\ d <= L
      BY <1>1, <1>3, <2>1 DEF CInv, Declared
    <3>2. d <= L + 1
      BY <3>1 DEF LineNo
    <3> QED BY <2>1, <3>1, <3>2 DEF CInv, Declared
  <2>2. CASE d \notin stack[p].decls
    <3>1. p = r /\ d = L + 1
      BY <1>2, <2>2
    <3>2. stack[p].start <= L
      BY <1>1 DEF CInv, Opened
    <3>3. \A q \in DOMAIN stack : ~(p < q /\ stack[q].t \in Routine)
      <4>1. \A q \in DOMAIN stack : q \in Int
        BY <1>3
      <4> QED BY <3>1, <4>1
    <3>4. \A j \in Unit : FirstLine(units[j]) \in Int /\ FinalLine(units[j]) \in Int /\ FinalLine(units[j]) <= L
      BY <1>1, <1>4, UnitShape DEF CInv, Balanced, LineNo
    <3>5. \A j \in Unit : d \notin FirstLine(units[j]) .. FinalLine(units[j])
      BY <3>1, <3>4
    <3> QED BY <1>3, <3>1, <3>2, <3>3, <3>5
  <2> QED BY <2>1, <2>2
<1>7. \A j \in Unit : FirstLine(units[j])' = FirstLine(units[j]) /\ FinalLine(units[j])' = FinalLine(units[j])
  OBVIOUS
<1> QED BY <1>2, <1>3, <1>4, <1>5, <1>6, <1>7 DEF Declared

LEMMA SrcTyped ==
  ASSUME TypeOK, NEW line \in Line, ReadLine(line)
  PROVE  src' \in Seq(Line) /\ Len(src') <= LastLine /\ ended' \in BOOLEAN
BY ChunkerAssumption DEF TypeOK, ReadLine, Ln

LEMMA LineFacts ==
  /\ Text \in Line /\ Text.k # "open" /\ Text.k # "end"
  /\ \A key \in {"end", "glued", "decl", "text"} :
       [k |-> key, t |-> "none"] \in Line /\ [k |-> key, t |-> "none"].k = key
  /\ \A u \in UnitType : [k |-> "open", t |-> u] \in Line /\ [k |-> "open", t |-> u].k = "open"
BY DEF Text, Line

(* A line that leaves the stack and the units as they are.                   *)
LEMMA PassedOver ==
  ASSUME CInv, NEW line \in Line, ReadLine(line), line.k # "open",
         line.k = "end" => stack = <<>>, joining' \in BOOLEAN, UNCHANGED <<stack, units>>
  PROVE  CInv'
<1>1. stack' \in Seq(Scope) /\ stack' = stack /\ units' = units /\ 0 \notin DOMAIN stack
  BY DEF CInv, TypeOK
<1>2. TypeOK'
  BY <1>1, SrcTyped DEF CInv, TypeOK
<1>3. Shapes' /\ Opened' /\ Balanced' /\ Laminar'
  BY <1>1, NestingKept
<1>4. Declared'
  BY <1>1, DeclaredKept
<1> QED BY <1>2, <1>3, <1>4 DEF CInv

LEMMA SwallowKeeps ==
  ASSUME CInv, Swallow
  PROVE  CInv'
BY LineFacts, PassedOver DEF Swallow

LEMMA OtherLineKeeps ==
  ASSUME CInv, OtherLine
  PROVE  CInv'
<1>1. PICK key \in {"text", "glued"} : Logical([k |-> key, t |-> "none"])
  BY DEF OtherLine
<1>2. /\ [k |-> key, t |-> "none"] \in Line
      /\ [k |-> key, t |-> "none"].k # "open" /\ [k |-> key, t |-> "none"].k # "end"
  BY LineFacts
<1> QED BY <1>1, <1>2, PassedOver DEF OtherLine, Logical

LEMMA DeclareKeeps ==
  ASSUME CInv, Declare
  PROVE  CInv'
<1> DEFINE line == [k |-> "decl", t |-> "none"]
           R == {j \in DOMAIN stack : stack[j].t \in Routine}
<1>1. line \in Line /\ line.k = "decl"
  BY LineFacts
<1>2. ReadLine(line) /\ joining' \in BOOLEAN /\ units' = units
  BY DEF Declare, Logical
<1> HIDE DEF line
<1>3. stack \in Seq(Scope) /\ DOMAIN stack = 1 .. Len(stack) /\ Len(stack) \in Nat
      /\ \A p \in DOMAIN stack : stack[p] \in Scope
  BY ScopeFacts DEF CInv, TypeOK
<1>4. PICK r : r = Innermost(stack)
  OBVIOUS
<1>5. r = 0 \/ (r \in DOMAIN stack /\ \A q \in DOMAIN stack : stack[q].t \in Routine => q <= r)
  <2>1. CASE R = {}
    BY <1>4, <2>1 DEF Innermost
  <2>2. CASE R # {}
    <3>1. R \subseteq 0 .. Len(stack)
      BY <1>3
    <3>2. \E m \in R : \A n \in R : n <= m
      <4> HIDE DEF R
      <4> QED BY <1>3, <2>2, <3>1, GreatestNumber
    <3>3. r = CHOOSE j \in R : \A i \in R : i <= j
      BY <1>4, <2>2 DEF Innermost
    <3>4. r \in R /\ \A i \in R : i <= r
      <4> HIDE DEF R
      <4> QED BY <3>2, <3>3
    <3> QED BY <3>4
  <2> QED BY <2>1, <2>2
<1>6. stack' = IF r = 0 THEN stack ELSE [stack EXCEPT ![r].decls = @ \cup {Ln}]
  BY <1>4 DEF Declare
<1>7. Ln \in LineNo
  BY DEF CInv, TypeOK, ReadLine, Ln, LineNo, Declare, Logical
<1>8. /\ stack' \in Seq(Scope) /\ Len(stack') = Len(stack)
      /\ \A p \in DOMAIN stack : stack'[p].start = stack[p].start /\ stack'[p].t = stack[p].t
      /\ \A p \in DOMAIN stack : p # r => stack'[p].decls = stack[p].decls
      /\ r \in DOMAIN stack => stack'[r].decls = stack[r].decls \cup {Ln}
  <2>1. CASE r = 0
    BY <1>3, <1>6, <2>1
  <2>2. CASE r \in DOMAIN stack
    <3>1. r # 0
      BY <1>3, <2>2
    <3>2. PICK new : new = [stack[r] EXCEPT !.decls = @ \cup {Ln}]
      OBVIOUS
    <3>3. new \in Scope /\ new.start = stack[r].start /\ new.t = stack[r].t /\ new.decls = stack[r].decls \cup {Ln}
      BY <1>3, <1>7, <2>2, <3>2 DEF Scope
    <3>4. stack' = [stack EXCEPT ![r] = new]
      BY <1>6, <3>1, <3>2
    <3>5. stack' \in Seq(Scope) /\ Len(stack') = Len(stack)
      BY <1>3, <2>2, <3>3, <3>4
    <3>6. \A p \in DOMAIN stack : stack'[p] = IF p = r THEN new ELSE stack[p]
      BY <1>3, <3>4
    <3> QED BY <2>2, <3>3, <3>5, <3>6
  <2> QED BY <1>5, <2>1, <2>2
<1>9. TypeOK'
  BY <1>1, <1>2, <1>8, SrcTyped DEF CInv, TypeOK
<1>10. Shapes' /\ Opened' /\ Balanced' /\ Laminar'
  BY <1>1, <1>2, <1>8, NestingKept
<1>11. r \in DOMAIN stack => \A q \in DOMAIN stack : stack[q].t \in Routine => q <= r
  BY <1>3, <1>5
<1>12. Declared'
  BY <1>1, <1>2, <1>8, <1>11, DeclaredKept
<1> QED BY <1>9, <1>10, <1>12 DEF CInv

-----------------------------------------------------------------------------
(* A line that opens a unit. *)

LEMMA OpenUnitKeeps ==
  ASSUME CInv, NEW t \in UnitType, OpenUnit(t)
  PROVE  CInv'
<1> DEFINE line == [k |-> "open", t |-> t]
<1>1. PICK L \in Nat : L = Len(src)
  BY DEF CInv, TypeOK
<1>2. /\ line \in Line /\ line.k = "open" /\ ReadLine(line) /\ joining' \in BOOLEAN /\ units' = units
      /\ ~ended /\ ended' = ended /\ src \in Seq(Line) /\ src' = Append(src, line) /\ L + 1 \in LineNo
  BY <1>1, LineFacts DEF OpenUnit, Logical, ReadLine, CInv, TypeOK, Ln, LineNo
<1>3. PICK n \in Name : stack' = Append(stack, [t |-> t, name |-> n, start |-> L + 1, decls |-> {}])
  BY <1>1 DEF OpenUnit, Ln
<1> DEFINE o == [t |-> t, name |-> n, start |-> L + 1, decls |-> {}]
<1>4. o \in Scope /\ o.start = L + 1 /\ o.decls = {} /\ stack' = Append(stack, o)
  BY <1>2, <1>3 DEF Scope
<1> HIDE DEF line, o
<1>5. /\ src' \in Seq(Line) /\ Len(src') = L + 1 /\ src'[L + 1] = line
      /\ DOMAIN src = 1 .. L /\ DOMAIN src' = 1 .. L + 1
      /\ \A i \in 1 .. L : src'[i] = src[i]
  BY <1>1, <1>2, LineRead
<1>6. PICK H \in Nat : /\ H = Len(stack) /\ stack \in Seq(Scope) /\ DOMAIN stack = 1 .. H
                       /\ \A p \in DOMAIN stack : stack[p].start \in Nat \ {0}
  BY ScopeFacts DEF CInv, TypeOK
<1>7. /\ stack' \in Seq(Scope) /\ Len(stack') = H + 1 /\ DOMAIN stack' = 1 .. H + 1
      /\ stack'[H + 1] = o /\ \A p \in 1 .. H : stack'[p] = stack[p]
  BY <1>4, <1>6
<1>8. \A p \in 1 .. H + 1 : p = H + 1 \/ p \in 1 .. H
  OBVIOUS
<1>9. Unit' = Unit /\ \A i \in Unit : IsUnit(units[i])
  BY <1>2, UnitsAre DEF CInv, Unit
<1>10. \A p \in 1 .. H : stack[p].start <= L /\ src[stack[p].start].k = "open"
  BY <1>1, <1>6 DEF CInv, Opened
<1>11. TypeOK'
  BY <1>2, <1>7, SrcTyped DEF CInv, TypeOK
<1>12. Shapes'
  BY <1>2 DEF CInv, Shapes
<1>13. Opened'
  <2>1. ASSUME NEW p \in 1 .. H + 1
        PROVE  /\ stack'[p].start <= L + 1 /\ src'[stack'[p].start].k = "open"
               /\ Depth(stack[p].start, L + 1)' = (H + 1) - p + 1
               /\ \A m \in stack'[p].start .. L + 1 : Depth(stack[p].start, m)' > 0
    <3>1. PICK s \in Nat \ {0} : s = stack'[p].start /\ s <= L + 1
      <4>1. CASE p = H + 1
        BY <1>4, <1>7, <4>1
      <4>2. CASE p \in 1 .. H
        BY <1>6, <1>7, <1>10, <4>2
      <4> QED BY <1>8, <4>1, <4>2
    <3>2. src'[s].k = "open"
      <4>1. CASE p = H + 1
        BY <1>2, <1>4, <1>5, <1>7, <3>1, <4>1
      <4>2. CASE p \in 1 .. H
        BY <1>5, <1>6, <1>7, <1>10, <3>1, <4>2
      <4> QED BY <1>8, <4>1, <4>2
    <3>3. /\ \A e \in 0 .. L : Depth(s, e)' = Depth(s, e) /\ Depth(s, e) \in Int
          /\ Depth(s, L + 1)' = Depth(s, L) + Step(line)
          /\ s = L + 1 => Depth(s, L) = 0
      BY <1>1, <1>2, <3>1, DepthFacts
    <3>4. Step(line) = 1
      BY <1>2 DEF Step
    <3>5. CASE p = H + 1
      <4>1. s = L + 1 /\ Depth(s, L + 1)' = 1
        BY <1>4, <1>7, <3>1, <3>3, <3>4, <3>5
      <4>2. \A m \in s .. L + 1 : m = L + 1
        BY <4>1
      <4>3. \A m \in s .. L + 1 : Depth(s, m)' > 0
        BY <4>1, <4>2
      <4> QED BY <3>1, <3>2, <3>5, <4>1, <4>3
    <3>6. CASE p \in 1 .. H
      <4>1. s = stack[p].start
        BY <1>7, <3>1, <3>6
      <4>2. /\ s <= L /\ Depth(s, L) = H - p + 1 /\ \A m \in s .. L : Depth(s, m) > 0
        BY <1>1, <1>6, <3>6, <4>1 DEF CInv, Opened
      <4>3. Depth(s, L + 1)' = (H + 1) - p + 1 /\ Depth(s, L + 1)' > 0
        BY <3>3, <3>4, <3>6, <4>2
      <4>4. \A m \in s .. L + 1 : m = L + 1 \/ (m \in s .. L /\ m \in 0 .. L)
        OBVIOUS
      <4>5. \A m \in s .. L + 1 : Depth(s, m)' > 0
        BY <3>3, <4>2, <4>3, <4>4
      <4> QED BY <3>1, <3>2, <4>3, <4>5
    <3> QED BY <1>8, <3>5, <3>6
  <2>2. ASSUME NEW p \in 1 .. H + 1, NEW q \in 1 .. H + 1, p < q
        PROVE  stack'[p].start < stack'[q].start
    <3>1. p \in 1 .. H /\ stack'[p].start = stack[p].start /\ stack[p].start \in Nat /\ stack[p].start <= L
      BY <1>6, <1>7, <1>10, <2>2
    <3>2. CASE q = H + 1
      BY <1>4, <1>7, <3>1, <3>2
    <3>3. CASE q \in 1 .. H
      BY <1>6, <1>7, <2>2, <3>1, <3>3 DEF CInv, Opened
    <3> QED BY <1>8, <3>2, <3>3
  <2> QED BY <1>5, <1>7, <2>1, <2>2 DEF Opened
<1>14. Balanced'
  <2>1. ASSUME NEW i \in Unit
        PROVE  FinalLine(units[i]) <= L + 1 /\ Matched(FirstLine(units[i]), FinalLine(units[i]))'
    BY <1>1, <1>2, <1>9, BalancedKept DEF CInv
  <2>2. ASSUME NEW s \in 1 .. L + 1, src'[s].k = "open"
        PROVE  (\E p \in 1 .. H + 1 : stack'[p].start = s) \/ (\E i \in Unit : FirstLine(units[i]) = s)
    <3>1. CASE s = L + 1
      BY <1>4, <1>7, <3>1
    <3>2. CASE s \in 1 .. L
      <4>1. (\E p \in 1 .. H : stack[p].start = s) \/ (\E i \in Unit : FirstLine(units[i]) = s)
        BY <1>5, <1>6, <2>2, <3>2 DEF CInv, Balanced
      <4> QED BY <1>7, <4>1
    <3> QED BY <3>1, <3>2
  <2> QED BY <1>2, <1>5, <1>7, <1>9, <2>1, <2>2 DEF Balanced
<1>15. \A j \in Unit : FirstLine(units[j]) \in Int /\ FinalLine(units[j]) \in Int /\ FinalLine(units[j]) <= L
  BY <1>1, <1>9, UnitShape DEF CInv, Balanced, LineNo
<1>16. Laminar'
  <2>1. ASSUME NEW i \in Unit, NEW p \in 1 .. H + 1
        PROVE  stack'[p].start < FirstLine(units[i]) \/ FinalLine(units[i]) < stack'[p].start
    <3>1. CASE p = H + 1
      BY <1>4, <1>7, <1>15, <3>1
    <3>2. CASE p \in 1 .. H
      BY <1>6, <1>7, <3>2 DEF CInv, Laminar
    <3> QED BY <1>8, <3>1, <3>2
  <2> QED BY <1>2, <1>7, <1>9, <2>1 DEF CInv, Laminar
<1>17. Declared'
  <2>1. DeclsAreInnermost'
    BY <1>2, <1>9 DEF CInv, Declared, DeclsAreInnermost
  <2>2. ASSUME NEW p \in 1 .. H + 1, NEW d \in stack'[p].decls
        PROVE  /\ stack'[p].start < d /\ d <= L + 1
               /\ \A q \in 1 .. H + 1 : p < q /\ stack'[q].t \in Routine => d < stack'[q].start
               /\ \A j \in Unit : units[j][1].t \in Routine /\ stack'[p].start < FirstLine(units[j]) =>
                    d \notin FirstLine(units[j]) .. FinalLine(units[j])
    <3>1. p \in 1 .. H /\ stack'[p] = stack[p]
      BY <1>4, <1>7, <1>8, <2>2
    <3>2. d \in LineNo
      BY <1>6, <2>2, <3>1, ScopeFacts
    <3>3. /\ stack[p].start < d /\ d <= L
          /\ \A q \in 1 .. H : p < q /\ stack[q].t \in Routine => d < stack[q].start
          /\ \A j \in Unit : units[j][1].t \in Routine /\ stack[p].start < FirstLine(units[j]) =>
               d \notin FirstLine(units[j]) .. FinalLine(units[j])
      BY <1>1, <1>6, <2>2, <3>1 DEF CInv, Declared
    <3>4. d < L + 1 /\ d <= L + 1
      BY <3>2, <3>3 DEF LineNo
    <3>5. \A q \in 1 .. H + 1 : p < q /\ stack'[q].t \in Routine => d < stack'[q].start
      BY <1>4, <1>7, <1>8, <3>3, <3>4
    <3> QED BY <3>1, <3>3, <3>4, <3>5
  <2>3. \A j \in Unit : FirstLine(units[j])' = FirstLine(units[j]) /\ FinalLine(units[j])' = FinalLine(units[j])
    BY <1>2
  <2> QED BY <1>2, <1>5, <1>7, <1>9, <2>1, <2>2, <2>3 DEF Declared
<1> QED BY <1>11, <1>12, <1>13, <1>14, <1>16, <1>17 DEF CInv

-----------------------------------------------------------------------------
(* A line that ends the innermost open unit. *)

LEMMA EndUnitKeeps ==
  ASSUME CInv, EndUnit
  PROVE  CInv'
<1> DEFINE line == [k |-> "end", t |-> "none"]
<1>1. PICK L \in Nat : L = Len(src)
  BY DEF CInv, TypeOK
<1>2. /\ line \in Line /\ line.k = "end" /\ ReadLine(line) /\ joining' \in BOOLEAN
      /\ ~ended /\ ended' = ended /\ src \in Seq(Line) /\ src' = Append(src, line) /\ L + 1 \in LineNo
  BY <1>1, LineFacts DEF EndUnit, Logical, ReadLine, CInv, TypeOK, Ln, LineNo
<1> HIDE DEF line
<1>3. CASE stack = <<>>
  BY <1>2, <1>3, PassedOver DEF EndUnit
<1>4. ASSUME stack # <<>> PROVE CInv'
  <2>1. PICK H \in Nat \ {0} : /\ H = Len(stack) /\ stack \in Seq(Scope) /\ DOMAIN stack = 1 .. H
                       /\ \A p \in DOMAIN stack : stack[p] \in Scope /\ stack[p].start \in Nat \ {0}
                                                   /\ stack[p].start \in LineNo
    <3>1. stack \in Seq(Scope)
      BY DEF CInv, TypeOK
    <3>2. Len(stack) \in Nat \ {0}
      BY <1>4, <3>1
    <3> QED BY <3>1, <3>2, ScopeFacts
  <2>2. PICK o \in Scope : o = stack[H]
    BY <2>1
  <2>3. PICK u : u = Split(o, L + 1)
    OBVIOUS
  <2>4. PICK K \in Nat : K = Len(units) /\ DOMAIN units = 1 .. K /\ units \in Seq(Seq(Part))
    BY DEF CInv, TypeOK
  <2>5. stack' = SubSeq(stack, 1, H - 1) /\ units' = Append(units, u)
    BY <1>1, <1>4, <2>1, <2>2, <2>3 DEF EndUnit, Ln
  <2>6. /\ src' \in Seq(Line) /\ Len(src') = L + 1 /\ src'[L + 1] = line
        /\ DOMAIN src = 1 .. L /\ DOMAIN src' = 1 .. L + 1
        /\ \A i \in 1 .. L : src'[i] = src[i]
    BY <1>1, <1>2, LineRead
  <2>7. /\ stack' \in Seq(Scope) /\ Len(stack') = H - 1 /\ DOMAIN stack' = 1 .. H - 1
        /\ \A p \in 1 .. H - 1 : p \in 1 .. H /\ stack'[p] = stack[p]
    BY <2>1, <2>5
  <2>8. \A p \in 1 .. H : stack[p].start <= L /\ src[stack[p].start].k = "open"
    BY <1>1, <2>1 DEF CInv, Opened
  <2>9. o.start \in Nat \ {0} /\ o.start <= L /\ H \in 1 .. H
    BY <2>1, <2>2, <2>8
  <2>10. IsUnit(u)
    BY <1>2, <2>2, <2>3, <2>9 DEF IsUnit
  <2>11. /\ u \in Seq(Part) /\ FirstLine(u) = o.start /\ FinalLine(u) = L + 1
         /\ u[1].t = o.t /\ u[1].decls = o.decls
    <3>1. o.start <= L + 1
      BY <2>9
    <3>2. /\ u \in Seq(Part) /\ Len(u) \in Nat /\ Len(u) > 0
          /\ FirstLine(u) = o.start /\ FinalLine(u) = L + 1
          /\ \A j \in 1 .. Len(u) : u[j].t = o.t /\ u[j].decls = o.decls
      BY <1>2, <2>2, <2>3, <3>1, SplitFacts
    <3> QED BY <3>2
  <2>12. Unit = 1 .. K /\ \A i \in Unit : IsUnit(units[i])
    BY <1>2, <2>4, UnitsAre DEF CInv
  <2>13. /\ units' \in Seq(Seq(Part)) /\ Len(units') = K + 1 /\ DOMAIN units' = 1 .. K + 1
         /\ units'[K + 1] = u /\ \A i \in 1 .. K : units'[i] = units[i]
    BY <2>4, <2>5, <2>11
  <2>14. \A i \in 1 .. K + 1 : i = K + 1 \/ i \in 1 .. K
    OBVIOUS
  <2>15. \A i \in 1 .. K + 1 : IsUnit(units'[i]) /\ ~WholeFile(units'[i])
    BY <2>10, <2>12, <2>13, <2>14, UnitShape
  <2>16. Unit' = 1 .. K + 1
    BY <2>13, <2>15 DEF Unit
  <2>17. \A j \in 1 .. K : /\ FirstLine(units[j]) \in Int /\ FinalLine(units[j]) \in Int
                           /\ FinalLine(units[j]) <= L /\ FirstLine(units[j]) < FinalLine(units[j])
    BY <1>1, <2>12, UnitShape DEF CInv, Balanced, LineNo
  <2>18. \A j \in 1 .. K : o.start < FirstLine(units[j]) \/ FinalLine(units[j]) < o.start
    BY <2>1, <2>2, <2>9, <2>12 DEF CInv, Laminar
  <2>19. \A p \in 1 .. H - 1 : stack[p].start < o.start
    <3>1. \A p \in 1 .. H - 1 : p \in 1 .. H /\ p < H
      BY <2>1
    <3>2. \A p, q \in 1 .. H : p < q => stack[p].start < stack[q].start
      BY <2>1 DEF CInv, Opened
    <3> QED BY <2>2, <2>9, <3>1, <3>2
  <2>20. TypeOK'
    BY <1>2, <2>7, <2>13, SrcTyped DEF CInv, TypeOK
  <2>21. Shapes'
    BY <1>2, <2>13, <2>15 DEF Shapes
  <2>22. Opened'
    <3>1. ASSUME NEW p \in 1 .. H - 1
          PROVE  /\ stack'[p].start <= L + 1 /\ src'[stack'[p].start].k = "open"
                 /\ Depth(stack[p].start, L + 1)' = (H - 1) - p + 1
                 /\ \A m \in stack'[p].start .. L + 1 : Depth(stack[p].start, m)' > 0
      <4>1. PICK s \in Nat \ {0} : s = stack[p].start /\ s = stack'[p].start /\ s <= L
        BY <2>1, <2>7, <2>8
      <4>2. src'[s].k = "open"
        BY <2>6, <2>7, <2>8, <4>1
      <4>3. /\ \A e \in 0 .. L : Depth(s, e)' = Depth(s, e) /\ Depth(s, e) \in Int
            /\ s <= L + 1 => Depth(s, L + 1)' = Depth(s, L) + Step(line)
        BY <1>1, <1>2, DepthFacts
      <4>4. Step(line) = -1
        BY <1>2 DEF Step
      <4>5. /\ Depth(s, L) = H - p + 1 /\ \A m \in s .. L : Depth(s, m) > 0
        BY <1>1, <2>1, <2>7, <4>1 DEF CInv, Opened
      <4>6. Depth(s, L + 1)' = (H - 1) - p + 1 /\ Depth(s, L + 1)' > 0
        BY <4>1, <4>3, <4>4, <4>5
      <4>7. \A m \in s .. L + 1 : m = L + 1 \/ (m \in s .. L /\ m \in 0 .. L)
        OBVIOUS
      <4>8. \A m \in s .. L + 1 : Depth(s, m)' > 0
        BY <4>3, <4>5, <4>6, <4>7
      <4>9. s <= L + 1
        BY <4>1
      <4> QED BY <4>1, <4>2, <4>6, <4>8, <4>9
    <3>2. \A p, q \in 1 .. H - 1 : p < q => stack'[p].start < stack'[q].start
      BY <2>1, <2>7 DEF CInv, Opened
    <3> QED BY <2>6, <2>7, <3>1, <3>2 DEF Opened
  <2>23. Balanced'
    <3>1. ASSUME NEW i \in 1 .. K + 1
          PROVE  FinalLine(units'[i]) <= L + 1 /\ Matched(FirstLine(units[i]), FinalLine(units[i]))'
      <4>1. CASE i \in 1 .. K
        <5>1. units'[i] = units[i] /\ i \in Unit /\ IsUnit(units[i])
          BY <2>12, <2>13, <4>1
        <5> QED BY <1>1, <1>2, <5>1, BalancedKept
      <4>2. CASE i = K + 1
        <5>1. PICK s \in Nat \ {0} : s = o.start /\ s <= L
          BY <2>9
        <5>2. /\ \A e \in 0 .. L : Depth(s, e)' = Depth(s, e) /\ Depth(s, e) \in Int
              /\ s <= L + 1 => Depth(s, L + 1)' = Depth(s, L) + Step(line)
          BY <1>1, <1>2, DepthFacts
        <5>3. Step(line) = -1 /\ s < L + 1
          BY <1>2, <5>1 DEF Step
        <5>4. /\ Depth(s, L) = H - H + 1 /\ \A m \in s .. L : Depth(s, m) > 0
          BY <1>1, <2>1, <2>2, <2>9, <5>1 DEF CInv, Opened
        <5>5. Depth(s, L + 1)' = 0
          BY <5>1, <5>2, <5>3, <5>4
        <5>6. \A m \in s .. (L + 1) - 1 : m \in s .. L /\ m \in 0 .. L
          OBVIOUS
        <5>7. \A m \in s .. (L + 1) - 1 : Depth(s, m)' > 0
          BY <5>2, <5>4, <5>6
        <5>8. src'[s].k = "open"
          BY <2>2, <2>6, <2>8, <2>9, <5>1
        <5>9. Matched(s, L + 1)'
          BY <5>3, <5>5, <5>7, <5>8 DEF Matched
        <5>10. FirstLine(units[i])' = s /\ FinalLine(units[i])' = L + 1
          BY <2>11, <2>13, <4>2, <5>1
        <5> QED BY <5>9, <5>10
      <4> QED BY <2>14, <4>1, <4>2
    <3>2. ASSUME NEW s \in 1 .. L + 1, src'[s].k = "open"
          PROVE  (\E p \in 1 .. H - 1 : stack'[p].start = s) \/ (\E i \in 1 .. K + 1 : FirstLine(units'[i]) = s)
      <4>1. s \in 1 .. L /\ src[s].k = "open"
        BY <1>2, <2>6, <3>2
      <4>2. (\E p \in 1 .. H : stack[p].start = s) \/ (\E i \in 1 .. K : FirstLine(units[i]) = s)
        BY <2>1, <2>6, <2>12, <4>1 DEF CInv, Balanced
      <4>3. CASE \E i \in 1 .. K : FirstLine(units[i]) = s
        BY <2>13, <4>3
      <4>4. CASE \E p \in 1 .. H : stack[p].start = s
        <5>1. PICK p \in 1 .. H : stack[p].start = s
          BY <4>4
        <5>2. CASE p = H
          BY <2>2, <2>11, <2>13, <5>1, <5>2
        <5>3. CASE p # H
          <6>1. p \in 1 .. H - 1
            BY <5>3
          <6> QED BY <2>7, <5>1, <6>1
        <5> QED BY <5>2, <5>3
      <4> QED BY <4>2, <4>3, <4>4
    <3> QED BY <2>6, <2>7, <2>16, <3>1, <3>2 DEF Balanced
  <2>24. Laminar'
    <3>1. ASSUME NEW i \in 1 .. K + 1, NEW j \in 1 .. K + 1, i < j
          PROVE  /\ FinalLine(units'[i]) < FinalLine(units'[j])
                 /\ \/ FirstLine(units'[j]) < FirstLine(units'[i])
                    \/ FinalLine(units'[i]) < FirstLine(units'[j])
      <4>1. i \in 1 .. K /\ units'[i] = units[i]
        BY <2>13, <3>1
      <4>2. CASE j \in 1 .. K
        BY <2>12, <2>13, <3>1, <4>1, <4>2 DEF CInv, Laminar
      <4>3. CASE j = K + 1
        <5>1. units'[j] = u /\ FinalLine(u) = L + 1 /\ FirstLine(u) = o.start
          BY <2>11, <2>13, <4>3
        <5>2. FinalLine(units[i]) < L + 1
          BY <2>17, <4>1
        <5>3. o.start < FirstLine(units[i]) \/ FinalLine(units[i]) < o.start
          BY <2>18, <4>1
        <5> QED BY <4>1, <5>1, <5>2, <5>3
      <4> QED BY <2>14, <4>2, <4>3
    <3>2. ASSUME NEW i \in 1 .. K + 1, NEW p \in 1 .. H - 1
          PROVE  stack'[p].start < FirstLine(units'[i]) \/ FinalLine(units'[i]) < stack'[p].start
      <4>1. stack'[p] = stack[p] /\ p \in 1 .. H
        BY <2>7
      <4>2. CASE i \in 1 .. K
        BY <2>1, <2>12, <2>13, <4>1, <4>2 DEF CInv, Laminar
      <4>3. CASE i = K + 1
        BY <2>11, <2>13, <2>19, <4>1, <4>3
      <4> QED BY <2>14, <4>2, <4>3
    <3> QED BY <2>7, <2>16, <3>1, <3>2 DEF Laminar
  <2>25. \A d \in o.decls : /\ o.start < d /\ d <= L /\ d \in Int
                            /\ \A j \in 1 .. K : units[j][1].t \in Routine /\ o.start < FirstLine(units[j]) =>
                                 d \notin FirstLine(units[j]) .. FinalLine(units[j])
    <3>1. \A d \in o.decls : d \in Int
      BY <2>2 DEF Scope, LineNo
    <3> QED BY <1>1, <2>1, <2>2, <2>9, <2>12, <3>1 DEF CInv, Declared
  <2>26. ASSUME NEW p \in 1 .. H - 1, NEW d \in stack'[p].decls
         PROVE  /\ stack'[p].start < d /\ d <= L + 1
                /\ \A q \in 1 .. H - 1 : p < q /\ stack'[q].t \in Routine => d < stack'[q].start
                /\ \A j \in 1 .. K + 1 : units'[j][1].t \in Routine /\ stack'[p].start < FirstLine(units'[j]) =>
                     d \notin FirstLine(units'[j]) .. FinalLine(units'[j])
    <3>1. stack'[p] = stack[p] /\ p \in 1 .. H /\ d \in stack[p].decls
      BY <2>7, <2>26
    <3>2. d \in Int
      BY <2>1, <3>1, ScopeFacts DEF LineNo
    <3>3. /\ stack[p].start < d /\ d <= L
          /\ \A q \in 1 .. H : p < q /\ stack[q].t \in Routine => d < stack[q].start
          /\ \A j \in 1 .. K : units[j][1].t \in Routine /\ stack[p].start < FirstLine(units[j]) =>
               d \notin FirstLine(units[j]) .. FinalLine(units[j])
      BY <1>1, <2>1, <2>12, <3>1 DEF CInv, Declared
    <3>4. d <= L + 1
      BY <3>2, <3>3
    <3>5. \A q \in 1 .. H - 1 : p < q /\ stack'[q].t \in Routine => d < stack'[q].start
      BY <2>7, <3>3
    <3>6. o.t \in Routine => d < o.start
      BY <2>2, <2>9, <3>3
    <3>7. u[1].t \in Routine => d \notin FirstLine(u) .. FinalLine(u)
      BY <2>9, <2>11, <3>2, <3>6
    <3>8. \A j \in 1 .. K + 1 : units'[j][1].t \in Routine /\ stack'[p].start < FirstLine(units'[j]) =>
            d \notin FirstLine(units'[j]) .. FinalLine(units'[j])
      BY <2>13, <2>14, <3>1, <3>3, <3>7
    <3> QED BY <3>1, <3>3, <3>4, <3>5, <3>8
  <2>27. ASSUME NEW i \in 1 .. K + 1, NEW j \in 1 .. K + 1, NEW d \in units'[i][1].decls
         PROVE  /\ d \in FirstLine(units'[i]) .. FinalLine(units'[i])
                /\ units'[j][1].t \in Routine /\ FirstLine(units'[i]) < FirstLine(units'[j]) =>
                     d \notin FirstLine(units'[j]) .. FinalLine(units'[j])
    <3>1. CASE i \in 1 .. K
      <4>1. units'[i] = units[i]
        BY <2>13, <3>1
      <4>2. /\ d \in FirstLine(units[i]) .. FinalLine(units[i])
            /\ \A l \in 1 .. K : units[l][1].t \in Routine /\ FirstLine(units[i]) < FirstLine(units[l]) =>
                 d \notin FirstLine(units[l]) .. FinalLine(units[l])
        BY <2>12, <2>27, <3>1, <4>1 DEF CInv, Declared, DeclsAreInnermost
      <4>3. FirstLine(units[i]) < FirstLine(u) => d \notin FirstLine(u) .. FinalLine(u)
        BY <2>9, <2>11, <2>17, <2>18, <3>1, <4>2
      <4> QED BY <2>13, <2>14, <4>1, <4>2, <4>3
    <3>2. CASE i = K + 1
      <4>1. units'[i] = u /\ d \in o.decls
        BY <2>11, <2>13, <2>27, <3>2
      <4>2. d \in FirstLine(u) .. FinalLine(u)
        BY <2>9, <2>11, <2>25, <4>1
      <4>3. ~(FirstLine(u) < FirstLine(u))
        BY <2>9, <2>11
      <4>4. \A l \in 1 .. K : units[l][1].t \in Routine /\ FirstLine(u) < FirstLine(units[l]) =>
              d \notin FirstLine(units[l]) .. FinalLine(units[l])
        BY <2>11, <2>25, <4>1
      <4> QED BY <2>13, <2>14, <4>1, <4>2, <4>3, <4>4
    <3> QED BY <2>14, <3>1, <3>2
  <2>28. Declared'
    <3>1. DeclsAreInnermost'
      BY <2>16, <2>27 DEF DeclsAreInnermost
    <3> QED BY <2>6, <2>7, <2>16, <2>26, <3>1 DEF Declared
  <2> QED BY <2>20, <2>21, <2>22, <2>23, <2>24, <2>28 DEF CInv
<1> QED BY <1>3, <1>4

-----------------------------------------------------------------------------
(* The end of the file, and the invariant. *)

LEMMA BaseIsPart ==
  ASSUME src \in Seq(Line), Len(src) <= LastLine, src # <<>>
  PROVE  Base \in Part /\ <<Base>> \in Seq(Part) /\ WholeFile(<<Base>>)
<1>1. 1 \in LineNo /\ Len(src) \in LineNo /\ 0 \in 0 .. LastLine
  BY ChunkerAssumption DEF LineNo
<1>2. Base \in Part
  BY <1>1 DEF Base, Part
<1> QED BY <1>2 DEF WholeFile, Base

LEMMA SourceKept ==
  ASSUME UNCHANGED src
  PROVE  /\ \A s, e : Depth(s, e)' = Depth(s, e)
         /\ \A s, e : Matched(s, e)' = Matched(s, e)
<1>1. ASSUME NEW s, NEW e PROVE Depth(s, e)' = Depth(s, e)
  BY DEF Depth, Count
<1>2. ASSUME NEW s, NEW e PROVE Matched(s, e)' = Matched(s, e)
  BY <1>1 DEF Matched
<1> QED BY <1>1, <1>2

LEMMA OpenedKept ==
  ASSUME Opened, UNCHANGED <<src, stack>>
  PROVE  Opened'
<1>1. \A s, e : Depth(s, e)' = Depth(s, e)
  BY SourceKept
<1>2. ASSUME NEW p \in DOMAIN stack
      PROVE  /\ stack'[p].start <= Len(src') /\ src'[stack'[p].start].k = "open"
             /\ Depth(stack[p].start, Len(src))' = Len(stack) - p + 1
             /\ \A m \in stack[p].start .. Len(src) : Depth(stack[p].start, m)' > 0
  <2>1. PICK s, L : s = stack[p].start /\ L = Len(src)
    OBVIOUS
  <2>2. /\ s <= L /\ src[s].k = "open" /\ Depth(s, L) = Len(stack) - p + 1
        /\ \A m \in s .. L : Depth(s, m) > 0
    BY <2>1 DEF Opened
  <2>3. /\ Depth(s, L)' = Len(stack) - p + 1 /\ \A m \in s .. L : Depth(s, m)' > 0
    BY <1>1, <2>2
  <2> QED BY <2>1, <2>2, <2>3
<1> QED BY <1>2 DEF Opened

LEMMA EndOfFileKeeps ==
  ASSUME CInv, EndOfFile
  PROVE  CInv'
<1>1. /\ ~ended /\ ended' = TRUE /\ src # <<>> /\ src' = src /\ stack' = stack /\ joining' = joining
      /\ src \in Seq(Line) /\ Len(src) <= LastLine /\ units \in Seq(Seq(Part))
  BY DEF EndOfFile, CInv, TypeOK
<1>2. Unit = DOMAIN units /\ \A i \in Unit : IsUnit(units[i])
  BY <1>1, UnitsAre DEF CInv
<1>3. CASE units # <<>>
  <2>1. units' = units
    BY <1>3 DEF EndOfFile
  <2>2. \A i \in DOMAIN units : ~WholeFile(units[i])
    BY <1>2 DEF Unit
  <2>3. Shapes'
    BY <1>1, <1>2, <1>3, <2>1, <2>2 DEF Shapes
  <2>4. Unit' = Unit
    BY <2>1 DEF Unit
  <2>5. TypeOK'
    BY <1>1, <2>1 DEF CInv, TypeOK
  <2>6. Opened'
    BY <1>1, OpenedKept DEF CInv
  <2>7. Balanced'
    BY <1>1, <2>1, <2>4, SourceKept DEF CInv, Balanced
  <2>8. Laminar'
    BY <1>1, <2>1, <2>4 DEF CInv, Laminar
  <2>9. Declared'
    BY <1>1, <2>1, <2>4 DEF CInv, Declared, DeclsAreInnermost
  <2> QED BY <2>3, <2>5, <2>6, <2>7, <2>8, <2>9 DEF CInv
<1>4. CASE units = <<>>
  <2>1. units' = << <<Base>> >>
    BY <1>4 DEF EndOfFile, Base
  <2>2. <<Base>> \in Seq(Part) /\ WholeFile(<<Base>>) /\ Base' = Base
    BY <1>1, BaseIsPart DEF Base
  <2>3. PICK v : v = <<Base>>
    OBVIOUS
  <2>4. units' = <<v>> /\ v \in Seq(Part) /\ WholeFile(v)
    BY <2>1, <2>2, <2>3
  <2>5. DOMAIN units' = {1} /\ units'[1] = v /\ Len(units') = 1 /\ units' \in Seq(Seq(Part))
    BY <2>4
  <2>6. Unit' = {} /\ Unit = {}
    BY <1>2, <1>4, <2>4, <2>5 DEF Unit
  <2>7. Shapes'
    <3>1. units' # <<>> /\ src' # <<>>
      BY <1>1, <2>4
    <3>2. \A i \in DOMAIN units' : i = 1 /\ units'[i] = v /\ v = <<Base>>'
      BY <2>2, <2>3, <2>5
    <3>3. ended'
      BY <1>1
    <3> QED BY <2>4, <2>5, <3>1, <3>2, <3>3 DEF Shapes
  <2>8. TypeOK'
    BY <1>1, <2>5 DEF CInv, TypeOK
  <2>9. Opened'
    BY <1>1, OpenedKept DEF CInv
  <2>10. Balanced'
    BY <1>1, <2>6 DEF CInv, Balanced
  <2>11. Laminar'
    BY <2>6 DEF Laminar
  <2>12. Declared'
    BY <1>1, <2>6 DEF CInv, Declared, DeclsAreInnermost
  <2> QED BY <2>7, <2>8, <2>9, <2>10, <2>11, <2>12 DEF CInv
<1> QED BY <1>3, <1>4

LEMMA CInvIsInductive == CInv /\ [Next]_vars => CInv'
<1> SUFFICES ASSUME CInv, [Next]_vars PROVE CInv'
  OBVIOUS
<1>1. CASE Swallow
  BY <1>1, SwallowKeeps
<1>2. CASE OtherLine
  BY <1>2, OtherLineKeeps
<1>3. CASE Declare
  BY <1>3, DeclareKeeps
<1>4. CASE EndUnit
  BY <1>4, EndUnitKeeps
<1>5. CASE EndOfFile
  BY <1>5, EndOfFileKeeps
<1>6. CASE \E t \in UnitType : OpenUnit(t)
  BY <1>6, OpenUnitKeeps
<1>7. CASE UNCHANGED vars
  <2>1. TypeOK'
    BY <1>7 DEF CInv, TypeOK, vars
  <2>2. Shapes'
    BY <1>7 DEF CInv, Shapes, Base, vars
  <2>3. Opened'
    BY <1>7, OpenedKept DEF CInv, vars
  <2>4. Unit' = Unit
    BY <1>7 DEF Unit, vars
  <2>5. Balanced'
    BY <1>7, <2>4, SourceKept DEF CInv, Balanced, vars
  <2>6. Laminar'
    BY <1>7, <2>4 DEF CInv, Laminar, vars
  <2>7. Declared'
    BY <1>7, <2>4 DEF CInv, Declared, DeclsAreInnermost, vars
  <2> QED BY <2>1, <2>2, <2>3, <2>5, <2>6, <2>7 DEF CInv
<1> QED BY <1>1, <1>2, <1>3, <1>4, <1>5, <1>6, <1>7 DEF Next, Done

LEMMA CInvInitially == Init => CInv
<1> SUFFICES ASSUME Init PROVE CInv
  OBVIOUS
<1>1. src = <<>> /\ stack = <<>> /\ units = <<>> /\ joining = FALSE /\ ended = FALSE
  BY DEF Init
<1>2. Unit = {}
  BY <1>1 DEF Unit
<1>3. TypeOK
  <2>1. /\ src \in Seq(Line) /\ Len(src) <= LastLine /\ stack \in Seq(Scope)
        /\ joining \in BOOLEAN /\ ended \in BOOLEAN
    <3>1. LastLine \in Nat /\ Len(<<>>) = 0
      BY ChunkerAssumption
    <3>2. Len(src) = 0
      BY <1>1, <3>1
    <3>3. src \in Seq(Line) /\ stack \in Seq(Scope)
      BY <1>1
    <3>4. joining \in BOOLEAN /\ ended \in BOOLEAN
      BY <1>1
    <3>5. Len(src) <= LastLine
      BY <3>1, <3>2
    <3> QED BY <3>3, <3>4, <3>5
  <2>2. units \in Seq(Seq(Part))
    BY <1>1
  <2> QED BY <2>1, <2>2 DEF TypeOK
<1> QED BY <1>1, <1>2, <1>3
  DEF CInv, Shapes, Opened, Balanced, Laminar, Declared, DeclsAreInnermost

(* What reads no Fortran leaves the chunker alone.                           *)
THEOREM ChunkerInvariance == FilesSpec => []CInv
<1>1. FilesInit => CInv
  BY CInvInitially DEF FilesInit
<1>2. CInv /\ [FilesNext]_filesVars => CInv'
  <2>1. [FilesNext]_filesVars => [Next]_vars
    BY DEF FilesNext, AddFile, Fortran, AddLine, AllRead, filesVars
  <2> QED BY <2>1, CInvIsInductive
<1> QED BY <1>1, <1>2, PTL DEF FilesSpec

-----------------------------------------------------------------------------
(* What the invariant says of the chunks of a Fortran file. *)

(* Is u a unit from line s to line e in n parts.                             *)
InParts(u, s, e, n) ==
  /\ s < e /\ e - s \in Nat /\ s = FirstLine(u) /\ e = FinalLine(u)
  /\ u \in Seq(Part) /\ DOMAIN u = 1 .. n /\ Len(u) = n
  /\ \A j \in 1 .. n :
       /\ u[j].t = u[1].t /\ u[j].part = IF n = 1 THEN 0 ELSE j
       /\ u[j].start = s + (j - 1) * MaxLines
       /\ u[j].end = IF j = n THEN e ELSE s + j * MaxLines - 1
       /\ u[j].start \in Int /\ u[j].end \in Int
       /\ s <= u[j].start /\ u[j].start <= u[j].end /\ u[j].end <= e
       /\ u[j].end - u[j].start < MaxLines
  /\ n > 1 => e - s >= MaxLines

LEMMA UnitParts ==
  ASSUME CInv, NEW i \in Unit
  PROVE  \E s \in LineNo, e \in LineNo, n \in Nat \ {0} : InParts(units[i], s, e, n)
<1>1. IsUnit(units[i])
  BY UnitsAre DEF CInv
<1>2. PICK o \in Scope, e \in LineNo : o.start < e /\ units[i] = Split(o, e)
  BY <1>1 DEF IsUnit
<1>3. PICK s \in LineNo : s = o.start
  BY DEF Scope
<1>4. o.start <= e /\ e - s \in Nat
  BY <1>2, <1>3 DEF LineNo
<1>5. PICK u : u = units[i]
  OBVIOUS
<1>6. /\ u \in Seq(Part) /\ Len(u) \in Nat /\ Len(u) > 0 /\ DOMAIN u = 1 .. Len(u)
      /\ FirstLine(u) = o.start /\ FinalLine(u) = e
      /\ \A j \in 1 .. Len(u) :
           /\ u[j].t = o.t /\ u[j].part = IF Len(u) = 1 THEN 0 ELSE j
           /\ u[j].start = o.start + (j - 1) * MaxLines
           /\ u[j].end = IF j = Len(u) THEN e ELSE o.start + j * MaxLines - 1
           /\ u[j].start \in Int /\ u[j].end \in Int
           /\ o.start <= u[j].start /\ u[j].start <= u[j].end /\ u[j].end <= e
           /\ u[j].end - u[j].start < MaxLines
      /\ Len(u) > 1 => e - o.start >= MaxLines
  BY <1>2, <1>4, <1>5, SplitFacts
<1>12. Len(u) \in Nat \ {0}
  <2>1. Len(u) \in Nat /\ Len(u) > 0
    BY <1>6
  <2> QED BY <2>1
<1>7. PICK n \in Nat \ {0} : n = Len(u)
  BY <1>12
<1>8. 1 \in 1 .. n
  BY <1>7
<1>9. u[1].t = o.t
  BY <1>6, <1>7, <1>8
<1>10. /\ s < e /\ e - s \in Nat /\ s = FirstLine(u) /\ e = FinalLine(u)
       /\ u \in Seq(Part) /\ DOMAIN u = 1 .. n /\ Len(u) = n
       /\ n > 1 => e - s >= MaxLines
  BY <1>2, <1>3, <1>4, <1>5, <1>6, <1>7
<1>11. \A j \in 1 .. n :
         /\ u[j].t = u[1].t /\ u[j].part = IF n = 1 THEN 0 ELSE j
         /\ u[j].start = s + (j - 1) * MaxLines
         /\ u[j].end = IF j = n THEN e ELSE s + j * MaxLines - 1
         /\ u[j].start \in Int /\ u[j].end \in Int
         /\ s <= u[j].start /\ u[j].start <= u[j].end /\ u[j].end <= e
         /\ u[j].end - u[j].start < MaxLines
  BY <1>3, <1>6, <1>7, <1>9
<1>13. InParts(u, s, e, n)
  BY <1>10, <1>11 DEF InParts
<1> QED BY <1>5, <1>13

LEMMA LimitIsPositive == MaxLines \in Nat /\ MaxLines > 0
BY ChunkerAssumption DEF MaxLines

LEMMA TilesOf ==
  ASSUME CInv
  PROVE  PartsTile
<1> SUFFICES ASSUME NEW i \in Unit
             PROVE  LET u == units[i] IN
                    /\ \A j \in DOMAIN u : u[j].start <= u[j].end /\ u[j].end - u[j].start < MaxLines
                    /\ \A j \in DOMAIN u : j > 1 => u[j].start = u[j - 1].end + 1
                    /\ Len(u) > 1 => FinalLine(u) - FirstLine(u) >= MaxLines
  BY DEF PartsTile
<1>1. PICK s \in LineNo, e \in LineNo, n \in Nat \ {0} : InParts(units[i], s, e, n)
  BY UnitParts
<1> DEFINE u == units[i]
<1>2. /\ s = FirstLine(u) /\ e = FinalLine(u) /\ DOMAIN u = 1 .. n /\ Len(u) = n
      /\ \A j \in 1 .. n :
           /\ u[j].start = s + (j - 1) * MaxLines
           /\ u[j].end = IF j = n THEN e ELSE s + j * MaxLines - 1
           /\ u[j].start <= u[j].end
           /\ u[j].end - u[j].start < MaxLines
      /\ n > 1 => e - s >= MaxLines
  BY <1>1 DEF InParts
<1>3. ASSUME NEW j \in 1 .. n, j > 1
      PROVE  u[j].start = u[j - 1].end + 1
  <2>1. j - 1 \in 1 .. n /\ j - 1 # n /\ s \in Int
    BY <1>3 DEF LineNo
  <2>2. u[j].start = s + (j - 1) * MaxLines /\ u[j - 1].end = s + (j - 1) * MaxLines - 1
    BY <1>2, <2>1
  <2>3. (j - 1) * MaxLines \in Int
    BY LimitIsPositive
  <2> QED BY <2>1, <2>2, <2>3
<1> QED BY <1>2, <1>3

(* No two units are opened by the same line. *)
LEMMA OneUnitPerOpening ==
  ASSUME CInv, NEW i \in Unit, NEW j \in Unit, FirstLine(units[i]) = FirstLine(units[j])
  PROVE  i = j
<1>1. i \in Nat /\ j \in Nat
  BY UnitsAre DEF CInv, TypeOK
<1>2. /\ FirstLine(units[i]) \in Int /\ FinalLine(units[i]) \in Int
      /\ FirstLine(units[i]) < FinalLine(units[i])
      /\ FirstLine(units[j]) \in Int /\ FinalLine(units[j]) \in Int
      /\ FirstLine(units[j]) < FinalLine(units[j])
  BY UnitsAre, UnitShape DEF CInv, LineNo
<1>3. ~(i < j)
  BY <1>2 DEF CInv, Laminar
<1>4. ~(j < i)
  BY <1>2 DEF CInv, Laminar
<1> QED BY <1>1, <1>3, <1>4

LEMMA DistinctIds ==
  ASSUME CInv
  PROVE  IdsAreDistinct
<1> SUFFICES ASSUME NEW i \in DOMAIN units, NEW j \in DOMAIN units,
                    NEW x \in DOMAIN units[i], NEW y \in DOMAIN units[j],
                    Id(units[i][x]) = Id(units[j][y])
             PROVE  i = j /\ x = y
  BY DEF IdsAreDistinct
<1>1. CASE WholeFile(units[i]) \/ WholeFile(units[j])
  <2>1. Len(units) = 1 /\ DOMAIN units = 1 .. Len(units)
    BY <1>1 DEF CInv, Shapes, TypeOK
  <2>2. i = 1 /\ j = 1
    BY <2>1
  <2>3. units[1] = <<Base>>
    BY <1>1, <2>2 DEF CInv, Shapes
  <2>4. x = 1 /\ y = 1
    BY <2>2, <2>3
  <2> QED BY <2>2, <2>4
<1>2. CASE i \in Unit /\ j \in Unit
  <2>1. PICK s \in Int, n \in Nat \ {0} :
          /\ s = FirstLine(units[i]) /\ DOMAIN units[i] = 1 .. n
          /\ units[i][x].part = IF n = 1 THEN 0 ELSE x
          /\ units[i][x].start = s + (x - 1) * MaxLines
    <3>1. PICK w \in LineNo, e \in LineNo, n \in Nat \ {0} : InParts(units[i], w, e, n)
      BY <1>2, UnitParts
    <3>2. /\ w = FirstLine(units[i]) /\ DOMAIN units[i] = 1 .. n
          /\ units[i][x].part = IF n = 1 THEN 0 ELSE x
          /\ units[i][x].start = w + (x - 1) * MaxLines
      BY <3>1 DEF InParts
    <3>3. w \in Int
      BY DEF LineNo
    <3> QED BY <3>2, <3>3
  <2>2. PICK r \in Int, m \in Nat \ {0} :
          /\ r = FirstLine(units[j]) /\ DOMAIN units[j] = 1 .. m
          /\ units[j][y].part = IF m = 1 THEN 0 ELSE y
          /\ units[j][y].start = r + (y - 1) * MaxLines
    <3>1. PICK w \in LineNo, e \in LineNo, l \in Nat \ {0} : InParts(units[j], w, e, l)
      BY <1>2, UnitParts
    <3>2. /\ w = FirstLine(units[j]) /\ DOMAIN units[j] = 1 .. l
          /\ units[j][y].part = IF l = 1 THEN 0 ELSE y
          /\ units[j][y].start = w + (y - 1) * MaxLines
      BY <3>1 DEF InParts
    <3>3. w \in Int
      BY DEF LineNo
    <3> QED BY <3>2, <3>3
  <2>3. units[i][x].part = units[j][y].part /\ units[i][x].start = units[j][y].start
    BY DEF Id
  <2>4. x = y
    BY <2>1, <2>2, <2>3
  <2>5. (x - 1) * MaxLines \in Int
    BY <2>1, LimitIsPositive
  <2>6. s = r
    BY <2>1, <2>2, <2>3, <2>4, <2>5
  <2> QED BY <1>2, <2>1, <2>2, <2>4, <2>6, OneUnitPerOpening
<1> QED BY <1>1, <1>2 DEF Unit

LEMMA PairsOf ==
  ASSUME CInv
  PROVE  UnitsAreMatchedPairs
<1> DEFINE pairs == {c \in (DOMAIN src) \X (DOMAIN src) : Matched(c[1], c[2])}
           found == {<<FirstLine(units[i]), FinalLine(units[i])>> : i \in Unit}
<1>1. PICK L \in Nat : L = Len(src) /\ DOMAIN src = 1 .. L
  BY DEF CInv, TypeOK
<1>2. ASSUME NEW i \in Unit
      PROVE  /\ FirstLine(units[i]) \in 1 .. L /\ FinalLine(units[i]) \in 1 .. L
             /\ Matched(FirstLine(units[i]), FinalLine(units[i]))
  <2>1. PICK s \in LineNo, e \in LineNo : s = FirstLine(units[i]) /\ e = FinalLine(units[i]) /\ s < e
    BY UnitsAre, UnitShape DEF CInv
  <2>2. e <= L /\ Matched(s, e)
    BY <1>1, <2>1 DEF CInv, Balanced
  <2> QED BY <2>1, <2>2 DEF LineNo
<1>3. ASSUME NEW s \in 1 .. L, NEW e \in 1 .. L, Matched(s, e)
      PROVE  <<s, e>> \in found
  <2>1. src[s].k = "open" /\ s < e /\ Depth(s, e) = 0 /\ e \in s .. L
    BY <1>3 DEF Matched
  <2>2. ASSUME NEW p \in DOMAIN stack, stack[p].start = s PROVE FALSE
    <3>1. \A m \in s .. L : Depth(s, m) > 0
      BY <1>1, <2>2 DEF CInv, Opened
    <3>2. Depth(s, e) > 0
      BY <2>1, <3>1
    <3> QED BY <2>1, <3>2
  <2>3. PICK i \in Unit : FirstLine(units[i]) = s
    BY <1>1, <2>1, <2>2 DEF CInv, Balanced
  <2>4. PICK f \in 1 .. L : f = FinalLine(units[i]) /\ Matched(s, f)
    BY <1>2, <2>3
  <2>5. ~(f < e)
    <3>1. f < e => f \in s .. e - 1
      BY <2>4 DEF Matched
    <3>2. Depth(s, f) = 0 /\ ~(0 > 0)
      BY <2>4 DEF Matched
    <3> QED BY <1>3, <3>1, <3>2 DEF Matched
  <2>6. ~(e < f)
    <3>1. e < f => e \in s .. f - 1
      BY <1>3 DEF Matched
    <3>2. ~(0 > 0)
      OBVIOUS
    <3> QED BY <2>1, <2>4, <3>1, <3>2 DEF Matched
  <2>7. e = f
    BY <2>5, <2>6
  <2> QED BY <2>3, <2>4, <2>7
<1>4. found = pairs
  <2>1. found \subseteq pairs
    BY <1>1, <1>2
  <2>2. ASSUME NEW c \in pairs PROVE c \in found
    <3>1. c[1] \in 1 .. L /\ c[2] \in 1 .. L /\ Matched(c[1], c[2]) /\ c = <<c[1], c[2]>>
      BY <1>1
    <3> HIDE DEF found
    <3> QED BY <1>3, <3>1
  <2> QED BY <2>1, <2>2
<1>5. ASSUME ended, pairs = {}
      PROVE  \E i \in DOMAIN units : FirstLine(units[i]) = 1 /\ FinalLine(units[i]) = Len(src)
  <2>1. Unit = {}
    BY <1>4, <1>5
  <2>2. 1 \in DOMAIN units
    BY <1>5 DEF CInv, Shapes, TypeOK
  <2>3. units[1] = <<Base>>
    BY <2>1, <2>2 DEF CInv, Shapes, Unit
  <2>4. FirstLine(<<Base>>) = 1 /\ FinalLine(<<Base>>) = Len(src)
    BY DEF FirstLine, FinalLine, Base
  <2> QED BY <2>2, <2>3, <2>4
<1> HIDE DEF found
<1> QED BY <1>4, <1>5 DEF UnitsAreMatchedPairs, found

(* Every state of the chunker has its type. *)
THEOREM TypeCorrect == FilesSpec => []TypeOK
<1>1. CInv => TypeOK
  BY DEF CInv
<1> QED BY <1>1, ChunkerInvariance, PTL

(* The units that become chunks are the pairs of openings and ends that       *)
(* balance, and a file without any is a chunk as a whole.                    *)
THEOREM FindsMatchedPairs == FilesSpec => []UnitsAreMatchedPairs
<1>1. CInv => UnitsAreMatchedPairs
  BY PairsOf
<1> QED BY <1>1, ChunkerInvariance, PTL

(* The parts of a unit tile it, within the limit.                            *)
THEOREM TilesUnits == FilesSpec => []PartsTile
<1>1. CInv => PartsTile
  BY TilesOf
<1> QED BY <1>1, ChunkerInvariance, PTL

(* No chunk of a file overwrites another in the store.                       *)
THEOREM IdentifiesChunks == FilesSpec => []IdsAreDistinct
<1>1. CInv => IdsAreDistinct
  BY DistinctIds
<1> QED BY <1>1, ChunkerInvariance, PTL

(* A declaration is the innermost routine's that encloses it.                *)
THEOREM DeclaresInnermost == FilesSpec => []DeclsAreInnermost
<1>1. CInv => DeclsAreInnermost
  BY DEF CInv, Declared
<1> QED BY <1>1, ChunkerInvariance, PTL

-----------------------------------------------------------------------------
(* Containment. *)

LEMMA RowFacts ==
  ASSUME NEW p
  PROVE  /\ Row(p).id = Id(p) /\ Row(p).file = "f" /\ Row(p).t = p.t
         /\ Row(p).start = p.start /\ Row(p).end = p.end
BY DEF Row

(* A part that can be at either end of a containment edge is of a unit.      *)
LEMMA PartOfUnit ==
  ASSUME CInv, NEW i \in DOMAIN units, NEW p \in Parts(i), p.t # "unknown"
  PROVE  /\ i \in Unit
         /\ \E s \in LineNo, e \in LineNo, n \in Nat \ {0}, x \in Nat :
              /\ x \in 1 .. n /\ p = units[i][x] /\ InParts(units[i], s, e, n)
<1>1. PICK x \in DOMAIN units[i] : p = units[i][x]
  BY DEF Parts
<1>2. ~WholeFile(units[i])
  <2>1. SUFFICES ASSUME WholeFile(units[i]) PROVE FALSE
    OBVIOUS
  <2>2. units[i] = <<Base>>
    BY <2>1 DEF CInv, Shapes
  <2>3. x = 1 /\ p = Base
    BY <1>1, <2>2
  <2> QED BY <2>3 DEF Base
<1>3. i \in Unit
  BY <1>2 DEF Unit
<1>4. PICK s \in LineNo, e \in LineNo, n \in Nat \ {0} : InParts(units[i], s, e, n)
  BY <1>3, UnitParts
<1>5. x \in 1 .. n /\ x \in Nat
  BY <1>1, <1>4 DEF InParts
<1> QED BY <1>1, <1>3, <1>4, <1>5

(* An edge needs parts of nested units: a part of an enclosing unit that      *)
(* stands within another part is as long as the limit allows, and too long.   *)
LEMMA EdgesOfNested ==
  ASSUME CInv, NEW i \in DOMAIN units, NEW j \in DOMAIN units,
         NEW p \in Parts(i), NEW q \in Parts(j), p.t \in Container, q.t \in Child,
         q.start > p.start, q.end <= p.end
  PROVE  i \in Unit /\ j \in Unit /\ Nested(i, j)
<1>1. p.t # "unknown" /\ q.t # "unknown" /\ Container \cap Child = {}
  BY DEF Container, Child
<1>2. i \in Unit /\ j \in Unit
  BY <1>1, PartOfUnit
<1>3. PICK s \in LineNo, e \in LineNo, n \in Nat \ {0}, x \in Nat :
        x \in 1 .. n /\ p = units[i][x] /\ InParts(units[i], s, e, n)
  BY <1>1, PartOfUnit
<1>4. PICK r \in LineNo, f \in LineNo, m \in Nat \ {0}, y \in Nat :
        y \in 1 .. m /\ q = units[j][y] /\ InParts(units[j], r, f, m)
  BY <1>1, PartOfUnit
<1>5. /\ s = FirstLine(units[i]) /\ e = FinalLine(units[i]) /\ units[i][1].t = p.t
      /\ p.start \in Int /\ p.end \in Int /\ s <= p.start /\ p.start <= p.end /\ p.end <= e
      /\ p.end - p.start < MaxLines
  BY <1>3 DEF InParts
<1>6. /\ r = FirstLine(units[j]) /\ f = FinalLine(units[j]) /\ units[j][1].t = q.t
      /\ q.start \in Int /\ q.end \in Int /\ r <= q.start /\ q.start <= q.end /\ q.end <= f
      /\ q.start = r + (y - 1) * MaxLines
      /\ q.end = IF y = m THEN f ELSE r + y * MaxLines - 1
  BY <1>4 DEF InParts
<1>7. i # j
  BY <1>1, <1>5, <1>6
<1>8. s \in Int /\ e \in Int /\ r \in Int /\ f \in Int /\ i \in Int /\ j \in Int
  BY DEF LineNo, CInv, TypeOK
<1>9. CASE j < i
  <2>1. f < e /\ (s < r \/ f < s)
    BY <1>2, <1>5, <1>6, <1>9 DEF CInv, Laminar
  <2>2. s < r
    BY <1>5, <1>6, <1>8, <2>1
  <2> QED BY <1>2, <1>5, <1>6, <2>1, <2>2 DEF Nested
<1>10. CASE i < j
  <2>1. e < f /\ (r < s \/ e < r)
    BY <1>2, <1>5, <1>6, <1>10 DEF CInv, Laminar
  <2>2. q.end # f
    BY <1>5, <1>6, <1>8, <2>1
  <2>3. q.end = r + y * MaxLines - 1
    BY <1>6, <2>2
  <2>4. y * MaxLines \in Int /\ (y - 1) * MaxLines = y * MaxLines - MaxLines
    BY <1>4, LimitIsPositive
  <2>5. q.end - q.start = MaxLines - 1
    BY <1>6, <1>8, <2>3, <2>4, LimitIsPositive
  <2> QED BY <1>5, <1>6, <2>5, LimitIsPositive
<1> QED BY <1>7, <1>8, <1>9, <1>10

LEMMA NestingOf ==
  ASSUME CInv
  PROVE  ContainmentIsNesting
<1>1. ASSUME NEW a \in Contains
      PROVE  \E i, j \in Unit : Nested(i, j) /\ a \in Joined(i, j)
  <2>1. PICK P \in FileChunks, C \in FileChunks :
          P.t \in Container /\ C.t \in Child /\ Encloses(P, C) /\ a = <<P.id, C.id, "contains">>
    BY DEF Contains, ContainmentEdges
  <2>2. PICK i \in DOMAIN units : \E p \in Parts(i) : P = Row(p)
    BY <2>1 DEF FileChunks
  <2>3. PICK p \in Parts(i) : P = Row(p)
    BY <2>2
  <2>4. PICK j \in DOMAIN units : \E q \in Parts(j) : C = Row(q)
    BY <2>1 DEF FileChunks
  <2>5. PICK q \in Parts(j) : C = Row(q)
    BY <2>4
  <2>6. /\ p.t \in Container /\ q.t \in Child /\ q.start > p.start /\ q.end <= p.end
        /\ a = <<Id(p), Id(q), "contains">>
    BY <2>1, <2>3, <2>5, RowFacts DEF Encloses
  <2>7. i \in Unit /\ j \in Unit /\ Nested(i, j)
    BY <2>6, EdgesOfNested
  <2>8. a \in Joined(i, j)
    BY <2>6 DEF Joined
  <2> QED BY <2>7, <2>8
<1>2. ASSUME NEW i \in Unit, NEW j \in Unit, Nested(i, j), Len(units[i]) = 1, NEW a \in Joined(i, j)
      PROVE  a \in Contains
  <2>1. PICK p \in Parts(i), q \in Parts(j) : a = <<Id(p), Id(q), "contains">>
    BY DEF Joined
  <2>2. PICK s \in LineNo, e \in LineNo, n \in Nat \ {0} : InParts(units[i], s, e, n)
    BY UnitParts
  <2>3. PICK r \in LineNo, f \in LineNo, m \in Nat \ {0} : InParts(units[j], r, f, m)
    BY UnitParts
  <2>4. n = 1 /\ p = units[i][1] /\ s = FirstLine(units[i]) /\ e = FinalLine(units[i])
    BY <1>2, <2>2 DEF InParts, Parts
  <2>5. p.start = s + (1 - 1) * MaxLines /\ p.end = e /\ s \in Int /\ e \in Int
    BY <2>2, <2>4 DEF InParts, LineNo
  <2>6. PICK y \in 1 .. m : q = units[j][y]
    BY <2>3 DEF InParts, Parts
  <2>7. /\ r = FirstLine(units[j]) /\ f = FinalLine(units[j]) /\ q.t = units[j][1].t
        /\ q.start \in Int /\ q.end \in Int /\ r <= q.start /\ q.end <= f
    BY <2>3, <2>6 DEF InParts
  <2>8. r \in Int /\ f \in Int
    BY DEF LineNo
  <2>9. s < r /\ f < e /\ p.t \in Container /\ q.t \in Child
    BY <1>2, <2>4, <2>7 DEF Nested
  <2>10. p.start = s
    BY <2>5, LimitIsPositive
  <2>11. q.start > p.start /\ q.end <= p.end
    BY <2>5, <2>7, <2>8, <2>9, <2>10
  <2>12. Row(p) \in FileChunks /\ Row(q) \in FileChunks
    BY <2>1, UnitsAre DEF FileChunks, CInv
  <2>13. Encloses(Row(p), Row(q)) /\ Row(p).t \in Container /\ Row(q).t \in Child
    BY <2>9, <2>11, RowFacts DEF Encloses
  <2>14. a = <<Row(p).id, Row(q).id, "contains">>
    BY <2>1, RowFacts
  <2> QED BY <2>12, <2>13, <2>14 DEF Contains, ContainmentEdges
<1>3. \A i, j \in Unit : Nested(i, j) /\ Len(units[i]) = 1 => Joined(i, j) \subseteq Contains
  BY <1>2
<1> QED BY <1>1, <1>3 DEF ContainmentIsNesting

(* Containment edges join parts of nested units only, and all of them if the   *)
(* outer unit is not split.                                                  *)
THEOREM ContainsNested == FilesSpec => []ContainmentIsNesting
<1>1. CInv => ContainmentIsNesting
  BY NestingOf
<1> QED BY <1>1, ChunkerInvariance, PTL

-----------------------------------------------------------------------------
(* Lists of files. *)

(* Are the members of one list those of another at S.                        *)
Lists(at, files, S) ==
  /\ \A x \in DOMAIN at : \E k \in S : at[x] = files[k]
  /\ \A k \in S : \E x \in DOMAIN at : at[x] = files[k]

LEMMA FilesAtFacts ==
  ASSUME NEW T, NEW files \in Seq(T), NEW S \in SUBSET (DOMAIN files)
  PROVE  /\ FilesAt(files, S) \in Seq(T)
         /\ Lists(FilesAt(files, S), files, S)
         /\ \A x, y \in DOMAIN FilesAt(files, S) : x < y =>
              \E k, l \in S : k < l /\ FilesAt(files, S)[x] = files[k] /\ FilesAt(files, S)[y] = files[l]
<1> DEFINE c == Cardinality(S)
           p == InOrder(S)
           at == FilesAt(files, S)
<1>1. Len(files) \in Nat /\ DOMAIN files = 1 .. Len(files) /\ S \in SUBSET (1 .. Len(files))
  OBVIOUS
<1>2. /\ p \in [1 .. c -> S]
      /\ \A i, j \in 1 .. c : i < j => p[i] < p[j]
      /\ \A k \in S : \E i \in 1 .. c : p[i] = k
  BY <1>1, OrderExists
<1>3. c \in Nat
  BY <1>1, InInterval
<1>4. at = [i \in 1 .. c |-> files[p[i]]]
  BY DEF FilesAt
<1> HIDE DEF at, p, c
<1>5. \A i \in 1 .. c : p[i] \in S /\ p[i] \in DOMAIN files /\ files[p[i]] \in T
  BY <1>2
<1>6. at \in Seq(T) /\ DOMAIN at = 1 .. c /\ \A i \in 1 .. c : at[i] = files[p[i]]
  BY <1>3, <1>4, <1>5
<1>7. Lists(at, files, S)
  BY <1>2, <1>5, <1>6 DEF Lists
<1>8. \A x, y \in DOMAIN at : x < y => \E k, l \in S : k < l /\ at[x] = files[k] /\ at[y] = files[l]
  BY <1>2, <1>5, <1>6
<1> QED BY <1>6, <1>7, <1>8 DEF at

(* One step of dedupFiles. *)
Keep(s, f) ==
  IF f.content \in DOMAIN s /\ ~Shorter(f, s[f.content]) THEN s
  ELSE [c \in DOMAIN s \cup {f.content} |-> IF c = f.content THEN f ELSE s[c]]

(* The recursive function of SeenIn exists, and is what it says.             *)
LEMMA SeenInDef ==
  ASSUME NEW T, NEW files \in Seq(T)
  PROVE  \A n \in 0 .. Len(files) :
           SeenIn(files)[n] = IF n = 0 THEN <<>> ELSE Keep(SeenIn(files)[n - 1], files[n])
<1> DEFINE N == Len(files)
           step(g, i) == IF i = 0 THEN <<>> ELSE Keep(g[i - 1], files[i])
           Solves(g, n) == g = [i \in 0 .. n |-> step(g, i)]
           Good == {n \in 0 .. N : \E g : Solves(g, n)}
<1>1. N \in Nat
  OBVIOUS
<1> HIDE DEF N
<1>2. 0 \in Good
  <2> DEFINE g == [i \in 0 .. 0 |-> <<>>]
  <2>1. Solves(g, 0)
    OBVIOUS
  <2> HIDE DEF Solves, g
  <2> QED BY <1>1, <2>1
<1>3. ASSUME NEW n \in 0 .. N, n < N, n \in Good PROVE n + 1 \in Good
  <2>1. PICK g : Solves(g, n)
    BY <1>3
  <2> DEFINE h == [i \in 0 .. n + 1 |-> IF i = n + 1 THEN step(g, n + 1) ELSE g[i]]
  <2>2. \A i \in 0 .. n : h[i] = g[i] /\ g[i] = step(g, i)
    <3>1. \A i \in 0 .. n : i \in 0 .. n + 1 /\ i # n + 1
      BY <1>1
    <3> HIDE DEF step
    <3>2. \A i \in 0 .. n : g[i] = step(g, i)
      BY <2>1
    <3>3. \A i \in 0 .. n : h[i] = g[i]
      BY <3>1
    <3> QED BY <3>2, <3>3
  <2>3. ASSUME NEW i \in 0 .. n + 1 PROVE h[i] = step(h, i)
    <3>1. CASE i = n + 1
      <4>1. (n + 1) - 1 = n /\ n + 1 # 0 /\ n \in 0 .. n /\ n + 1 \in 0 .. n + 1
        BY <1>1
      <4>2. h[i] = Keep(g[n], files[n + 1]) /\ h[n] = g[n]
        BY <2>2, <3>1, <4>1
      <4> HIDE DEF h
      <4> QED BY <3>1, <4>1, <4>2
    <3>2. CASE i \in 0 .. n
      <4>1. i = 0 \/ i - 1 \in 0 .. n
        BY <1>1, <3>2
      <4> HIDE DEF h
      <4> QED BY <2>2, <3>2, <4>1
    <3> QED BY <3>1, <3>2, <1>1
  <2>4. Solves(h, n + 1)
    <3>1. h = [i \in 0 .. n + 1 |-> h[i]]
      OBVIOUS
    <3> HIDE DEF h, step
    <3> QED BY <2>3, <3>1
  <2> HIDE DEF Solves, h
  <2> QED BY <1>1, <1>3, <2>4
<1>4. \E g : Solves(g, N)
  <2>1. \A n \in 0 .. N : n < N /\ n \in Good => n + 1 \in Good
    BY <1>3
  <2>2. 0 .. N \subseteq Good
    <3> HIDE DEF Good, N
    <3> QED BY <1>1, <1>2, <2>1, UpTo
  <2> HIDE DEF Solves, N
  <2> QED BY <1>1, <2>2
<1>5. SeenIn(files) = CHOOSE g : Solves(g, N)
  BY Zenon DEF SeenIn, Keep, N
<1>6. Solves(SeenIn(files), N)
  <2> HIDE DEF Solves
  <2> QED BY <1>4, <1>5
<1> QED BY <1>6 DEF N

(* A file of the walk, and of its Fortran files. *)
File == [path : Nat, kind : FileKind, content : Content, len : Nat]

(* Is the k-th the first of the shortest among the first n of its content.    *)
Best(files, k, n) ==
  /\ k \in 1 .. n
  /\ \A i \in 1 .. n : files[i].content = files[k].content =>
       files[k].len < files[i].len \/ (files[k].len = files[i].len /\ k <= i)

SeenWell(files, n, s) ==
  /\ DOMAIN s = {files[i].content : i \in 1 .. n}
  /\ \A c \in DOMAIN s : \E k \in 1 .. n : s[c] = files[k] /\ files[k].content = c /\ Best(files, k, n)

LEMMA KeepsBest ==
  ASSUME NEW files \in Seq(File), NEW n \in 1 .. Len(files), NEW s, SeenWell(files, n - 1, s)
  PROVE  SeenWell(files, n, Keep(s, files[n]))
<1> DEFINE f == files[n]
           r == Keep(s, f)
<1>1. /\ n \in Nat /\ n - 1 \in Nat /\ n \in 1 .. n /\ n \notin 1 .. n - 1
      /\ 1 .. n - 1 \subseteq 1 .. n /\ \A i \in 1 .. n : i = n \/ (i \in 1 .. n - 1 /\ i < n)
      /\ \A i \in 1 .. n : i \in Nat /\ files[i] \in File /\ files[i].len \in Nat
  <2>1. \A i \in 1 .. n : i \in DOMAIN files
    OBVIOUS
  <2>2. \A i \in 1 .. n : files[i] \in File
    BY <2>1
  <2>3. \A i \in 1 .. n : files[i].len \in Nat
    BY <2>2 DEF File
  <2> QED BY <2>2, <2>3
<1>2. {files[i].content : i \in 1 .. n} = {files[i].content : i \in 1 .. n - 1} \cup {f.content}
  BY <1>1
<1>3. ASSUME NEW k \in 1 .. n - 1, Best(files, k, n - 1),
             files[k].content = f.content => ~(f.len < files[k].len)
      PROVE  Best(files, k, n)
  <2>1. ASSUME NEW i \in 1 .. n, files[i].content = files[k].content
        PROVE  files[k].len < files[i].len \/ (files[k].len = files[i].len /\ k <= i)
    <3>1. CASE i \in 1 .. n - 1
      BY <1>3, <2>1, <3>1 DEF Best
    <3>2. CASE i = n
      BY <1>1, <1>3, <2>1, <3>2
    <3> QED BY <1>1, <3>1, <3>2
  <2> QED BY <1>1, <2>1 DEF Best
<1>4. CASE f.content \in DOMAIN s /\ ~Shorter(f, s[f.content])
  <2>1. r = s
    BY <1>4 DEF Keep
  <2>2. DOMAIN s = {files[i].content : i \in 1 .. n}
    BY <1>2, <1>4 DEF SeenWell
  <2>3. ASSUME NEW c \in DOMAIN s
        PROVE  \E k \in 1 .. n : s[c] = files[k] /\ files[k].content = c /\ Best(files, k, n)
    <3>1. PICK k \in 1 .. n - 1 : s[c] = files[k] /\ files[k].content = c /\ Best(files, k, n - 1)
      BY DEF SeenWell
    <3>2. files[k].content = f.content => ~(f.len < files[k].len)
      BY <1>4, <3>1 DEF Shorter
    <3>3. Best(files, k, n)
      BY <1>3, <3>1, <3>2
    <3> QED BY <1>1, <3>1, <3>3
  <2> QED BY <2>1, <2>2, <2>3 DEF SeenWell
<1>5. CASE ~(f.content \in DOMAIN s /\ ~Shorter(f, s[f.content]))
  <2>1. r = [c \in DOMAIN s \cup {f.content} |-> IF c = f.content THEN f ELSE s[c]]
    BY <1>5 DEF Keep
  <2>2. DOMAIN r = {files[i].content : i \in 1 .. n}
    BY <1>2, <2>1 DEF SeenWell
  <2>3. Best(files, n, n)
    <3>1. ASSUME NEW i \in 1 .. n, files[i].content = f.content
          PROVE  f.len < files[i].len \/ (f.len = files[i].len /\ n <= i)
      <4>1. CASE i = n
        BY <1>1, <4>1
      <4>2. CASE i \in 1 .. n - 1
        <5>1. f.content \in DOMAIN s
          BY <3>1, <4>2 DEF SeenWell
        <5>2. PICK k \in 1 .. n - 1 : s[f.content] = files[k] /\ files[k].content = f.content /\ Best(files, k, n - 1)
          BY <5>1 DEF SeenWell
        <5>3. f.len < files[k].len
          BY <1>5, <5>1, <5>2 DEF Shorter
        <5>4. files[k].len <= files[i].len
          BY <1>1, <3>1, <4>2, <5>2 DEF Best
        <5> QED BY <1>1, <5>3, <5>4
      <4> QED BY <1>1, <4>1, <4>2
    <3> QED BY <1>1, <3>1 DEF Best
  <2>4. ASSUME NEW c \in DOMAIN r
        PROVE  \E k \in 1 .. n : r[c] = files[k] /\ files[k].content = c /\ Best(files, k, n)
    <3>1. CASE c = f.content
      BY <1>1, <2>1, <2>3, <3>1
    <3>2. CASE c # f.content
      <4>1. c \in DOMAIN s /\ r[c] = s[c]
        BY <2>1, <2>4, <3>2
      <4>2. PICK k \in 1 .. n - 1 : s[c] = files[k] /\ files[k].content = c /\ Best(files, k, n - 1)
        BY <4>1 DEF SeenWell
      <4>3. Best(files, k, n)
        BY <1>3, <3>2, <4>2
      <4> QED BY <1>1, <4>1, <4>2, <4>3
    <3> QED BY <3>1, <3>2
  <2> HIDE DEF r
  <2> QED BY <2>2, <2>4 DEF SeenWell, r
<1> QED BY <1>4, <1>5

LEMMA SeesBest ==
  ASSUME NEW files \in Seq(File)
  PROVE  SeenWell(files, Len(files), Seen(files))
<1> DEFINE N == Len(files)
           s == SeenIn(files)
           Good == {n \in 0 .. N : SeenWell(files, n, s[n])}
<1>1. N \in Nat
  OBVIOUS
<1>2. 0 \in Good
  <2>1. s[0] = <<>>
    BY <1>1, SeenInDef
  <2>2. DOMAIN <<>> = {} /\ 1 .. 0 = {}
    OBVIOUS
  <2>3. SeenWell(files, 0, <<>>)
    BY <2>2 DEF SeenWell
  <2> HIDE DEF s
  <2> QED BY <1>1, <2>1, <2>3
<1>3. ASSUME NEW n \in 0 .. N, n < N, n \in Good PROVE n + 1 \in Good
  <2>1. n + 1 \in 1 .. N /\ n + 1 \in 0 .. N /\ n + 1 # 0 /\ (n + 1) - 1 = n
    BY <1>3
  <2>2. s[n + 1] = Keep(s[n], files[n + 1])
    BY <2>1, SeenInDef
  <2> HIDE DEF s
  <2>3. SeenWell(files, n + 1, Keep(s[n], files[n + 1]))
    BY <1>3, <2>1, KeepsBest
  <2> QED BY <2>1, <2>2, <2>3
<1>4. N \in Good
  <2>1. \A n \in 0 .. N : n < N /\ n \in Good => n + 1 \in Good
    BY <1>3
  <2>2. 0 .. N \subseteq Good
    <3> HIDE DEF Good, N
    <3> QED BY <1>1, <1>2, <2>1, UpTo
  <2> HIDE DEF Good, N
  <2> QED BY <1>1, <2>2
<1> QED BY <1>4 DEF Seen

(* A list in the order of the walk. *)
Walked(files) == \A x, y \in DOMAIN files : x < y => files[x].path < files[y].path

LEMMA WalkedPaths ==
  ASSUME NEW files \in Seq(File), Walked(files), NEW x \in DOMAIN files, NEW y \in DOMAIN files
  PROVE  /\ files[x].path = files[y].path => x = y
         /\ files[x].path < files[y].path => x < y
<1>1. files[x] \in File /\ files[y] \in File /\ x \in Int /\ y \in Int
  OBVIOUS
<1>2. files[x].path \in Nat /\ files[y].path \in Nat
  BY <1>1 DEF File
<1>3. x < y => files[x].path < files[y].path
  BY DEF Walked
<1>4. y < x => files[y].path < files[x].path
  BY DEF Walked
<1> QED BY <1>1, <1>2, <1>3, <1>4

LEMMA WalkedAt ==
  ASSUME NEW files \in Seq(File), Walked(files), NEW S \in SUBSET (DOMAIN files)
  PROVE  Walked(FilesAt(files, S))
<1>1. ASSUME NEW x \in DOMAIN FilesAt(files, S), NEW y \in DOMAIN FilesAt(files, S), x < y
      PROVE  FilesAt(files, S)[x].path < FilesAt(files, S)[y].path
  <2>1. PICK k \in S, l \in S :
          k < l /\ FilesAt(files, S)[x] = files[k] /\ FilesAt(files, S)[y] = files[l]
    BY <1>1, FilesAtFacts
  <2> QED BY <2>1 DEF Walked
<1> QED BY <1>1 DEF Walked

(* dedupFiles keeps, of each content, the first of the shortest.             *)
LEMMA DedupOf ==
  ASSUME NEW files \in Seq(File), Walked(files)
  PROVE  /\ DedupFiles(files) \in Seq(File) /\ Walked(DedupFiles(files))
         /\ Lists(DedupFiles(files), files, {k \in DOMAIN files : Best(files, k, Len(files))})
<1> DEFINE N == Len(files)
           s == Seen(files)
           kept == {s[c].path : c \in DOMAIN s}
           S == {i \in DOMAIN files : files[i].path \in kept}
           R == {i \in DOMAIN files : Best(files, i, N)}
<1>1. N \in Nat /\ DOMAIN files = 1 .. N
  OBVIOUS
<1>2. /\ DOMAIN s = {files[i].content : i \in 1 .. N}
      /\ \A c \in DOMAIN s : \E k \in 1 .. N : s[c] = files[k] /\ files[k].content = c /\ Best(files, k, N)
  BY SeesBest DEF SeenWell
<1> HIDE DEF s
<1>3. ASSUME NEW i \in 1 .. N, files[i].path \in kept
      PROVE  Best(files, i, N)
  <2>1. PICK c \in DOMAIN s : files[i].path = s[c].path
    BY <1>3
  <2>2. PICK k \in 1 .. N : s[c] = files[k] /\ Best(files, k, N)
    BY <1>2
  <2>3. k = i
    BY <1>1, <2>1, <2>2, WalkedPaths
  <2> QED BY <2>2, <2>3
<1>4. ASSUME NEW i \in 1 .. N, Best(files, i, N)
      PROVE  files[i].path \in kept
  <2>1. files[i].content \in DOMAIN s
    BY <1>2
  <2>2. PICK k \in 1 .. N : s[files[i].content] = files[k] /\ files[k].content = files[i].content /\ Best(files, k, N)
    BY <1>2, <2>1
  <2>3. files[i] \in File /\ files[k] \in File
    BY <1>1
  <2>4. files[i].len \in Nat /\ files[k].len \in Nat
    BY <2>3 DEF File
  <2>5. files[k].len < files[i].len \/ (files[k].len = files[i].len /\ k <= i)
    BY <2>2 DEF Best
  <2>6. files[i].len < files[k].len \/ (files[i].len = files[k].len /\ i <= k)
    BY <1>4, <2>2 DEF Best
  <2>7. k = i
    BY <2>4, <2>5, <2>6
  <2> QED BY <2>1, <2>2, <2>7
<1>5. S = R
  BY <1>1, <1>3, <1>4
<1>6. DedupFiles(files) = FilesAt(files, S)
  BY DEF DedupFiles, s
<1>7. R \in SUBSET (DOMAIN files)
  OBVIOUS
<1> HIDE DEF S, R
<1>8. DedupFiles(files) = FilesAt(files, R)
  BY <1>5, <1>6
<1>9. DedupFiles(files) \in Seq(File) /\ Walked(DedupFiles(files))
  BY <1>7, <1>8, FilesAtFacts, WalkedAt
<1>10. Lists(DedupFiles(files), files, R)
  BY <1>7, <1>8, FilesAtFacts
<1> QED BY <1>9, <1>10 DEF R

(* The repository's files are numbered in the order of the walk.             *)
TreeInv == tree \in Seq(File) /\ \A i \in DOMAIN tree : tree[i].path = i

LEMMA OfKindFacts ==
  ASSUME TreeInv, NEW k \in FileKind
  PROVE  /\ OfKind(tree, k) \in Seq(File) /\ Walked(OfKind(tree, k))
         /\ Lists(OfKind(tree, k), tree, {i \in DOMAIN tree : tree[i].kind = k})
<1> DEFINE S == {i \in DOMAIN tree : tree[i].kind = k}
<1>1. S \in SUBSET (DOMAIN tree) /\ tree \in Seq(File) /\ Walked(tree)
  BY DEF TreeInv, Walked
<1>2. OfKind(tree, k) = FilesAt(tree, S)
  BY DEF OfKind
<1> HIDE DEF S
<1>3. OfKind(tree, k) \in Seq(File) /\ Walked(OfKind(tree, k))
  BY <1>1, <1>2, FilesAtFacts, WalkedAt
<1>4. Lists(OfKind(tree, k), tree, S)
  BY <1>1, <1>2, FilesAtFacts
<1> QED BY <1>3, <1>4 DEF S

(* The best of the Fortran files are those Shortest describes.               *)
LEMMA BestIsShortest ==
  ASSUME TreeInv, NEW k \in DOMAIN OfKind(tree, "f90")
  PROVE  Best(OfKind(tree, "f90"), k, Len(OfKind(tree, "f90"))) <=> Shortest(OfKind(tree, "f90")[k])
<1>1. PICK fs : fs = OfKind(tree, "f90")
  OBVIOUS
<1>2. /\ fs \in Seq(File) /\ Walked(fs)
      /\ Lists(fs, tree, {i \in DOMAIN tree : tree[i].kind = "f90"})
  BY <1>1, OfKindFacts DEF FileKind
<1>3. PICK N \in Nat : N = Len(fs) /\ DOMAIN fs = 1 .. N /\ k \in 1 .. N
  BY <1>1, <1>2
<1>4. \A l \in 1 .. N : fs[l] \in File /\ fs[l].len \in Nat /\ fs[l].path \in Nat
  <2>1. \A l \in 1 .. N : fs[l] \in File
    BY <1>2, <1>3
  <2> QED BY <2>1 DEF File
<1>5. ASSUME Best(fs, k, N), NEW i \in DOMAIN tree, tree[i].kind = "f90",
             tree[i].content = fs[k].content, tree[i].path # fs[k].path
      PROVE  fs[k].len < tree[i].len \/ (fs[k].len = tree[i].len /\ fs[k].path < tree[i].path)
  <2>1. PICK l \in 1 .. N : tree[i] = fs[l]
    BY <1>2, <1>3, <1>5 DEF Lists
  <2>2. fs[k].len < fs[l].len \/ (fs[k].len = fs[l].len /\ k <= l)
    BY <1>5, <2>1 DEF Best
  <2>3. k # l /\ k \in Int /\ l \in Int
    BY <1>3, <1>5, <2>1
  <2>4. k <= l => fs[k].path < fs[l].path
    BY <1>2, <1>3, <2>3 DEF Walked
  <2> QED BY <2>1, <2>2, <2>4
<1>6. ASSUME Shortest(fs[k]), NEW l \in 1 .. N, fs[l].content = fs[k].content
      PROVE  fs[k].len < fs[l].len \/ (fs[k].len = fs[l].len /\ k <= l)
  <2>1. CASE l = k
    BY <1>3, <1>4, <2>1
  <2>2. CASE l # k
    <3>1. PICK i \in DOMAIN tree : tree[i].kind = "f90" /\ fs[l] = tree[i]
      BY <1>2, <1>3 DEF Lists
    <3>2. fs[l].path # fs[k].path
      BY <1>2, <1>3, <2>2, WalkedPaths
    <3>3. fs[k].len < fs[l].len \/ (fs[k].len = fs[l].len /\ fs[k].path < fs[l].path)
      BY <1>6, <3>1, <3>2 DEF Shortest
    <3>4. fs[k].path < fs[l].path => k < l
      BY <1>2, <1>3, WalkedPaths
    <3>5. k < l => k <= l
      BY <1>3
    <3> QED BY <3>3, <3>4, <3>5
  <2> QED BY <2>1, <2>2
<1>7. Best(fs, k, N) => Shortest(fs[k])
  BY <1>5 DEF Shortest
<1>8. Shortest(fs[k]) => Best(fs, k, N)
  BY <1>3, <1>6 DEF Best
<1> QED BY <1>1, <1>3, <1>7, <1>8

LEMMA ReadOnceOf ==
  ASSUME TreeInv
  PROVE  EachIsReadOnce
<1>1. PICK fs : fs = OfKind(tree, "f90")
  OBVIOUS
<1>2. PICK ds : ds = DedupFiles(fs)
  OBVIOUS
<1>3. PICK ms : ms = OfKind(tree, "md")
  OBVIOUS
<1>4. /\ fs \in Seq(File) /\ Walked(fs)
      /\ Lists(fs, tree, {i \in DOMAIN tree : tree[i].kind = "f90"})
  BY <1>1, OfKindFacts DEF FileKind
<1>5. /\ ms \in Seq(File) /\ Walked(ms)
      /\ Lists(ms, tree, {i \in DOMAIN tree : tree[i].kind = "md"})
  BY <1>3, OfKindFacts DEF FileKind
<1>6. /\ ds \in Seq(File) /\ Walked(ds)
      /\ Lists(ds, fs, {k \in DOMAIN fs : Best(fs, k, Len(fs))})
  BY <1>2, <1>4, DedupOf
<1>7. Lists(ds, tree, {i \in DOMAIN tree : tree[i].kind = "f90" /\ Shortest(tree[i])})
  <2>1. \A k \in DOMAIN fs : Best(fs, k, Len(fs)) <=> Shortest(fs[k])
    BY <1>1, BestIsShortest
  <2>2. Lists(ds, fs, {k \in DOMAIN fs : Shortest(fs[k])})
    BY <1>6, <2>1 DEF Lists
  <2> QED BY <1>4, <2>2 DEF Lists
<1>8. Jobs(tree) = ds \o ms
  BY <1>1, <1>2, <1>3 DEF Jobs
<1>9. PICK jobs : jobs = ds \o ms
  OBVIOUS
<1>10. PICK a \in Nat, b \in Nat : /\ a = Len(ds) /\ b = Len(ms) /\ DOMAIN ds = 1 .. a /\ DOMAIN ms = 1 .. b
  BY <1>5, <1>6
<1>11. /\ DOMAIN jobs = 1 .. a + b
       /\ \A x \in 1 .. a : jobs[x] = ds[x]
       /\ \A x \in 1 .. b : a + x \in 1 .. a + b /\ jobs[a + x] = ms[x]
       /\ \A x \in 1 .. a + b : x \in 1 .. a \/ (x - a \in 1 .. b /\ jobs[x] = ms[x - a])
  BY <1>5, <1>6, <1>9, <1>10
<1>13. {jobs[x] : x \in DOMAIN jobs} =
         {tree[i] : i \in {i \in DOMAIN tree :
            tree[i].kind = "md" \/ (tree[i].kind = "f90" /\ Shortest(tree[i]))}}
  <2> DEFINE wanted == {i \in DOMAIN tree :
                          tree[i].kind = "md" \/ (tree[i].kind = "f90" /\ Shortest(tree[i]))}
  <2>1. ASSUME NEW x \in DOMAIN jobs PROVE \E i \in wanted : jobs[x] = tree[i]
    <3>1. CASE x \in 1 .. a
      <4>1. \E i \in DOMAIN tree : tree[i].kind = "f90" /\ Shortest(tree[i]) /\ ds[x] = tree[i]
        BY <1>7, <1>10, <3>1 DEF Lists
      <4> QED BY <1>11, <3>1, <4>1
    <3>2. CASE x - a \in 1 .. b /\ jobs[x] = ms[x - a]
      <4>1. \E i \in DOMAIN tree : tree[i].kind = "md" /\ ms[x - a] = tree[i]
        BY <1>5, <1>10, <3>2 DEF Lists
      <4> QED BY <3>2, <4>1
    <3> QED BY <1>11, <3>1, <3>2
  <2>2. ASSUME NEW i \in wanted PROVE \E x \in DOMAIN jobs : jobs[x] = tree[i]
    <3>1. CASE tree[i].kind = "f90" /\ Shortest(tree[i])
      <4>1. PICK x \in 1 .. a : ds[x] = tree[i]
        BY <1>7, <1>10, <3>1 DEF Lists
      <4>2. x \in 1 .. a + b
        BY <1>10
      <4> QED BY <1>11, <4>1, <4>2
    <3>2. CASE tree[i].kind = "md"
      <4>1. PICK x \in 1 .. b : ms[x] = tree[i]
        BY <1>5, <1>10, <3>2 DEF Lists
      <4> QED BY <1>11, <4>1
    <3> QED BY <3>1, <3>2
  <2> HIDE DEF wanted
  <2>3. {jobs[x] : x \in DOMAIN jobs} = {tree[i] : i \in wanted}
    BY <2>1, <2>2
  <2> QED BY <2>3 DEF wanted
<1>14. ASSUME NEW x \in 1 .. a + b, NEW y \in 1 .. a + b, x < y
       PROVE  Before(jobs[x], jobs[y])
  <2>1. \A z \in 1 .. a : ds[z].kind = "f90"
    BY <1>7, <1>10 DEF Lists
  <2>2. \A z \in 1 .. b : ms[z].kind = "md"
    BY <1>5, <1>10 DEF Lists
  <2>3. CASE y \in 1 .. a
    <3>1. x \in 1 .. a
      BY <1>14, <2>3
    <3>2. ds[x].path < ds[y].path
      BY <1>6, <1>10, <1>14, <2>3, <3>1 DEF Walked
    <3> QED BY <1>11, <2>1, <2>3, <3>1, <3>2 DEF Before
  <2>4. CASE y \notin 1 .. a /\ x \in 1 .. a
    BY <1>11, <2>1, <2>2, <2>4 DEF Before
  <2>5. CASE y \notin 1 .. a /\ x \notin 1 .. a
    <3>1. x - a \in 1 .. b /\ y - a \in 1 .. b /\ x - a < y - a
      BY <1>11, <1>14, <2>5
    <3>2. ms[x - a].path < ms[y - a].path
      BY <1>5, <1>10, <3>1 DEF Walked
    <3>3. jobs[x] = ms[x - a] /\ jobs[y] = ms[y - a]
      BY <1>11, <2>5
    <3>4. ms[x - a].kind = "md" /\ ms[y - a].kind = "md"
      BY <2>2, <3>1
    <3> QED BY <3>2, <3>3, <3>4 DEF Before
  <2> QED BY <2>3, <2>4, <2>5
<1>15. \A x, y \in DOMAIN jobs : x < y => Before(jobs[x], jobs[y])
  BY <1>11, <1>14
<1>16. Jobs(tree) = jobs
  BY <1>8, <1>9
<1> HIDE DEF Before
<1> QED BY <1>13, <1>15, <1>16 DEF EachIsReadOnce

LEMMA TreeInvariance == FilesSpec => []TreeInv
<1>1. FilesInit => TreeInv
  BY DEF FilesInit, TreeInv
<1>2. TreeInv /\ [FilesNext]_filesVars => TreeInv'
  <2> SUFFICES ASSUME TreeInv, [FilesNext]_filesVars PROVE TreeInv'
    OBVIOUS
  <2>1. CASE AddFile
    <3>1. PICK k \in FileKind, c \in Content, l \in 1 .. 2 :
            tree' = Append(tree, [path |-> Len(tree) + 1, kind |-> k, content |-> c, len |-> l])
      BY <2>1 DEF AddFile
    <3>2. PICK n \in Nat : n = Len(tree) /\ DOMAIN tree = 1 .. n /\ tree \in Seq(File)
      BY DEF TreeInv
    <3>3. PICK f \in File : f.path = n + 1 /\ tree' = Append(tree, f)
      <4>1. [path |-> n + 1, kind |-> k, content |-> c, len |-> l] \in File
        BY DEF File
      <4> QED BY <3>1, <3>2, <4>1
    <3>4. /\ tree' \in Seq(File) /\ DOMAIN tree' = 1 .. n + 1 /\ tree'[n + 1] = f
          /\ \A i \in 1 .. n : tree'[i] = tree[i]
      BY <3>2, <3>3
    <3>5. \A i \in 1 .. n + 1 : i = n + 1 \/ i \in 1 .. n
      OBVIOUS
    <3>6. \A i \in 1 .. n : tree[i].path = i
      BY <3>2 DEF TreeInv
    <3> QED BY <3>3, <3>4, <3>5, <3>6 DEF TreeInv
  <2>2. CASE tree' = tree
    BY <2>2 DEF TreeInv
  <2> QED BY <2>1, <2>2 DEF FilesNext, Fortran, AddLine, AllRead, filesVars
<1> QED BY <1>1, <1>2, PTL DEF FilesSpec

(* Every content of a Fortran file is read once, under the first of its        *)
(* shortest paths, and every document is, Fortran first.                     *)
THEOREM ReadsEachOnce == FilesSpec => []EachIsReadOnce
<1>1. TreeInv => EachIsReadOnce
  BY ReadOnceOf
<1> QED BY <1>1, TreeInvariance, PTL

-----------------------------------------------------------------------------
(* Sections of a document. *)

LEMMA HeadingFacts ==
  ASSUME NEW lines, NEW k, NEW s \in Nat, NEW e \in Nat
  PROVE  /\ Headings(lines, k, s, e) \subseteq 0 .. e
         /\ \A i : i \in Headings(lines, k, s, e) <=> i \in Nat /\ s <= i /\ i <= e /\ lines[i] = k
BY DEF Headings

(* Is a .. b a section. *)
IsSection(lines, k, s, e, a, b) ==
  /\ s <= a /\ a <= b /\ b <= e /\ lines[a] = k
  /\ \A i \in Nat : a + 1 <= i /\ i <= b => lines[i] # k
  /\ b = e \/ lines[b + 1] = k

LEMMA SectionFacts ==
  ASSUME NEW lines, NEW k, NEW s \in Nat, NEW e \in Nat
  PROVE  /\ \A c \in SplitAtHeadings(lines, k, s, e) :
              \E a, b \in Nat : c = <<a, b>> /\ IsSection(lines, k, s, e, a, b)
         /\ \A a, b \in Nat :
              IsSection(lines, k, s, e, a, b) => <<a, b>> \in SplitAtHeadings(lines, k, s, e)
<1>1. ASSUME NEW c \in SplitAtHeadings(lines, k, s, e)
      PROVE  \E a, b \in Nat : c = <<a, b>> /\ IsSection(lines, k, s, e, a, b)
  <2>1. PICK a \in Nat, b \in Nat : a = c[1] /\ b = c[2] /\ c = <<a, b>> /\ s <= a /\ b <= e /\ lines[a] = k
    BY <1>1 DEF SplitAtHeadings, Headings
  <2>2. a <= b /\ Headings(lines, k, a + 1, b) = {} /\ (b = e \/ lines[b + 1] = k)
    BY <1>1, <2>1 DEF SplitAtHeadings
  <2>3. \A i \in Nat : a + 1 <= i /\ i <= b => lines[i] # k
    BY <2>1, <2>2 DEF Headings
  <2>4. IsSection(lines, k, s, e, a, b)
    BY <2>1, <2>2, <2>3 DEF IsSection
  <2> QED BY <2>1, <2>4
<1>2. ASSUME NEW a \in Nat, NEW b \in Nat, IsSection(lines, k, s, e, a, b)
      PROVE  <<a, b>> \in SplitAtHeadings(lines, k, s, e)
  <2>1. a \in Headings(lines, k, s, e) /\ b \in s .. e
    BY <1>2 DEF Headings, IsSection
  <2>2. Headings(lines, k, a + 1, b) = {}
    BY <1>2 DEF Headings, IsSection
  <2>3. <<a, b>> \in Headings(lines, k, s, e) \X (s .. e)
    BY <2>1
  <2>4. a <= b /\ (b = e \/ lines[b + 1] = k)
    BY <1>2 DEF IsSection
  <2> QED BY <2>2, <2>3, <2>4 DEF SplitAtHeadings
<1> QED BY <1>1, <1>2

(* The sections at line n. *)
At(secs, n) == {c \in secs : n \in c[1] .. c[2]}

(* Above the first heading there is none. *)
LEMMA NoSection ==
  ASSUME NEW lines, NEW k, NEW s \in Nat, NEW e \in Nat, NEW n \in Nat,
         Headings(lines, k, s, n) = {}
  PROVE  At(SplitAtHeadings(lines, k, s, e), n) = {}
<1> SUFFICES ASSUME NEW c \in SplitAtHeadings(lines, k, s, e), n \in c[1] .. c[2] PROVE FALSE
  BY DEF At
<1>0. PICK a \in Nat, b \in Nat : c = <<a, b>> /\ IsSection(lines, k, s, e, a, b)
  BY SectionFacts
<1>1. c = <<a, b>> /\ s <= a /\ lines[a] = k
  BY <1>0 DEF IsSection
<1>2. a <= n
  BY <1>1
<1>3. a \in Headings(lines, k, s, n)
  BY <1>1, <1>2 DEF Headings
<1> QED BY <1>3

(* From there on there is one, and it begins at the nearest heading.         *)
Nearest(lines, k, s, n, h) ==
  h \in Headings(lines, k, s, n) /\ \A g \in Headings(lines, k, s, n) : g <= h

OnlyOne(lines, k, s, e, n, h, b) ==
  /\ n <= b /\ b <= e /\ At(SplitAtHeadings(lines, k, s, e), n) = {<<h, b>>}
  /\ \A i \in Nat : h + 1 <= i /\ i <= b => lines[i] # k
  /\ b = e \/ lines[b + 1] = k

LEMMA OneSection ==
  ASSUME NEW lines, NEW k, NEW s \in Nat, NEW e \in Nat, NEW n \in s .. e, NEW h,
         Nearest(lines, k, s, n, h)
  PROVE  \E b \in Nat : OnlyOne(lines, k, s, e, n, h, b)
<1>0. h \in Headings(lines, k, s, n) /\ \A g \in Headings(lines, k, s, n) : g <= h
  BY DEF Nearest
<1> DEFINE next == Headings(lines, k, n + 1, e)
           secs == SplitAtHeadings(lines, k, s, e)
<1>1. n \in Nat /\ h \in Nat /\ s <= h /\ h <= n /\ n <= e /\ lines[h] = k
  BY <1>0 DEF Headings
<1>2. \A i \in Nat : h + 1 <= i /\ i <= n => lines[i] # k
  <2> SUFFICES ASSUME NEW i \in Nat, h + 1 <= i, i <= n, lines[i] = k PROVE FALSE
    OBVIOUS
  <2>1. i \in Headings(lines, k, s, n)
    BY <1>1 DEF Headings
  <2> QED BY <1>0, <1>1, <2>1
<1>3. \E b \in Nat : /\ n <= b /\ b <= e /\ (b = e \/ lines[b + 1] = k)
                     /\ \A i \in Nat : n + 1 <= i /\ i <= b => lines[i] # k
  <2>1. CASE next = {}
    BY <1>1, <2>1 DEF Headings
  <2>2. CASE next # {}
    <3>1. next \subseteq Nat
      BY <1>1 DEF Headings
    <3>2. PICK m \in next : \A g \in next : m <= g
      <4> HIDE DEF next
      <4> QED BY <2>2, <3>1, LeastNumber
    <3>3. m \in Nat /\ n + 1 <= m /\ m <= e /\ lines[m] = k
      BY <1>1, <3>2 DEF Headings
    <3>4. m - 1 \in Nat /\ n <= m - 1 /\ m - 1 <= e /\ (m - 1) + 1 = m
      BY <1>1, <3>3
    <3>5. ASSUME NEW i \in Nat, n + 1 <= i, i <= m - 1, lines[i] = k PROVE FALSE
      <4>1. i \in next
        BY <1>1, <3>3, <3>5 DEF Headings
      <4> QED BY <3>2, <3>3, <3>5, <4>1
    <3> QED BY <3>3, <3>4, <3>5
  <2> QED BY <2>1, <2>2
<1>4. PICK b \in Nat : /\ n <= b /\ b <= e /\ (b = e \/ lines[b + 1] = k)
                       /\ \A i \in Nat : n + 1 <= i /\ i <= b => lines[i] # k
  BY <1>3
<1>5. \A i \in Nat : h + 1 <= i /\ i <= b => lines[i] # k
  BY <1>1, <1>2, <1>4
<1>6. <<h, b>> \in secs
  <2>1. h <= b
    BY <1>1, <1>4
  <2>2. IsSection(lines, k, s, e, h, b)
    BY <1>1, <1>4, <1>5, <2>1 DEF IsSection
  <2> QED BY <1>1, <1>4, <2>2, SectionFacts
<1> HIDE DEF secs
<1>7. <<h, b>> \in At(secs, n)
  BY <1>1, <1>4, <1>6 DEF At
<1>8. ASSUME NEW c \in At(secs, n) PROVE c = <<h, b>>
  <2>1. c \in secs /\ n \in c[1] .. c[2]
    BY DEF At
  <2>0. PICK x \in Nat, y \in Nat : c = <<x, y>> /\ IsSection(lines, k, s, e, x, y)
    BY <2>1, SectionFacts DEF secs
  <2>2. /\ c = <<x, y>> /\ s <= x /\ x <= y /\ y <= e /\ lines[x] = k
        /\ \A i \in Nat : x + 1 <= i /\ i <= y => lines[i] # k
        /\ y = e \/ lines[y + 1] = k
    BY <2>0 DEF IsSection
  <2>3. x <= n /\ n <= y
    BY <2>1, <2>2
  <2>4. x \in Headings(lines, k, s, n)
    BY <1>1, <2>2, <2>3 DEF Headings
  <2>5. ~(x < h)
    <3>1. x < h => x + 1 <= h /\ h <= y
      BY <1>1, <2>3
    <3> QED BY <1>1, <2>2, <3>1
  <2>6. x = h
    BY <1>0, <1>1, <2>4, <2>5
  <2>7. ~(y < b)
    <3>1. y < b => y # e /\ h + 1 <= y + 1 /\ y + 1 <= b /\ y + 1 \in Nat
      BY <1>1, <1>4, <2>3
    <3> QED BY <1>5, <2>2, <3>1
  <2>8. ~(b < y)
    <3>1. b < y => b # e /\ x + 1 <= b + 1 /\ b + 1 <= y /\ b + 1 \in Nat
      BY <1>1, <1>4, <2>2, <2>6
    <3> QED BY <1>4, <2>2, <3>1
  <2> QED BY <2>2, <2>6, <2>7, <2>8
<1>9. At(secs, n) = {<<h, b>>}
  BY <1>7, <1>8
<1>10. OnlyOne(lines, k, s, e, n, h, b)
  BY <1>4, <1>5, <1>9 DEF OnlyOne, secs
<1> QED BY <1>10

MdInv == md \in Seq(MdLine)

(* The frontmatter ends within the document. *)
LEMMA FmFacts ==
  ASSUME MdInv
  PROVE  FmEnd(md) \in Nat
<1> DEFINE fences == {i \in 2 .. Len(md) : md[i] = "fence"}
<1>1. CASE fences = {}
  BY <1>1 DEF FmEnd
<1>2. CASE fences # {}
  <2>1. fences \subseteq Nat
    OBVIOUS
  <2>2. \E i \in fences : \A j \in fences : i <= j
    <3> HIDE DEF fences
    <3> QED BY <1>2, <2>1, LeastNumber
  <2>3. (CHOOSE i \in fences : \A j \in fences : i <= j) \in fences
    <3> HIDE DEF fences
    <3> QED BY <2>2
  <2>4. PICK m : m = CHOOSE i \in fences : \A j \in fences : i <= j
    OBVIOUS
  <2>5. FmEnd(md) = 0 \/ FmEnd(md) = m
    BY <2>4 DEF FmEnd
  <2>6. m \in Nat
    <3> HIDE DEF fences
    <3> QED BY <2>1, <2>3, <2>4
  <2> QED BY <2>5, <2>6
<1> QED BY <1>1, <1>2

(* Under is the nearest heading. *)
LEMMA UnderFacts ==
  ASSUME MdInv, NEW k, NEW n \in Nat
  PROVE  /\ Headings(md, k, FmEnd(md) + 1, n) = {} => Under(k, n) = 0
         /\ Headings(md, k, FmEnd(md) + 1, n) # {} =>
              /\ Under(k, n) \in Headings(md, k, FmEnd(md) + 1, n)
              /\ \A g \in Headings(md, k, FmEnd(md) + 1, n) : g <= Under(k, n)
<1> DEFINE hs == Headings(md, k, FmEnd(md) + 1, n)
<1>1. CASE hs = {}
  BY <1>1 DEF Under
<1>2. CASE hs # {}
  <2>1. hs \subseteq 0 .. n
    BY FmFacts, HeadingFacts
  <2>2. \E h \in hs : \A g \in hs : g <= h
    <3> HIDE DEF hs
    <3> QED BY <1>2, <2>1, GreatestNumber
  <2>3. Under(k, n) = CHOOSE h \in hs : \A g \in hs : g <= h
    BY <1>2 DEF Under
  <2> HIDE DEF hs
  <2>4. Under(k, n) \in hs /\ \A g \in hs : g <= Under(k, n)
    BY <2>2, <2>3
  <2> QED BY <1>2, <2>4 DEF hs
<1> QED BY <1>1, <1>2

(* A chunk is a section, or a section of one that is split.                  *)
Pieces(sec) ==
  IF SplitDeeper(md, sec) THEN SplitAtHeadings(md, "h3", sec[1], sec[2]) ELSE {sec}

LEMMA PiecesWithin ==
  ASSUME NEW a \in Nat, NEW b \in Nat, NEW n \in Nat, NEW c \in Pieces(<<a, b>>), n \in c[1] .. c[2]
  PROVE  n \in a .. b
<1>1. CASE SplitDeeper(md, <<a, b>>)
  <2>1. c \in SplitAtHeadings(md, "h3", a, b)
    BY <1>1 DEF Pieces
  <2>2. PICK x \in Nat, y \in Nat : c = <<x, y>> /\ IsSection(md, "h3", a, b, x, y)
    BY <2>1, SectionFacts
  <2>3. a <= x /\ y <= b
    BY <2>2 DEF IsSection
  <2> QED BY <2>2, <2>3
<1>2. CASE ~SplitDeeper(md, <<a, b>>)
  BY <1>2 DEF Pieces
<1> QED BY <1>1, <1>2

LEMMA MdChunksFacts ==
  ASSUME MdInv, Sections(md) # {}, NEW n \in Nat
  PROVE  /\ At(Sections(md), n) = {} => Covering(n) = {}
         /\ \A sec : At(Sections(md), n) = {sec} => Covering(n) = At(Pieces(sec), n)
<1>1. MdChunks(md) = UNION {Pieces(sec) : sec \in Sections(md)}
  BY DEF MdChunks, Pieces
<1>2. FmEnd(md) + 1 \in Nat /\ Len(md) \in Nat
  BY FmFacts DEF MdInv
<1>3. ASSUME NEW sec \in Sections(md), NEW c \in Pieces(sec), n \in c[1] .. c[2]
      PROVE  sec \in At(Sections(md), n)
  <2>1. PICK a \in Nat, b \in Nat : sec = <<a, b>> /\ IsSection(md, "h2", FmEnd(md) + 1, Len(md), a, b)
    BY <1>2, SectionFacts DEF Sections
  <2>2. n \in a .. b
    BY <1>3, <2>1, PiecesWithin
  <2> QED BY <2>1, <2>2 DEF At
<1>4. ASSUME NEW c \in Covering(n)
      PROVE  \E sec \in At(Sections(md), n) : c \in At(Pieces(sec), n)
  <2>1. c \in MdChunks(md) /\ n \in c[1] .. c[2]
    BY DEF Covering
  <2>2. PICK sec \in Sections(md) : c \in Pieces(sec)
    BY <1>1, <2>1
  <2>3. c \in At(Pieces(sec), n)
    BY <2>1, <2>2 DEF At
  <2> QED BY <1>3, <2>1, <2>2, <2>3
<1>5. ASSUME NEW sec \in Sections(md), NEW c \in At(Pieces(sec), n)
      PROVE  c \in Covering(n)
  BY <1>1 DEF At, Covering
<1>6. At(Sections(md), n) \subseteq Sections(md)
  BY DEF At
<1>7. At(Sections(md), n) = {} => Covering(n) = {}
  BY <1>4
<1>8. ASSUME NEW sec, At(Sections(md), n) = {sec}
      PROVE  Covering(n) = At(Pieces(sec), n)
  <2>1. sec \in Sections(md)
    BY <1>6, <1>8
  <2>2. Covering(n) \subseteq At(Pieces(sec), n)
    BY <1>4, <1>8
  <2>3. At(Pieces(sec), n) \subseteq Covering(n)
    BY <1>5, <2>1
  <2> QED BY <2>2, <2>3
<1> QED BY <1>7, <1>8

LEMMA SingleFacts ==
  /\ Cardinality({}) = 0
  /\ \A c : Cardinality({c}) = 1
BY FS_EmptySet, FS_Singleton

(* The lines of a section, and whether one of them is introductory.           *)
LEMMA IntroFacts ==
  ASSUME MdInv, NEW n \in 1 .. Len(md), NEW h \in Nat, NEW b \in Nat,
         Nearest(md, "h2", FmEnd(md) + 1, n, h),
         OnlyOne(md, "h2", FmEnd(md) + 1, Len(md), n, h, b)
  PROVE  IsIntro(n) <=> SplitDeeper(md, <<h, b>>) /\ Headings(md, "h3", h, n) = {}
<1> DEFINE F == FmEnd(md)
           N == Len(md)
           here == {m \in F + 1 .. N : SameSection(m, n)}
           subs == {m \in here : md[m] = "h3"}
<1>1. F \in Nat /\ N \in Nat /\ n \in Nat
  BY FmFacts DEF MdInv
<1>2. F + 1 <= h /\ h <= n /\ md[h] = "h2"
  BY <1>1 DEF Headings, Nearest
<1>13. /\ h \in Headings(md, "h2", F + 1, n) /\ \A g \in Headings(md, "h2", F + 1, n) : g <= h
       /\ n <= b /\ b <= N /\ \A i \in Nat : h + 1 <= i /\ i <= b => md[i] # "h2"
       /\ b = N \/ md[b + 1] = "h2"
  BY DEF Nearest, OnlyOne
<1>3. Under("h2", n) \in Headings(md, "h2", F + 1, n) /\ \A g \in Headings(md, "h2", F + 1, n) : g <= Under("h2", n)
  BY <1>1, <1>13, UnderFacts
<1> HIDE DEF F, N
<1>4. Under("h2", n) = h
  <2>1. h <= Under("h2", n) /\ Under("h2", n) <= h
    BY <1>3, <1>13
  <2>2. Under("h2", n) \in Nat
    BY <1>1, <1>3 DEF Headings
  <2> QED BY <2>1, <2>2
<1>5. ASSUME NEW m \in F + 1 .. N
      PROVE  SameSection(m, n) <=> m \in h .. b
  <2>0. m \in Nat
    BY <1>1
  <2>1. CASE m < h
    <3>1. Under("h2", m) # h
      <4>1. CASE Headings(md, "h2", F + 1, m) = {}
        BY <1>1, <1>2, <2>0, <4>1, UnderFacts DEF F
      <4>2. CASE Headings(md, "h2", F + 1, m) # {}
        <5>1. Under("h2", m) \in Headings(md, "h2", F + 1, m)
          BY <2>0, <4>2, UnderFacts DEF F
        <5>2. Under("h2", m) <= m /\ Under("h2", m) \in Nat
          BY <1>1, <2>0, <5>1 DEF Headings
        <5> QED BY <2>0, <2>1, <5>2
      <4> QED BY <4>1, <4>2
    <3> QED BY <1>4, <2>0, <2>1, <3>1 DEF SameSection
  <2>2. CASE h <= m
    <3>1. h \in Headings(md, "h2", F + 1, m)
      BY <1>1, <1>2, <2>0, <2>2 DEF Headings
    <3>2. /\ Under("h2", m) \in Headings(md, "h2", F + 1, m)
          /\ \A g \in Headings(md, "h2", F + 1, m) : g <= Under("h2", m)
      BY <2>0, <3>1, UnderFacts DEF F
    <3>3. h <= Under("h2", m) /\ Under("h2", m) <= m /\ Under("h2", m) \in Nat /\ md[Under("h2", m)] = "h2"
      BY <1>1, <2>0, <3>1, <3>2 DEF Headings
    <3>4. CASE m <= b
      <4>1. ~(h + 1 <= Under("h2", m) /\ Under("h2", m) <= b)
        BY <1>13, <3>3
      <4>2. Under("h2", m) = h
        BY <2>0, <3>3, <3>4, <4>1
      <4> QED BY <1>4, <2>0, <2>2, <3>4, <4>2 DEF SameSection
    <3>5. CASE ~(m <= b)
      <4>1. b + 1 <= m /\ b # N
        BY <1>1, <2>0, <3>5
      <4>2. md[b + 1] = "h2"
        BY <1>13, <4>1
      <4>3. b + 1 \in Headings(md, "h2", F + 1, m)
        BY <1>1, <1>2, <1>13, <2>0, <4>1, <4>2 DEF Headings
      <4>4. Under("h2", m) # h
        BY <1>1, <1>2, <1>13, <3>2, <3>3, <4>3
      <4> QED BY <1>4, <3>5, <4>4 DEF SameSection
    <3> QED BY <3>4, <3>5
  <2> QED BY <2>0, <2>1, <2>2
<1>6. \A m \in h .. b : m \in F + 1 .. N
  BY <1>1, <1>2, <1>13
<1>7. here = h .. b
  BY <1>5, <1>6
<1>8. Cardinality(here) = b - h + 1
  <2>1. h <= b /\ h \in Int /\ b \in Int
    BY <1>1, <1>2, <1>13
  <2>2. Cardinality(h .. b) = b - h + 1
    BY <2>1, FS_Interval
  <2> QED BY <1>7, <2>2
<1>9. subs = Headings(md, "h3", h, b)
  BY <1>7 DEF Headings
<1>10. Headings(md, "h3", h, n) = {} <=> \A m \in Headings(md, "h3", h, b) : n < m
  BY <1>1, <1>13 DEF Headings
<1>11. IsIntro(n) <=> Cardinality(here) > MaxLinesPerSection /\ subs # {} /\ \A m \in subs : n < m
  BY DEF IsIntro, F, N
<1> HIDE DEF here, subs
<1>12. SplitDeeper(md, <<h, b>>) <=> b - h + 1 > MaxLinesPerSection /\ Headings(md, "h3", h, b) # {}
  BY DEF SplitDeeper
<1> QED BY <1>8, <1>9, <1>10, <1>11, <1>12

LEMMA TiledBySections ==
  ASSUME MdInv
  PROVE  SectionsTile
<1> SUFFICES ASSUME md # <<>>
             PROVE  /\ MdChunks(md) # {}
                    /\ \A n \in DOMAIN md :
                         Cardinality(Covering(n)) =
                           IF Headings(md, "h2", FmEnd(md) + 1, Len(md)) # {}
                              /\ (Under("h2", n) = 0 \/ IsIntro(n)) THEN 0 ELSE 1
  BY DEF SectionsTile
<1>1. PICK N \in Nat \ {0} : N = Len(md) /\ DOMAIN md = 1 .. N
  BY DEF MdInv
<1>2. PICK F \in Nat : F = FmEnd(md) /\ F + 1 \in Nat
  BY FmFacts
<1> DEFINE headings == Headings(md, "h2", F + 1, N)
<1>3. Sections(md) = SplitAtHeadings(md, "h2", F + 1, N)
  BY <1>1, <1>2 DEF Sections
<1>4. ASSUME NEW h \in headings PROVE Sections(md) # {}
  <2>1. h \in Nat /\ F + 1 <= h /\ h <= N /\ h \in F + 1 .. N
    BY <1>1, <1>2 DEF Headings
  <2>2. Nearest(md, "h2", F + 1, h, h)
    BY <1>2, <2>1 DEF Headings, Nearest
  <2>3. PICK b \in Nat : OnlyOne(md, "h2", F + 1, N, h, h, b)
    BY <1>1, <1>2, <2>1, <2>2, OneSection
  <2>4. <<h, b>> \in SplitAtHeadings(md, "h2", F + 1, N)
    BY <2>3 DEF At, OnlyOne
  <2> QED BY <1>3, <2>4
<1>5. ASSUME headings = {} PROVE Sections(md) = {}
  BY <1>3, <1>5 DEF SplitAtHeadings
<1>6. CASE headings = {}
  <2>1. MdChunks(md) = {<<1, N>>}
    BY <1>1, <1>5, <1>6 DEF MdChunks
  <2>2. \A n \in 1 .. N : Covering(n) = {<<1, N>>}
    BY <2>1 DEF Covering
  <2>3. \A n \in 1 .. N : Cardinality(Covering(n)) = 1
    BY <2>2, SingleFacts
  <2> QED BY <1>1, <1>2, <1>6, <2>1, <2>3
<1>7. CASE headings # {}
  <2>0. Sections(md) # {}
    BY <1>4, <1>7
  <2>1. MdChunks(md) # {}
    <3>1. PICK sec \in Sections(md) : TRUE
      BY <2>0
    <3>0. sec \in SplitAtHeadings(md, "h2", F + 1, N) /\ N \in Nat
      BY <1>1, <1>3
    <3>2. PICK a \in Nat, b \in Nat : sec = <<a, b>> /\ IsSection(md, "h2", F + 1, N, a, b)
      BY <1>2, <3>0, SectionFacts
    <3>3. Pieces(sec) # {}
      <4>1. CASE SplitDeeper(md, sec)
        <5>1. PICK g \in Headings(md, "h3", a, b) : TRUE
          BY <3>2, <4>1 DEF SplitDeeper
        <5>2. g \in Nat /\ a <= g /\ g <= b /\ g \in a .. b
          BY DEF Headings
        <5>3. Nearest(md, "h3", a, g, g)
          BY <5>2 DEF Headings, Nearest
        <5>4. PICK y \in Nat : OnlyOne(md, "h3", a, b, g, g, y)
          BY <5>2, <5>3, OneSection
        <5>5. <<g, y>> \in SplitAtHeadings(md, "h3", a, b)
          BY <5>4 DEF At, OnlyOne
        <5> QED BY <3>2, <4>1, <5>5 DEF Pieces
      <4>2. CASE ~SplitDeeper(md, sec)
        BY <4>2 DEF Pieces
      <4> QED BY <4>1, <4>2
    <3>4. MdChunks(md) = UNION {Pieces(x) : x \in Sections(md)}
      BY <2>0 DEF MdChunks, Pieces
    <3> HIDE DEF Pieces
    <3> QED BY <3>1, <3>3, <3>4
  <2>2. ASSUME NEW n \in 1 .. N
        PROVE  Cardinality(Covering(n)) = IF Under("h2", n) = 0 \/ IsIntro(n) THEN 0 ELSE 1
    <3>0. n \in Nat
      BY <1>1
    <3>1. CASE Headings(md, "h2", F + 1, n) = {}
      <4>1. At(Sections(md), n) = {}
        BY <1>1, <1>2, <1>3, <3>0, <3>1, NoSection
      <4>2. Covering(n) = {}
        BY <2>0, <3>0, <4>1, MdChunksFacts
      <4>3. Under("h2", n) = 0
        BY <1>2, <3>0, <3>1, UnderFacts
      <4> QED BY <4>2, <4>3, SingleFacts
    <3>2. CASE Headings(md, "h2", F + 1, n) # {}
      <4>1. PICK h : h = Under("h2", n) /\ Nearest(md, "h2", F + 1, n, h)
        BY <1>2, <3>0, <3>2, UnderFacts DEF Nearest
      <4>2. h \in Nat /\ h # 0 /\ h <= n /\ n \in F + 1 .. N
        BY <1>1, <1>2, <3>0, <4>1 DEF Headings, Nearest
      <4>8. PICK b \in Nat : OnlyOne(md, "h2", F + 1, N, n, h, b)
        BY <1>1, <1>2, <4>1, <4>2, OneSection
      <4>3. n <= b /\ b <= N /\ At(SplitAtHeadings(md, "h2", F + 1, N), n) = {<<h, b>>}
        BY <4>8 DEF OnlyOne
      <4>4. Covering(n) = At(Pieces(<<h, b>>), n)
        BY <1>3, <2>0, <3>0, <4>3, MdChunksFacts
      <4>5. IsIntro(n) <=> SplitDeeper(md, <<h, b>>) /\ Headings(md, "h3", h, n) = {}
        BY <1>1, <1>2, <4>1, <4>2, <4>8, IntroFacts
      <4>6. CASE ~SplitDeeper(md, <<h, b>>)
        <5>1. Pieces(<<h, b>>) = {<<h, b>>}
          BY <4>6 DEF Pieces
        <5>2. Covering(n) = {<<h, b>>}
          BY <3>0, <4>2, <4>3, <4>4, <5>1 DEF At
        <5> QED BY <4>1, <4>2, <4>5, <4>6, <5>2, SingleFacts
      <4>7. CASE SplitDeeper(md, <<h, b>>)
        <5>1. Pieces(<<h, b>>) = SplitAtHeadings(md, "h3", h, b)
          BY <4>7 DEF Pieces
        <5>2. CASE Headings(md, "h3", h, n) = {}
          <6>1. Covering(n) = {}
            BY <3>0, <4>2, <4>4, <5>1, <5>2, NoSection
          <6> QED BY <4>5, <4>7, <5>2, <6>1, SingleFacts
        <5>3. CASE Headings(md, "h3", h, n) # {}
          <6>1. Headings(md, "h3", h, n) \subseteq 0 .. n
            BY <3>0, <4>2, HeadingFacts
          <6>2. PICK g : Nearest(md, "h3", h, n, g)
            BY <3>0, <5>3, <6>1, GreatestNumber DEF Nearest
          <6>3. n \in h .. b
            BY <3>0, <4>2, <4>3
          <6>6. PICK y \in Nat : OnlyOne(md, "h3", h, b, n, g, y)
            BY <4>2, <6>2, <6>3, OneSection
          <6>4. At(SplitAtHeadings(md, "h3", h, b), n) = {<<g, y>>}
            BY <6>6 DEF OnlyOne
          <6>5. Covering(n) = {<<g, y>>}
            BY <4>4, <5>1, <6>4
          <6> QED BY <4>1, <4>2, <4>5, <5>3, <6>5, SingleFacts
        <5> QED BY <5>2, <5>3
      <4> QED BY <4>6, <4>7
    <3> QED BY <3>1, <3>2
  <2> QED BY <1>1, <1>2, <1>7, <2>1, <2>2
<1> QED BY <1>6, <1>7

LEMMA MdInvariance == FilesSpec => []MdInv
<1>1. FilesInit => MdInv
  BY DEF FilesInit, MdInv
<1>2. MdInv /\ [FilesNext]_filesVars => MdInv'
  BY DEF MdInv, FilesNext, AddFile, Fortran, AddLine, AllRead, filesVars
<1> QED BY <1>1, <1>2, PTL DEF FilesSpec

(* The chunks of a document tile it from its first heading on, but for the    *)
(* introductions of sections that are split.                                 *)
THEOREM TilesDocuments == FilesSpec => []SectionsTile
<1>1. MdInv => SectionsTile
  BY TiledBySections
<1> QED BY <1>1, MdInvariance, PTL
=============================================================================
