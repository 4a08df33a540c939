---------------------------- MODULE BulkLoad_proofs ----------------------------
(***************************************************************************)
(* Proofs about BulkLoad beside BulkBenchmark for any parameters, limits,   *)
(* numbers of errors and retries: its type invariant, the plan of the       *)
(* chunks, what a validated and a refused load say about the fact table     *)
(* when the benchmark kept away from the staging table, and which files     *)
(* may be left.                                                             *)
(***************************************************************************)
EXTENDS BulkBenchmark, FiniteSetTheorems, SequenceTheorems, TLAPS

USE ConstantsAssumption

(***************************************************************************)
(* Arithmetic and induction.  The theorems of the library take the formula  *)
(* to prove as an operator; NatSetInduction takes the set of the numbers    *)
(* that satisfy it.                                                         *)
(***************************************************************************)

LEMMA NatSetInduction ==
    ASSUME NEW Q, 0 \in Q, \A n \in Nat : n \in Q => n + 1 \in Q
    PROVE  Nat \subseteq Q
  <1> SUFFICES ASSUME Nat \ Q # {} PROVE FALSE
    OBVIOUS
  <1> DEFINE Less == {pair \in Nat \X Nat : pair[1] < pair[2]}
  <1>1. IsWellFoundedOn(Less, Nat)
    BY NatLessThanWellFounded DEF OpToRel
  <1> HIDE DEF Less
  <1>2. PICK n \in Nat \ Q : \A m \in Nat \ Q : <<m, n>> \notin Less
    BY <1>1, WFMin
  <1>3. n - 1 \in Nat /\ (n - 1) + 1 = n
    BY <1>2
  <1>4. <<n - 1, n>> \in Less
    BY <1>3 DEF Less
  <1> QED
    BY <1>2, <1>3, <1>4

\* The smaller of two numbers.
LEMMA MinOfTwo ==
    ASSUME NEW a \in Nat, NEW b \in Nat
    PROVE  Min({a, b}) = IF a <= b THEN a ELSE b
  BY DEF Min

\* Chunks of the same size follow one another.
LEMMA NextMultiple ==
    ASSUME NEW k \in Nat, NEW a \in Nat, NEW b \in Nat, a < b
    PROVE  a * k + k <= b * k
  <1>1. PICK d \in Nat : b = a + d + 1
    <2>1. b - a - 1 \in Nat /\ b = a + (b - a - 1) + 1
      OBVIOUS
    <2> QED
      BY <2>1
  <1>2. d * k \in Nat
    OBVIOUS
  <1>3. b * k = a * k + d * k + k
    BY <1>1
  <1> QED
    BY <1>2, <1>3

\* The place of a row in chunks of size k is the only one.
LEMMA PlaceIsUnique ==
    ASSUME NEW k \in Nat, NEW a \in Nat, NEW b \in Nat, NEW i \in Nat, NEW j \in Nat,
           i < k, j < k, a * k + i = b * k + j
    PROVE  a = b /\ i = j
  <1>1. CASE a < b
    BY <1>1, NextMultiple
  <1>2. CASE b < a
    BY <1>2, NextMultiple
  <1>3. CASE a = b
    BY <1>3
  <1> QED
    BY <1>1, <1>2, <1>3

LEMMA SamePlace ==
    ASSUME NEW k \in Nat, NEW r, NEW s, r[1] * k + r[2] = s[1] * k + s[2],
           r[1] \in Nat, r[2] \in Nat, r[2] < k, s[1] \in Nat, s[2] \in Nat, s[2] < k
    PROVE  r[1] = s[1] /\ r[2] = s[2]
  <1> DEFINE a == r[1]
             b == s[1]
             i == r[2]
             j == s[2]
  <1>1. /\ a * k + i = b * k + j
        /\ a \in Nat /\ b \in Nat /\ i \in Nat /\ j \in Nat /\ i < k /\ j < k
    OBVIOUS
  <1> HIDE DEF a, b, i, j
  <1>2. a = b /\ i = j
    BY <1>1, PlaceIsUnique
  <1> QED
    BY <1>2 DEF a, b, i, j

\* Every number has a place in chunks of size k.
LEMMA PlaceExists ==
    ASSUME NEW k \in Nat \ {0}
    PROVE  \A n \in Nat : \E a \in Nat, i \in 0..(k - 1) : n = a * k + i
  <1> DEFINE Q == {n \in Nat : \E a \in Nat, i \in 0..(k - 1) : n = a * k + i}
  <1>1. 0 \in Q
    <2>1. 0 = 0 * k + 0
      OBVIOUS
    <2> QED
      BY <2>1
  <1>2. ASSUME NEW n \in Nat, n \in Q PROVE n + 1 \in Q
    <2>1. PICK a \in Nat, i \in 0..(k - 1) : n = a * k + i
      BY <1>2
    <2>2. CASE i + 1 < k
      BY <2>1, <2>2
    <2>3. CASE i + 1 = k
      <3>1. n + 1 = (a + 1) * k + 0 /\ a + 1 \in Nat /\ 0 \in 0..(k - 1)
        BY <2>1, <2>3
      <3>2. \E b \in Nat, j \in 0..(k - 1) : n + 1 = b * k + j
        BY <3>1
      <3> QED
        BY <3>2
    <2> QED
      BY <2>2, <2>3
  <1> HIDE DEF Q
  <1>3. Nat \subseteq Q
    BY <1>1, <1>2, NatSetInduction
  <1> QED
    BY <1>3 DEF Q

\* A remainder is what it is.
LEMMA RemainderIs ==
    ASSUME NEW k \in Nat \ {0}, NEW a \in Nat, NEW i \in 0..(k - 1)
    PROVE  (a * k + i) % k = i
  OBVIOUS

(***************************************************************************)
(* plan_chunks.                                                             *)
(***************************************************************************)

\* What the loop on "remaining" answers for n rows: full chunks and a last one that
\* has the rest, which is not empty.
IsPlan(s, n, size) ==
    /\ s \in Seq(Nat)
    /\ n = 0 <=> s = << >>
    /\ s # << >> => n - (Len(s) - 1) * size \in 1..size
    /\ \A i \in 1..Len(s) : s[i] = IF i < Len(s) THEN size ELSE n - (Len(s) - 1) * size

PlanRound(plan, n, size) ==
    IF n = 0
    THEN << >>
    ELSE LET first == Min({size, n}) IN <<first>> \o plan[n - first]

IsPlanUpTo(plan, n, size) == plan = [m \in 0..n |-> PlanRound(plan, m, size)]

\* The recursive function in PlanChunks exists.
LEMMA PlanExists ==
    ASSUME NEW size \in Nat \ {0}
    PROVE  \A n \in Nat : \E plan : IsPlanUpTo(plan, n, size)
  <1> DEFINE Q == {n \in Nat : \E plan : IsPlanUpTo(plan, n, size)}
  <1>1. 0 \in Q
    <2>1. IsPlanUpTo([m \in 0..0 |-> << >>], 0, size)
      BY DEF IsPlanUpTo, PlanRound
    <2> QED
      BY <2>1
  <1>2. ASSUME NEW n \in Nat, n \in Q PROVE n + 1 \in Q
    <2>1. PICK f : IsPlanUpTo(f, n, size)
      BY <1>2
    <2> DEFINE g == [m \in 0..(n + 1) |-> IF m <= n THEN f[m] ELSE PlanRound(f, m, size)]
    <2>2. \A m \in 0..(n + 1) : g[m] = PlanRound(g, m, size)
      <3>1. \A m \in 0..n : f[m] = PlanRound(f, m, size)
        BY <2>1 DEF IsPlanUpTo
      <3>2. \A m \in 0..n : g[m] = f[m]
        OBVIOUS
      <3>3. \A m \in 0..(n + 1) : g[m] = PlanRound(f, m, size)
        BY <3>1
      <3> HIDE DEF g
      <3>4. ASSUME NEW m \in 0..(n + 1) PROVE PlanRound(f, m, size) = PlanRound(g, m, size)
        <4>1. CASE m = 0
          BY <4>1 DEF PlanRound
        <4>2. CASE m # 0
          <5>1. m - Min({size, m}) \in 0..n
            BY <4>2, MinOfTwo
          <5> QED
            BY <4>2, <5>1, <3>2 DEF PlanRound
        <4> QED
          BY <4>1, <4>2
      <3> QED
        BY <3>3, <3>4
    <2>3. IsPlanUpTo(g, n + 1, size)
      BY <2>2 DEF IsPlanUpTo
    <2> QED
      BY <2>3
  <1> HIDE DEF Q
  <1>3. Nat \subseteq Q
    BY <1>1, <1>2, NatSetInduction
  <1> QED
    BY <1>3 DEF Q

LEMMA PlanIsRecursive ==
    ASSUME NEW n \in Nat, NEW size \in Nat \ {0}
    PROVE  \E plan : IsPlanUpTo(plan, n, size) /\ PlanChunks(n, size) = plan[n]
  <1> DEFINE f == CHOOSE plan : IsPlanUpTo(plan, n, size)
  <1>1. IsPlanUpTo(f, n, size)
    BY PlanExists
  <1>2. PlanChunks(n, size) = f[n]
    BY DEF PlanChunks, IsPlanUpTo, PlanRound
  <1> QED
    BY <1>1, <1>2

\* A chunk in front of a plan of the rest.
LEMMA PlanGrows ==
    ASSUME NEW size \in Nat \ {0}, NEW n \in Nat \ {0}, NEW t,
           IsPlan(t, n - Min({size, n}), size)
    PROVE  IsPlan(<<Min({size, n})>> \o t, n, size)
  <1> DEFINE first == Min({size, n})
             s == <<first>> \o t
  <1>1. first \in 1..size /\ first <= n /\ (first # n => first = size)
    BY MinOfTwo
  <1>2. t \in Seq(Nat) /\ Len(t) \in Nat
    BY LenProperties DEF IsPlan
  <1> HIDE DEF first
  <1>3. /\ s \in Seq(Nat) /\ Len(s) = Len(t) + 1 /\ s[1] = first
        /\ \A i \in 1..Len(t) : s[i + 1] = t[i]
    <2>1. <<first>> \in Seq(Nat)
      BY <1>1
    <2> QED
      BY <1>2, <2>1, ConcatProperties
  <1> HIDE DEF s
  <1>4. ASSUME first = n PROVE IsPlan(s, n, size)
    <2>1. t = << >>
      BY <1>4 DEF IsPlan, first
    <2>2. Len(s) = 1 /\ (Len(s) - 1) * size = 0
      BY <1>3, <2>1
    <2>3. s # << >> /\ n # 0
      BY <1>2, <1>3
    <2> QED
      BY <1>1, <1>3, <1>4, <2>2, <2>3 DEF IsPlan
  <1>5. ASSUME first # n PROVE IsPlan(s, n, size)
    <2>1. t # << >> /\ Len(t) >= 1
      BY <1>1, <1>2, <1>5 DEF IsPlan, first
    <2>2. (n - first) - (Len(t) - 1) * size = n - (Len(s) - 1) * size
      BY <1>1, <1>2, <1>3, <1>5
    <2>3. n - (Len(s) - 1) * size \in 1..size
      BY <2>1, <2>2 DEF IsPlan, first
    <2>4. ASSUME NEW i \in 1..Len(s)
          PROVE  s[i] = IF i < Len(s) THEN size ELSE n - (Len(s) - 1) * size
      <3>1. CASE i = 1
        BY <1>1, <1>2, <1>3, <1>5, <2>1, <3>1
      <3>2. CASE i > 1
        <4>0. Len(s) = Len(t) + 1 /\ Len(t) \in Nat /\ i \in Nat /\ i > 1 /\ i <= Len(s)
          BY <1>2, <1>3, <3>2
        <4>1. i - 1 \in 1..Len(t) /\ (i - 1) + 1 = i /\ (i < Len(s) <=> i - 1 < Len(t))
          BY <4>0
        <4>2. t[i - 1] = IF i - 1 < Len(t) THEN size ELSE (n - first) - (Len(t) - 1) * size
          BY <4>1 DEF IsPlan, first
        <4>3. s[i] = t[i - 1]
          BY <4>1, <1>3
        <4> QED
          BY <4>1, <4>2, <4>3, <2>2
      <3> QED
        BY <3>1, <3>2, <1>2, <1>3
    <2> QED
      <3>1. s # << >> /\ n # 0
        BY <1>2, <1>3
      <3> QED
        BY <1>3, <2>3, <2>4, <3>1 DEF IsPlan
  <1>6. IsPlan(s, n, size)
    BY <1>4, <1>5
  <1> QED
    BY <1>6 DEF s, first

LEMMA PlanIsPlan ==
    ASSUME NEW n \in Nat, NEW size \in Nat \ {0}
    PROVE  IsPlan(PlanChunks(n, size), n, size)
  <1>1. PICK plan : IsPlanUpTo(plan, n, size) /\ PlanChunks(n, size) = plan[n]
    BY PlanIsRecursive
  <1> DEFINE Q == {k \in Nat : \A m \in 0..k : m <= n => IsPlan(plan[m], m, size)}
  <1>2. \A m \in 0..n : plan[m] = PlanRound(plan, m, size)
    BY <1>1 DEF IsPlanUpTo
  <1>3. 0 \in Q
    <2>1. plan[0] = << >>
      <3>1. plan[0] = PlanRound(plan, 0, size)
        BY <1>2
      <3> QED
        BY <3>1 DEF PlanRound
    <2>2. IsPlan(plan[0], 0, size)
      BY <2>1 DEF IsPlan
    <2> QED
      BY <2>2
  <1>4. ASSUME NEW k \in Nat, k \in Q PROVE k + 1 \in Q
    <2>1. ASSUME k + 1 <= n PROVE IsPlan(plan[k + 1], k + 1, size)
      <3>1. (k + 1) - Min({size, k + 1}) \in 0..k
        BY MinOfTwo
      <3>2. IsPlan(plan[(k + 1) - Min({size, k + 1})], (k + 1) - Min({size, k + 1}), size)
        BY <1>4, <2>1, <3>1
      <3>3. plan[k + 1] = <<Min({size, k + 1})>> \o plan[(k + 1) - Min({size, k + 1})]
        <4>1. plan[k + 1] = PlanRound(plan, k + 1, size)
          BY <1>2, <2>1
        <4> QED
          BY <4>1 DEF PlanRound
      <3> QED
        BY <3>2, <3>3, PlanGrows
    <2> QED
      BY <1>4, <2>1
  <1> HIDE DEF Q
  <1>5. Nat \subseteq Q
    BY <1>3, <1>4, NatSetInduction
  <1> QED
    BY <1>1, <1>5 DEF Q

\* Chunks are neither empty nor larger than the load.
LEMMA SizesOfPlan ==
    ASSUME NEW n \in Nat \ {0}, NEW size \in Nat \ {0}
    PROVE  PlanChunks(n, size) \in Seq(1..n)
  <1> DEFINE s == PlanChunks(n, size)
  <1>1. IsPlan(s, n, size)
    BY PlanIsPlan
  <1> HIDE DEF s
  <1>2. s \in Seq(Nat) /\ s # << >> /\ Len(s) \in Nat
    BY <1>1, LenProperties DEF IsPlan
  <1>3. ASSUME NEW i \in 1..Len(s) PROVE s[i] \in 1..n
    <2>1. /\ s[i] = IF i < Len(s) THEN size ELSE n - (Len(s) - 1) * size
          /\ n - (Len(s) - 1) * size \in 1..size
      BY <1>1, <1>2 DEF IsPlan
    <2>2. Len(s) - 1 \in Nat /\ (Len(s) - 1) * size \in Nat
      BY <1>2
    <2>3. i < Len(s) => 0 * size + size <= (Len(s) - 1) * size
      BY <1>2, <2>2, NextMultiple
    <2> QED
      BY <1>2, <2>1, <2>2, <2>3
  <1>4. s \in Seq(1..n)
    BY <1>2, <1>3
  <1> QED
    BY <1>4 DEF s

(***************************************************************************)
(* The planned rows.                                                        *)
(***************************************************************************)

\* The chunks are the plan of the run.
HasPlan ==
    /\ rowCount \in RowCounts
    /\ chunkSize \in ChunkSizes
    /\ chunks = PlanChunks(rowCount, chunkSize)

LEMMA PlanOfTheRun ==
    ASSUME HasPlan
    PROVE  /\ rowCount \in 1..MaxRows /\ chunkSize \in Nat \ {0}
           /\ chunks \in Seq(Nat) /\ Len(chunks) \in Nat \ {0}
           /\ rowCount - (Len(chunks) - 1) * chunkSize \in 1..chunkSize
           /\ \A i \in 1..Len(chunks) :
                chunks[i] = IF i < Len(chunks) THEN chunkSize
                            ELSE rowCount - (Len(chunks) - 1) * chunkSize
  <1>1. rowCount \in 1..MaxRows /\ chunkSize \in Nat \ {0}
    BY DEF HasPlan
  <1>2. IsPlan(chunks, rowCount, chunkSize)
    BY <1>1, PlanIsPlan DEF HasPlan
  <1>3. chunks \in Seq(Nat) /\ chunks # << >>
    BY <1>1, <1>2 DEF IsPlan
  <1>4. Len(chunks) \in Nat \ {0}
    BY <1>3, EmptySeq, LenProperties
  <1> QED
    BY <1>1, <1>2, <1>3, <1>4 DEF IsPlan

\* Chunks are not empty, not larger than chunk_size, and end where the next begins.
LEMMA SizesOfChunks ==
    ASSUME HasPlan
    PROVE  /\ Len(chunks) <= rowCount
           /\ \A c \in Planned :
                /\ SizeOf(c) \in 1..chunkSize /\ SizeOf(c) \in 1..rowCount
                /\ c * chunkSize + SizeOf(c) <= rowCount
                /\ c + 1 < Len(chunks) => SizeOf(c) = chunkSize
                /\ c + 1 = Len(chunks) => c * chunkSize + SizeOf(c) = rowCount
  <1>1. /\ rowCount \in Nat /\ chunkSize \in Nat \ {0} /\ Len(chunks) \in Nat \ {0}
        /\ rowCount - (Len(chunks) - 1) * chunkSize \in 1..chunkSize
    BY PlanOfTheRun
  <1>2. Len(chunks) <= rowCount
    <2>1. (Len(chunks) - 1) * 1 <= (Len(chunks) - 1) * chunkSize
      <3>1. PICK k \in Nat : chunkSize = k + 1
        BY <1>1
      <3>2. (Len(chunks) - 1) * k \in Nat
        BY <1>1, <3>1
      <3> QED
        BY <1>1, <3>1, <3>2
    <2> QED
      BY <1>1, <2>1
  <1>3. ASSUME NEW c \in Planned
        PROVE  /\ SizeOf(c) \in 1..chunkSize /\ SizeOf(c) \in 1..rowCount
               /\ c * chunkSize + SizeOf(c) <= rowCount
               /\ c + 1 < Len(chunks) => SizeOf(c) = chunkSize
               /\ c + 1 = Len(chunks) => c * chunkSize + SizeOf(c) = rowCount
    <2>1. c \in Nat /\ c + 1 \in 1..Len(chunks)
      BY <1>1 DEF Planned, Indexes
    <2>2. SizeOf(c) = IF c + 1 < Len(chunks) THEN chunkSize
                      ELSE rowCount - (Len(chunks) - 1) * chunkSize
      BY <2>1, PlanOfTheRun DEF SizeOf
    <2>3. CASE c + 1 < Len(chunks)
      <3>1. c * chunkSize + chunkSize <= (Len(chunks) - 1) * chunkSize
        BY <1>1, <2>1, <2>3, NextMultiple
      <3>2. c * chunkSize \in Nat /\ (Len(chunks) - 1) * chunkSize \in Nat
        BY <1>1, <2>1
      <3> QED
        BY <1>1, <2>1, <2>2, <2>3, <3>1, <3>2
    <2>4. CASE c + 1 = Len(chunks)
      <3>1. c = Len(chunks) - 1 /\ c * chunkSize \in Nat
        BY <1>1, <2>1, <2>4
      <3>2. SizeOf(c) = rowCount - c * chunkSize
        BY <2>2, <2>4, <3>1, PlanOfTheRun
      <3> QED
        BY <1>1, <2>4, <3>1, <3>2
    <2> QED
      BY <1>1, <2>1, <2>3, <2>4
  <1> QED
    BY <1>2, <1>3

LEMMA PlannedIsInterval ==
    ASSUME HasPlan
    PROVE  Planned = 0..(Len(chunks) - 1) /\ chunks \in Seq(1..MaxRows)
  <1>1. rowCount \in 1..MaxRows /\ Len(chunks) \in Nat \ {0} /\ chunks \in Seq(Nat)
    BY PlanOfTheRun
  <1>2. Planned = 0..(Len(chunks) - 1)
    BY <1>1, SizesOfChunks DEF Planned, Indexes
  <1>3. chunks \in Seq(1..MaxRows)
    <2>1. chunks \in Seq(1..rowCount)
      <3>1. rowCount \in Nat \ {0} /\ chunkSize \in Nat \ {0}
        BY <1>1, PlanOfTheRun
      <3> QED
        BY <3>1, SizesOfPlan DEF HasPlan
    <2> QED
      BY <1>1, <2>1
  <1> QED
    BY <1>2, <1>3

\* The place of a row in the load.
Place(r) == r[1] * chunkSize + r[2]

\* What a planned row is.
LEMMA RowOfChunk ==
    ASSUME NEW r
    PROVE  r \in PlannedRows <=>
                /\ r \in Rows /\ r[1] \in Planned /\ r[2] \in Nat /\ r[2] < SizeOf(r[1])
  BY DEF PlannedRows, RowsOf, Rows, Indexes

LEMMA RowsAreFinite == IsFiniteSet(Rows)
  <1>1. IsFiniteSet(Indexes)
    BY FS_Interval DEF Indexes
  <1> QED
    BY <1>1, FS_Product DEF Rows

\* A run has as many rows as its parameter says.
LEMMA PlannedRowsCounted ==
    ASSUME HasPlan
    PROVE  IsFiniteSet(PlannedRows) /\ Cardinality(PlannedRows) = rowCount
  <1> DEFINE f == [r \in PlannedRows |-> Place(r)]
  <1>1. /\ rowCount \in Nat \ {0} /\ rowCount <= MaxRows
        /\ chunkSize \in Nat \ {0} /\ Len(chunks) \in Nat \ {0}
        /\ Planned = 0..(Len(chunks) - 1)
    BY PlanOfTheRun, PlannedIsInterval
  <1>2. IsFiniteSet(PlannedRows)
    <2>1. PlannedRows \in SUBSET Rows
      BY DEF PlannedRows, RowsOf
    <2> QED
      BY <2>1, RowsAreFinite, FS_Subset
  <1>3. ASSUME NEW r \in PlannedRows
        PROVE  /\ r[1] \in Nat /\ r[2] \in Nat /\ r[2] < chunkSize
               /\ Place(r) \in 0..(rowCount - 1)
               /\ r = <<r[1], r[2]>>
    <2>1. /\ r \in Rows /\ r[1] \in Planned /\ r[1] \in Nat /\ r[2] \in Nat
          /\ r[2] < SizeOf(r[1])
      BY <1>1, RowOfChunk
    <2>2. /\ SizeOf(r[1]) \in 1..chunkSize
          /\ r[1] * chunkSize + SizeOf(r[1]) <= rowCount
      BY <2>1, SizesOfChunks
    <2>3. r[1] * chunkSize \in Nat
      BY <1>1, <2>1
    <2>4. r[2] < chunkSize /\ Place(r) \in 0..(rowCount - 1)
      <3>1. SizeOf(r[1]) \in Nat /\ SizeOf(r[1]) <= chunkSize
        BY <1>1, <2>2
      <3> DEFINE p == r[1] * chunkSize
      <3>2. p \in Nat /\ p + SizeOf(r[1]) <= rowCount
        BY <2>2, <2>3
      <3> HIDE DEF p
      <3>3. p + r[2] \in 0..(rowCount - 1)
        BY <1>1, <2>1, <3>1, <3>2
      <3> QED
        BY <1>1, <2>1, <3>1, <3>3 DEF Place, p
    <2>5. r = <<r[1], r[2]>>
      BY <2>1 DEF Rows
    <2> QED
      BY <2>1, <2>4, <2>5
  <1>4. f \in Injection(PlannedRows, 0..(rowCount - 1))
    <2>1. f \in [PlannedRows -> 0..(rowCount - 1)]
      BY <1>3
    <2>2. ASSUME NEW r \in PlannedRows, NEW s \in PlannedRows, f[r] = f[s] PROVE r = s
      <3>1. r[1] * chunkSize + r[2] = s[1] * chunkSize + s[2]
        BY <2>2 DEF Place
      <3>2. /\ chunkSize \in Nat /\ r[2] < chunkSize /\ s[2] < chunkSize
            /\ r[1] \in Nat /\ r[2] \in Nat /\ s[1] \in Nat /\ s[2] \in Nat
        BY <1>1, <1>3
      <3>3. r[1] = s[1] /\ r[2] = s[2]
        BY <3>1, <3>2, SamePlace
      <3> QED
        BY <1>3, <3>3
    <2> QED
      BY <2>1, <2>2 DEF Injection, IsInjective
  <1>5. f \in Surjection(PlannedRows, 0..(rowCount - 1))
    <2>1. f \in [PlannedRows -> 0..(rowCount - 1)]
      BY <1>3
    <2>2. ASSUME NEW p \in 0..(rowCount - 1) PROVE \E r \in PlannedRows : f[r] = p
      <3>1. PICK c \in Nat, o \in 0..(chunkSize - 1) : p = c * chunkSize + o
        <4>1. p \in Nat
          OBVIOUS
        <4> QED
          BY <1>1, <4>1, PlaceExists
      <3>2. c < Len(chunks)
        <4>1. ASSUME Len(chunks) <= c PROVE FALSE
          <5>1. (Len(chunks) - 1) * chunkSize + chunkSize <= c * chunkSize
            BY <1>1, <4>1, NextMultiple
          <5>2. rowCount - (Len(chunks) - 1) * chunkSize \in 1..chunkSize
            BY PlanOfTheRun
          <5>3. (Len(chunks) - 1) * chunkSize \in Nat /\ c * chunkSize \in Nat
            BY <1>1
          <5> QED
            BY <1>1, <3>1, <5>1, <5>2, <5>3
        <4> QED
          BY <1>1, <4>1
      <3>3. c \in Planned /\ c * chunkSize \in Nat
        BY <1>1, <3>2
      <3>4. o < SizeOf(c)
        <4>1. CASE c + 1 < Len(chunks)
          BY <1>1, <3>1, <3>3, <4>1, SizesOfChunks
        <4>2. CASE c + 1 = Len(chunks)
          <5>1. SizeOf(c) \in Nat /\ c * chunkSize + SizeOf(c) = rowCount
            BY <1>1, <3>3, <4>2, SizesOfChunks
          <5> QED
            BY <1>1, <3>1, <3>3, <5>1
        <4> QED
          BY <1>1, <3>2, <4>1, <4>2
      <3>5. <<c, o>> \in Rows
        BY <1>1, <3>1, <3>3, <3>4, SizesOfChunks DEF Rows, Planned, Indexes
      <3>6. <<c, o>> \in PlannedRows
        BY <3>1, <3>3, <3>4, <3>5, RowOfChunk
      <3>7. f[<<c, o>>] = p
        BY <3>1, <3>6 DEF Place
      <3> QED
        BY <3>6, <3>7
    <2> QED
      BY <2>1, <2>2 DEF Surjection
  <1>6. ExistsBijection(PlannedRows, 0..(rowCount - 1))
    BY <1>4, <1>5 DEF ExistsBijection, Bijection
  <1>7. Cardinality(0..(rowCount - 1)) = rowCount
    BY <1>1, FS_Interval
  <1> QED
    BY <1>2, <1>6, <1>7, FS_Bijection

\* When chunk_size divides row_count, every chunk is full and every row has its own number.
LEMMA NumbersOfWholeChunks ==
    ASSUME HasPlan PROVE UidsUniqueForWholeChunks
  <1> SUFFICES ASSUME rowCount % chunkSize = 0,
                      NEW r \in PlannedRows, NEW s \in PlannedRows,
                      SequenceOf(r) = SequenceOf(s)
               PROVE  r = s
    BY DEF UidsUniqueForWholeChunks
  <1> DEFINE rest == rowCount - (Len(chunks) - 1) * chunkSize
  <1>1. /\ rowCount \in Nat /\ chunkSize \in Nat \ {0} /\ Len(chunks) - 1 \in Nat
        /\ rest \in 1..chunkSize
        /\ Planned = 0..(Len(chunks) - 1)
    BY PlanOfTheRun, PlannedIsInterval
  <1>2. rowCount = (Len(chunks) - 1) * chunkSize + rest
    BY <1>1
  <1> HIDE DEF rest
  <1>3. rest = chunkSize
    <2>1. CASE rest < chunkSize
      <3>1. rowCount % chunkSize = rest
        BY <1>1, <1>2, <2>1, RemainderIs
      <3> QED
        BY <1>1, <3>1
    <2> QED
      BY <1>1, <2>1
  <1>4. \A c \in Planned : SizeOf(c) = chunkSize
    BY <1>1, <1>3, PlanOfTheRun DEF SizeOf, rest
  <1>5. ASSUME NEW x \in PlannedRows
        PROVE  /\ x[1] \in Nat /\ x[2] \in Nat /\ x[2] < chunkSize
               /\ SequenceOf(x) = x[1] * chunkSize + x[2]
               /\ x = <<x[1], x[2]>>
    BY <1>1, <1>4, RowOfChunk DEF SequenceOf, Rows
  <1>6. r[1] = s[1] /\ r[2] = s[2]
    <2>1. /\ r[1] * chunkSize + r[2] = s[1] * chunkSize + s[2]
          /\ chunkSize \in Nat /\ r[2] < chunkSize /\ s[2] < chunkSize
          /\ r[1] \in Nat /\ r[2] \in Nat /\ s[1] \in Nat /\ s[2] \in Nat
      BY <1>1, <1>5
    <2> QED
      BY <2>1, SamePlace
  <1> QED
    BY <1>5, <1>6

(***************************************************************************)
(* The tasks.                                                               *)
(***************************************************************************)

States == Labels \cup Finished \cup {"none", "up_for_retry"}

\* Task t was never started.
NotStarted(t) == state[t] \in {"none", "upstream_failed"}

\* Attempts are counted, and only a task with attempts left is retried.
AttemptsCounted ==
    \A t \in Tasks :
        /\ state[t] = "none" => tries[t] = 0
        /\ ~NotStarted(t) => tries[t] >= 1
        /\ state[t] = "up_for_retry" => tries[t] <= Retries

\* The chunks are those of the plan.
ChunksArePlanned ==
    chunks = IF state[PlanTask] = "success" THEN PlanChunks(rowCount, chunkSize) ELSE << >>

\* A task that was started has what it depends on.
StartedInOrder ==
    /\ ~NotStarted(PlanTask) => state[PrepareStaging] = "success"
    /\ ~NotStarted(LoadFact) => AllLoaded
    /\ ~NotStarted(ValidateLoad) => state[LoadFact] = "success"

\* What a mapped task has done follows from where it is.
ChunkInv ==
    /\ \A c \in Indexes :
        /\ c \notin Planned => state[GenerateAndLoad(c)] = "none"
        /\ state[GenerateAndLoad(c)] = "none" => progress[c] = 0
        /\ state[GenerateAndLoad(c)] # "upstream_failed"
        /\ c \in files \ {SampleChunk} => state[GenerateAndLoad(c)] \notin {"none", "success"}
    /\ \A c \in Planned :
        /\ progress[c] <= SizeOf(c)
        /\ state[GenerateAndLoad(c)] \in {"remove", "success"} => progress[c] = SizeOf(c)

\* The tasks rest.
Rest == UNCHANGED <<params, state, tries, errors, chunks, progress, fact, counted>>

TaskInv == AttemptsCounted /\ ChunksArePlanned /\ StartedInOrder
RunInv == TypeOK /\ TaskInv /\ ChunkInv

\* The staging table holds what the attempts of the chunks have committed; a chunk that
\* is attempted again may have rows twice.
StagingFollows ==
    \A r \in Rows :
        /\ r \notin PlannedRows => staging[r] = 0
        /\ r \in PlannedRows =>
            /\ r[2] < progress[r[1]] => staging[r] >= 1
            /\ tries[GenerateAndLoad(r[1])] <= 1 =>
                staging[r] = IF r[2] < progress[r[1]] THEN 1 ELSE 0

\* The fact table holds every planned row, and no other.
FactFollows ==
    \A r \in Rows :
        /\ r \notin PlannedRows => fact[r] = 0
        /\ r \in PlannedRows =>
            /\ fact[r] >= 1
            /\ tries[GenerateAndLoad(r[1])] <= 1 => fact[r] = 1

LoadInv ==
    /\ ~disturbed =>
        /\ DagUsesStaging => StagingFollows
        /\ state[LoadFact] = "count" => fact = staging
        /\ state[LoadFact] = "success" => FactFollows
    /\ state[LoadFact] = "insert" => fact = Empty
    /\ state[LoadFact] = "success" => counted = Cardinality(Copies(fact))
    /\ state[ValidateLoad] = "success" => counted = rowCount

\* A table of copies is finite.
LEMMA CopiesAreFinite ==
    ASSUME NEW table \in [Rows -> Nat] PROVE IsFiniteSet(Copies(table))
  <1> DEFINE C(r) == {r} \X (1..table[r])
             S == {C(r) : r \in Rows}
  <1>1. IsFiniteSet(S)
    <2> DEFINE g == [r \in Rows |-> C(r)]
    <2>1. g \in Surjection(Rows, S)
      <3>1. g \in [Rows -> S]
        OBVIOUS
      <3>2. \A T \in S : \E r \in Rows : g[r] = T
        OBVIOUS
      <3> QED
        BY <3>1, <3>2 DEF Surjection
    <2> HIDE DEF g, S
    <2> QED
      BY <2>1, RowsAreFinite, FS_Surjection
  <1>2. \A T \in S : IsFiniteSet(T)
    <2>1. ASSUME NEW r \in Rows PROVE IsFiniteSet(C(r))
      <3>1. table[r] \in Int /\ 1 \in Int
        OBVIOUS
      <3>2. IsFiniteSet(1..table[r])
        BY <3>1, FS_Interval
      <3>3. IsFiniteSet({r})
        BY FS_Singleton
      <3> QED
        BY <3>2, <3>3, FS_Product
    <2> QED
      BY <2>1
  <1> HIDE DEF S
  <1>3. IsFiniteSet(UNION S)
    BY <1>1, <1>2, FS_UNION
  <1> QED
    BY <1>3 DEF S, Copies

\* Task instances have different names.
LEMMA TaskNames ==
    /\ Singles = {PrepareStaging, PlanTask, LoadFact, ValidateLoad, CleanupTask}
    /\ Singles \subseteq Tasks
    /\ PrepareStaging # PlanTask /\ PrepareStaging # LoadFact
    /\ PrepareStaging # ValidateLoad /\ PrepareStaging # CleanupTask
    /\ PlanTask # LoadFact /\ PlanTask # ValidateLoad /\ PlanTask # CleanupTask
    /\ LoadFact # ValidateLoad /\ LoadFact # CleanupTask /\ ValidateLoad # CleanupTask
    /\ \A c \in Indexes :
        /\ GenerateAndLoad(c) \in Tasks /\ GenerateAndLoad(c) \notin Singles
        /\ \A d \in Indexes : GenerateAndLoad(c) = GenerateAndLoad(d) => c = d
    /\ \A t \in Tasks : t \in Singles \/ \E c \in Indexes : t = GenerateAndLoad(c)
  <1>1. \A c \in Indexes :
            /\ GenerateAndLoad(c) \in Tasks /\ GenerateAndLoad(c) \notin Singles
            /\ \A d \in Indexes : GenerateAndLoad(c) = GenerateAndLoad(d) => c = d
    BY DEF Tasks, Singles, PrepareStaging, PlanTask, LoadFact, ValidateLoad, CleanupTask,
           GenerateAndLoad
  <1> QED
    BY <1>1 DEF Tasks, Singles, PrepareStaging, PlanTask, LoadFact, ValidateLoad, CleanupTask

LEMMA KindsOfStates ==
    /\ Labels \subseteq States /\ Finished \subseteq States
    /\ "none" \in States /\ "up_for_retry" \in States
    /\ \A label \in Labels : label \notin Finished \cup {"none", "up_for_retry"}
    /\ "none" \notin Finished /\ "up_for_retry" \notin Finished
  BY DEF States, Labels, Finished

\* A task that is not finished goes to the state "to": if that is a start, then
\* it has what it depends on.
Moves(t, to) ==
    /\ t \in Tasks
    /\ to \in States \ {"none"}
    /\ state[t] \notin Finished
    /\ Goto(t, to)
    /\ state[t] = "none" /\ to # "upstream_failed" =>
        /\ t = PlanTask => state[PrepareStaging] = "success"
        /\ t = LoadFact => AllLoaded
        /\ t = ValidateLoad => state[LoadFact] = "success"

LEMMA MoveChangesOne ==
    ASSUME TypeOK, NEW t, NEW to, Moves(t, to)
    PROVE  /\ state' \in [Tasks -> States]
           /\ state'[t] = to
           /\ \A u \in Tasks : u # t => state'[u] = state[u]
           /\ \A u \in Tasks : state[u] \in Finished => state'[u] = state[u]
  BY DEF TypeOK, States, Moves, Goto

\* A start is an attempt; a task is given up, or it goes on to a label, to its end, or
\* to a retry if it has attempts left.
Starts(t, to) ==
    /\ to \notin {"none", "up_for_retry", "upstream_failed"}
    /\ state[t] \in {"none", "up_for_retry"}
    /\ tries' = [tries EXCEPT ![t] = @ + 1]

GoesOn(t, to) ==
    /\ to = "upstream_failed" => state[t] = "none"
    /\ to # "upstream_failed" => state[t] \in Labels
    /\ to = "up_for_retry" => tries[t] <= Retries
    /\ tries' = tries

\* Attempts stay counted when a step starts one or fails one.
LEMMA MoveCountsAttempts ==
    ASSUME TypeOK, AttemptsCounted, NEW t, NEW to, Moves(t, to),
           Starts(t, to) \/ GoesOn(t, to)
    PROVE  AttemptsCounted' /\ tries' \in [Tasks -> 0..(Retries + 1)]
  <1>1. t \in Tasks /\ tries \in [Tasks -> 0..(Retries + 1)] /\ to # "none"
    BY DEF TypeOK, Moves
  <1>2. /\ state'[t] = to
        /\ \A u \in Tasks : u # t => state'[u] = state[u]
    BY MoveChangesOne
  <1>3. \A u \in Tasks :
            /\ state[u] = "none" => tries[u] = 0
            /\ state[u] \notin {"none", "upstream_failed"} => tries[u] >= 1
            /\ state[u] = "up_for_retry" => tries[u] <= Retries
    BY DEF AttemptsCounted, NotStarted
  <1>4. CASE Starts(t, to)
    <2> USE DEF Starts
    <2>1. tries[t] \in 0..Retries
      BY <1>1, <1>3, <1>4
    <2>2. /\ tries' \in [Tasks -> 0..(Retries + 1)]
          /\ tries'[t] = tries[t] + 1
          /\ \A u \in Tasks : u # t => tries'[u] = tries[u]
      BY <1>1, <1>4, <2>1
    <2>3. ASSUME NEW u \in Tasks
          PROVE  /\ state'[u] = "none" => tries'[u] = 0
                 /\ state'[u] \notin {"none", "upstream_failed"} => tries'[u] >= 1
                 /\ state'[u] = "up_for_retry" => tries'[u] <= Retries
      BY <1>1, <1>2, <1>3, <1>4, <2>1, <2>2
    <2> QED
      BY <2>2, <2>3 DEF AttemptsCounted, NotStarted
  <1>5. CASE GoesOn(t, to)
    <2> USE DEF GoesOn
    <2>1. state[t] \in Labels => tries[t] >= 1
      BY <1>1, <1>3 DEF Labels
    <2>2. ASSUME NEW u \in Tasks
          PROVE  /\ state'[u] = "none" => tries'[u] = 0
                 /\ state'[u] \notin {"none", "upstream_failed"} => tries'[u] >= 1
                 /\ state'[u] = "up_for_retry" => tries'[u] <= Retries
      BY <1>1, <1>2, <1>3, <1>5, <2>1
    <2> QED
      BY <1>1, <1>5, <2>2 DEF AttemptsCounted, NotStarted
  <1> QED
    BY <1>4, <1>5

\* What was loaded stays loaded.
LEMMA AllLoadedStays ==
    ASSUME TypeOK, NEW t, NEW to, Moves(t, to), chunks' = chunks, AllLoaded
    PROVE  AllLoaded'
  <1>1. Planned' = Planned /\ Planned \subseteq Indexes
    BY DEF Planned
  <1>2. \A u \in Tasks : state[u] = "success" => state'[u] = "success"
    BY MoveChangesOne DEF Finished
  <1> QED
    BY <1>1, <1>2, TaskNames DEF AllLoaded

LEMMA MoveKeepsOrder ==
    ASSUME TypeOK, StartedInOrder, ChunksArePlanned,
           NEW t, NEW to, Moves(t, to), UNCHANGED <<params, chunks>>,
           t = PlanTask => to # "success"
    PROVE  StartedInOrder' /\ ChunksArePlanned'
  <1>1. /\ PrepareStaging \in Tasks /\ PlanTask \in Tasks /\ LoadFact \in Tasks
        /\ ValidateLoad \in Tasks
        /\ PrepareStaging # PlanTask /\ PrepareStaging # LoadFact
        /\ PrepareStaging # ValidateLoad /\ PlanTask # LoadFact
        /\ PlanTask # ValidateLoad /\ LoadFact # ValidateLoad
    BY TaskNames
  <1>2. /\ state'[t] = to
        /\ \A u \in Tasks : u # t => state'[u] = state[u]
        /\ \A u \in Tasks : state[u] = "success" => state'[u] = "success"
    BY MoveChangesOne DEF Finished
  <1>3. /\ t \in Tasks /\ state[t] \notin {"success", "upstream_failed"}
        /\ state[t] = "none" /\ to # "upstream_failed" =>
            /\ t = PlanTask => state[PrepareStaging] = "success"
            /\ t = LoadFact => AllLoaded
            /\ t = ValidateLoad => state[LoadFact] = "success"
    BY DEF Moves, Finished
  <1>4. ChunksArePlanned'
    BY <1>1, <1>2, <1>3 DEF ChunksArePlanned, params
  <1>5. state'[PlanTask] \notin {"none", "upstream_failed"} => state'[PrepareStaging] = "success"
    BY <1>1, <1>2, <1>3 DEF StartedInOrder, NotStarted
  <1>6. state'[LoadFact] \notin {"none", "upstream_failed"} => AllLoaded'
    <2>1. state'[LoadFact] \notin {"none", "upstream_failed"} => AllLoaded
      BY <1>1, <1>2, <1>3 DEF StartedInOrder, NotStarted
    <2> QED
      BY <2>1, AllLoadedStays
  <1>7. state'[ValidateLoad] \notin {"none", "upstream_failed"} => state'[LoadFact] = "success"
    BY <1>1, <1>2, <1>3 DEF StartedInOrder, NotStarted
  <1> QED
    BY <1>4, <1>5, <1>6, <1>7 DEF StartedInOrder, NotStarted

\* A step of a task that is not mapped.
LEMMA SingleLeavesChunks ==
    ASSUME TypeOK, ChunkInv, NEW t \in Singles, NEW to, Moves(t, to),
           UNCHANGED <<chunks, progress>>, files' \subseteq files
    PROVE  ChunkInv'
  <1>1. /\ Planned' = Planned /\ Planned \subseteq Indexes
        /\ \A c \in Planned : SizeOf(c)' = SizeOf(c)
    BY DEF Planned, SizeOf
  <1>2. \A c \in Indexes : state'[GenerateAndLoad(c)] = state[GenerateAndLoad(c)]
    BY MoveChangesOne, TaskNames
  <1> QED
    BY <1>1, <1>2 DEF ChunkInv

\* A step of a mapped task.
LEMMA ChunkMoves ==
    ASSUME TypeOK, ChunkInv, NEW c \in Planned, NEW to, Moves(GenerateAndLoad(c), to),
           to # "upstream_failed", chunks' = chunks,
           \A d \in Indexes \ {c} : progress'[d] = progress[d],
           progress'[c] <= SizeOf(c),
           to \in {"remove", "success"} => progress'[c] = SizeOf(c),
           files' \subseteq files \cup {c}, to = "success" => c \notin files'
    PROVE  ChunkInv'
  <1>1. /\ Planned' = Planned /\ Planned \subseteq Indexes
        /\ \A d \in Planned : SizeOf(d)' = SizeOf(d)
    BY DEF Planned, SizeOf
  <1>2. /\ state'[GenerateAndLoad(c)] = to /\ to # "none"
        /\ \A d \in Indexes \ {c} : state'[GenerateAndLoad(d)] = state[GenerateAndLoad(d)]
    BY <1>1, MoveChangesOne, TaskNames DEF Moves
  <1>3. ASSUME NEW d \in Indexes
        PROVE  /\ d \notin Planned => state'[GenerateAndLoad(d)] = "none"
               /\ state'[GenerateAndLoad(d)] = "none" => progress'[d] = 0
               /\ state'[GenerateAndLoad(d)] # "upstream_failed"
               /\ d \in files' \ {SampleChunk} =>
                    state'[GenerateAndLoad(d)] \notin {"none", "success"}
    BY <1>1, <1>2, <1>3 DEF ChunkInv
  <1>4. ASSUME NEW d \in Planned
        PROVE  /\ progress'[d] <= SizeOf(d)
               /\ state'[GenerateAndLoad(d)] \in {"remove", "success"} => progress'[d] = SizeOf(d)
    BY <1>1, <1>2 DEF ChunkInv
  <1> QED
    BY <1>1, <1>3, <1>4 DEF ChunkInv

\* What a step leaves as it should be beside the tasks.
TablesTyped ==
    /\ errors \in 0..MaxErrors
    /\ listed \subseteq Indexes
    /\ staging \in [Rows -> Nat]
    /\ fact \in [Rows -> Nat]
    /\ counted \in Nat

LEMMA SingleStep ==
    ASSUME RunInv, NEW t \in Singles, NEW to, Moves(t, to), Starts(t, to) \/ GoesOn(t, to),
           UNCHANGED <<params, chunks, progress>>, files' \subseteq files, TablesTyped',
           t = PlanTask => to # "success"
    PROVE  RunInv'
  <1>1. AttemptsCounted' /\ tries' \in [Tasks -> 0..(Retries + 1)]
    BY MoveCountsAttempts DEF RunInv, TaskInv
  <1>2. StartedInOrder' /\ ChunksArePlanned'
    BY MoveKeepsOrder DEF RunInv, TaskInv
  <1>3. ChunkInv'
    BY SingleLeavesChunks DEF RunInv
  <1>4. state' \in [Tasks -> States]
    BY MoveChangesOne DEF RunInv
  <1>5. TypeOK'
    BY <1>1, <1>4 DEF RunInv, TypeOK, TablesTyped, States, params
  <1> QED
    BY <1>1, <1>2, <1>3, <1>5 DEF RunInv, TaskInv

LEMMA ChunkStep ==
    ASSUME RunInv, NEW c \in Planned, NEW to, Moves(GenerateAndLoad(c), to),
           Starts(GenerateAndLoad(c), to) \/ GoesOn(GenerateAndLoad(c), to),
           to # "upstream_failed", UNCHANGED <<params, chunks>>,
           \/ progress' = progress
           \/ progress' = [progress EXCEPT ![c] = 0],
           to \in {"remove", "success"} => progress'[c] = SizeOf(c),
           files' \subseteq files \cup {c}, to = "success" => c \notin files',
           TablesTyped'
    PROVE  RunInv'
  <1>0. c \in Indexes /\ progress \in [Indexes -> 0..MaxRows] /\ chunks \in Seq(1..MaxRows)
    BY DEF RunInv, TypeOK, Planned
  <1>1. AttemptsCounted' /\ tries' \in [Tasks -> 0..(Retries + 1)]
    BY MoveCountsAttempts DEF RunInv, TaskInv
  <1>2. StartedInOrder' /\ ChunksArePlanned'
    <2>1. GenerateAndLoad(c) # PlanTask
      BY <1>0, TaskNames
    <2> QED
      BY <2>1, MoveKeepsOrder DEF RunInv, TaskInv
  <1>3. /\ progress' \in [Indexes -> 0..MaxRows]
        /\ \A d \in Indexes \ {c} : progress'[d] = progress[d]
        /\ progress'[c] <= SizeOf(c)
    <2>1. SizeOf(c) \in 1..MaxRows
      <3>1. c + 1 \in 1..Len(chunks)
        BY <1>0, LenProperties DEF Planned, Indexes
      <3> QED
        BY <1>0, <3>1, ElementOfSeq DEF SizeOf
    <2>2. progress[c] <= SizeOf(c)
      BY DEF RunInv, ChunkInv
    <2> QED
      BY <1>0, <2>1, <2>2
  <1>4. ChunkInv'
    BY <1>3, ChunkMoves DEF RunInv
  <1>5. state' \in [Tasks -> States]
    BY MoveChangesOne DEF RunInv
  <1>6. TypeOK'
    <2>1. files' \subseteq Indexes
      BY <1>0 DEF RunInv, TypeOK
    <2> QED
      BY <1>1, <1>3, <1>5, <2>1 DEF RunInv, TypeOK, TablesTyped, States, params
  <1> QED
    BY <1>1, <1>2, <1>4, <1>6 DEF RunInv, TaskInv

LEMMA InitHoldsRunInv == Init => RunInv
  <1> SUFFICES ASSUME Init PROVE RunInv
    OBVIOUS
  <1>1. Empty \in [Rows -> Nat] /\ Leftover \in [Rows -> Nat]
    BY DEF Empty, Leftover
  <1>2. << >> \in Seq(1..MaxRows) /\ Len(<< >>) = 0
    BY EmptySeq
  <1>3. TypeOK
    BY <1>1, <1>2 DEF Init, TypeOK
  <1>4. \A t \in Tasks : state[t] = "none" /\ tries[t] = 0
    BY DEF Init
  <1>5. TaskInv
    BY <1>4, TaskNames DEF TaskInv, AttemptsCounted, ChunksArePlanned, StartedInOrder, NotStarted,
           Init
  <1>6. ChunkInv
    <2>1. Planned = {}
      BY <1>2 DEF Planned, Indexes, Init
    <2>2. \A c \in Indexes : GenerateAndLoad(c) \in Tasks
      BY TaskNames
    <2> QED
      BY <1>4, <2>1, <2>2 DEF ChunkInv, Init
  <1> QED
    BY <1>3, <1>5, <1>6 DEF RunInv

\* A retry, or the end.
LEMMA AfterFailureIs ==
    ASSUME TypeOK, NEW t \in Tasks
    PROVE  /\ AfterFailure(t) \in {"up_for_retry", "failed"}
           /\ AfterFailure(t) = "up_for_retry" => tries[t] <= Retries
  BY DEF TypeOK, AfterFailure

\* Any task: an error, or what it depends on has failed.
LEMMA RaiseKeepsRunInv ==
    ASSUME RunInv, NEW t \in Tasks, Raise(t) PROVE RunInv'
  <1> DEFINE to == AfterFailure(t)
  <1>1. /\ to \in {"up_for_retry", "failed"}
        /\ to = "up_for_retry" => tries[t] <= Retries
    BY AfterFailureIs DEF RunInv
  <1>2. /\ state[t] \in Labels /\ Goto(t, to) /\ tries' = tries
        /\ UNCHANGED <<params, chunks, progress>> /\ files' = files
    BY DEF Raise, data, volume
  <1> HIDE DEF to
  <1>3. TablesTyped'
    BY DEF Raise, data, volume, RunInv, TypeOK, TablesTyped
  <1>4. Moves(t, to) /\ GoesOn(t, to)
    <2>1. to \in States \ {"none"} /\ to \notin {"upstream_failed", "none"}
      BY <1>1 DEF States, Finished
    <2>2. state[t] \notin Finished /\ state[t] # "none"
      BY <1>2, KindsOfStates
    <2> QED
      BY <1>1, <1>2, <2>1, <2>2 DEF Moves, GoesOn
  <1>5. CASE t \in Singles
    <2>1. to # "success" /\ files' \subseteq files
      BY <1>1, <1>2
    <2> QED
      BY <1>2, <1>3, <1>4, <1>5, <2>1, SingleStep
  <1>6. CASE t \notin Singles
    <2>1. PICK c \in Indexes : t = GenerateAndLoad(c)
      BY <1>6, TaskNames
    <2>2. c \in Planned
      BY <1>2, <2>1, KindsOfStates DEF RunInv, ChunkInv
    <2>3. /\ to \notin {"remove", "success", "upstream_failed"}
          /\ files' \subseteq files \cup {c} /\ progress' = progress
      BY <1>1, <1>2
    <2> QED
      BY <1>2, <1>3, <1>4, <2>1, <2>2, <2>3, ChunkStep
  <1> QED
    BY <1>5, <1>6

LEMMA GiveUpKeepsRunInv ==
    ASSUME RunInv, NEW t \in Singles, GiveUp(t) PROVE RunInv'
  <1>1. t \in Tasks
    BY TaskNames
  <1>2. Moves(t, "upstream_failed") /\ GoesOn(t, "upstream_failed")
    BY <1>1 DEF GiveUp, Moves, GoesOn, States, Finished
  <1>3. TablesTyped' /\ UNCHANGED <<params, chunks, progress, files>>
    BY DEF GiveUp, data, volume, RunInv, TypeOK, TablesTyped
  <1> QED
    BY <1>2, <1>3, SingleStep

\* A step of no task that writes at most the staging table and the volume.
LEMMA OthersKeepRunInv ==
    ASSUME RunInv, Rest, staging' \in [Rows -> Nat], listed' \subseteq Indexes,
           files' \subseteq files \cup {SampleChunk}
    PROVE  RunInv'
  <1>1. /\ rowCount' = rowCount /\ chunkSize' = chunkSize /\ state' = state /\ tries' = tries
        /\ errors' = errors /\ chunks' = chunks /\ progress' = progress
        /\ fact' = fact /\ counted' = counted
    BY DEF Rest, params
  <1>2. TypeOK'
    <2>1. files' \subseteq Indexes
      BY DEF RunInv, TypeOK, SampleChunk, Indexes
    <2> QED
      BY <1>1, <2>1 DEF RunInv, TypeOK
  <1>3. Planned' = Planned /\ \A c \in Planned : SizeOf(c)' = SizeOf(c)
    BY <1>1 DEF Planned, SizeOf
  <1>4. TaskInv'
    BY <1>1, <1>3 DEF RunInv, TaskInv, AttemptsCounted, ChunksArePlanned, StartedInOrder,
                      NotStarted, AllLoaded
  <1>5. ChunkInv'
    <2>1. SampleChunk' = SampleChunk
      BY DEF SampleChunk
    <2> QED
      BY <1>1, <1>3, <2>1 DEF RunInv, ChunkInv
  <1> QED
    BY <1>2, <1>4, <1>5 DEF RunInv

\* Steps of the tasks that are not mapped but Plan.
LEMMA SinglesKeepRunInv ==
    ASSUME RunInv,
           \/ BeginPrepare \/ TruncateStaging \/ MakeDirs
           \/ BeginPlan
           \/ BeginFact \/ TruncateFact \/ InsertFact \/ CountFact
           \/ BeginValidate \/ Validate
           \/ Cleanup
    PROVE  RunInv'
  <1>0. /\ PrepareStaging \in Tasks /\ PlanTask \in Tasks /\ LoadFact \in Tasks
        /\ ValidateLoad \in Tasks /\ CleanupTask \in Tasks
        /\ PrepareStaging # PlanTask /\ PrepareStaging # LoadFact
        /\ PrepareStaging # ValidateLoad /\ PrepareStaging # CleanupTask
        /\ PlanTask # LoadFact /\ PlanTask # ValidateLoad /\ PlanTask # CleanupTask
        /\ LoadFact # ValidateLoad /\ LoadFact # CleanupTask /\ ValidateLoad # CleanupTask
        /\ Singles = {PrepareStaging, PlanTask, LoadFact, ValidateLoad, CleanupTask}
    BY TaskNames
  <1>1. TypeOK /\ TablesTyped
    BY DEF RunInv, TypeOK, TablesTyped
  <1> DEFINE Step(t, to) ==
        /\ Moves(t, to)
        /\ Starts(t, to) \/ GoesOn(t, to)
        /\ UNCHANGED <<params, chunks, progress>>
        /\ files' \subseteq files
        /\ TablesTyped'
  <1>2. CASE BeginPrepare
    <2>1. Step(PrepareStaging, "truncate")
      BY <1>0, <1>1, <1>2
      DEF BeginPrepare, Begin, Moves, Starts, States, Labels, Finished, TablesTyped, data, volume
    <2> QED
      BY <1>0, <2>1, SingleStep
  <1>3. CASE TruncateStaging
    <2>1. Step(PrepareStaging, "makedirs")
      BY <1>0, <1>1, <1>3
      DEF TruncateStaging, StagingTruncated, Empty, Moves, GoesOn, States, Labels, Finished,
          TablesTyped, volume
    <2> QED
      BY <1>0, <2>1, SingleStep
  <1>4. CASE MakeDirs
    <2>1. Step(PrepareStaging, "success")
      BY <1>0, <1>1, <1>4
      DEF MakeDirs, Moves, GoesOn, States, Labels, Finished, TablesTyped, data, volume
    <2> QED
      BY <1>0, <2>1, SingleStep
  <1>5. CASE BeginPlan
    <2>1. Step(PlanTask, "plan")
      BY <1>0, <1>1, <1>5
      DEF BeginPlan, Begin, Moves, Starts, States, Labels, Finished, TablesTyped, data, volume
    <2> QED
      BY <1>0, <2>1, SingleStep
  <1>6. CASE BeginFact
    <2>1. Step(LoadFact, "truncate")
      BY <1>0, <1>1, <1>6
      DEF BeginFact, Begin, Moves, Starts, States, Labels, Finished, TablesTyped, data, volume
    <2> QED
      BY <1>0, <2>1, SingleStep
  <1>7. CASE TruncateFact
    <2>1. Step(LoadFact, "insert")
      BY <1>0, <1>1, <1>7
      DEF TruncateFact, FactTruncated, Empty, Moves, GoesOn, States, Labels, Finished,
          TablesTyped, volume
    <2> QED
      BY <1>0, <2>1, SingleStep
  <1>8. CASE InsertFact
    <2>1. Step(LoadFact, "count")
      BY <1>0, <1>1, <1>8
      DEF InsertFact, Moves, GoesOn, States, Labels, Finished, TablesTyped, volume
    <2> QED
      BY <1>0, <2>1, SingleStep
  <1>9. CASE CountFact
    <2>1. Cardinality(Copies(fact)) \in Nat
      BY <1>1, CopiesAreFinite, FS_CardinalityType DEF TypeOK
    <2>2. Step(LoadFact, "success")
      BY <1>0, <1>1, <1>9, <2>1
      DEF CountFact, Moves, GoesOn, States, Labels, Finished, TablesTyped, volume
    <2> QED
      BY <1>0, <2>2, SingleStep
  <1>10. CASE BeginValidate
    <2>1. Step(ValidateLoad, "validate")
      BY <1>0, <1>1, <1>10
      DEF BeginValidate, Begin, Moves, Starts, States, Labels, Finished, TablesTyped, data, volume
    <2> QED
      BY <1>0, <2>1, SingleStep
  <1>11. CASE Validate
    <2> DEFINE to == IF CountIsRight THEN "success" ELSE AfterFailure(ValidateLoad)
    <2>1. /\ to \in {"success", "up_for_retry", "failed"}
          /\ to = "up_for_retry" => tries[ValidateLoad] <= Retries
      BY <1>0, <1>1, AfterFailureIs
    <2>2. /\ state[ValidateLoad] = "validate" /\ Goto(ValidateLoad, to)
          /\ UNCHANGED <<params, tries, errors, data>>
      BY <1>11 DEF Validate
    <2> HIDE DEF to
    <2>3. Step(ValidateLoad, to)
      BY <1>0, <1>1, <2>1, <2>2
      DEF Moves, GoesOn, States, Labels, Finished, TablesTyped, data, volume
    <2> QED
      BY <1>0, <2>3, SingleStep
  <1>12. CASE BeginCleanup
    <2>1. Step(CleanupTask, "list")
      BY <1>0, <1>1, <1>12
      DEF BeginCleanup, Begin, Moves, Starts, States, Labels, Finished, TablesTyped, data, volume
    <2> QED
      BY <1>0, <2>1, SingleStep
  <1>13. CASE ListFiles
    <2>1. Step(CleanupTask, "clean")
      BY <1>0, <1>1, <1>13
      DEF ListFiles, Moves, GoesOn, States, Labels, Finished, TablesTyped, TypeOK
    <2> QED
      BY <1>0, <2>1, SingleStep
  <1>14. CASE RemoveListed
    BY <1>1, <1>14, OthersKeepRunInv DEF RemoveListed, Rest, TypeOK
  <1>15. CASE ListedIsMissing
    <2>1. /\ AfterFailure(CleanupTask) \in {"up_for_retry", "failed"}
          /\ AfterFailure(CleanupTask) = "up_for_retry" => tries[CleanupTask] <= Retries
      BY <1>0, <1>1, AfterFailureIs
    <2>2. /\ state[CleanupTask] = "clean" /\ Goto(CleanupTask, AfterFailure(CleanupTask))
          /\ UNCHANGED <<params, tries, errors, data>>
      BY <1>15 DEF ListedIsMissing
    <2>3. Step(CleanupTask, AfterFailure(CleanupTask))
      BY <1>0, <1>1, <2>1, <2>2
      DEF Moves, GoesOn, States, Labels, Finished, TablesTyped, data, volume
    <2> QED
      BY <1>0, <2>3, SingleStep
  <1>16. CASE EndCleanup
    <2>1. Step(CleanupTask, "success")
      BY <1>0, <1>1, <1>16
      DEF EndCleanup, Moves, GoesOn, States, Labels, Finished, TablesTyped, data, volume
    <2> QED
      BY <1>0, <2>1, SingleStep
  <1> QED
    BY <1>2, <1>3, <1>4, <1>5, <1>6, <1>7, <1>8, <1>9, <1>10, <1>11, <1>12, <1>13, <1>14, <1>15,
       <1>16 DEF Cleanup

\* The plan is made before a mapped task is started.
LEMMA PlanKeepsRunInv ==
    ASSUME RunInv, Plan PROVE RunInv'
  <1>0. /\ PrepareStaging \in Tasks /\ PlanTask \in Tasks /\ LoadFact \in Tasks
        /\ ValidateLoad \in Tasks
        /\ PrepareStaging # PlanTask /\ PlanTask # LoadFact /\ PlanTask # ValidateLoad
        /\ \A c \in Indexes : GenerateAndLoad(c) \in Tasks /\ GenerateAndLoad(c) # PlanTask
    BY TaskNames
  <1>1. /\ state[PlanTask] = "plan" /\ Goto(PlanTask, "success")
        /\ chunks' = PlanChunks(rowCount, chunkSize)
        /\ UNCHANGED <<params, tries, errors, progress, volume, staging, fact, counted>>
    BY DEF Plan
  <1>2. Moves(PlanTask, "success") /\ GoesOn(PlanTask, "success")
    BY <1>0, <1>1 DEF Moves, GoesOn, States, Labels, Finished
  <1>3. /\ state' \in [Tasks -> States]
        /\ state'[PlanTask] = "success"
        /\ \A u \in Tasks : u # PlanTask => state'[u] = state[u]
    BY <1>2, MoveChangesOne DEF RunInv
  <1>4. AttemptsCounted' /\ tries' \in [Tasks -> 0..(Retries + 1)]
    BY <1>2, MoveCountsAttempts DEF RunInv, TaskInv
  <1>5. rowCount' = rowCount /\ chunkSize' = chunkSize
    BY <1>1 DEF params
  <1>6. rowCount \in 1..MaxRows /\ chunkSize \in Nat \ {0}
    BY DEF RunInv, TypeOK
  <1>7. chunks' \in Seq(1..MaxRows)
    <2>1. chunks' \in Seq(1..rowCount)
      BY <1>1, <1>6, SizesOfPlan
    <2> QED
      BY <1>6, <2>1
  <1>8. TypeOK'
    BY <1>1, <1>3, <1>4, <1>5, <1>7 DEF RunInv, TypeOK, States, volume
  <1>9. chunks = << >> /\ Planned = {}
    <2>1. chunks = << >>
      BY <1>1 DEF RunInv, TaskInv, ChunksArePlanned
    <2> QED
      BY <2>1, EmptySeq DEF Planned, Indexes
  <1>10. ChunksArePlanned'
    BY <1>1, <1>3, <1>5 DEF ChunksArePlanned
  <1>11. state[LoadFact] \in {"none", "upstream_failed"}
         /\ state[ValidateLoad] \in {"none", "upstream_failed"}
         /\ state[PrepareStaging] = "success"
    BY <1>1 DEF RunInv, TaskInv, StartedInOrder, NotStarted, AllLoaded
  <1>12. StartedInOrder'
    BY <1>0, <1>3, <1>11 DEF StartedInOrder, NotStarted
  <1>13. \A c \in Indexes :
            /\ state'[GenerateAndLoad(c)] = "none" /\ progress'[c] = 0
            /\ c \notin files' \ {SampleChunk}
    BY <1>0, <1>1, <1>3, <1>9 DEF RunInv, ChunkInv, volume
  <1>14. ChunkInv'
    <2>1. ASSUME NEW c \in Planned' PROVE c \in Indexes /\ chunks'[c + 1] \in 1..MaxRows
      <3>1. c \in Indexes /\ c + 1 \in 1..Len(chunks')
        BY <1>7, LenProperties DEF Planned, Indexes
      <3> QED
        BY <1>7, <3>1, ElementOfSeq
    <2> QED
      BY <1>13, <2>1 DEF ChunkInv, SizeOf
  <1> QED
    BY <1>4, <1>8, <1>10, <1>12, <1>14 DEF RunInv, TaskInv

\* A mapped task.
LEMMA ChunksKeepRunInv ==
    ASSUME RunInv, NEW c \in Indexes, Chunk(c) PROVE RunInv'
  <1> DEFINE t == GenerateAndLoad(c)
  <1>0. t \in Tasks /\ TypeOK /\ TablesTyped
    BY TaskNames DEF RunInv, TypeOK, TablesTyped
  <1>1. t \notin Singles /\ t # PlanTask /\ t # LoadFact /\ t # ValidateLoad
    BY TaskNames
  <1>2. /\ state[t] # "none" => c \in Planned
        /\ c \in Planned /\ state[t] \in {"remove", "success"} => progress[c] = SizeOf(c)
    BY DEF RunInv, ChunkInv
  <1> HIDE DEF t
  <1> DEFINE Step(to) ==
        /\ Moves(t, to)
        /\ Starts(t, to) \/ GoesOn(t, to)
        /\ to # "upstream_failed" /\ UNCHANGED <<params, chunks>>
        /\ progress' = progress \/ progress' = [progress EXCEPT ![c] = 0]
        /\ to \in {"remove", "success"} => progress'[c] = SizeOf(c)
        /\ files' \subseteq files \cup {c}
        /\ to = "success" => c \notin files'
        /\ TablesTyped'
        /\ c \in Planned
  <1>3. ASSUME NEW to, Step(to) PROVE RunInv'
    BY <1>3, ChunkStep DEF t
  <1>4. CASE BeginChunk(c)
    <2>1. Step("write")
      BY <1>0, <1>1, <1>4
      DEF BeginChunk, Begin, Moves, Starts, States, Labels, Finished, TablesTyped, volume, t
    <2> QED
      BY <2>1, <1>3
  <1>5. CASE CreateCsv(c)
    <2>1. Step("chmod")
      BY <1>0, <1>1, <1>2, <1>5
      DEF CreateCsv, Moves, GoesOn, States, Labels, Finished, TablesTyped, t
    <2> QED
      BY <2>1, <1>3
  <1>11. CASE CompleteCsv(c)
    <2>1. Step("open")
      BY <1>0, <1>1, <1>2, <1>11
      DEF CompleteCsv, Moves, GoesOn, States, Labels, Finished, TablesTyped, data, volume, t
    <2> QED
      BY <2>1, <1>3
  <1>6. CASE OpenFile(c)
    <2>1. Step("load")
      BY <1>0, <1>1, <1>2, <1>6
      DEF OpenFile, Moves, GoesOn, States, Labels, Finished, TablesTyped, data, volume, t
    <2> QED
      BY <2>1, <1>3
  <1>7. CASE LoadRows(c)
    <2>1. /\ state[t] = "load" /\ progress[c] < SizeOf(c)
          /\ staging' = [r \in Rows |-> staging[r] + (IF r \in NextRows(c) THEN 1 ELSE 0)]
          /\ progress' = [progress EXCEPT ![c] = Min({SizeOf(c), @ + LoadBatch})]
          /\ UNCHANGED <<params, state, tries, errors, chunks, volume, fact, counted>>
      BY <1>7 DEF LoadRows, t
    <2>2. c \in Planned
      BY <1>2, <2>1
    <2>3. SizeOf(c) \in 1..MaxRows
      <3>1. c + 1 \in 1..Len(chunks) /\ chunks \in Seq(1..MaxRows)
        BY <1>0, <2>2, LenProperties DEF Planned, Indexes, TypeOK
      <3> QED
        BY <3>1, ElementOfSeq DEF SizeOf
    <2>4. /\ progress' \in [Indexes -> 0..MaxRows]
          /\ \A d \in Indexes \ {c} : progress'[d] = progress[d]
          /\ progress'[c] <= SizeOf(c)
      <3>1. progress[c] \in Nat /\ progress \in [Indexes -> 0..MaxRows]
        BY <1>0 DEF TypeOK
      <3>2. Min({SizeOf(c), progress[c] + LoadBatch}) \in 0..SizeOf(c)
        BY <2>3, <3>1, MinOfTwo
      <3> QED
        BY <2>1, <2>3, <3>1, <3>2
    <2>5. TypeOK'
      <3>1. staging' \in [Rows -> Nat]
        BY <1>0, <2>1 DEF TypeOK
      <3> QED
        BY <1>0, <2>1, <2>4, <3>1 DEF TypeOK, params, volume
    <2>6. /\ Planned' = Planned /\ Planned \subseteq Indexes
          /\ \A d \in Planned : SizeOf(d)' = SizeOf(d)
          /\ AllLoaded' = AllLoaded
      BY <2>1 DEF Planned, SizeOf, AllLoaded
    <2>7. TaskInv'
      BY <2>1, <2>6 DEF RunInv, TaskInv, AttemptsCounted, ChunksArePlanned, StartedInOrder,
                        NotStarted, params
    <2>8. ChunkInv'
      <3>1. \A d \in Indexes : d # c \/ state[GenerateAndLoad(d)] = "load"
        BY <2>1 DEF t
      <3>2. \A d \in Indexes : progress'[d] = progress[d] \/ state[GenerateAndLoad(d)] = "load"
        BY <2>4, <3>1
      <3>3. \A d \in Planned : progress'[d] <= SizeOf(d)
        BY <2>4, <2>6 DEF RunInv, ChunkInv
      <3> QED
        BY <2>1, <2>2, <2>6, <3>2, <3>3 DEF RunInv, ChunkInv, volume
    <2> QED
      BY <2>5, <2>7, <2>8 DEF RunInv
  <1>8. CASE EndLoad(c)
    <2>1. Step("remove")
      BY <1>0, <1>1, <1>2, <1>8
      DEF EndLoad, Moves, GoesOn, States, Labels, Finished, TablesTyped, data, volume, t
    <2> QED
      BY <2>1, <1>3
  <1>9. CASE RemoveFile(c)
    <2>1. Step("success")
      BY <1>0, <1>1, <1>2, <1>9
      DEF RemoveFile, Moves, GoesOn, States, Labels, Finished, TablesTyped, t
    <2> QED
      BY <2>1, <1>3
  <1>10. CASE FileMissing(c)
    <2>1. /\ AfterFailure(t) \in {"up_for_retry", "failed"}
          /\ AfterFailure(t) = "up_for_retry" => tries[t] <= Retries
      BY <1>0, AfterFailureIs
    <2>2. /\ state[t] \in {"chmod", "open", "remove"} /\ Goto(t, AfterFailure(t))
          /\ UNCHANGED <<params, tries, errors, data>>
      BY <1>10 DEF FileMissing, t
    <2>3. Step(AfterFailure(t))
      BY <1>0, <1>1, <1>2, <2>1, <2>2
      DEF Moves, GoesOn, States, Labels, Finished, TablesTyped, data, volume
    <2> QED
      BY <2>3, <1>3
  <1> QED
    BY <1>4, <1>5, <1>6, <1>7, <1>8, <1>9, <1>10, <1>11 DEF Chunk

LEMMA NextKeepsRunInv == RunInv /\ Next => RunInv'
  <1> SUFFICES ASSUME RunInv, Next PROVE RunInv'
    OBVIOUS
  <1>1. ASSUME NEW c \in Indexes, Chunk(c) PROVE RunInv'
    BY <1>1, ChunksKeepRunInv
  <1>2. CASE Single
    BY <1>2, SinglesKeepRunInv, PlanKeepsRunInv DEF Single
  <1>3. ASSUME NEW t \in Singles, GiveUp(t) PROVE RunInv'
    BY <1>3, GiveUpKeepsRunInv
  <1>4. ASSUME NEW t \in Tasks, Raise(t) PROVE RunInv'
    BY <1>4, RaiseKeepsRunInv
  <1> QED
    BY <1>1, <1>2, <1>3, <1>4 DEF Next, Work

(***************************************************************************)
(* The staging table and the fact table.                                    *)
(***************************************************************************)

\* load_fact starts only when every chunk is loaded, and so does what follows it.
LEMMA BeforeFact ==
    ASSUME RunInv
    PROVE  /\ ~AllLoaded => /\ state[LoadFact] \notin {"truncate", "insert", "count", "success"}
                            /\ state[ValidateLoad] # "success"
           /\ state[ValidateLoad] = "success" => state[LoadFact] = "success"
           /\ AllLoaded => state[PrepareStaging] = "success"
  BY DEF RunInv, TaskInv, StartedInOrder, NotStarted, AllLoaded

LEMMA SameRows ==
    ASSUME chunks' = chunks
    PROVE  /\ Planned' = Planned /\ PlannedRows' = PlannedRows
           /\ \A c \in Indexes : SizeOf(c)' = SizeOf(c)
  BY DEF Planned, SizeOf, PlannedRows, RowsOf

\* No plan, no row.
LEMMA NoPlanNoRows ==
    ASSUME RunInv, state[PlanTask] # "success"
    PROVE  Planned = {} /\ PlannedRows = {} /\ ~AllLoaded
  <1>1. chunks = << >>
    BY DEF RunInv, TaskInv, ChunksArePlanned
  <1>2. Planned = {}
    BY <1>1, EmptySeq DEF Planned, Indexes
  <1> QED
    BY <1>2 DEF PlannedRows, AllLoaded

\* Steps that leave the tables, the progress and the attempts of the chunks alone.
LEMMA MoveLeavesTables ==
    ASSUME RunInv, LoadInv, NEW t, NEW to, Moves(t, to),
           chunks' = chunks, progress' = progress, staging' = staging, fact' = fact,
           counted' = counted, disturbed' = disturbed, rowCount' = rowCount,
           \A c \in Indexes : tries'[GenerateAndLoad(c)] = tries[GenerateAndLoad(c)],
           t = PrepareStaging /\ to \in {"makedirs", "success"} =>
                state[PrepareStaging] = "makedirs",
           t = LoadFact => to \notin {"insert", "count", "success"},
           t = ValidateLoad /\ to = "success" => counted = rowCount
    PROVE  LoadInv'
  <1>0. PrepareStaging \in Tasks /\ LoadFact \in Tasks /\ ValidateLoad \in Tasks
    BY TaskNames
  <1>1. /\ state'[t] = to
        /\ \A u \in Tasks : u # t => state'[u] = state[u]
        /\ \A u \in Tasks : state[u] = "success" => state'[u] = "success"
    BY MoveChangesOne DEF RunInv, Finished
  <1>2. PlannedRows' = PlannedRows
    BY SameRows
  <1>3. DagUsesStaging' => DagUsesStaging
    BY <1>0, <1>1 DEF DagUsesStaging
  <1>4. StagingFollows => StagingFollows'
    BY <1>2 DEF StagingFollows, Rows
  <1>5. FactFollows => FactFollows'
    BY <1>2 DEF FactFollows, Rows
  <1>6. /\ state'[LoadFact] = "insert" => state[LoadFact] = "insert"
        /\ state'[LoadFact] = "count" => state[LoadFact] = "count"
        /\ state'[LoadFact] = "success" => state[LoadFact] = "success"
        /\ state'[ValidateLoad] = "success" =>
            state[ValidateLoad] = "success" \/ counted = rowCount
    BY <1>0, <1>1
  <1>7. Empty' = Empty /\ Copies(fact)' = Copies(fact)
    BY DEF Empty, Copies
  <1> QED
    BY <1>3, <1>4, <1>5, <1>6, <1>7 DEF LoadInv

LEMMA InitHoldsLoadInv == Init => LoadInv
  BY TaskNames DEF Init, LoadInv, DagUsesStaging

LEMMA TruncateKeepsLoadInv ==
    ASSUME RunInv, LoadInv, disturbed' = disturbed, TruncateStaging PROVE LoadInv'
  <1>0. PrepareStaging \in Tasks /\ LoadFact \in Tasks /\ ValidateLoad \in Tasks
        /\ PrepareStaging # LoadFact /\ PrepareStaging # ValidateLoad
    BY TaskNames
  <1>1. state[PlanTask] # "success"
    BY DEF TruncateStaging, RunInv, TaskInv, StartedInOrder, NotStarted
  <1>2. PlannedRows' = {} /\ ~AllLoaded
    BY <1>1, NoPlanNoRows, SameRows DEF TruncateStaging
  <1>3. /\ state'[LoadFact] \notin {"insert", "count", "success"}
        /\ state'[ValidateLoad] # "success"
    BY <1>0, <1>2, BeforeFact DEF TruncateStaging, Goto, RunInv, TypeOK
  <1>4. StagingFollows'
    BY <1>2 DEF StagingFollows, TruncateStaging, StagingTruncated, Empty
  <1> QED
    BY <1>3, <1>4 DEF LoadInv

LEMMA PlanKeepsLoadInv ==
    ASSUME RunInv, LoadInv, disturbed' = disturbed, Plan PROVE LoadInv'
  <1>0. /\ PrepareStaging \in Tasks /\ LoadFact \in Tasks /\ ValidateLoad \in Tasks
        /\ PlanTask # PrepareStaging /\ PlanTask # LoadFact /\ PlanTask # ValidateLoad
        /\ \A c \in Indexes : GenerateAndLoad(c) \in Tasks
    BY TaskNames
  <1>1. Planned = {} /\ PlannedRows = {} /\ ~AllLoaded
    BY NoPlanNoRows DEF Plan
  <1>2. /\ state'[LoadFact] = state[LoadFact]
        /\ state'[ValidateLoad] = state[ValidateLoad]
        /\ state'[PrepareStaging] = state[PrepareStaging]
    BY <1>0 DEF Plan, Goto, RunInv, TypeOK
  <1>3. /\ state'[LoadFact] \notin {"insert", "count", "success"}
        /\ state'[ValidateLoad] # "success"
    BY <1>1, <1>2, BeforeFact
  <1>4. DagUsesStaging' => DagUsesStaging
    BY <1>2 DEF DagUsesStaging
  <1>5. \A c \in Indexes : progress[c] = 0
    BY <1>1 DEF RunInv, ChunkInv
  <1>6. \A r \in Rows : r[1] \in Indexes /\ r[2] \in Nat
    BY DEF Rows, Indexes
  <1>7. ASSUME StagingFollows PROVE StagingFollows'
    <2>1. \A r \in Rows : staging'[r] = 0 /\ progress'[r[1]] = 0
      BY <1>1, <1>5, <1>6, <1>7 DEF StagingFollows, Plan
    <2> QED
      BY <1>6, <2>1 DEF StagingFollows
  <1> QED
    BY <1>3, <1>4, <1>7 DEF LoadInv

\* A chunk that is attempted again has been attempted before.
LEMMA BeginChunkKeepsLoadInv ==
    ASSUME RunInv, LoadInv, disturbed' = disturbed, NEW c \in Indexes, BeginChunk(c)
    PROVE  LoadInv'
  <1> DEFINE t == GenerateAndLoad(c)
  <1>0. /\ PrepareStaging \in Tasks /\ LoadFact \in Tasks /\ ValidateLoad \in Tasks /\ t \in Tasks
        /\ t # PrepareStaging /\ t # LoadFact /\ t # ValidateLoad
        /\ \A d \in Indexes \ {c} : GenerateAndLoad(d) \in Tasks \ {t}
    BY TaskNames
  <1>1. /\ state \in [Tasks -> States] /\ tries \in [Tasks -> 0..(Retries + 1)]
        /\ progress \in [Indexes -> 0..MaxRows]
    BY DEF RunInv, TypeOK, States
  <1>2. /\ c \in Planned /\ state[t] \in {"none", "up_for_retry"}
        /\ tries' = [tries EXCEPT ![t] = @ + 1]
        /\ state' = [state EXCEPT ![t] = "write"]
        /\ progress' = [progress EXCEPT ![c] = 0]
        /\ chunks' = chunks /\ staging' = staging /\ fact' = fact /\ counted' = counted
    BY DEF BeginChunk, Begin, Goto
  <1>3. /\ state[t] = "none" => progress[c] = 0
        /\ state[t] = "up_for_retry" => tries[t] >= 1
    BY <1>0 DEF RunInv, TaskInv, ChunkInv, AttemptsCounted, NotStarted
  <1>4. ~AllLoaded
    BY <1>2 DEF AllLoaded
  <1> HIDE DEF t
  <1>5. /\ state'[LoadFact] = state[LoadFact]
        /\ state'[ValidateLoad] = state[ValidateLoad]
        /\ state'[PrepareStaging] = state[PrepareStaging]
    BY <1>0, <1>1, <1>2
  <1>6. /\ state'[LoadFact] \notin {"insert", "count", "success"}
        /\ state'[ValidateLoad] # "success"
    BY <1>4, <1>5, BeforeFact
  <1>7. DagUsesStaging' => DagUsesStaging
    BY <1>5 DEF DagUsesStaging
  <1>8. PlannedRows' = PlannedRows
    BY <1>2, SameRows
  <1>9. ASSUME StagingFollows, NEW r \in Rows, r \in PlannedRows
        PROVE  /\ r[2] < progress'[r[1]] => staging[r] >= 1
               /\ tries'[GenerateAndLoad(r[1])] <= 1 =>
                    staging[r] = IF r[2] < progress'[r[1]] THEN 1 ELSE 0
    <2>1. /\ r[2] < progress[r[1]] => staging[r] >= 1
          /\ tries[GenerateAndLoad(r[1])] <= 1 =>
                staging[r] = IF r[2] < progress[r[1]] THEN 1 ELSE 0
          /\ r[1] \in Indexes /\ r[2] \in Nat
      BY <1>9 DEF StagingFollows, Rows, Indexes
    <2>2. CASE r[1] # c
      <3>1. /\ progress'[r[1]] = progress[r[1]]
            /\ tries'[GenerateAndLoad(r[1])] = tries[GenerateAndLoad(r[1])]
        BY <1>0, <1>1, <1>2, <2>1, <2>2
      <3> QED
        BY <2>1, <3>1
    <2>3. CASE r[1] = c
      <3>1. /\ progress'[r[1]] = 0 /\ GenerateAndLoad(r[1]) = t
            /\ tries[t] \in Nat /\ tries'[t] = tries[t] + 1
        BY <1>0, <1>1, <1>2, <2>1, <2>3 DEF t
      <3>2. tries'[t] <= 1 => progress[r[1]] = 0 /\ tries[t] <= 1
        BY <1>2, <1>3, <2>3, <3>1
      <3> QED
        BY <2>1, <2>3, <3>1, <3>2
    <2> QED
      BY <2>2, <2>3
  <1>10. ASSUME StagingFollows PROVE StagingFollows'
    <2>1. \A r \in Rows : r \notin PlannedRows => staging[r] = 0
      BY <1>10 DEF StagingFollows
    <2> QED
      BY <1>2, <1>8, <1>9, <1>10, <2>1 DEF StagingFollows
  <1> QED
    BY <1>6, <1>7, <1>10 DEF LoadInv

LEMMA LoadRowsKeepsLoadInv ==
    ASSUME RunInv, LoadInv, disturbed' = disturbed, NEW c \in Indexes, LoadRows(c)
    PROVE  LoadInv'
  <1>1. /\ state[GenerateAndLoad(c)] = "load" /\ progress[c] < SizeOf(c)
        /\ staging' = [r \in Rows |-> staging[r] + (IF r \in NextRows(c) THEN 1 ELSE 0)]
        /\ progress' = [progress EXCEPT ![c] = Min({SizeOf(c), @ + LoadBatch})]
        /\ state' = state /\ tries' = tries /\ chunks' = chunks
    BY DEF LoadRows
  <1>2. /\ staging \in [Rows -> Nat] /\ progress \in [Indexes -> 0..MaxRows]
        /\ chunks \in Seq(1..MaxRows)
    BY DEF RunInv, TypeOK
  <1>3. c \in Planned /\ ~AllLoaded
    BY <1>1 DEF RunInv, ChunkInv, AllLoaded
  <1>4. SizeOf(c) \in 1..MaxRows
    <2>1. c + 1 \in 1..Len(chunks)
      BY <1>2, <1>3, LenProperties DEF Planned, Indexes
    <2> QED
      BY <1>2, <2>1, ElementOfSeq DEF SizeOf
  <1>5. /\ state'[LoadFact] \notin {"insert", "count", "success"}
        /\ state'[ValidateLoad] # "success"
    BY <1>1, <1>3, BeforeFact
  <1>6. DagUsesStaging' => DagUsesStaging
    BY <1>1 DEF DagUsesStaging
  <1>7. PlannedRows' = PlannedRows
    BY <1>1, SameRows
  <1>8. /\ \A d \in Indexes \ {c} : progress'[d] = progress[d]
        /\ progress'[c] = IF SizeOf(c) <= progress[c] + LoadBatch THEN SizeOf(c)
                          ELSE progress[c] + LoadBatch
    <2>1. progress[c] + LoadBatch \in Nat
      BY <1>2
    <2>2. progress'[c] = Min({SizeOf(c), progress[c] + LoadBatch})
      BY <1>1, <1>2
    <2>3. SizeOf(c) \in Nat
      BY <1>4
    <2> QED
      BY <1>1, <1>2, <2>1, <2>2, <2>3, MinOfTwo
  <1>9. ASSUME NEW r \in Rows
        PROVE  /\ r[1] \in Indexes /\ r[2] \in Nat /\ staging[r] \in Nat
               /\ r \in NextRows(c) <=> /\ r[1] = c /\ r[2] < SizeOf(c)
                                        /\ r[2] >= progress[c] /\ r[2] < progress[c] + LoadBatch
               /\ r \in PlannedRows <=> r[1] \in Planned /\ r[2] < SizeOf(r[1])
    <2>1. r[1] \in Indexes /\ r[2] \in Nat /\ staging[r] \in Nat
      BY <1>2 DEF Rows, Indexes
    <2>2. \A d : r \in RowsOf(d) <=> r[1] = d /\ r[2] < SizeOf(d)
      BY DEF RowsOf
    <2>3. r \in PlannedRows <=> r[1] \in Planned /\ r[2] < SizeOf(r[1])
      BY <2>2 DEF PlannedRows
    <2>4. progress[c] \in Nat
      BY <1>2
    <2>5. r \in NextRows(c) <=> /\ r[1] = c /\ r[2] < SizeOf(c)
                               /\ r[2] >= progress[c] /\ r[2] < progress[c] + LoadBatch
      BY <2>1, <2>2, <2>4 DEF NextRows
    <2> QED
      BY <2>1, <2>3, <2>5
  <1>10. ASSUME StagingFollows, NEW r \in Rows
         PROVE  /\ r \notin PlannedRows => staging'[r] = 0
                /\ r \in PlannedRows =>
                    /\ r[2] < progress'[r[1]] => staging'[r] >= 1
                    /\ tries[GenerateAndLoad(r[1])] <= 1 =>
                        staging'[r] = IF r[2] < progress'[r[1]] THEN 1 ELSE 0
    <2>1. /\ r \notin PlannedRows => staging[r] = 0
          /\ r \in PlannedRows =>
              /\ r[2] < progress[r[1]] => staging[r] >= 1
              /\ tries[GenerateAndLoad(r[1])] <= 1 =>
                    staging[r] = IF r[2] < progress[r[1]] THEN 1 ELSE 0
      BY <1>10 DEF StagingFollows
    <2>2. CASE r \in NextRows(c)
      <3>1. /\ r \in PlannedRows /\ r[1] = c /\ ~(r[2] < progress[r[1]])
            /\ r[2] < progress'[r[1]]
        BY <1>2, <1>3, <1>4, <1>8, <1>9, <2>2
      <3>2. staging'[r] = staging[r] + 1 /\ staging[r] \in Nat
        BY <1>1, <1>9, <2>2
      <3> QED
        BY <2>1, <3>1, <3>2
    <2>3. CASE r \notin NextRows(c)
      <3>1. staging'[r] = staging[r]
        BY <1>1, <1>9, <2>3
      <3>2. r \in PlannedRows => (r[2] < progress'[r[1]] <=> r[2] < progress[r[1]])
        <4>1. CASE r[1] # c
          BY <1>8, <1>9, <4>1
        <4>2. CASE r[1] = c
          <5>1. progress[c] \in Nat /\ SizeOf(c) \in Nat /\ r[2] \in Nat
            BY <1>2, <1>4, <1>9
          <5>2. r \in PlannedRows => r[2] < SizeOf(c)
            BY <1>9, <4>2
          <5>3. r \in PlannedRows => r[2] < progress[c] \/ r[2] >= progress[c] + LoadBatch
            BY <1>9, <2>3, <4>2, <5>1, <5>2
          <5> QED
            BY <1>1, <1>8, <4>2, <5>1, <5>2, <5>3
        <4> QED
          BY <4>1, <4>2
      <3> QED
        BY <2>1, <3>1, <3>2
    <2> QED
      BY <2>2, <2>3
  <1>11. ASSUME StagingFollows PROVE StagingFollows'
    BY <1>1, <1>7, <1>10, <1>11 DEF StagingFollows
  <1> QED
    BY <1>5, <1>6, <1>11 DEF LoadInv

LEMMA FactStepsKeepLoadInv ==
    ASSUME RunInv, LoadInv, disturbed' = disturbed, TruncateFact \/ InsertFact \/ CountFact
    PROVE  LoadInv'
  <1>0. /\ PrepareStaging \in Tasks /\ LoadFact \in Tasks /\ ValidateLoad \in Tasks
        /\ LoadFact # PrepareStaging /\ LoadFact # ValidateLoad
    BY TaskNames
  <1>1. state \in [Tasks -> States] /\ staging \in [Rows -> Nat] /\ fact \in [Rows -> Nat]
    BY DEF RunInv, TypeOK, States
  <1>2. /\ state[LoadFact] \in {"truncate", "insert", "count"}
        /\ staging' = staging /\ chunks' = chunks /\ progress' = progress /\ tries' = tries
        /\ \A u \in Tasks : u # LoadFact => state'[u] = state[u]
    BY <1>0, <1>1 DEF TruncateFact, InsertFact, CountFact, Goto
  <1>3. AllLoaded /\ DagUsesStaging
    BY <1>2, BeforeFact DEF DagUsesStaging
  <1>4. state'[ValidateLoad] # "success"
    BY <1>0, <1>2, BeforeFact
  <1>5. PlannedRows' = PlannedRows
    BY <1>2, SameRows
  <1>6. StagingFollows => StagingFollows'
    BY <1>2, <1>5 DEF StagingFollows
  <1>7. CASE TruncateFact
    <2>1. state'[LoadFact] = "insert" /\ fact' = Empty'
      BY <1>0, <1>1, <1>7 DEF TruncateFact, FactTruncated, Goto, Empty
    <2> QED
      BY <1>3, <1>4, <1>6, <2>1 DEF LoadInv
  <1>8. CASE InsertFact
    <2>1. state'[LoadFact] = "count"
      BY <1>0, <1>1, <1>8 DEF InsertFact, Goto
    <2>2. fact = Empty
      BY <1>8 DEF InsertFact, LoadInv
    <2>3. fact' = staging'
      BY <1>1, <1>2, <1>8, <2>2 DEF InsertFact, Empty
    <2> QED
      BY <1>3, <1>4, <1>6, <2>1, <2>3 DEF LoadInv
  <1>9. CASE CountFact
    <2>1. state'[LoadFact] = "success" /\ fact' = fact /\ counted' = Cardinality(Copies(fact))
      BY <1>0, <1>1, <1>9 DEF CountFact, Goto
    <2>2. Copies(fact)' = Copies(fact)
      BY <2>1 DEF Copies
    <2>3. ~disturbed => StagingFollows /\ fact = staging
      BY <1>3, <1>9 DEF CountFact, LoadInv
    <2>4. ASSUME StagingFollows, fact = staging PROVE FactFollows'
      <3>1. ASSUME NEW r \in PlannedRows PROVE r[2] < progress[r[1]]
        <4>1. r[1] \in Planned /\ r[2] < SizeOf(r[1])
          BY RowOfChunk
        <4>2. progress[r[1]] = SizeOf(r[1])
          BY <1>3, <4>1 DEF AllLoaded, RunInv, ChunkInv
        <4> QED
          BY <4>1, <4>2
      <3> QED
        BY <1>2, <1>5, <2>1, <2>4, <3>1 DEF StagingFollows, FactFollows
    <2>5. ~disturbed' => FactFollows'
      BY <2>3, <2>4
    <2>6. ~DagUsesStaging'
      BY <2>1 DEF DagUsesStaging
    <2> QED
      BY <1>4, <2>1, <2>2, <2>5, <2>6 DEF LoadInv
  <1> QED
    BY <1>7, <1>8, <1>9

\* The other steps of mapped tasks.
LEMMA ChunksKeepLoadInv ==
    ASSUME RunInv, LoadInv, disturbed' = disturbed, NEW c \in Indexes, Chunk(c) PROVE LoadInv'
  <1> DEFINE t == GenerateAndLoad(c)
  <1>0. t \in Tasks /\ t \notin Singles /\ PlanTask \in Singles
        /\ PrepareStaging \in Singles /\ LoadFact \in Singles /\ ValidateLoad \in Singles
    BY TaskNames
  <1> HIDE DEF t
  <1>1. ASSUME NEW to, to \in States \ {"none"}, state[t] \in Labels, Goto(t, to),
               UNCHANGED <<params, tries, chunks, progress, staging, fact, counted>>
        PROVE  LoadInv'
    <2>1. Moves(t, to)
      BY <1>0, <1>1, KindsOfStates DEF Moves
    <2>2. t # PrepareStaging /\ t # LoadFact /\ t # ValidateLoad
      BY <1>0
    <2>3. rowCount' = rowCount
      BY <1>1 DEF params
    <2> QED
      BY <1>1, <2>1, <2>2, <2>3, MoveLeavesTables
  <1>2. CASE BeginChunk(c)
    BY <1>2, BeginChunkKeepsLoadInv
  <1>3. CASE CreateCsv(c)
    BY <1>1, <1>3 DEF CreateCsv, States, Labels, t
  <1>9. CASE CompleteCsv(c)
    BY <1>1, <1>9 DEF CompleteCsv, States, Labels, data, volume, t
  <1>4. CASE OpenFile(c)
    BY <1>1, <1>4 DEF OpenFile, States, Labels, data, volume, t
  <1>5. CASE LoadRows(c)
    BY <1>5, LoadRowsKeepsLoadInv
  <1>6. CASE EndLoad(c)
    BY <1>1, <1>6 DEF EndLoad, States, Labels, data, volume, t
  <1>7. CASE RemoveFile(c)
    BY <1>1, <1>7 DEF RemoveFile, States, Labels, Finished, t
  <1>8. CASE FileMissing(c)
    <2>1. AfterFailure(t) \in {"up_for_retry", "failed"}
      BY <1>0, AfterFailureIs DEF RunInv
    <2>2. /\ AfterFailure(t) \in States \ {"none"} /\ state[t] \in Labels
          /\ Goto(t, AfterFailure(t))
          /\ UNCHANGED <<params, tries, chunks, progress, staging, fact, counted>>
      BY <1>8, <2>1 DEF FileMissing, States, Labels, Finished, data, volume, t
    <2> QED
      BY <1>1, <2>2
  <1> QED
    BY <1>2, <1>3, <1>4, <1>5, <1>6, <1>7, <1>8, <1>9 DEF Chunk

\* Who writes the staging table while the DAG uses it disturbs it.
LEMMA OthersKeepLoadInv ==
    ASSUME RunInv, LoadInv, Rest,
           \/ staging' = staging /\ disturbed' = disturbed
           \/ disturbed' = (disturbed \/ DagUsesStaging)
    PROVE  LoadInv'
  <1>1. /\ \/ staging' = staging /\ disturbed' = disturbed
           \/ disturbed' = (disturbed \/ DagUsesStaging)
        /\ rowCount' = rowCount /\ state' = state /\ tries' = tries
        /\ chunks' = chunks /\ progress' = progress /\ fact' = fact /\ counted' = counted
    BY DEF Rest, params
  <1>2. /\ DagUsesStaging' = DagUsesStaging /\ Copies(fact)' = Copies(fact)
        /\ PlannedRows' = PlannedRows /\ Empty' = Empty
    BY <1>1, SameRows DEF DagUsesStaging, Copies, Empty
  <1>3. FactFollows' = FactFollows
    BY <1>1, <1>2 DEF FactFollows
  <1>4. state[LoadFact] = "count" => DagUsesStaging
    BY BeforeFact DEF DagUsesStaging
  <1>5. CASE staging' = staging /\ disturbed' = disturbed
    <2>1. StagingFollows' = StagingFollows
      BY <1>1, <1>2, <1>5 DEF StagingFollows
    <2> QED
      BY <1>1, <1>2, <1>3, <1>5, <2>1 DEF LoadInv
  <1>6. CASE disturbed' = (disturbed \/ DagUsesStaging)
    BY <1>1, <1>2, <1>3, <1>4, <1>6 DEF LoadInv
  <1> QED
    BY <1>1, <1>5, <1>6

\* The other steps of the tasks that are not mapped, errors and given up tasks.
LEMMA SinglesKeepLoadInv ==
    ASSUME RunInv, LoadInv, disturbed' = disturbed, Single PROVE LoadInv'
  <1>0. /\ PrepareStaging \in Tasks /\ PlanTask \in Tasks /\ LoadFact \in Tasks
        /\ ValidateLoad \in Tasks /\ CleanupTask \in Tasks
        /\ PrepareStaging # LoadFact /\ PrepareStaging # ValidateLoad
        /\ PrepareStaging # PlanTask /\ PrepareStaging # CleanupTask
        /\ PlanTask # LoadFact /\ PlanTask # ValidateLoad /\ PlanTask # CleanupTask
        /\ LoadFact # ValidateLoad /\ LoadFact # CleanupTask /\ ValidateLoad # CleanupTask
        /\ \A c \in Indexes : GenerateAndLoad(c) \in Tasks \ Singles
        /\ Singles = {PrepareStaging, PlanTask, LoadFact, ValidateLoad, CleanupTask}
    BY TaskNames
  <1> DEFINE Step(t, to) ==
        /\ Moves(t, to)
        /\ chunks' = chunks /\ progress' = progress /\ staging' = staging /\ fact' = fact
        /\ counted' = counted /\ rowCount' = rowCount
        /\ tries' = tries \/ tries' = [tries EXCEPT ![t] = @ + 1]
        /\ t = PrepareStaging /\ to \in {"makedirs", "success"} =>
                state[PrepareStaging] = "makedirs"
        /\ t = LoadFact => to \notin {"insert", "count", "success"}
        /\ t = ValidateLoad /\ to = "success" => counted = rowCount
  <1>1. ASSUME NEW t \in Singles, NEW to, Step(t, to) PROVE LoadInv'
    <2>1. \A c \in Indexes : tries'[GenerateAndLoad(c)] = tries[GenerateAndLoad(c)]
      BY <1>0, <1>1 DEF RunInv, TypeOK
    <2> QED
      BY <1>1, <2>1, MoveLeavesTables
  <1>2. CASE BeginPrepare
    <2>1. Step(PrepareStaging, "truncate")
      BY <1>0, <1>2 DEF BeginPrepare, Begin, Moves, States, Labels, Finished, data, volume, params
    <2> QED
      BY <1>0, <1>1, <2>1
  <1>3. CASE MakeDirs
    <2>1. Step(PrepareStaging, "success")
      BY <1>0, <1>3 DEF MakeDirs, Moves, States, Labels, Finished, data, volume, params
    <2> QED
      BY <1>0, <1>1, <2>1
  <1>4. CASE BeginPlan
    <2>1. Step(PlanTask, "plan")
      BY <1>0, <1>4 DEF BeginPlan, Begin, Moves, States, Labels, Finished, data, volume, params
    <2> QED
      BY <1>0, <1>1, <2>1
  <1>5. CASE BeginFact
    <2>1. Step(LoadFact, "truncate")
      BY <1>0, <1>5 DEF BeginFact, Begin, Moves, States, Labels, Finished, data, volume, params
    <2> QED
      BY <1>0, <1>1, <2>1
  <1>6. CASE BeginValidate
    <2>1. Step(ValidateLoad, "validate")
      BY <1>0, <1>6 DEF BeginValidate, Begin, Moves, States, Labels, Finished, data, volume, params
    <2> QED
      BY <1>0, <1>1, <2>1
  <1>7. CASE Validate
    <2> DEFINE to == IF CountIsRight THEN "success" ELSE AfterFailure(ValidateLoad)
    <2>1. /\ to \in {"success", "up_for_retry", "failed"}
          /\ to = "success" => counted = rowCount
      BY <1>0, AfterFailureIs DEF RunInv, CountIsRight
    <2>2. /\ state[ValidateLoad] = "validate" /\ Goto(ValidateLoad, to)
          /\ UNCHANGED <<params, tries, errors, data>>
      BY <1>7 DEF Validate
    <2> HIDE DEF to
    <2>3. Step(ValidateLoad, to)
      BY <1>0, <2>1, <2>2 DEF Moves, States, Labels, Finished, data, volume, params
    <2> QED
      BY <1>0, <1>1, <2>3
  <1>8. CASE BeginCleanup
    <2>1. Step(CleanupTask, "list")
      BY <1>0, <1>8 DEF BeginCleanup, Begin, Moves, States, Labels, Finished, data, volume, params
    <2> QED
      BY <1>0, <1>1, <2>1
  <1>9. CASE ListFiles
    <2>1. Step(CleanupTask, "clean")
      BY <1>0, <1>9 DEF ListFiles, Moves, States, Labels, Finished, params
    <2> QED
      BY <1>0, <1>1, <2>1
  <1>10. CASE RemoveListed
    BY <1>10, OthersKeepLoadInv DEF RemoveListed, Rest
  <1>11. CASE ListedIsMissing
    <2>1. AfterFailure(CleanupTask) \in {"up_for_retry", "failed"}
      BY <1>0, AfterFailureIs DEF RunInv
    <2>2. Step(CleanupTask, AfterFailure(CleanupTask))
      BY <1>0, <1>11, <2>1
      DEF ListedIsMissing, Moves, States, Labels, Finished, data, volume, params
    <2> QED
      BY <1>0, <1>1, <2>2
  <1>12. CASE EndCleanup
    <2>1. Step(CleanupTask, "success")
      BY <1>0, <1>12 DEF EndCleanup, Moves, States, Labels, Finished, data, volume, params
    <2> QED
      BY <1>0, <1>1, <2>1
  <1> QED
    BY <1>2, <1>3, <1>4, <1>5, <1>6, <1>7, <1>8, <1>9, <1>10, <1>11, <1>12, TruncateKeepsLoadInv,
       PlanKeepsLoadInv, FactStepsKeepLoadInv DEF Single, Cleanup

LEMMA FailuresKeepLoadInv ==
    ASSUME RunInv, LoadInv, disturbed' = disturbed,
           NEW t \in Tasks, NEW to \in {"up_for_retry", "failed", "upstream_failed"},
           state[t] \notin Finished, state[t] = "none" => to = "upstream_failed",
           Goto(t, to), UNCHANGED <<params, tries, data>>
    PROVE  LoadInv'
  <1>1. Moves(t, to)
    BY DEF Moves, States, Finished
  <1>2. /\ chunks' = chunks /\ progress' = progress /\ staging' = staging /\ fact' = fact
        /\ counted' = counted /\ rowCount' = rowCount /\ tries' = tries
        /\ to \notin {"makedirs", "success", "insert", "count"}
    BY DEF data, volume, params
  <1> QED
    BY <1>1, <1>2, MoveLeavesTables

LEMMA NextKeepsLoadInv == RunInv /\ LoadInv /\ Next /\ disturbed' = disturbed => LoadInv'
  <1> SUFFICES ASSUME RunInv, LoadInv, Next, disturbed' = disturbed PROVE LoadInv'
    OBVIOUS
  <1>1. ASSUME NEW c \in Indexes, Chunk(c) PROVE LoadInv'
    BY <1>1, ChunksKeepLoadInv
  <1>2. CASE Single
    BY <1>2, SinglesKeepLoadInv
  <1>3. ASSUME NEW t \in Singles, GiveUp(t) PROVE LoadInv'
    <2>1. t \in Tasks /\ state[t] \notin Finished
      BY <1>3, TaskNames DEF GiveUp, Finished
    <2> QED
      BY <1>3, <2>1, FailuresKeepLoadInv DEF GiveUp
  <1>4. ASSUME NEW t \in Tasks, Raise(t) PROVE LoadInv'
    <2>1. /\ state[t] \notin Finished \cup {"none"}
          /\ AfterFailure(t) \in {"up_for_retry", "failed", "upstream_failed"}
      BY <1>4, KindsOfStates, AfterFailureIs DEF Raise, RunInv
    <2> QED
      BY <1>4, <2>1, FailuresKeepLoadInv DEF Raise
  <1> QED
    BY <1>1, <1>2, <1>3, <1>4 DEF Next, Work

\* What the benchmark does.
LEMMA BenchmarkSteps ==
    ASSUME RunInv, Benchmark
    PROVE  /\ Rest /\ staging' \in [Rows -> Nat] /\ listed' = listed
           /\ files' \subseteq files \cup {SampleChunk}
           /\ \/ staging' = staging /\ disturbed' = disturbed
              \/ disturbed' = (disturbed \/ DagUsesStaging)
  <1>1. staging \in [Rows -> Nat]
    BY DEF RunInv, TypeOK
  <1>2. Empty \in [Rows -> Nat]
    BY DEF Empty
  <1>3. CASE WriteSample
    BY <1>1, <1>3 DEF WriteSample, dag, Rest
  <1>4. CASE Reset
    BY <1>2, <1>4 DEF Reset, WriteStaging, dag, Rest
  <1>5. CASE LoadSample
    <2> DEFINE upTo == Min({SampleSize[measure], measured + BatchOf[measure]})
               rows == {<<SampleChunk, i>> : i \in measured..(upTo - 1)}
    <2> HIDE DEF upTo, rows
    <2>1. /\ WriteStaging([r \in Rows |-> staging[r] + (IF r \in rows THEN 1 ELSE 0)])
          /\ UNCHANGED <<dag, files>>
      BY <1>5 DEF LoadSample, upTo, rows
    <2>2. [r \in Rows |-> staging[r] + (IF r \in rows THEN 1 ELSE 0)] \in [Rows -> Nat]
      BY <1>1
    <2> QED
      BY <2>1, <2>2 DEF WriteStaging, dag, Rest
  <1>6. CASE RemoveSample
    BY <1>1, <1>6 DEF RemoveSample, dag, Rest
  <1>7. CASE BenchmarkFails
    BY <1>1, <1>7 DEF BenchmarkFails, dag, Rest
  <1> QED
    BY <1>3, <1>4, <1>5, <1>6, <1>7 DEF Benchmark

LEMMA OneCopyOfEach ==
    ASSUME HasPlan PROVE Cardinality(PlannedRows \X {1}) = rowCount
  <1>1. IsFiniteSet({1}) /\ Cardinality({1}) = 1
    BY FS_Singleton
  <1>2. Cardinality(PlannedRows \X {1}) = rowCount * 1
    BY <1>1, PlannedRowsCounted, FS_Product
  <1> QED
    BY <1>2, PlanOfTheRun

\* A table that holds every planned row, no other, and as many rows as were planned
\* holds each of them once.
LEMMA CountingIsEnough ==
    ASSUME HasPlan, NEW table \in [Rows -> Nat],
           \A r \in Rows : r \notin PlannedRows => table[r] = 0,
           \A r \in PlannedRows : table[r] >= 1,
           Cardinality(Copies(table)) = rowCount
    PROVE  \A r \in PlannedRows : table[r] = 1
  <1> DEFINE once == PlannedRows \X {1}
  <1>0. PlannedRows \subseteq Rows
    BY DEF PlannedRows, RowsOf
  <1>1. Cardinality(once) = rowCount
    BY OneCopyOfEach
  <1>2. once \in SUBSET Copies(table)
    <2>1. ASSUME NEW r \in PlannedRows PROVE <<r, 1>> \in Copies(table)
      <3>1. r \in Rows /\ 1 \in 1..table[r]
        BY <1>0
      <3>2. <<r, 1>> \in {r} \X (1..table[r])
        BY <3>1
      <3> QED
        BY <3>1, <3>2 DEF Copies
    <2>2. \A x \in once : x = <<x[1], 1>> /\ x[1] \in PlannedRows
      OBVIOUS
    <2> QED
      BY <2>1, <2>2
  <1>3. Copies(table) = once
    <2> HIDE DEF once
    <2> QED
      BY <1>1, <1>2, CopiesAreFinite, FS_Subset
  <1>4. ASSUME NEW r \in PlannedRows, table[r] # 1 PROVE FALSE
    <2>1. r \in Rows /\ 2 \in 1..table[r]
      BY <1>0, <1>4
    <2>2. <<r, 2>> \in {r} \X (1..table[r])
      BY <2>1
    <2>3. <<r, 2>> \in Copies(table)
      BY <2>1, <2>2 DEF Copies
    <2>4. <<r, 2>> \in once
      BY <1>3, <2>3
    <2> QED
      BY <2>4
  <1> QED
    BY <1>4

\* A table that holds every planned row once, and no other, holds what was planned.
LEMMA OnceIsCounted ==
    ASSUME HasPlan, NEW table \in [Rows -> Nat],
           \A r \in Rows : table[r] = IF r \in PlannedRows THEN 1 ELSE 0
    PROVE  Cardinality(Copies(table)) = rowCount
  <1> DEFINE once == PlannedRows \X {1}
  <1>0. PlannedRows \subseteq Rows
    BY DEF PlannedRows, RowsOf
  <1>1. Cardinality(once) = rowCount
    BY OneCopyOfEach
  <1>2. \A r \in Rows : 1..table[r] = IF r \in PlannedRows THEN {1} ELSE {}
    <2>1. 1..1 = {1} /\ 1..0 = {}
      OBVIOUS
    <2> QED
      BY <2>1
  <1>3. Copies(table) = UNION {{r} \X (IF r \in PlannedRows THEN {1} ELSE {}) : r \in Rows}
    BY <1>2 DEF Copies
  <1>4. \A x : x \in Copies(table) <=> x \in once
    <2>1. ASSUME NEW x, x \in Copies(table) PROVE x \in once
      <3>1. PICK r \in Rows : x \in {r} \X (IF r \in PlannedRows THEN {1} ELSE {})
        BY <1>3, <2>1
      <3> QED
        BY <3>1
    <2>2. ASSUME NEW x, x \in once PROVE x \in Copies(table)
      <3>1. PICK r \in PlannedRows : x = <<r, 1>>
        BY <2>2
      <3>2. r \in Rows /\ x \in {r} \X (IF r \in PlannedRows THEN {1} ELSE {})
        BY <1>0, <3>1
      <3> QED
        BY <1>3, <3>2
    <2> QED
      BY <2>1, <2>2
  <1>5. Copies(table) = once
    BY <1>4
  <1> QED
    BY <1>1, <1>5

(***************************************************************************)
(* The theorems.                                                            *)
(***************************************************************************)

LEMMA BenchmarkSpecInv == BenchmarkSpec => [](RunInv /\ LoadInv)
  <1>1. BenchmarkInit => RunInv /\ LoadInv
    BY InitHoldsRunInv, InitHoldsLoadInv DEF BenchmarkInit
  <1>2. RunInv /\ LoadInv /\ [BenchmarkNext]_<<vars, benchmark>> => (RunInv /\ LoadInv)'
    <2> SUFFICES ASSUME RunInv, LoadInv, [BenchmarkNext]_<<vars, benchmark>>
                 PROVE  RunInv' /\ LoadInv'
      OBVIOUS
    <2>1. CASE Benchmark
      <3>1. listed \subseteq Indexes
        BY DEF RunInv, TypeOK
      <3> QED
        BY <2>1, <3>1, BenchmarkSteps, OthersKeepRunInv, OthersKeepLoadInv
    <2>2. CASE Next /\ UNCHANGED benchmark
      <3>1. disturbed' = disturbed
        BY <2>2 DEF benchmark
      <3> QED
        BY <2>2, <3>1, NextKeepsRunInv, NextKeepsLoadInv
    <2>3. CASE UNCHANGED <<vars, benchmark>>
      <3>1. Rest /\ UNCHANGED <<staging, files, listed, disturbed>>
        BY <2>3 DEF vars, benchmark, data, volume, Rest
      <3>2. staging' \in [Rows -> Nat] /\ listed' \subseteq Indexes
        BY <3>1 DEF RunInv, TypeOK
      <3> QED
        BY <3>1, <3>2, OthersKeepRunInv, OthersKeepLoadInv
    <2> QED
      BY <2>1, <2>2, <2>3 DEF BenchmarkNext
  <1> QED
    BY <1>1, <1>2, PTL DEF BenchmarkSpec

\* No task is attempted more often than once and its retries, however many errors
\* there are and whatever the benchmark does (load_order_history_dag.py: retries).
THEOREM LoadTypeCorrect == BenchmarkSpec => []TypeOK
  <1>1. RunInv => TypeOK
    BY DEF RunInv
  <1> QED
    BY <1>1, BenchmarkSpecInv, PTL

\* For any row_count that is a multiple of chunk_size, the formula of generate_rows
\* gives every row of the run its own order_uid.
THEOREM WholeChunksHaveUniqueUids == BenchmarkSpec => []UidsUniqueForWholeChunks
  <1>1. RunInv => UidsUniqueForWholeChunks
    <2> SUFFICES ASSUME RunInv PROVE UidsUniqueForWholeChunks
      OBVIOUS
    <2>1. CASE state[PlanTask] = "success"
      <3>1. HasPlan
        BY <2>1 DEF HasPlan, RunInv, TypeOK, TaskInv, ChunksArePlanned
      <3> QED
        BY <3>1, NumbersOfWholeChunks
    <2>2. CASE state[PlanTask] # "success"
      BY <2>2, NoPlanNoRows DEF UidsUniqueForWholeChunks
    <2> QED
      BY <2>1, <2>2
  <1> QED
    BY <1>1, BenchmarkSpecInv, PTL

\* The sample of the benchmark is a chunk of no plan.
LEMMA SampleIsNotPlanned ==
    ASSUME HasPlan PROVE SampleChunk \notin Planned
  <1>1. /\ rowCount \in Nat /\ chunkSize \in Nat \ {0} /\ Len(chunks) - 1 \in Nat
        /\ rowCount - (Len(chunks) - 1) * chunkSize \in 1..chunkSize
        /\ Planned = 0..(Len(chunks) - 1)
    BY PlanOfTheRun, PlannedIsInterval
  <1>2. SampleChunk \in Nat /\ rowCount <= SampleChunk * chunkSize
    BY SampleAssumption DEF HasPlan, SampleChunk
  <1>3. ASSUME SampleChunk <= Len(chunks) - 1 PROVE FALSE
    <2>1. SampleChunk * chunkSize <= (Len(chunks) - 1) * chunkSize
      <3>1. CASE SampleChunk = Len(chunks) - 1
        BY <1>1, <1>2, <3>1
      <3>2. CASE SampleChunk < Len(chunks) - 1
        <4>1. SampleChunk * chunkSize + chunkSize <= (Len(chunks) - 1) * chunkSize
          BY <1>1, <1>2, <3>2, NextMultiple
        <4>2. SampleChunk * chunkSize \in Nat /\ (Len(chunks) - 1) * chunkSize \in Nat
          BY <1>1, <1>2
        <4> QED
          BY <1>1, <4>1, <4>2
      <3> QED
        BY <1>1, <1>2, <1>3, <3>1, <3>2
    <2>2. SampleChunk * chunkSize \in Nat /\ (Len(chunks) - 1) * chunkSize \in Nat
      BY <1>1, <1>2
    <2> QED
      BY <1>1, <1>2, <2>1, <2>2
  <1> QED
    BY <1>1, <1>3

\* A file that is left when all tasks are finished is one of a chunk that has failed,
\* although cleanup may run beside a chunk that is still at work and removes the files
\* it has listed one by one.
THEOREM OrphansAreOfFailedChunks == BenchmarkSpec => []OrphanOnlyOfFailedChunk
  <1>1. RunInv => OrphanOnlyOfFailedChunk
    <2> SUFFICES ASSUME RunInv,
                        \A c \in Planned : state[GenerateAndLoad(c)] \in Finished,
                        NEW c \in files \cap Planned
                 PROVE  state[GenerateAndLoad(c)] = "failed"
      BY DEF OrphanOnlyOfFailedChunk
    <2>1. state[PlanTask] = "success"
      BY NoPlanNoRows
    <2>2. HasPlan
      BY <2>1 DEF HasPlan, RunInv, TypeOK, TaskInv, ChunksArePlanned
    <2>3. c # SampleChunk
      BY <2>2, SampleIsNotPlanned
    <2>4. /\ c \in Indexes
          /\ state[GenerateAndLoad(c)] \notin {"none", "success", "upstream_failed"}
      BY <2>3 DEF RunInv, TypeOK, ChunkInv
    <2> QED
      BY <2>4 DEF Finished
  <1> QED
    BY <1>1, BenchmarkSpecInv, PTL

\* When load_fact has counted, there is a plan.
LEMMA CountedLoad ==
    ASSUME RunInv, LoadInv, ~disturbed, state[LoadFact] = "success"
    PROVE  /\ HasPlan /\ FactFollows /\ fact \in [Rows -> Nat]
           /\ counted = Cardinality(Copies(fact))
  <1>1. AllLoaded
    BY BeforeFact
  <1> QED
    BY <1>1 DEF AllLoaded, HasPlan, RunInv, TypeOK, TaskInv, ChunksArePlanned, LoadInv

\* If the benchmark keeps away from the staging table while the DAG uses it, a load
\* that validate_load accepts holds every planned row once and nothing else: for any
\* number of chunks, attempts and errors, to count the rows is enough.
THEOREM AcceptedLoadIsExact == BenchmarkSpec => []ExactUnlessDisturbed
  <1>1. RunInv /\ LoadInv => ExactUnlessDisturbed
    <2> SUFFICES ASSUME RunInv, LoadInv, ~disturbed, state[ValidateLoad] = "success",
                        NEW r \in Rows
                 PROVE  fact[r] = IF r \in PlannedRows THEN 1 ELSE 0
      BY DEF ExactUnlessDisturbed, ValidatedLoadIsExact
    <2>1. state[LoadFact] = "success" /\ counted = rowCount
      BY BeforeFact DEF LoadInv
    <2>2. /\ HasPlan /\ FactFollows /\ fact \in [Rows -> Nat]
          /\ Cardinality(Copies(fact)) = rowCount
      BY <2>1, CountedLoad
    <2>3. /\ \A s \in Rows : s \notin PlannedRows => fact[s] = 0
          /\ \A s \in PlannedRows : fact[s] >= 1
      BY <2>2, RowOfChunk DEF FactFollows
    <2>4. \A s \in PlannedRows : fact[s] = 1
      BY <2>2, <2>3, CountingIsEnough
    <2> QED
      BY <2>3, <2>4
  <1> QED
    BY <1>1, BenchmarkSpecInv, PTL

\* If the benchmark keeps away, load_fact returns another number than row_count only
\* when a chunk was attempted more than once: what earlier runs left and the retries of
\* the other tasks do not disturb it.
THEOREM RefusedLoadHadARetry == BenchmarkSpec => []RefusedForAReasonUnlessDisturbed
  <1>1. RunInv /\ LoadInv => RefusedForAReasonUnlessDisturbed
    <2> SUFFICES ASSUME RunInv, LoadInv, ~disturbed, state[LoadFact] = "success",
                        \A c \in Planned : ~(tries[GenerateAndLoad(c)] > 1)
                 PROVE  counted = rowCount
      BY DEF RefusedForAReasonUnlessDisturbed, RefusedOnlyAfterRetriedChunk
    <2>1. /\ HasPlan /\ FactFollows /\ fact \in [Rows -> Nat]
          /\ counted = Cardinality(Copies(fact))
      BY CountedLoad
    <2>2. \A c \in Planned : tries[GenerateAndLoad(c)] <= 1
      <3>1. \A c \in Planned : tries[GenerateAndLoad(c)] \in Nat
        BY TaskNames DEF RunInv, TypeOK, Planned
      <3> QED
        BY <3>1
    <2>3. \A r \in Rows : fact[r] = IF r \in PlannedRows THEN 1 ELSE 0
      BY <2>1, <2>2, RowOfChunk DEF FactFollows
    <2> QED
      BY <2>1, <2>3, OnceIsCounted
  <1> QED
    BY <1>1, BenchmarkSpecInv, PTL
==============================================================================
