-------------------------- MODULE WebhookEdge_proofs --------------------------
(***************************************************************************)
(* Proofs about WebhookEdge for any processes, limits, request sizes and    *)
(* faults: its type invariant, that what was accepted is neither lost,      *)
(* repeated nor reordered, that a shutdown saves a batch, and that a        *)
(* refusal has its reason.                                                  *)
(***************************************************************************)
EXTENDS WebhookEdge, SequenceTheorems, WellFoundedInduction, TLAPS

(***************************************************************************)
(* Induction.  The theorems of the library take the formula to prove as an  *)
(* operator; these take the set of the values that satisfy it.              *)
(***************************************************************************)

LEMMA NatSetInduction ==
    ASSUME NEW Q, 0 \in Q, \A n \in Nat : n \in Q => n + 1 \in Q
    PROVE  Nat \subseteq Q
  <1> SUFFICES ASSUME Nat \ Q # {} PROVE FALSE
    OBVIOUS
  <1> DEFINE Less == {pair \in Nat \X Nat : pair[1] < pair[2]}
  <1>1. IsWellFoundedOn(Less, Nat)
    BY NatLessThanWellFounded DEF OpToRel
  <1> HIDE DEF Less
  <1>2. PICK n \in Nat \ Q : \A m \in Nat \ Q : <<m, n>> \notin Less
    BY <1>1, WFMin
  <1>3. n - 1 \in Nat /\ (n - 1) + 1 = n
    BY <1>2
  <1>4. <<n - 1, n>> \in Less
    BY <1>3 DEF Less
  <1> QED
    BY <1>2, <1>3, <1>4

LEMMA SeqSetInduction ==
    ASSUME NEW T, NEW Q, << >> \in Q,
           \A s \in Seq(T), x \in T : s \in Q => Append(s, x) \in Q
    PROVE  Seq(T) \subseteq Q
  <1> DEFINE Lengths == {n \in Nat : \A s \in Seq(T) : Len(s) = n => s \in Q}
  <1>1. 0 \in Lengths
    BY EmptySeq
  <1>2. ASSUME NEW n \in Nat, n \in Lengths PROVE n + 1 \in Lengths
    <2>1. SUFFICES ASSUME NEW s \in Seq(T), Len(s) = n + 1 PROVE s \in Q
      OBVIOUS
    <2>2. s # << >>
      BY <2>1
    <2>3. PICK t \in Seq(T), x \in T : s = Append(t, x)
      BY <2>2, SequenceEmptyOrAppend
    <2>4. Len(t) \in Nat /\ Len(s) = Len(t) + 1
      BY <2>3, AppendProperties, LenProperties
    <2>5. Len(t) = n
      BY <2>1, <2>4
    <2> QED
      BY <1>2, <2>3, <2>5
  <1> HIDE DEF Lengths
  <1>3. Nat \subseteq Lengths
    BY <1>1, <1>2, NatSetInduction
  <1> QED
    BY <1>3, LenProperties DEF Lengths

(***************************************************************************)
(* Only.                                                                    *)
(***************************************************************************)

\* What Only has after i elements of s, if f says what it had after fewer.
Round(f, s, S, i) ==
    IF i = 0 THEN << >>
    ELSE IF s[i] \in S THEN Append(f[i - 1], s[i]) ELSE f[i - 1]

IsUpTo(f, n, s, S) == f = [i \in 0..n |-> Round(f, s, S, i)]

\* The recursive function in Only exists.
LEMMA UpToExists ==
    ASSUME NEW s, NEW S
    PROVE  \A n \in Nat : \E f : IsUpTo(f, n, s, S)
  <1> DEFINE Q == {n \in Nat : \E f : IsUpTo(f, n, s, S)}
  <1>1. 0 \in Q
    <2>1. IsUpTo([i \in 0..0 |-> << >>], 0, s, S)
      BY DEF IsUpTo, Round
    <2> QED
      BY <2>1
  <1>2. ASSUME NEW n \in Nat, n \in Q PROVE n + 1 \in Q
    <2>1. PICK f : IsUpTo(f, n, s, S)
      BY <1>2
    <2> DEFINE g == [i \in 0..(n + 1) |-> IF i <= n THEN f[i] ELSE Round(f, s, S, i)]
    <2>2. \A i \in 0..(n + 1) : g[i] = Round(g, s, S, i)
      <3>1. \A i \in 0..n : f[i] = Round(f, s, S, i)
        BY <2>1 DEF IsUpTo
      <3>2. \A i \in 0..n : g[i] = f[i]
        OBVIOUS
      <3>3. \A i \in 0..(n + 1) : g[i] = Round(f, s, S, i)
        BY <3>1
      <3> HIDE DEF g
      <3>4. \A i \in 0..(n + 1) : Round(f, s, S, i) = Round(g, s, S, i)
        BY <3>2 DEF Round
      <3> QED
        BY <3>3, <3>4
    <2>3. IsUpTo(g, n + 1, s, S)
      BY <2>2 DEF IsUpTo
    <2> QED
      BY <2>3
  <1> HIDE DEF Q
  <1>3. Nat \subseteq Q
    BY <1>1, <1>2, NatSetInduction
  <1> QED
    BY <1>3 DEF Q

LEMMA OnlyIsRecursive ==
    ASSUME NEW s, NEW S, Len(s) \in Nat
    PROVE  \E f : IsUpTo(f, Len(s), s, S) /\ Only(s, S) = f[Len(s)]
  <1> DEFINE f == CHOOSE g : IsUpTo(g, Len(s), s, S)
  <1>1. IsUpTo(f, Len(s), s, S)
    BY UpToExists
  <1>2. Only(s, S) = f[Len(s)]
    BY DEF Only, IsUpTo, Round
  <1> QED
    BY <1>1, <1>2

\* The equations of Only.
LEMMA OnlyEmpty ==
    ASSUME NEW S
    PROVE  Only(<< >>, S) = << >>
  <1>1. Len(<< >>) = 0
    OBVIOUS
  <1>2. PICK f : IsUpTo(f, 0, << >>, S) /\ Only(<< >>, S) = f[0]
    BY <1>1, OnlyIsRecursive
  <1> QED
    BY <1>2 DEF IsUpTo, Round

LEMMA OnlyAppend ==
    ASSUME NEW T, NEW s \in Seq(T), NEW x \in T, NEW S
    PROVE  Only(Append(s, x), S) = IF x \in S THEN Append(Only(s, S), x) ELSE Only(s, S)
  <1> DEFINE t == Append(s, x)
             n == Len(s)
  <1>1. /\ n \in Nat /\ Len(t) = n + 1 /\ t[n + 1] = x
        /\ \A i \in 1..n : t[i] = s[i]
    BY AppendProperties, LenProperties
  <1> HIDE DEF t, n
  <1>2. PICK f : IsUpTo(f, n, s, S) /\ Only(s, S) = f[n]
    BY <1>1, OnlyIsRecursive DEF n
  <1>3. PICK g : IsUpTo(g, n + 1, t, S) /\ Only(t, S) = g[n + 1]
    BY <1>1, OnlyIsRecursive
  <1>4. \A i \in 0..n : f[i] = Round(f, s, S, i)
    BY <1>2 DEF IsUpTo
  <1>5. \A i \in 0..(n + 1) : g[i] = Round(g, t, S, i)
    BY <1>3 DEF IsUpTo
  <1> DEFINE Q == {i \in Nat : i <= n => g[i] = f[i]}
  <1>6. 0 \in Q
    BY <1>1, <1>4, <1>5 DEF Round
  <1>7. ASSUME NEW i \in Nat, i \in Q PROVE i + 1 \in Q
    <2>1. SUFFICES ASSUME i + 1 <= n PROVE g[i + 1] = f[i + 1]
      OBVIOUS
    <2>2. /\ g[i] = f[i] /\ (i + 1) - 1 = i /\ i + 1 # 0
          /\ i + 1 \in 0..n /\ i + 1 \in 1..n /\ i + 1 \in 0..(n + 1)
      BY <1>1, <1>7, <2>1
    <2>3. t[i + 1] = s[i + 1]
      BY <1>1, <2>2
    <2> QED
      BY <1>4, <1>5, <2>2, <2>3 DEF Round
  <1> HIDE DEF Q
  <1>8. n \in Q
    BY <1>1, <1>6, <1>7, NatSetInduction
  <1>9. g[n] = f[n]
    BY <1>1, <1>8 DEF Q
  <1>10. g[n + 1] = IF x \in S THEN Append(f[n], x) ELSE f[n]
    <2>1. n + 1 \in 0..(n + 1) /\ n + 1 # 0 /\ (n + 1) - 1 = n
      BY <1>1
    <2> QED
      BY <1>1, <1>5, <1>9, <2>1 DEF Round
  <1> QED
    BY <1>2, <1>3, <1>10 DEF t

\* What a sequence holds.
LEMMA EventsOfSeq ==
    ASSUME NEW T, NEW s \in Seq(T)
    PROVE  /\ EventsOf(s) \subseteq T
           /\ \A i \in 1..Len(s) : s[i] \in EventsOf(s)
           /\ EventsOf(<< >>) = {}
           /\ EventsOf(s) = {} => s = << >>
  <1>1. EventsOf(s) \subseteq T
    BY ElementOfSeq DEF EventsOf
  <1>2. \A i \in 1..Len(s) : s[i] \in EventsOf(s)
    BY DEF EventsOf
  <1>3. EventsOf(<< >>) = {}
    BY DEF EventsOf
  <1>4. ASSUME s # << >> PROVE EventsOf(s) # {}
    <2>1. Len(s) \in Nat /\ Len(s) # 0
      BY <1>4, EmptySeq, LenProperties
    <2>2. 1 \in 1..Len(s)
      BY <2>1
    <2> QED
      BY <1>2, <2>2
  <1> QED
    BY <1>1, <1>2, <1>3, <1>4

LEMMA EventsOfConcat ==
    ASSUME NEW T, NEW s \in Seq(T), NEW t \in Seq(T)
    PROVE  EventsOf(s \o t) = EventsOf(s) \cup EventsOf(t)
  <1>1. /\ Len(s) \in Nat /\ Len(t) \in Nat /\ Len(s \o t) = Len(s) + Len(t)
        /\ \A i \in 1..Len(s) + Len(t) :
            (s \o t)[i] = IF i <= Len(s) THEN s[i] ELSE t[i - Len(s)]
    BY ConcatProperties, LenProperties
  <1>2. ASSUME NEW e \in EventsOf(s \o t) PROVE e \in EventsOf(s) \cup EventsOf(t)
    <2>1. PICK i \in 1..Len(s \o t) : e = (s \o t)[i]
      BY <1>2 DEF EventsOf
    <2>2. CASE i <= Len(s)
      BY <1>1, <2>1, <2>2 DEF EventsOf
    <2>3. CASE ~(i <= Len(s))
      <3>1. i - Len(s) \in 1..Len(t) /\ e = t[i - Len(s)]
        BY <1>1, <2>1, <2>3
      <3> QED
        BY <3>1 DEF EventsOf
    <2> QED
      BY <2>2, <2>3
  <1>3. ASSUME NEW e \in EventsOf(s) PROVE e \in EventsOf(s \o t)
    <2>1. PICK i \in 1..Len(s) : e = s[i]
      BY <1>3 DEF EventsOf
    <2>2. i \in 1..Len(s) + Len(t) /\ (s \o t)[i] = s[i]
      BY <1>1
    <2> QED
      BY <1>1, <2>1, <2>2 DEF EventsOf
  <1>4. ASSUME NEW e \in EventsOf(t) PROVE e \in EventsOf(s \o t)
    <2>1. PICK i \in 1..Len(t) : e = t[i]
      BY <1>4 DEF EventsOf
    <2>2. /\ Len(s) + i \in 1..Len(s) + Len(t) /\ ~(Len(s) + i <= Len(s))
          /\ (Len(s) + i) - Len(s) = i
      BY <1>1
    <2>3. (s \o t)[Len(s) + i] = t[i]
      BY <1>1, <2>2
    <2> QED
      BY <1>1, <2>1, <2>2, <2>3 DEF EventsOf
  <1> QED
    BY <1>2, <1>3, <1>4

LEMMA EventsOfAppend ==
    ASSUME NEW T, NEW s \in Seq(T), NEW x \in T
    PROVE  EventsOf(Append(s, x)) = EventsOf(s) \cup {x}
  <1>1. Append(s, x) = s \o <<x>> /\ <<x>> \in Seq(T)
    BY AppendIsConcat
  <1>2. EventsOf(<<x>>) = {x}
    BY DEF EventsOf
  <1>3. EventsOf(s \o <<x>>) = EventsOf(s) \cup EventsOf(<<x>>)
    BY <1>1, EventsOfConcat
  <1> QED
    BY <1>1, <1>2, <1>3

\* Only selects: the elements of s in S, all of them and no others.
LEMMA OnlySelects ==
    ASSUME NEW T, NEW s \in Seq(T), NEW S
    PROVE  Only(s, S) \in Seq(T) /\ EventsOf(Only(s, S)) = EventsOf(s) \cap S
  <1> DEFINE Q == {t \in Seq(T) :
                    Only(t, S) \in Seq(T) /\ EventsOf(Only(t, S)) = EventsOf(t) \cap S}
  <1>1. << >> \in Q
    <2>1. << >> \in Seq(T) /\ Only(<< >>, S) = << >>
      BY OnlyEmpty, EmptySeq
    <2>2. EventsOf(<< >>) = {}
      BY DEF EventsOf
    <2> QED
      BY <2>1, <2>2
  <1>2. ASSUME NEW t \in Seq(T), NEW x \in T, t \in Q PROVE Append(t, x) \in Q
    <2>1. /\ Only(t, S) \in Seq(T) /\ EventsOf(Only(t, S)) = EventsOf(t) \cap S
          /\ Append(t, x) \in Seq(T) /\ EventsOf(Append(t, x)) = EventsOf(t) \cup {x}
      BY <1>2, EventsOfAppend, AppendProperties
    <2>2. CASE x \in S
      <3>1. /\ Only(Append(t, x), S) = Append(Only(t, S), x)
            /\ Append(Only(t, S), x) \in Seq(T)
            /\ EventsOf(Append(Only(t, S), x)) = EventsOf(Only(t, S)) \cup {x}
        BY <2>1, <2>2, OnlyAppend, EventsOfAppend, AppendProperties
      <3> QED
        BY <2>1, <2>2, <3>1
    <2>3. CASE x \notin S
      <3>1. Only(Append(t, x), S) = Only(t, S)
        BY <2>3, OnlyAppend
      <3> QED
        BY <2>1, <2>3, <3>1
    <2> QED
      BY <2>2, <2>3
  <1> HIDE DEF Q
  <1>3. Seq(T) \subseteq Q
    BY <1>1, <1>2, SeqSetInduction
  <1> QED
    BY <1>3 DEF Q

\* It selects piece by piece.
LEMMA OnlyConcat ==
    ASSUME NEW T, NEW s \in Seq(T), NEW r \in Seq(T), NEW S
    PROVE  Only(s \o r, S) = Only(s, S) \o Only(r, S)
  <1> DEFINE Q == {t \in Seq(T) : Only(s \o t, S) = Only(s, S) \o Only(t, S)}
  <1>0. Only(s, S) \in Seq(T)
    BY OnlySelects
  <1>1. << >> \in Q
    BY <1>0, OnlyEmpty, ConcatEmptySeq, EmptySeq
  <1>2. ASSUME NEW t \in Seq(T), NEW x \in T, t \in Q PROVE Append(t, x) \in Q
    <2> DEFINE u == s \o t
               first == Only(s, S)
               rest == Only(t, S)
    <2>1. /\ u \in Seq(T) /\ <<x>> \in Seq(T) /\ Append(t, x) \in Seq(T)
          /\ Append(t, x) = t \o <<x>> /\ s \o (t \o <<x>>) = u \o <<x>>
      BY ConcatProperties, AppendProperties, AppendIsConcat, ConcatAssociative
    <2>2. first \in Seq(T) /\ rest \in Seq(T) /\ Only(u, S) = first \o rest
      BY <1>0, <1>2, OnlySelects
    <2>3. Only(Append(t, x), S) = IF x \in S THEN Append(rest, x) ELSE rest
      BY OnlyAppend
    <2> HIDE DEF u, first, rest
    <2>4. s \o Append(t, x) = Append(u, x)
      BY <2>1, AppendIsConcat
    <2>5. Only(Append(u, x), S) = IF x \in S THEN Append(Only(u, S), x) ELSE Only(u, S)
      BY <2>1, OnlyAppend
    <2>6. Append(first \o rest, x) = first \o Append(rest, x)
      <3>1. first \o rest \in Seq(T) /\ Append(rest, x) = rest \o <<x>>
        BY <2>2, ConcatProperties, AppendIsConcat
      <3>2. Append(first \o rest, x) = (first \o rest) \o <<x>>
        BY <3>1, AppendIsConcat
      <3>3. (first \o rest) \o <<x>> = first \o (rest \o <<x>>)
        <4> DEFINE one == <<x>>
        <4>1. one \in Seq(T)
          BY <2>1
        <4> HIDE DEF one
        <4>2. (first \o rest) \o one = first \o (rest \o one)
          BY SMTT(30), <2>2, <4>1, ConcatAssociative
        <4> QED
          BY <4>2 DEF one
      <3> QED
        BY <3>1, <3>2, <3>3
    <2>7. Only(s \o Append(t, x), S) = first \o Only(Append(t, x), S)
      BY <2>2, <2>3, <2>4, <2>5, <2>6
    <2> QED
      BY <2>1, <2>7 DEF first
  <1> HIDE DEF Q
  <1>3. Seq(T) \subseteq Q
    BY <1>1, <1>2, SeqSetInduction
  <1> QED
    BY <1>3 DEF Q

\* Only what is in s matters of S.
LEMMA OnlySame ==
    ASSUME NEW T, NEW s \in Seq(T), NEW A, NEW B,
           EventsOf(s) \cap A = EventsOf(s) \cap B
    PROVE  Only(s, A) = Only(s, B)
  <1> DEFINE Q == {t \in Seq(T) : EventsOf(t) \cap A = EventsOf(t) \cap B
                                    => Only(t, A) = Only(t, B)}
  <1>1. << >> \in Q
    BY OnlyEmpty, EmptySeq
  <1>2. ASSUME NEW t \in Seq(T), NEW x \in T, t \in Q PROVE Append(t, x) \in Q
    <2>1. /\ EventsOf(Append(t, x)) = EventsOf(t) \cup {x}
          /\ Append(t, x) \in Seq(T)
      BY EventsOfAppend, AppendProperties
    <2>2. SUFFICES ASSUME EventsOf(Append(t, x)) \cap A = EventsOf(Append(t, x)) \cap B
                   PROVE  Only(Append(t, x), A) = Only(Append(t, x), B)
      BY <2>1
    <2>3. (x \in A <=> x \in B) /\ EventsOf(t) \cap A = EventsOf(t) \cap B
      BY <2>1, <2>2
    <2>4. Only(t, A) = Only(t, B)
      BY <1>2, <2>3
    <2>5. Only(Append(t, x), A) = IF x \in A THEN Append(Only(t, A), x) ELSE Only(t, A)
      BY OnlyAppend
    <2>6. Only(Append(t, x), B) = IF x \in B THEN Append(Only(t, B), x) ELSE Only(t, B)
      BY OnlyAppend
    <2> QED
      BY <2>3, <2>4, <2>5, <2>6
  <1> HIDE DEF Q
  <1>3. Seq(T) \subseteq Q
    BY <1>1, <1>2, SeqSetInduction
  <1> QED
    BY <1>3 DEF Q

\* All of s, and nothing of it.
LEMMA OnlyAllOrNothing ==
    ASSUME NEW T, NEW s \in Seq(T), NEW S
    PROVE  /\ EventsOf(s) \subseteq S => Only(s, S) = s
           /\ EventsOf(s) \cap S = {} => Only(s, S) = << >>
  <1> DEFINE Q == {t \in Seq(T) : Only(t, T) = t}
  <1>1. << >> \in Q
    BY OnlyEmpty, EmptySeq
  <1>2. ASSUME NEW t \in Seq(T), NEW x \in T, t \in Q PROVE Append(t, x) \in Q
    BY <1>2, OnlyAppend, AppendProperties
  <1> HIDE DEF Q
  <1>3. s \in Q
    BY <1>1, <1>2, SeqSetInduction
  <1>4. Only(s, T) = s /\ EventsOf(s) \subseteq T
    BY <1>3, EventsOfSeq DEF Q
  <1>5. ASSUME EventsOf(s) \subseteq S PROVE Only(s, S) = s
    <2>1. EventsOf(s) \cap S = EventsOf(s) \cap T
      BY <1>4, <1>5
    <2> QED
      BY <1>4, <2>1, OnlySame
  <1>6. ASSUME EventsOf(s) \cap S = {} PROVE Only(s, S) = << >>
    BY <1>6, OnlySelects, EventsOfSeq
  <1> QED
    BY <1>5, <1>6

\* To select twice is to select what is in both sets.
LEMMA OnlyTwice ==
    ASSUME NEW T, NEW s \in Seq(T), NEW A, NEW B
    PROVE  Only(Only(s, A), B) = Only(s, A \cap B)
  <1> DEFINE Q == {t \in Seq(T) : Only(Only(t, A), B) = Only(t, A \cap B)}
  <1>1. << >> \in Q
    BY OnlyEmpty, EmptySeq
  <1>2. ASSUME NEW t \in Seq(T), NEW x \in T, t \in Q PROVE Append(t, x) \in Q
    <2>1. Append(t, x) \in Seq(T) /\ Only(t, A) \in Seq(T) /\ Only(Only(t, A), B) = Only(t, A \cap B)
      BY <1>2, AppendProperties, OnlySelects
    <2>2. Only(Append(t, x), A \cap B) = IF x \in A \cap B THEN Append(Only(t, A \cap B), x)
                                         ELSE Only(t, A \cap B)
      BY OnlyAppend
    <2>3. CASE x \in A
      <3>1. Only(Append(t, x), A) = Append(Only(t, A), x)
        BY <2>3, OnlyAppend
      <3>2. Only(Append(Only(t, A), x), B) =
                IF x \in B THEN Append(Only(Only(t, A), B), x) ELSE Only(Only(t, A), B)
        BY ZenonT(30), <2>1, OnlyAppend
      <3>3. Only(Only(Append(t, x), A), B) = Only(Append(t, x), A \cap B)
        BY <2>1, <2>2, <2>3, <3>1, <3>2
      <3> QED
        BY <2>1, <3>3
    <2>4. CASE x \notin A
      <3>1. Only(Append(t, x), A) = Only(t, A)
        BY <2>4, OnlyAppend
      <3> QED
        BY <2>1, <2>2, <2>4, <3>1
    <2> QED
      BY <2>3, <2>4
  <1> HIDE DEF Q
  <1>3. Seq(T) \subseteq Q
    BY <1>1, <1>2, SeqSetInduction
  <1> QED
    BY <1>3 DEF Q

(***************************************************************************)
(* The inductive invariant.                                                 *)
(***************************************************************************)

\* An event occurs once in s.
Distinct(s) == \A i, j \in 1..Len(s) : s[i] = s[j] => i = j

\* What p accepted, and what it still has.
Own(p) == EventsOf(accepted[p])
Buffered(p) == EventsOf(batch[p]) \cup EventsOf(queue[p])

\* There is a batch only while it is published, nothing enters a process that stops, and
\* the last flush empties a queue of one batch.
FlusherInv ==
    \A p \in Processes :
        /\ flusher[p] \notin {"publish", "last_publish"} => batch[p] = << >>
        /\ flusher[p] \in {"ended", "last_publish", "exited"} => ~running[p]
        /\ ~running[p] => probes[p] = {} /\ Len(queue[p]) <= atStop[p]
        /\ flusher[p] \in {"last_publish", "exited"} /\ atStop[p] <= MaxBatch
            => queue[p] = << >>

\* Who takes the stream for too long, or is about to, has an answer that was true.
LimitInv ==
    /\ Len(stream) >= MaxLag => limitReached
    /\ \A p \in Processes :
        /\ overloaded[p] => limitReached
        /\ \A q \in probes[p] : q.lag >= MaxLag => limitReached

BufferInv == TypeOK /\ FlusherInv /\ LimitInv

\* An event has been issued once: it waits in one probe or was accepted by one process.
IssuedOnce ==
    /\ \A p \in Processes : Own(p) \subseteq 1..issued
    /\ \A p, o \in Processes : p # o => Own(p) \cap Own(o) = {}
    /\ \A p \in Processes : \A q \in probes[p] :
        /\ Distinct(q.events) /\ EventsOf(q.events) \subseteq 1..issued
        /\ \A o \in Processes :
            /\ EventsOf(q.events) \cap Own(o) = {}
            /\ \A r \in probes[o] :
                EventsOf(q.events) \cap EventsOf(r.events) # {} => o = p /\ r = q

\* An accepted event is in one place: the stream, a batch, a queue, or it was dropped.
InOnePlace ==
    /\ EventsOf(stream) \cap dropped = {}
    /\ \A p \in Processes :
        /\ Distinct(queue[p])
        /\ Buffered(p) \subseteq Own(p)
        /\ EventsOf(batch[p]) \cap EventsOf(queue[p]) = {}
        /\ Buffered(p) \cap (EventsOf(stream) \cup dropped) = {}
    /\ \A e \in EventsOf(stream) \cup dropped : \E p \in Processes : e \in Own(p)

USE ConstantsAssumption

LEMMA InitBufferInv == Init => BufferInv
  <1> SUFFICES ASSUME Init PROVE BufferInv
    OBVIOUS
  <1>1. /\ << >> \in Seq(Events) /\ Len(<< >>) = 0
        /\ 0 \in 0..MaxEvents /\ BufferSize >= 0 /\ MaxBatch >= 0
    OBVIOUS
  <1>2. TypeOK
    <2>1. limitReached \in BOOLEAN
      BY DEF Init
    <2> QED
      BY <1>1, <2>1 DEF Init, TypeOK, FlusherStates
  <1>3. FlusherInv
    BY <1>1 DEF Init, FlusherInv
  <1>4. LimitInv
    <2>1. Len(stream) >= MaxLag => limitReached
      <3>1. MaxLag = 0 => limitReached
        BY Zenon DEF Init
      <3>2. Len(stream) >= MaxLag => MaxLag = 0
        BY <1>1 DEF Init
      <3> QED
        BY <3>1, <3>2
    <2>2. \A p \in Processes : ~overloaded[p] /\ probes[p] = {}
      BY DEF Init
    <2> QED
      BY <2>1, <2>2 DEF LimitInv
  <1> QED
    BY <1>2, <1>3, <1>4 DEF BufferInv

(***************************************************************************)
(* What the parts of the actions do.                                        *)
(***************************************************************************)

LEMMA NextEventsAreNew ==
    ASSUME issued \in 0..MaxEvents, NEW n \in Nat, issued + n <= MaxEvents
    PROVE  /\ NextEvents(n) \in Seq(Events)
           /\ Distinct(NextEvents(n))
           /\ EventsOf(NextEvents(n)) = (issued + 1)..(issued + n)
           /\ issued + n \in 0..MaxEvents
  <1>1. NextEvents(n) \in [1..n -> Events]
    BY DEF NextEvents, Events
  <1>2. NextEvents(n) \in Seq(Events)
    BY <1>1, SeqDef
  <1>3. Len(NextEvents(n)) = n
    BY <1>1, <1>2, LenProperties DEF NextEvents
  <1>4. Distinct(NextEvents(n))
    BY <1>3 DEF NextEvents, Distinct
  <1>5. EventsOf(NextEvents(n)) \subseteq (issued + 1)..(issued + n)
    BY <1>3 DEF NextEvents, EventsOf
  <1>6. ASSUME NEW e \in (issued + 1)..(issued + n) PROVE e \in EventsOf(NextEvents(n))
    <2>1. e - issued \in 1..n /\ issued + (e - issued) = e
      BY <1>6
    <2> QED
      BY <1>3, <2>1 DEF NextEvents, EventsOf
  <1>7. EventsOf(NextEvents(n)) = (issued + 1)..(issued + n)
    BY <1>5, <1>6
  <1>8. issued + n \in 0..MaxEvents
    OBVIOUS
  <1> QED
    BY <1>2, <1>4, <1>7, <1>8

\* A request adds some of its events to what p accepted and to its queue.
Added(p, part) ==
    /\ queue' = [queue EXCEPT ![p] = @ \o part]
    /\ accepted' = [accepted EXCEPT ![p] = @ \o part]

LEMMA SubmitAdds ==
    ASSUME TypeOK, NEW p \in Processes, NEW events \in Seq(Events), NEW refuse \in BOOLEAN,
           Submit(p, events, refuse)
    PROVE  \E part \in Seq(Events) :
                /\ Added(p, part)
                /\ EventsOf(part) \subseteq EventsOf(events)
                /\ Distinct(events) => Distinct(part)
                /\ Len(queue[p] \o part) <= BufferSize
  <1> DEFINE n == IF refuse THEN 0 ELSE Smaller(Len(events), Free(p))
             part == SubSeq(events, 1, n)
  <1>1. /\ Len(events) \in Nat /\ Len(queue[p]) \in Nat /\ queue[p] \in Seq(Events)
        /\ Len(queue[p]) <= BufferSize
    BY LenProperties DEF TypeOK
  <1>2. n \in 0..Len(events) /\ Len(queue[p]) + n <= BufferSize
    <2>1. Free(p) \in Nat /\ Len(queue[p]) + Free(p) = BufferSize
      BY <1>1 DEF Free
    <2>2. CASE refuse
      <3>1. n = 0
        BY <2>2
      <3> QED
        BY <1>1, <3>1
    <2>3. CASE ~refuse
      <3>1. n = Smaller(Len(events), Free(p))
        BY <2>3
      <3> QED
        BY <1>1, <2>1, <3>1 DEF Smaller
    <2> QED
      BY <2>2, <2>3
  <1>3. Added(p, part)
    BY DEF Submit, Added
  <1> HIDE DEF n
  <1>4. \A i \in 1..n : i \in 1..Len(events) /\ events[i] \in Events
    BY <1>1, <1>2, ElementOfSeq
  <1>5. /\ part \in Seq(Events) /\ Len(part) = n
        /\ \A i \in 1..n : part[i] = events[i]
    <2>1. /\ SubSeq(events, 1, n) \in Seq(Events)
          /\ Len(SubSeq(events, 1, n)) = IF 1 <= n THEN n - 1 + 1 ELSE 0
          /\ \A i \in 1..n - 1 + 1 : SubSeq(events, 1, n)[i] = events[1 + i - 1]
      BY <1>2, <1>4, SubSeqProperties
    <2> QED
      BY <1>2, <2>1
  <1> HIDE DEF part
  <1>6. EventsOf(part) \subseteq EventsOf(events)
    BY <1>4, <1>5 DEF EventsOf
  <1>7. Distinct(events) => Distinct(part)
    BY <1>4, <1>5 DEF Distinct
  <1>8. Len(queue[p] \o part) <= BufferSize
    BY <1>1, <1>2, <1>5, ConcatProperties
  <1> QED
    BY <1>3, <1>5, <1>6, <1>7, <1>8

LEMMA SubmitRefuses ==
    ASSUME TypeOK, NEW p \in Processes, NEW events \in Seq(Events), NEW refuse \in BOOLEAN,
           Submit(p, events, refuse)
    PROVE  /\ refused' \in [Processes -> SUBSET Events]
           /\ \A o \in Processes : refused'[o] # refused[o] =>
                o = p /\ (refuse \/ Len(queue'[p]) = BufferSize)
  <1> DEFINE n == IF refuse THEN 0 ELSE Smaller(Len(events), Free(p))
             part == SubSeq(events, 1, n)
  <1>1. /\ Len(events) \in Nat /\ Len(queue[p]) \in Nat /\ queue[p] \in Seq(Events)
        /\ Len(queue[p]) <= BufferSize /\ EventsOf(events) \subseteq Events
    BY LenProperties, EventsOfSeq DEF TypeOK
  <1>2. /\ refused' = [refused EXCEPT ![p] = @ \cup (EventsOf(events) \ EventsOf(part))]
        /\ queue'[p] = queue[p] \o part
    BY DEF Submit, TypeOK
  <1> HIDE DEF part
  <1>3. refused' \in [Processes -> SUBSET Events]
    BY <1>1, <1>2 DEF TypeOK
  <1>4. \A o \in Processes : refused'[o] # refused[o] =>
            o = p /\ ~(EventsOf(events) \subseteq EventsOf(part))
    BY <1>2 DEF TypeOK
  <1>5. ASSUME ~refuse, ~(EventsOf(events) \subseteq EventsOf(part))
        PROVE  Len(queue'[p]) = BufferSize
    <2>1. n = Smaller(Len(events), Free(p)) /\ Free(p) \in Nat /\ Len(queue[p]) + Free(p) = BufferSize
      BY <1>1, <1>5 DEF Free
    <2> HIDE DEF n
    <2>2. n # Len(events)
      BY <1>1, <1>5, SubSeqFull DEF part
    <2>3. n = Free(p) /\ n \in 0..Len(events)
      BY <1>1, <2>1, <2>2 DEF Smaller
    <2>4. \A i \in 1..n : events[i] \in Events
      BY <1>1, <2>3, ElementOfSeq
    <2>5. part \in Seq(Events) /\ Len(part) = n
      <3>1. /\ SubSeq(events, 1, n) \in Seq(Events)
            /\ Len(SubSeq(events, 1, n)) = IF 1 <= n THEN n - 1 + 1 ELSE 0
        BY <2>3, <2>4, SubSeqProperties
      <3> QED
        BY <2>3, <3>1 DEF part
    <2>6. Len(queue[p] \o part) = Len(queue[p]) + n
      BY <1>1, <2>5, ConcatProperties
    <2> QED
      BY <1>2, <2>1, <2>3, <2>6
  <1> QED
    BY <1>3, <1>4, <1>5

\* _take_batch splits the queue.
Taken(p, first, rest) ==
    /\ batch' = [batch EXCEPT ![p] = first]
    /\ queue' = [queue EXCEPT ![p] = rest]
    /\ queue[p] = first \o rest

LEMMA TakeBatchSplits ==
    ASSUME TypeOK, NEW p \in Processes, TakeBatch(p)
    PROVE  \E first, rest \in Seq(Events) :
                /\ Taken(p, first, rest)
                /\ Len(first) <= MaxBatch /\ Len(rest) <= Len(queue[p])
                /\ Len(queue[p]) <= MaxBatch => rest = << >>
                /\ queue[p] = << >> => first = << >>
  <1> DEFINE n == Smaller(MaxBatch, Len(queue[p]))
             first == SubSeq(queue[p], 1, n)
             rest == SubSeq(queue[p], n + 1, Len(queue[p]))
  <1>1. queue[p] \in Seq(Events) /\ Len(queue[p]) \in Nat
    BY LenProperties DEF TypeOK
  <1>2. /\ n \in 0..Len(queue[p]) /\ n <= MaxBatch
        /\ Len(queue[p]) <= MaxBatch => n = Len(queue[p])
    BY <1>1 DEF Smaller
  <1>3. batch' = [batch EXCEPT ![p] = first] /\ queue' = [queue EXCEPT ![p] = rest]
    BY DEF TakeBatch
  <1> HIDE DEF n
  <1>4. /\ \A i \in 1..n : queue[p][i] \in Events
        /\ \A i \in (n + 1)..Len(queue[p]) : queue[p][i] \in Events
    BY <1>1, <1>2, ElementOfSeq
  <1>5. first \in Seq(Events) /\ Len(first) = n
    <2>1. /\ SubSeq(queue[p], 1, n) \in Seq(Events)
          /\ Len(SubSeq(queue[p], 1, n)) = IF 1 <= n THEN n - 1 + 1 ELSE 0
      BY <1>2, <1>4, SubSeqProperties
    <2> QED
      BY <1>2, <2>1
  <1>6. rest \in Seq(Events) /\ Len(rest) = Len(queue[p]) - n
    <2>1. /\ SubSeq(queue[p], n + 1, Len(queue[p])) \in Seq(Events)
          /\ Len(SubSeq(queue[p], n + 1, Len(queue[p]))) =
                IF n + 1 <= Len(queue[p]) THEN Len(queue[p]) - (n + 1) + 1 ELSE 0
      BY <1>1, <1>2, <1>4, SubSeqProperties
    <2> QED
      BY <1>1, <1>2, <2>1
  <1>7. queue[p] = first \o rest
    <2>1. SubSeq(queue[p], 1, n) \o SubSeq(queue[p], n + 1, Len(queue[p]))
            = SubSeq(queue[p], 1, Len(queue[p]))
      <3>1. 1 \in 1..Len(queue[p]) + 1 /\ n \in 1 - 1..Len(queue[p]) /\ Len(queue[p]) \in n..Len(queue[p])
        BY <1>1, <1>2
      <3> QED
        BY <1>1, <3>1, ConcatAdjacentSubSeq
    <2> QED
      BY <1>1, <2>1, SubSeqFull
  <1> HIDE DEF first, rest
  <1>8. /\ Len(first) <= MaxBatch /\ Len(rest) <= Len(queue[p])
        /\ Len(queue[p]) <= MaxBatch => Len(rest) = 0
        /\ Len(queue[p]) = 0 => Len(first) = 0
    BY <1>1, <1>2, <1>5, <1>6
  <1>9. /\ Len(queue[p]) <= MaxBatch => rest = << >>
        /\ queue[p] = << >> => first = << >>
    BY <1>5, <1>6, <1>8, EmptySeq
  <1> QED
    BY <1>3, <1>5, <1>6, <1>7, <1>8, <1>9 DEF Taken

\* A publication, whole, in part or cancelled: some events of the batch reach the stream,
\* in their order, and the others are gone.
Published(p, done) ==
    /\ done \subseteq EventsOf(batch[p])
    /\ Xadd(Only(batch[p], done))
    /\ dropped' = dropped \cup (EventsOf(batch[p]) \ done)
    /\ batch' = [batch EXCEPT ![p] = << >>]

LEMMA PublicationsPublish ==
    ASSUME TypeOK, NEW p \in Processes,
           PublishMany(p) \/ PublishFails(p) \/ DrainTimeout(p)
    PROVE  \E done \in SUBSET EventsOf(batch[p]) : Published(p, done)
  <1>1. CASE PublishMany(p)
    <2>1. Only(batch[p], EventsOf(batch[p])) = batch[p]
      BY OnlyAllOrNothing DEF TypeOK
    <2>2. Published(p, EventsOf(batch[p]))
      BY <1>1, <2>1 DEF PublishMany, AfterPublish, Published
    <2> QED
      BY <2>2
  <1>2. CASE PublishFails(p)
    BY <1>2 DEF PublishFails, AfterPublish, Published
  <1>3. CASE DrainTimeout(p)
    BY <1>3 DEF DrainTimeout, Published
  <1> QED
    BY <1>1, <1>2, <1>3

(***************************************************************************)
(* Limits, flushers and answers.                                            *)
(***************************************************************************)

LEMMA AddedWithinLimits ==
    ASSUME TypeOK, NEW p \in Processes, NEW part \in Seq(Events), Added(p, part),
           Len(queue[p] \o part) <= BufferSize
    PROVE  /\ queue' \in [Processes -> Seq(Events)]
           /\ accepted' \in [Processes -> Seq(Events)]
           /\ \A o \in Processes : Len(queue'[o]) <= BufferSize
           /\ \A o \in Processes \ {p} : queue'[o] = queue[o] /\ accepted'[o] = accepted[o]
           /\ queue'[p] = queue[p] \o part /\ accepted'[p] = accepted[p] \o part
  <1>1. queue[p] \o part \in Seq(Events) /\ accepted[p] \o part \in Seq(Events)
    BY ConcatProperties DEF TypeOK
  <1> QED
    BY <1>1 DEF TypeOK, Added

LEMMA IngestKeepsLimits ==
    ASSUME BufferInv, NEW p \in Processes, IngestEvents(p)
    PROVE  BufferInv'
  <1>1. PICK n \in RequestSizes : issued + n <= MaxEvents /\ issued' = issued + n
                                  /\ Submit(p, NextEvents(n), overloaded[p])
    BY DEF IngestEvents
  <1>2. /\ NextEvents(n) \in Seq(Events) /\ issued' \in 0..MaxEvents
        /\ running[p]
        /\ UNCHANGED <<flush, guard, redis>>
    BY <1>1, NextEventsAreNew DEF IngestEvents, BufferInv, TypeOK
  <1>3. PICK part \in Seq(Events) : Added(p, part) /\ Len(queue[p] \o part) <= BufferSize
    BY <1>1, <1>2, SubmitAdds DEF BufferInv, TypeOK
  <1>4. /\ queue' \in [Processes -> Seq(Events)]
        /\ accepted' \in [Processes -> Seq(Events)]
        /\ \A o \in Processes : Len(queue'[o]) <= BufferSize
        /\ \A o \in Processes \ {p} : queue'[o] = queue[o]
    BY <1>3, AddedWithinLimits DEF BufferInv
  <1>5. TypeOK'
    <2>1. overloaded[p] \in BOOLEAN /\ TypeOK
      BY DEF BufferInv, TypeOK
    <2>2. refused' \in [Processes -> SUBSET Events]
      BY <1>1, <1>2, <2>1, SubmitRefuses
    <2> QED
      BY <1>2, <1>4, <2>2 DEF BufferInv, TypeOK, flush, guard, redis
  <1>6. FlusherInv'
    BY <1>2, <1>4 DEF BufferInv, FlusherInv, flush, guard, redis
  <1>7. LimitInv'
    BY <1>2 DEF BufferInv, LimitInv, guard, redis
  <1> QED
    BY <1>5, <1>6, <1>7 DEF BufferInv

LEMMA ProbeKeepsLimits ==
    ASSUME BufferInv, NEW p \in Processes, ProbeByWebhook(p) \/ ProbeByHealth(p)
    PROVE  BufferInv'
  <1>1. PICK events \in Seq(Events) :
            BeginProbe(p, events) /\ issued' \in 0..MaxEvents
    <2>1. CASE ProbeByWebhook(p)
      BY <2>1, NextEventsAreNew DEF ProbeByWebhook, BufferInv, TypeOK
    <2>2. CASE ProbeByHealth(p)
      <3>1. << >> \in Seq(Events)
        OBVIOUS
      <3> QED
        BY <2>2, <3>1 DEF ProbeByHealth, BufferInv, TypeOK
    <2> QED
      BY <2>1, <2>2
  <1>2. running[p] /\ UNCHANGED <<buffer, flush, redis, overloaded>>
    BY DEF ProbeByWebhook, ProbeByHealth
  <1> DEFINE new == [events |-> events, lag |-> Unread]
  <1>3. /\ new \in Probe /\ new.lag = -1
        /\ probeDue' = [probeDue EXCEPT ![p] = FALSE]
        /\ probes' = [probes EXCEPT ![p] = @ \cup {new}]
    BY <1>1 DEF BeginProbe, Probe, Unread
  <1> HIDE DEF new
  <1>4. TypeOK'
    BY <1>1, <1>2, <1>3 DEF BufferInv, TypeOK, answers, buffer, flush, redis
  <1>5. FlusherInv'
    BY <1>2, <1>3 DEF BufferInv, TypeOK, FlusherInv, buffer, flush
  <1>6. LimitInv'
    BY <1>2, <1>3 DEF BufferInv, TypeOK, LimitInv, redis
  <1> QED
    BY <1>4, <1>5, <1>6 DEF BufferInv

LEMMA MeasureKeepsLimits ==
    ASSUME BufferInv, NEW p \in Processes, MeasureLag(p) \/ MeasureFails(p)
    PROVE  BufferInv'
  <1>1. Len(stream) \in Nat
    BY LenProperties DEF BufferInv, TypeOK
  <1>2. PICK q \in probes[p], lag \in {0, Len(stream)} : LagIs(p, q, lag)
    BY DEF MeasureLag, MeasureFails, LagOnError
  <1> DEFINE answered == [q EXCEPT !.lag = lag]
  <1>3. /\ answered \in Probe /\ answered.lag = lag
        /\ probes' = [probes EXCEPT ![p] = (@ \ {q}) \cup {answered}]
        /\ UNCHANGED <<issued, buffer, flush, redis, probeDue, overloaded>>
    <2>1. q \in Probe /\ lag \in Nat
      BY <1>1, <1>2 DEF BufferInv, TypeOK
    <2>2. answered \in Probe /\ answered.lag = lag
      BY <2>1 DEF Probe
    <2> QED
      BY <1>2, <2>2 DEF LagIs
  <1> HIDE DEF answered
  <1>4. TypeOK'
    BY <1>3 DEF BufferInv, TypeOK, answers, buffer, flush, redis
  <1>5. FlusherInv'
    BY <1>2, <1>3 DEF BufferInv, TypeOK, FlusherInv, buffer, flush
  <1>6. LimitInv'
    <2>1. lag >= MaxLag => limitReached
      <3>1. CASE lag = Len(stream)
        BY <3>1 DEF BufferInv, LimitInv
      <3>2. CASE lag = 0
        BY <1>1, <3>2 DEF BufferInv, LimitInv
      <3> QED
        BY <3>1, <3>2
    <2> QED
      BY <1>3, <2>1 DEF BufferInv, TypeOK, LimitInv, redis
  <1> QED
    BY <1>4, <1>5, <1>6 DEF BufferInv

LEMMA EndProbeKeepsLimits ==
    ASSUME BufferInv, NEW p \in Processes, NEW lag \in PossibleLags, EndProbe(p, lag)
    PROVE  BufferInv'
  <1>1. PICK q \in probes[p] :
            /\ q.lag = lag
            /\ probes' = [probes EXCEPT ![p] = @ \ {q}]
            /\ overloaded' = [overloaded EXCEPT ![p] = IsOverload(lag)]
            /\ Submit(p, q.events, IsOverload(lag))
            /\ UNCHANGED <<issued, flush, redis, probeDue>>
    BY DEF EndProbe
  <1>2. q.events \in Seq(Events) /\ IsOverload(lag) \in BOOLEAN /\ running[p]
    BY <1>1 DEF BufferInv, TypeOK, Probe, IsOverload, FlusherInv
  <1>3. PICK part \in Seq(Events) : Added(p, part) /\ Len(queue[p] \o part) <= BufferSize
    BY <1>1, <1>2, SubmitAdds DEF BufferInv
  <1>4. /\ queue' \in [Processes -> Seq(Events)]
        /\ accepted' \in [Processes -> Seq(Events)]
        /\ \A o \in Processes : Len(queue'[o]) <= BufferSize
        /\ \A o \in Processes \ {p} : queue'[o] = queue[o]
    BY <1>3, AddedWithinLimits DEF BufferInv
  <1>5. TypeOK'
    <2>1. refused' \in [Processes -> SUBSET Events]
      BY <1>1, <1>2, SubmitRefuses DEF BufferInv
    <2> QED
      BY <1>1, <1>2, <1>4, <2>1 DEF BufferInv, TypeOK, flush, redis
  <1>6. FlusherInv'
    BY <1>1, <1>2, <1>4 DEF BufferInv, TypeOK, FlusherInv, flush
  <1>7. LimitInv'
    <2>1. IsOverload(lag) => limitReached
      BY <1>1 DEF BufferInv, LimitInv, IsOverload
    <2> QED
      BY <1>1, <2>1 DEF BufferInv, TypeOK, LimitInv, redis
  <1> QED
    BY <1>5, <1>6, <1>7 DEF BufferInv

LEMMA TakingKeepsLimits ==
    ASSUME BufferInv, NEW p \in Processes, FlushRound(p) \/ LastFlush(p)
    PROVE  BufferInv'
  <1>1. TakeBatch(p) /\ UNCHANGED <<issued, answers, running, atStop, guard, redis>>
    BY DEF FlushRound, LastFlush
  <1>2. PICK first \in Seq(Events), rest \in Seq(Events) :
            /\ Taken(p, first, rest)
            /\ Len(first) <= MaxBatch /\ Len(rest) <= Len(queue[p])
            /\ Len(queue[p]) <= MaxBatch => rest = << >>
            /\ queue[p] = << >> => first = << >>
    BY <1>1, TakeBatchSplits DEF BufferInv
  <1>3. /\ batch'[p] = first /\ queue'[p] = rest
        /\ \A o \in Processes \ {p} : batch'[o] = batch[o] /\ queue'[o] = queue[o]
        /\ batch' \in [Processes -> Seq(Events)] /\ queue' \in [Processes -> Seq(Events)]
    BY <1>2 DEF BufferInv, TypeOK, Taken
  <1>4. /\ \A o \in Processes \ {p} : flusher'[o] = flusher[o]
        /\ flusher' \in [Processes -> FlusherStates]
        /\ flusher'[p] \in {"sleep", "ended"} => queue[p] = << >>
        /\ flusher'[p] = "ended" => ~running[p]
        /\ \/ flusher[p] = "sleep" /\ flusher'[p] \in {"sleep", "ended", "publish"}
           \/ /\ flusher[p] = "ended" /\ ~running[p]
              /\ flusher'[p] = (IF queue[p] = << >> THEN "exited" ELSE "last_publish")
    <2>1. CASE FlushRound(p)
      BY <2>1 DEF BufferInv, TypeOK, FlusherStates, FlushRound, AfterRound
    <2>2. CASE LastFlush(p)
      BY <2>2 DEF BufferInv, TypeOK, FlusherStates, LastFlush
    <2> QED
      BY <2>1, <2>2
  <1>5. TypeOK'
    <2>1. Len(queue[p]) \in Nat /\ Len(rest) \in Nat /\ Len(queue[p]) <= BufferSize
      BY LenProperties DEF BufferInv, TypeOK
    <2>2. Len(rest) <= BufferSize
      BY <1>2, <2>1
    <2> QED
      BY <1>1, <1>2, <1>3, <1>4, <2>2 DEF BufferInv, TypeOK, answers, guard, redis
  <1>6. FlusherInv'
    <2>1. SUFFICES ASSUME NEW o \in Processes
                   PROVE  /\ flusher'[o] \notin {"publish", "last_publish"} => batch'[o] = << >>
                          /\ flusher'[o] \in {"ended", "last_publish", "exited"} => ~running[o]
                          /\ ~running[o] => probes[o] = {} /\ Len(queue'[o]) <= atStop[o]
                          /\ flusher'[o] \in {"last_publish", "exited"} /\ atStop[o] <= MaxBatch
                                => queue'[o] = << >>
      BY <1>1 DEF FlusherInv, guard
    <2>2. CASE o # p
      BY <1>3, <1>4, <2>2 DEF BufferInv, FlusherInv
    <2>3. CASE o = p
      <3>1. /\ Len(queue[p]) \in Nat /\ Len(rest) \in Nat /\ atStop[p] \in Nat
        BY LenProperties DEF BufferInv, TypeOK
      <3>2. ~running[p] => probes[p] = {} /\ Len(queue[p]) <= atStop[p]
        BY DEF BufferInv, FlusherInv
      <3>3. ~running[p] => Len(rest) <= atStop[p]
        BY <1>2, <3>1, <3>2
      <3>4. ~running[p] /\ atStop[p] <= MaxBatch => rest = << >>
        BY <1>2, <3>1, <3>2
      <3>5. flusher'[p] \notin {"publish", "last_publish"} => first = << >>
        BY <1>2, <1>4
      <3>6. flusher'[p] \in {"last_publish", "exited"} => ~running[p]
        BY <1>4
      <3> QED
        BY <1>3, <1>4, <2>3, <3>2, <3>3, <3>4, <3>5, <3>6
    <2> QED
      BY <2>2, <2>3
  <1>7. LimitInv'
    BY <1>1 DEF BufferInv, LimitInv, guard, redis
  <1> QED
    BY <1>5, <1>6, <1>7 DEF BufferInv

LEMMA PublishingKeepsLimits ==
    ASSUME BufferInv, NEW p \in Processes,
           PublishMany(p) \/ PublishFails(p) \/ DrainTimeout(p)
    PROVE  BufferInv'
  <1>1. PICK done \in SUBSET EventsOf(batch[p]) : Published(p, done)
    BY PublicationsPublish DEF BufferInv
  <1>2. UNCHANGED <<issued, buffer, running, atStop, guard, acked>>
    BY DEF PublishMany, PublishFails, DrainTimeout
  <1>3. /\ stream \in Seq(Events) /\ Only(batch[p], done) \in Seq(Events)
        /\ stream' = stream \o Only(batch[p], done)
    BY <1>1, OnlySelects DEF Published, Xadd, BufferInv, TypeOK
  <1>4. /\ stream' \in Seq(Events)
        /\ Len(stream) \in Nat /\ Len(stream') \in Nat /\ Len(stream) <= Len(stream')
    BY <1>3, ConcatProperties, LenProperties
  <1>5. /\ batch'[p] = << >> /\ \A o \in Processes \ {p} : batch'[o] = batch[o]
        /\ batch' \in [Processes -> Seq(Events)]
    BY <1>1 DEF Published, BufferInv, TypeOK
  <1>6. /\ \A o \in Processes \ {p} : flusher'[o] = flusher[o]
        /\ flusher' \in [Processes -> FlusherStates]
        /\ \/ /\ flusher[p] = "publish"
              /\ flusher'[p] \in {"sleep", "ended"}
              /\ flusher'[p] = "ended" => ~running[p]
           \/ flusher[p] = "last_publish" /\ flusher'[p] = "exited"
    <2>1. CASE PublishMany(p) \/ PublishFails(p)
      BY <2>1 DEF BufferInv, TypeOK, FlusherStates, PublishMany, PublishFails, AfterPublish,
         AfterRound
    <2>2. CASE DrainTimeout(p)
      BY <2>2 DEF BufferInv, TypeOK, FlusherStates, DrainTimeout
    <2> QED
      BY <2>1, <2>2
  <1>7. TypeOK'
    <2>1. acked' \in 0..Len(stream')
      BY <1>2, <1>4 DEF BufferInv, TypeOK
    <2>2. dropped' \subseteq Events
      BY <1>1, EventsOfSeq DEF Published, BufferInv, TypeOK
    <2>3. \A o \in Processes : Len(batch'[o]) <= MaxBatch
      <3>1. Len(<< >>) = 0 /\ 0 <= MaxBatch
        OBVIOUS
      <3>2. \A o \in Processes : Len(batch[o]) <= MaxBatch
        BY DEF BufferInv, TypeOK
      <3> QED
        BY <1>5, <3>1, <3>2
    <2>4. limitReached' \in BOOLEAN
      BY <1>1 DEF Published, Xadd, BufferInv, TypeOK
    <2> QED
      BY <1>2, <1>4, <1>5, <1>6, <2>1, <2>2, <2>3, <2>4
      DEF BufferInv, TypeOK, answers, buffer, guard
  <1>8. FlusherInv'
    BY <1>2, <1>5, <1>6 DEF BufferInv, FlusherInv, buffer, guard
  <1>9. LimitInv'
    <2>1. limitReached' = (limitReached \/ Len(stream') >= MaxLag)
      BY <1>1 DEF Published, Xadd
    <2> QED
      BY <1>2, <2>1 DEF BufferInv, LimitInv, guard
  <1> QED
    BY <1>7, <1>8, <1>9 DEF BufferInv

LEMMA StopKeepsLimits ==
    ASSUME BufferInv, NEW p \in Processes, Stop(p)
    PROVE  BufferInv'
  <1>1. \A o \in Processes : Len(queue[o]) \in Nat
    BY LenProperties DEF BufferInv, TypeOK
  <1>2. TypeOK'
    BY <1>1 DEF Stop, BufferInv, TypeOK, answers, buffer, guard, redis
  <1>3. FlusherInv'
    BY <1>1 DEF Stop, BufferInv, TypeOK, FlusherInv, buffer, guard
  <1>4. LimitInv'
    BY DEF Stop, BufferInv, LimitInv, guard, redis
  <1> QED
    BY <1>2, <1>3, <1>4 DEF BufferInv

LEMMA TimeKeepsLimits ==
    ASSUME BufferInv, Consume \/ \E p \in Processes : ProbeInterval(p)
    PROVE  BufferInv'
  <1>1. Len(stream) \in Nat
    BY LenProperties DEF BufferInv, TypeOK
  <1>2. /\ UNCHANGED <<issued, buffer, flush, probes, overloaded, stream, dropped, limitReached>>
        /\ probeDue' \in [Processes -> BOOLEAN]
        /\ acked' \in 0..Len(stream)
    <2>1. CASE Consume
      BY <1>1, <2>1 DEF Consume, BufferInv, TypeOK, guard
    <2>2. ASSUME NEW p \in Processes, ProbeInterval(p)
          PROVE  /\ UNCHANGED <<issued, buffer, flush, probes, overloaded, redis>>
                 /\ probeDue' = [probeDue EXCEPT ![p] = TRUE]
      BY <2>2 DEF ProbeInterval
    <2>3. CASE \E p \in Processes : ProbeInterval(p)
      BY <2>2, <2>3 DEF BufferInv, TypeOK, redis
    <2> QED
      BY <2>1, <2>3
  <1>3. TypeOK'
    BY <1>2 DEF BufferInv, TypeOK, answers, buffer, flush
  <1>4. FlusherInv'
    BY <1>2 DEF BufferInv, FlusherInv, buffer, flush
  <1>5. LimitInv'
    BY <1>2 DEF BufferInv, LimitInv
  <1> QED
    BY <1>3, <1>4, <1>5 DEF BufferInv

LEMMA LossKeepsLimits ==
    ASSUME BufferInv, RedisComesBackEmpty
    PROVE  BufferInv'
  <1>1. /\ UNCHANGED <<issued, buffer, flush, guard, limitReached>>
        /\ stream' = << >> /\ acked' = 0 /\ dropped' = dropped \cup EventsOf(stream)
    BY DEF RedisComesBackEmpty
  <1>2. /\ stream \in Seq(Events) /\ EventsOf(stream) \subseteq Events
        /\ << >> \in Seq(Events) /\ Len(<< >>) = 0
        /\ Len(stream) \in Nat
    BY EventsOfSeq, LenProperties DEF BufferInv, TypeOK
  <1>3. TypeOK'
    BY <1>1, <1>2 DEF BufferInv, TypeOK, answers, buffer, flush, guard
  <1>4. FlusherInv'
    BY <1>1 DEF BufferInv, FlusherInv, buffer, flush, guard
  <1>5. LimitInv'
    <2>1. Len(stream') >= MaxLag => Len(stream) >= MaxLag
      BY <1>1, <1>2
    <2> QED
      BY <1>1, <2>1 DEF BufferInv, LimitInv, guard
  <1> QED
    BY <1>3, <1>4, <1>5 DEF BufferInv

LEMMA BufferStep ==
    ASSUME BufferInv, [Next]_vars
    PROVE  BufferInv'
  <1>1. CASE UNCHANGED vars
    BY <1>1 DEF vars, answers, buffer, flush, guard, redis, BufferInv, TypeOK, FlusherInv,
       LimitInv
  <1>2. CASE Next
    BY <1>2, IngestKeepsLimits, ProbeKeepsLimits, MeasureKeepsLimits, EndProbeKeepsLimits,
       TakingKeepsLimits, PublishingKeepsLimits, StopKeepsLimits, TimeKeepsLimits,
       LossKeepsLimits
    DEF Next, Flusher
  <1> QED
    BY <1>1, <1>2

LEMMA BufferInvAlways == Spec => []BufferInv
  <1>1. BufferInv /\ [Next]_vars => BufferInv'
    BY BufferStep
  <1> QED
    BY <1>1, InitBufferInv, PTL DEF Spec

\* The variables have their types in every reachable state: no queue grows past
\* buffer_queue_size and no batch past buffer_max_batch.
THEOREM TypeCorrect == Spec => []TypeOK
  <1>1. BufferInv => TypeOK
    BY DEF BufferInv
  <1> QED
    BY <1>1, BufferInvAlways, PTL

\* A process that had at most one batch in its queue when it was stopped leaves nothing
\* behind, wherever its flusher was and whether or not it was cancelled (buffer.py: stop).
THEOREM StopSavesABatch == Spec => []StopDrainsOneBatch
  <1>1. BufferInv => StopDrainsOneBatch
    BY DEF BufferInv, FlusherInv, StopDrainsOneBatch
  <1> QED
    BY <1>1, BufferInvAlways, PTL

\* Only a request refuses events, and for its reason.
LEMMA RefusalHasACause ==
    ASSUME BufferInv, [Next]_vars, NEW p \in Processes, refused'[p] # refused[p]
    PROVE  Len(queue'[p]) = BufferSize \/ (overloaded'[p] /\ limitReached)
  <1>1. ASSUME NEW o \in Processes, IngestEvents(o)
        PROVE  Len(queue'[p]) = BufferSize \/ (overloaded'[p] /\ limitReached)
    <2>1. PICK n \in RequestSizes : issued + n <= MaxEvents
                                    /\ Submit(o, NextEvents(n), overloaded[o])
      BY <1>1 DEF IngestEvents
    <2>2. NextEvents(n) \in Seq(Events) /\ overloaded[o] \in BOOLEAN
      BY <2>1, NextEventsAreNew DEF BufferInv, TypeOK
    <2>3. o = p /\ (overloaded[p] \/ Len(queue'[p]) = BufferSize)
      BY <2>1, <2>2, SubmitRefuses DEF BufferInv
    <2>4. overloaded' = overloaded
      BY <1>1 DEF IngestEvents, guard
    <2> QED
      BY <2>3, <2>4 DEF BufferInv, LimitInv
  <1>2. ASSUME NEW o \in Processes, NEW lag \in PossibleLags, EndProbe(o, lag)
        PROVE  Len(queue'[p]) = BufferSize \/ (overloaded'[p] /\ limitReached)
    <2>1. PICK q \in probes[o] :
            /\ q.lag = lag
            /\ overloaded' = [overloaded EXCEPT ![o] = IsOverload(lag)]
            /\ Submit(o, q.events, IsOverload(lag))
      BY <1>2 DEF EndProbe
    <2>2. q.events \in Seq(Events) /\ IsOverload(lag) \in BOOLEAN
      BY DEF BufferInv, TypeOK, Probe, IsOverload
    <2>3. o = p /\ (IsOverload(lag) \/ Len(queue'[p]) = BufferSize)
      BY <2>1, <2>2, SubmitRefuses DEF BufferInv
    <2>4. IsOverload(lag) => overloaded'[p] /\ limitReached
      BY <2>1, <2>3 DEF BufferInv, TypeOK, LimitInv, IsOverload
    <2> QED
      BY <2>3, <2>4
  <1>3. ~UNCHANGED refused
    OBVIOUS
  <1>4. \/ \E o \in Processes : IngestEvents(o)
        \/ \E o \in Processes, lag \in PossibleLags : EndProbe(o, lag)
    BY <1>3 DEF Next, Flusher, vars, answers, buffer, ProbeByWebhook, ProbeByHealth, MeasureLag,
       MeasureFails, LagIs, FlushRound, PublishMany, LastFlush, PublishFails, Stop,
       DrainTimeout, ProbeInterval, Consume, RedisComesBackEmpty
  <1> QED
    BY <1>1, <1>2, <1>4

\* Although measurements fail, overlap and end in any order, and although Redis may come
\* back empty, a process answers 429 only when its queue is full or when a measurement that
\* Redis answered found the stream as long as the limit (routes.py: ingest_events;
\* backpressure.py: evaluate; publisher.py: pending_lag).
THEOREM RefusalsAreJustified == Spec => RefusalIsJustified
  <1>1. BufferInv /\ [Next]_vars =>
            [\A p \in Processes : refused'[p] # refused[p] =>
                \/ Len(queue'[p]) = BufferSize
                \/ overloaded'[p] /\ limitReached]_vars
    BY RefusalHasACause
  <1> QED
    BY <1>1, BufferInvAlways, PTL DEF Spec, RefusalIsJustified

(***************************************************************************)
(* Nothing that was accepted is lost, repeated or overtaken.                *)
(***************************************************************************)

PlaceInv == IssuedOnce /\ InOnePlace /\ AcceptedAccounted

LEMMA DistinctConcat ==
    ASSUME NEW T, NEW s \in Seq(T), NEW t \in Seq(T)
    PROVE  Distinct(s \o t) <=>
             Distinct(s) /\ Distinct(t) /\ EventsOf(s) \cap EventsOf(t) = {}
  <1>1. /\ Len(s) \in Nat /\ Len(t) \in Nat /\ Len(s \o t) = Len(s) + Len(t)
        /\ \A i \in 1..Len(s) + Len(t) :
            (s \o t)[i] = IF i <= Len(s) THEN s[i] ELSE t[i - Len(s)]
    BY ConcatProperties, LenProperties
  <1>2. /\ \A i \in 1..Len(s) : i \in 1..Len(s \o t) /\ (s \o t)[i] = s[i]
        /\ \A i \in 1..Len(t) : Len(s) + i \in 1..Len(s \o t) /\ (s \o t)[Len(s) + i] = t[i]
    <2>1. ASSUME NEW i \in 1..Len(s) PROVE i \in 1..Len(s \o t) /\ (s \o t)[i] = s[i]
      BY <1>1
    <2>2. ASSUME NEW i \in 1..Len(t)
          PROVE  Len(s) + i \in 1..Len(s \o t) /\ (s \o t)[Len(s) + i] = t[i]
      <3>1. /\ Len(s) + i \in 1..Len(s) + Len(t) /\ ~(Len(s) + i <= Len(s))
            /\ (Len(s) + i) - Len(s) = i
        BY <1>1
      <3> QED
        BY <1>1, <3>1
    <2> QED
      BY <2>1, <2>2
  <1>3. ASSUME Distinct(s \o t)
        PROVE  Distinct(s) /\ Distinct(t) /\ EventsOf(s) \cap EventsOf(t) = {}
    <2>1. Distinct(s)
      BY <1>2, <1>3 DEF Distinct
    <2>2. ASSUME NEW i \in 1..Len(t), NEW j \in 1..Len(t), t[i] = t[j] PROVE i = j
      <3>1. Len(s) + i = Len(s) + j
        BY <1>2, <1>3, <2>2 DEF Distinct
      <3> QED
        BY <1>1, <3>1
    <2>3. ASSUME NEW i \in 1..Len(s), NEW j \in 1..Len(t) PROVE s[i] # t[j]
      <3>1. i # Len(s) + j
        BY <1>1
      <3> QED
        BY <1>2, <1>3, <3>1 DEF Distinct
    <2> QED
      BY <2>1, <2>2, <2>3 DEF Distinct, EventsOf
  <1>4. ASSUME Distinct(s), Distinct(t), EventsOf(s) \cap EventsOf(t) = {},
               NEW i \in 1..Len(s \o t), NEW j \in 1..Len(s \o t), (s \o t)[i] = (s \o t)[j]
        PROVE  i = j
    <2>1. \A k \in 1..Len(s \o t) :
            \/ k <= Len(s) /\ k \in 1..Len(s) /\ (s \o t)[k] = s[k]
            \/ k > Len(s) /\ k - Len(s) \in 1..Len(t) /\ (s \o t)[k] = t[k - Len(s)]
      BY <1>1
    <2>2. \A k \in 1..Len(s), l \in 1..Len(t) : s[k] # t[l]
      BY <1>4 DEF EventsOf
    <2>3. CASE i <= Len(s) /\ j <= Len(s)
      BY <1>1, <1>4, <2>1, <2>3 DEF Distinct
    <2>4. CASE i > Len(s) /\ j > Len(s)
      <3>1. i - Len(s) = j - Len(s)
        BY SMTT(30), <1>1, <1>4, <2>1, <2>4 DEF Distinct
      <3> QED
        BY <1>1, <3>1
    <2>5. \/ i <= Len(s) /\ j <= Len(s)
          \/ i > Len(s) /\ j > Len(s)
      BY <1>1, <1>4, <2>1, <2>2
    <2> QED
      BY <2>3, <2>4, <2>5
  <1> QED
    BY <1>3, <1>4 DEF Distinct

\* The shape of AcceptedAccounted.
LEMMA Three ==
    ASSUME NEW T, NEW a \in Seq(T), NEW b \in Seq(T), NEW c \in Seq(T), NEW d \in Seq(T)
    PROVE  /\ a \o b \o c \in Seq(T)
           /\ (a \o b \o c) \o d = a \o b \o (c \o d)
           /\ a \o << >> \o (b \o c) = a \o b \o c
           /\ a \o b \o << >> \o c = a \o b \o c
  <1>1. a \o b \in Seq(T) /\ a \o b \o c \in Seq(T) /\ b \o c \in Seq(T)
    BY ConcatProperties
  <1>2. (a \o b \o c) \o d = a \o b \o (c \o d)
    <2> DEFINE ab == a \o b
    <2>1. ab \in Seq(T)
      BY <1>1
    <2> HIDE DEF ab
    <2>2. (ab \o c) \o d = ab \o (c \o d)
      BY SMTT(30), <2>1, ConcatAssociative
    <2> QED
      BY <2>2 DEF ab
  <1>3. a \o (b \o c) = a \o b \o c
    BY SMTT(30), ConcatAssociative
  <1>4. a \o << >> = a /\ a \o b \o << >> = a \o b
    BY <1>1, ConcatEmptySeq
  <1> QED
    BY <1>1, <1>2, <1>3, <1>4

\* New events enter p.
LEMMA AddedKeepsPlaces ==
    ASSUME TypeOK, InOnePlace, AcceptedAccounted,
           NEW p \in Processes, NEW part \in Seq(Events), Added(p, part), Distinct(part),
           \A o \in Processes : EventsOf(part) \cap Own(o) = {},
           UNCHANGED <<stream, dropped, batch>>
    PROVE  /\ InOnePlace' /\ AcceptedAccounted'
           /\ Own(p)' = Own(p) \cup EventsOf(part)
           /\ \A o \in Processes \ {p} : Own(o)' = Own(o)
  <1>1. /\ queue'[p] = queue[p] \o part /\ accepted'[p] = accepted[p] \o part
        /\ \A o \in Processes \ {p} : queue'[o] = queue[o] /\ accepted'[o] = accepted[o]
    BY DEF TypeOK, Added
  <1>2. /\ \A o \in Processes : queue[o] \in Seq(Events) /\ accepted[o] \in Seq(Events)
                                /\ batch[o] \in Seq(Events)
        /\ stream \in Seq(Events)
    BY DEF TypeOK
  <1>3. /\ Own(p)' = Own(p) \cup EventsOf(part)
        /\ EventsOf(queue'[p]) = EventsOf(queue[p]) \cup EventsOf(part)
        /\ \A o \in Processes \ {p} : Own(o)' = Own(o) /\ Buffered(o)' = Buffered(o)
    <2>1. /\ EventsOf(accepted[p] \o part) = EventsOf(accepted[p]) \cup EventsOf(part)
          /\ EventsOf(queue[p] \o part) = EventsOf(queue[p]) \cup EventsOf(part)
      BY <1>2, EventsOfConcat
    <2> QED
      BY <1>1, <2>1 DEF Own, Buffered
  <1>4. EventsOf(part) \cap (EventsOf(stream) \cup dropped \cup Buffered(p)) = {}
    BY DEF InOnePlace
  <1>5. InOnePlace'
    <2>1. Distinct(queue'[p])
      BY <1>1, <1>2, <1>4, DistinctConcat DEF InOnePlace, Buffered
    <2>2. /\ Buffered(p)' = Buffered(p) \cup EventsOf(part)
          /\ EventsOf(batch[p]) \cap EventsOf(queue'[p]) = {}
      BY <1>3, <1>4 DEF Buffered, InOnePlace
    <2>3. \A o \in Processes :
            /\ Distinct(queue'[o])
            /\ Buffered(o)' \subseteq Own(o)'
            /\ EventsOf(batch[o]) \cap EventsOf(queue'[o]) = {}
            /\ Buffered(o)' \cap (EventsOf(stream) \cup dropped) = {}
      <3>1. ASSUME NEW o \in Processes, o # p
            PROVE  /\ Distinct(queue'[o])
                   /\ Buffered(o)' \subseteq Own(o)'
                   /\ EventsOf(batch[o]) \cap EventsOf(queue'[o]) = {}
                   /\ Buffered(o)' \cap (EventsOf(stream) \cup dropped) = {}
        <4>1. queue'[o] = queue[o] /\ Own(o)' = Own(o) /\ Buffered(o)' = Buffered(o)
          BY <1>1, <1>3, <3>1
        <4>2. /\ Distinct(queue[o]) /\ Buffered(o) \subseteq Own(o)
              /\ EventsOf(batch[o]) \cap EventsOf(queue[o]) = {}
              /\ Buffered(o) \cap (EventsOf(stream) \cup dropped) = {}
          BY DEF InOnePlace
        <4> QED
          BY <4>1, <4>2
      <3>2. /\ Buffered(p)' \subseteq Own(p)'
            /\ Buffered(p)' \cap (EventsOf(stream) \cup dropped) = {}
        BY <1>3, <1>4, <2>2 DEF InOnePlace
      <3> QED
        BY <2>1, <2>2, <3>1, <3>2
    <2>4. \A e \in EventsOf(stream) \cup dropped : \E o \in Processes : e \in Own(o)'
      BY <1>3 DEF InOnePlace
    <2> QED
      BY <2>3, <2>4 DEF InOnePlace
  <1>6. Survivors(p)' = PublishedBy(p)' \o batch'[p] \o queue'[p]
    <2> DEFINE alive == Events \ dropped
               old == Only(accepted[p], alive)
               sent == Only(stream, EventsOf(accepted[p]))
    <2>1. old \in Seq(Events) /\ sent \in Seq(Events)
      BY <1>2, OnlySelects
    <2>2. old = sent \o batch[p] \o queue[p]
      BY DEF AcceptedAccounted, Survivors, PublishedBy
    <2>3. Only(part, alive) = part
      <3>1. EventsOf(part) \subseteq alive
        BY <1>4, EventsOfSeq
      <3> QED
        BY <3>1, OnlyAllOrNothing
    <2>4. Only(accepted[p] \o part, alive) = old \o part
      <3>1. Only(accepted[p] \o part, alive) = Only(accepted[p], alive) \o Only(part, alive)
        BY <1>2, OnlyConcat
      <3> QED
        BY <2>3, <3>1
    <2>5. Only(stream, EventsOf(accepted'[p])) = sent
      <3>1. EventsOf(stream) \cap EventsOf(accepted'[p]) = EventsOf(stream) \cap EventsOf(accepted[p])
        BY <1>3, <1>4 DEF Own
      <3> QED
        BY <1>2, <3>1, OnlySame
    <2> HIDE DEF old, sent
    <2>6. (sent \o batch[p] \o queue[p]) \o part = sent \o batch[p] \o (queue[p] \o part)
      <3> DEFINE one == sent \o batch[p]
                 left == queue[p]
      <3>1. one \in Seq(Events) /\ left \in Seq(Events) /\ part \in Seq(Events)
        BY <1>2, <2>1, ConcatProperties
      <3> HIDE DEF one, left
      <3>2. (one \o left) \o part = one \o (left \o part)
        BY <3>1, ConcatAssociative
      <3> QED
        BY <3>2 DEF one, left
    <2>7. Survivors(p)' = old \o part /\ PublishedBy(p)' = sent
      BY <1>1, <2>4, <2>5 DEF Survivors, PublishedBy
    <2> QED
      BY <1>1, <2>2, <2>6, <2>7
  <1>7. ASSUME NEW o \in Processes, o # p
        PROVE  Survivors(o)' = PublishedBy(o)' \o batch'[o] \o queue'[o]
    BY <1>1, <1>7 DEF AcceptedAccounted, Survivors, PublishedBy
  <1> QED
    BY <1>3, <1>5, <1>6, <1>7 DEF AcceptedAccounted

\* A batch is taken from the queue of p.
LEMMA TakenKeepsPlaces ==
    ASSUME TypeOK, InOnePlace, AcceptedAccounted,
           NEW p \in Processes, NEW first \in Seq(Events), NEW rest \in Seq(Events),
           Taken(p, first, rest), batch[p] = << >>,
           UNCHANGED <<stream, dropped, accepted>>
    PROVE  InOnePlace' /\ AcceptedAccounted'
  <1>1. /\ batch'[p] = first /\ queue'[p] = rest /\ queue[p] = first \o rest
        /\ \A o \in Processes \ {p} : queue'[o] = queue[o] /\ batch'[o] = batch[o]
    BY DEF TypeOK, Taken
  <1>2. EventsOf(queue[p]) = EventsOf(first) \cup EventsOf(rest) /\ EventsOf(batch[p]) = {}
    <2>1. EventsOf(<< >>) = {}
      BY DEF EventsOf
    <2> QED
      BY <1>1, <2>1, EventsOfConcat
  <1>3. Distinct(rest) /\ EventsOf(first) \cap EventsOf(rest) = {}
    <2>1. Distinct(first \o rest)
      BY <1>1 DEF InOnePlace
    <2> QED
      BY <2>1, DistinctConcat
  <1>4. /\ Buffered(p)' = Buffered(p)
        /\ \A o \in Processes \ {p} : Buffered(o)' = Buffered(o)
        /\ \A o \in Processes : Own(o)' = Own(o)
    BY <1>1, <1>2 DEF Buffered, Own
  <1>5. InOnePlace'
    <2>1. \A o \in Processes : Distinct(queue'[o]) /\ EventsOf(batch'[o]) \cap EventsOf(queue'[o]) = {}
      BY <1>1, <1>3 DEF InOnePlace
    <2> QED
      BY SMTT(30), <1>4, <2>1 DEF InOnePlace
  <1>6. Survivors(p)' = PublishedBy(p)' \o batch'[p] \o queue'[p]
    <2> DEFINE sent == PublishedBy(p)
    <2>1. sent \in Seq(Events)
      BY OnlySelects DEF TypeOK, PublishedBy
    <2>2. Survivors(p) = sent \o << >> \o (first \o rest)
      BY <1>1 DEF AcceptedAccounted
    <2> HIDE DEF sent
    <2>3. sent \o << >> \o (first \o rest) = sent \o first \o rest
      BY SMTT(30), <2>1, Three
    <2>4. Survivors(p)' = Survivors(p) /\ PublishedBy(p)' = PublishedBy(p)
      BY DEF Survivors, PublishedBy
    <2> QED
      BY <1>1, <2>2, <2>3, <2>4 DEF sent
  <1>7. ASSUME NEW o \in Processes, o # p
        PROVE  Survivors(o)' = PublishedBy(o)' \o batch'[o] \o queue'[o]
    BY <1>1, <1>7 DEF AcceptedAccounted, Survivors, PublishedBy
  <1> QED
    BY <1>5, <1>6, <1>7 DEF AcceptedAccounted


\* A batch leaves p: some of it is in the stream now, the rest is gone.
LEMMA PublishedKeepsPlaces ==
    ASSUME TypeOK, InOnePlace, AcceptedAccounted,
           \A o, r \in Processes : o # r => Own(o) \cap Own(r) = {},
           NEW p \in Processes, NEW done, Published(p, done),
           UNCHANGED buffer
    PROVE  InOnePlace' /\ AcceptedAccounted'
  <1> DEFINE gone == EventsOf(batch[p]) \ done
             part == Only(batch[p], done)
  <1>1. /\ batch'[p] = << >> /\ \A o \in Processes \ {p} : batch'[o] = batch[o]
        /\ queue' = queue /\ accepted' = accepted
        /\ stream' = stream \o part /\ dropped' = dropped \cup gone
        /\ done \subseteq EventsOf(batch[p])
    BY DEF TypeOK, Published, Xadd, answers, buffer
  <1>2. /\ \A o \in Processes : queue[o] \in Seq(Events) /\ accepted[o] \in Seq(Events)
                                /\ batch[o] \in Seq(Events)
        /\ stream \in Seq(Events)
    BY DEF TypeOK
  <1>3. part \in Seq(Events) /\ EventsOf(part) = done
    <2>1. /\ Only(batch[p], done) \in Seq(Events)
          /\ EventsOf(Only(batch[p], done)) = EventsOf(batch[p]) \cap done
      BY <1>2, OnlySelects
    <2> QED
      BY <1>1, <2>1
  <1>4. /\ EventsOf(batch[p]) = done \cup gone /\ done \cap gone = {}
        /\ EventsOf(batch[p]) \subseteq Own(p)
        /\ EventsOf(batch[p]) \cap (EventsOf(stream) \cup dropped) = {}
        /\ EventsOf(batch[p]) \cap EventsOf(queue[p]) = {}
        /\ EventsOf(batch[p]) \subseteq Events
    <2>1. EventsOf(batch[p]) \subseteq Events
      BY <1>2, EventsOfSeq
    <2> QED
      BY <1>1, <2>1 DEF InOnePlace, Buffered
  <1> HIDE DEF gone, part
  <1>5. EventsOf(stream') = EventsOf(stream) \cup done
    BY <1>1, <1>2, <1>3, EventsOfConcat
  <1>6. InOnePlace'
    <2>1. EventsOf(stream') \cap dropped' = {}
      BY <1>1, <1>4, <1>5 DEF InOnePlace
    <2>2. \A o \in Processes : Own(o)' = Own(o)
      BY <1>1 DEF Own
    <2>3. /\ Distinct(queue'[p]) /\ Buffered(p)' \subseteq Own(p)'
          /\ EventsOf(batch'[p]) \cap EventsOf(queue'[p]) = {}
          /\ Buffered(p)' \cap (EventsOf(stream') \cup dropped') = {}
      <3>1. EventsOf(batch'[p]) = {}
        BY <1>1 DEF EventsOf
      <3>2. Buffered(p)' = EventsOf(queue[p]) /\ queue'[p] = queue[p]
        BY <1>1, <3>1 DEF Buffered
      <3>3. /\ Distinct(queue[p]) /\ EventsOf(queue[p]) \subseteq Own(p)
            /\ EventsOf(queue[p]) \cap (EventsOf(stream) \cup dropped) = {}
        BY DEF InOnePlace, Buffered
      <3>4. EventsOf(queue[p]) \cap (done \cup gone) = {}
        BY <1>4
      <3> QED
        BY <1>1, <1>5, <2>2, <3>1, <3>2, <3>3, <3>4
    <2>4. ASSUME NEW o \in Processes, o # p
          PROVE  /\ Distinct(queue'[o]) /\ Buffered(o)' \subseteq Own(o)'
                 /\ EventsOf(batch'[o]) \cap EventsOf(queue'[o]) = {}
                 /\ Buffered(o)' \cap (EventsOf(stream') \cup dropped') = {}
      <3>1. batch'[o] = batch[o] /\ queue'[o] = queue[o] /\ Buffered(o)' = Buffered(o)
        BY <1>1, <2>4 DEF Buffered
      <3>2. /\ Distinct(queue[o]) /\ Buffered(o) \subseteq Own(o)
            /\ EventsOf(batch[o]) \cap EventsOf(queue[o]) = {}
            /\ Buffered(o) \cap (EventsOf(stream) \cup dropped) = {}
        BY DEF InOnePlace
      <3>3. Own(o) \cap (done \cup gone) = {}
        BY <1>4, <2>4
      <3> QED
        BY <1>1, <1>5, <2>2, <3>1, <3>2, <3>3
    <2>5. \A e \in EventsOf(stream') \cup dropped' : \E o \in Processes : e \in Own(o)'
      BY <1>1, <1>4, <1>5, <2>2 DEF InOnePlace
    <2> QED
      BY <2>1, <2>3, <2>4, <2>5 DEF InOnePlace
  <1>7. Survivors(p)' = PublishedBy(p)' \o batch'[p] \o queue'[p]
    <2> DEFINE alive == Events \ dropped
               kept == Events \ gone
               sent == PublishedBy(p)
               taken == batch[p]
               left == queue[p]
               one == sent \o taken
    <2>1. /\ taken \in Seq(Events) /\ left \in Seq(Events)
          /\ sent \in Seq(Events) /\ EventsOf(sent) = EventsOf(stream) \cap Own(p)
      BY <1>2, OnlySelects DEF PublishedBy, Own
    <2>2. Survivors(p) = one \o left /\ one \in Seq(Events)
      BY <2>1, ConcatProperties DEF AcceptedAccounted
    <2>3. Survivors(p)' = Only(Survivors(p), kept)
      <3>1. alive \cap kept = Events \ dropped'
        BY <1>1
      <3>2. Only(Only(accepted[p], alive), kept) = Only(accepted[p], alive \cap kept)
        BY <1>2, OnlyTwice
      <3> QED
        BY <1>1, <3>1, <3>2 DEF Survivors
    <2>4. Only(sent, kept) = sent
      <3>1. EventsOf(sent) \subseteq kept
        BY <1>4, <2>1, EventsOfSeq
      <3> QED
        BY <2>1, <3>1, OnlyAllOrNothing
    <2>5. Only(taken, kept) = part
      <3>1. EventsOf(taken) \cap kept = EventsOf(taken) \cap done
        BY <1>4
      <3> QED
        BY <2>1, <3>1, OnlySame DEF part
    <2>6. Only(left, kept) = left
      <3>1. EventsOf(left) \subseteq kept
        BY <1>4, <2>1, EventsOfSeq
      <3> QED
        BY <2>1, <3>1, OnlyAllOrNothing
    <2>7. PublishedBy(p)' = sent \o part
      <3>1. Only(stream \o part, Own(p)) = Only(stream, Own(p)) \o Only(part, Own(p))
        BY <1>2, <1>3, OnlyConcat
      <3>2. Only(part, Own(p)) = part
        BY <1>3, <1>4, OnlyAllOrNothing
      <3> QED
        BY <1>1, <3>1, <3>2 DEF PublishedBy, Own
    <2> HIDE DEF alive, kept, sent, taken
    <2>8. Only(one, kept) = Only(sent, kept) \o Only(taken, kept)
      BY <2>1, OnlyConcat
    <2>9. left = queue[p]
      OBVIOUS
    <2> HIDE DEF one, left
    <2>10. Only(one \o left, kept) = Only(one, kept) \o Only(left, kept)
      BY SMTT(30), <2>1, <2>2, OnlyConcat
    <2>11. Survivors(p)' = sent \o part \o left
      BY <2>2, <2>3, <2>4, <2>5, <2>6, <2>8, <2>10
    <2>12. sent \o part \o << >> \o left = sent \o part \o left
      BY <1>3, <2>1, Three
    <2> QED
      BY <1>1, <2>7, <2>9, <2>11, <2>12
  <1>8. ASSUME NEW o \in Processes, o # p
        PROVE  Survivors(o)' = PublishedBy(o)' \o batch'[o] \o queue'[o]
    <2>1. Own(o) \cap (done \cup gone) = {}
      BY <1>4, <1>8
    <2>2. Survivors(o)' = Survivors(o)
      <3>1. EventsOf(accepted[o]) \cap (Events \ dropped')
              = EventsOf(accepted[o]) \cap (Events \ dropped)
        BY <1>1, <2>1 DEF Own
      <3>2. Only(accepted[o], Events \ dropped') = Only(accepted[o], Events \ dropped)
        BY <1>2, <3>1, OnlySame
      <3> QED
        BY <1>1, <3>2 DEF Survivors
    <2>3. PublishedBy(o)' = PublishedBy(o)
      <3> DEFINE sent == Only(stream, Own(o))
      <3>1. Only(stream \o part, Own(o)) = sent \o Only(part, Own(o))
        BY <1>2, <1>3, OnlyConcat
      <3>2. Only(part, Own(o)) = << >>
        BY <1>3, <2>1, OnlyAllOrNothing
      <3>3. sent \in Seq(Events)
        BY <1>2, OnlySelects
      <3>4. PublishedBy(o)' = Only(stream \o part, Own(o)) /\ PublishedBy(o) = sent
        BY <1>1 DEF PublishedBy, Own
      <3> HIDE DEF sent
      <3> QED
        BY <3>1, <3>2, <3>3, <3>4, ConcatEmptySeq
    <2>4. batch'[o] = batch[o] /\ queue'[o] = queue[o]
      BY <1>1, <1>8
    <2> QED
      BY <2>2, <2>3, <2>4 DEF AcceptedAccounted
  <1> QED
    BY <1>6, <1>7, <1>8 DEF AcceptedAccounted


LEMMA InitPlaceInv == Init => PlaceInv
  <1> SUFFICES ASSUME Init PROVE PlaceInv
    OBVIOUS
  <1>1. \A p \in Processes : Own(p) = {} /\ Buffered(p) = {}
    BY DEF Init, Own, Buffered, EventsOf
  <1>2. IssuedOnce
    BY <1>1 DEF Init, IssuedOnce
  <1>3. InOnePlace
    BY <1>1 DEF Init, InOnePlace, Distinct, EventsOf
  <1>4. AcceptedAccounted
    <2>1. << >> \in Seq(Events) /\ << >> \o << >> \o << >> = << >>
      BY EmptySeq, ConcatEmptySeq
    <2>2. \A p \in Processes : Survivors(p) = << >> /\ PublishedBy(p) = << >>
      BY OnlyEmpty DEF Init, Survivors, PublishedBy
    <2> QED
      BY <2>1, <2>2 DEF Init, AcceptedAccounted
  <1> QED
    BY <1>2, <1>3, <1>4 DEF PlaceInv

\* Events that waited nowhere else are accepted by p.
LEMMA AcceptedStaysIssuedOnce ==
    ASSUME TypeOK, IssuedOnce, issued' \in Nat, issued <= issued',
           NEW p \in Processes, NEW part,
           Own(p)' = Own(p) \cup EventsOf(part),
           \A o \in Processes \ {p} : Own(o)' = Own(o),
           EventsOf(part) \subseteq 1..issued',
           \A o \in Processes : EventsOf(part) \cap Own(o) = {},
           \A o \in Processes : probes'[o] \subseteq probes[o],
           \A o \in Processes : \A q \in probes'[o] :
                EventsOf(q.events) \cap EventsOf(part) = {}
    PROVE  IssuedOnce'
  <1>1. issued \in Nat /\ 1..issued \subseteq 1..issued'
    BY DEF TypeOK
  <1>2. \A o \in Processes : Own(o)' \subseteq 1..issued'
    BY <1>1 DEF IssuedOnce
  <1>3. \A o, r \in Processes : o # r => Own(o)' \cap Own(r)' = {}
    BY DEF IssuedOnce
  <1>4. ASSUME NEW o \in Processes, NEW q \in probes'[o]
        PROVE  /\ Distinct(q.events) /\ EventsOf(q.events) \subseteq 1..issued'
               /\ \A k \in Processes :
                    /\ EventsOf(q.events) \cap Own(k)' = {}
                    /\ \A r \in probes'[k] :
                        EventsOf(q.events) \cap EventsOf(r.events) # {} => k = o /\ r = q
    <2>1. q \in probes[o] /\ EventsOf(q.events) \cap EventsOf(part) = {}
      OBVIOUS
    <2>2. /\ Distinct(q.events) /\ EventsOf(q.events) \subseteq 1..issued
          /\ \A k \in Processes :
                /\ EventsOf(q.events) \cap Own(k) = {}
                /\ \A r \in probes[k] :
                    EventsOf(q.events) \cap EventsOf(r.events) # {} => k = o /\ r = q
      BY <2>1 DEF IssuedOnce
    <2>3. \A k \in Processes : EventsOf(q.events) \cap Own(k)' = {}
      BY <2>1, <2>2
    <2> QED
      BY <1>1, <2>2, <2>3
  <1> QED
    BY <1>2, <1>3, <1>4 DEF IssuedOnce

\* A probe waits with new events.
LEMMA ProbedStaysIssuedOnce ==
    ASSUME TypeOK, IssuedOnce, issued' \in Nat, issued <= issued',
           NEW p \in Processes, NEW new,
           Distinct(new.events), EventsOf(new.events) \subseteq (issued + 1)..issued',
           probes' = [probes EXCEPT ![p] = @ \cup {new}],
           UNCHANGED accepted
    PROVE  IssuedOnce'
  <1>1. issued \in Nat /\ 1..issued \subseteq 1..issued' /\ (issued + 1)..issued' \subseteq 1..issued'
        /\ (1..issued) \cap ((issued + 1)..issued') = {}
    BY DEF TypeOK
  <1>2. \A o \in Processes : Own(o)' = Own(o)
    BY DEF Own
  <1>3. /\ \A o \in Processes : Own(o)' \subseteq 1..issued'
        /\ \A o, r \in Processes : o # r => Own(o)' \cap Own(r)' = {}
    BY <1>1, <1>2 DEF IssuedOnce
  <1>4. \A o \in Processes : \A q \in probes'[o] : q \in probes[o] \/ (o = p /\ q = new)
    BY DEF TypeOK
  <1>5. /\ \A o \in Processes : EventsOf(new.events) \cap Own(o) = {}
        /\ \A o \in Processes : \A q \in probes[o] :
                /\ EventsOf(q.events) \subseteq 1..issued /\ Distinct(q.events)
                /\ EventsOf(new.events) \cap EventsOf(q.events) = {}
    BY <1>1 DEF IssuedOnce
  <1>6. ASSUME NEW o \in Processes, NEW q \in probes'[o]
        PROVE  /\ Distinct(q.events) /\ EventsOf(q.events) \subseteq 1..issued'
               /\ \A k \in Processes :
                    /\ EventsOf(q.events) \cap Own(k)' = {}
                    /\ \A r \in probes'[k] :
                        EventsOf(q.events) \cap EventsOf(r.events) # {} => k = o /\ r = q
    <2>1. CASE o = p /\ q = new
      BY <1>1, <1>2, <1>4, <1>5, <2>1
    <2>2. CASE q \in probes[o]
      <3>1. \A k \in Processes :
                /\ EventsOf(q.events) \cap Own(k) = {}
                /\ \A r \in probes[k] :
                    EventsOf(q.events) \cap EventsOf(r.events) # {} => k = o /\ r = q
        BY <2>2 DEF IssuedOnce
      <3>2. EventsOf(q.events) \subseteq 1..issued' /\ Distinct(q.events)
        BY <1>1, <1>5, <2>2
      <3>3. EventsOf(q.events) \cap EventsOf(new.events) = {}
        BY <1>5, <2>2
      <3> QED
        BY <1>2, <1>4, <3>1, <3>2, <3>3
    <2> QED
      BY <1>4, <2>1, <2>2
  <1> QED
    BY <1>3, <1>6 DEF IssuedOnce

\* A probe learns the lag.
LEMMA MeasuredStaysIssuedOnce ==
    ASSUME TypeOK, IssuedOnce, NEW p \in Processes, NEW q \in probes[p], NEW lag,
           LagIs(p, q, lag)
    PROVE  IssuedOnce'
  <1> DEFINE new == [q EXCEPT !.lag = lag]
  <1>1. /\ new.events = q.events
        /\ probes' = [probes EXCEPT ![p] = (@ \ {q}) \cup {new}]
        /\ issued' = issued /\ accepted' = accepted
    BY DEF LagIs, TypeOK, Probe, answers, buffer
  <1> HIDE DEF new
  <1>2. \A o \in Processes : Own(o)' = Own(o)
    BY <1>1 DEF Own
  <1>3. \A o \in Processes : \A r \in probes'[o] :
            \/ r \in probes[o] /\ (o # p \/ r # q)
            \/ o = p /\ r = new
    BY <1>1 DEF TypeOK
  <1>4. ASSUME NEW o \in Processes, NEW r \in probes'[o]
        PROVE  /\ Distinct(r.events) /\ EventsOf(r.events) \subseteq 1..issued'
               /\ \A k \in Processes :
                    /\ EventsOf(r.events) \cap Own(k)' = {}
                    /\ \A t \in probes'[k] :
                        EventsOf(r.events) \cap EventsOf(t.events) # {} => k = o /\ t = r
    <2>1. CASE o = p /\ r = new
      <3>1. /\ Distinct(q.events) /\ EventsOf(q.events) \subseteq 1..issued
            /\ \A k \in Processes :
                    /\ EventsOf(q.events) \cap Own(k) = {}
                    /\ \A t \in probes[k] :
                        EventsOf(q.events) \cap EventsOf(t.events) # {} => k = p /\ t = q
        BY DEF IssuedOnce
      <3> QED
        BY <1>1, <1>2, <1>3, <2>1, <3>1
    <2>2. CASE r \in probes[o] /\ (o # p \/ r # q)
      <3>1. /\ Distinct(r.events) /\ EventsOf(r.events) \subseteq 1..issued
            /\ \A k \in Processes :
                    /\ EventsOf(r.events) \cap Own(k) = {}
                    /\ \A t \in probes[k] :
                        EventsOf(r.events) \cap EventsOf(t.events) # {} => k = o /\ t = r
        BY <2>2 DEF IssuedOnce
      <3>2. EventsOf(r.events) \cap EventsOf(new.events) = {}
        BY <1>1, <2>2, <3>1
      <3> QED
        BY <1>1, <1>2, <1>3, <3>1, <3>2
    <2> QED
      BY <1>3, <2>1, <2>2
  <1> QED
    BY <1>1, <1>2, <1>4 DEF IssuedOnce

LEMMA SamePlaces ==
    ASSUME PlaceInv, UNCHANGED <<issued, buffer, batch, probes, stream, dropped>>
    PROVE  PlaceInv'
  <1>1. \A p \in Processes : /\ Own(p)' = Own(p) /\ Buffered(p)' = Buffered(p)
                             /\ Survivors(p)' = Survivors(p) /\ PublishedBy(p)' = PublishedBy(p)
    BY DEF answers, buffer, Own, Buffered, Survivors, PublishedBy
  <1>2. IssuedOnce'
    BY <1>1 DEF PlaceInv, IssuedOnce
  <1>3. InOnePlace'
    BY <1>1 DEF PlaceInv, InOnePlace, answers, buffer
  <1>4. AcceptedAccounted'
    BY <1>1 DEF PlaceInv, AcceptedAccounted, answers, buffer
  <1> QED
    BY <1>2, <1>3, <1>4 DEF PlaceInv

LEMMA IngestKeepsPlaces ==
    ASSUME BufferInv, PlaceInv, NEW p \in Processes, IngestEvents(p)
    PROVE  PlaceInv'
  <1>1. PICK n \in RequestSizes :
            /\ issued + n <= MaxEvents
            /\ issued' = issued + n
            /\ Submit(p, NextEvents(n), overloaded[p])
    BY DEF IngestEvents
  <1>2. TypeOK /\ overloaded[p] \in BOOLEAN /\ issued \in Nat /\ n \in Nat
    BY DEF BufferInv, TypeOK
  <1>3. /\ NextEvents(n) \in Seq(Events) /\ Distinct(NextEvents(n))
        /\ EventsOf(NextEvents(n)) = (issued + 1)..(issued + n)
    BY <1>1, <1>2, NextEventsAreNew DEF TypeOK
  <1>4. PICK part \in Seq(Events) :
            /\ Added(p, part) /\ Distinct(part)
            /\ EventsOf(part) \subseteq (issued + 1)..(issued + n)
    BY ZenonT(30), <1>1, <1>2, <1>3, SubmitAdds
  <1>5. /\ EventsOf(part) \cap (1..issued) = {}
        /\ EventsOf(part) \subseteq 1..issued'
        /\ issued <= issued' /\ issued' \in Nat
    BY <1>1, <1>2, <1>4
  <1>6. /\ \A o \in Processes : EventsOf(part) \cap Own(o) = {}
        /\ \A o \in Processes : \A q \in probes[o] : EventsOf(q.events) \cap EventsOf(part) = {}
    BY <1>5 DEF PlaceInv, IssuedOnce
  <1>7. UNCHANGED <<stream, dropped, batch>> /\ probes' = probes
    BY DEF IngestEvents, flush, guard, redis
  <1>8. /\ InOnePlace' /\ AcceptedAccounted'
        /\ Own(p)' = Own(p) \cup EventsOf(part)
        /\ \A o \in Processes \ {p} : Own(o)' = Own(o)
    BY <1>2, <1>4, <1>6, <1>7, AddedKeepsPlaces DEF PlaceInv
  <1>9. IssuedOnce'
    BY <1>2, <1>5, <1>6, <1>7, <1>8, AcceptedStaysIssuedOnce DEF PlaceInv
  <1> QED
    BY <1>8, <1>9 DEF PlaceInv

LEMMA EndProbeKeepsPlaces ==
    ASSUME BufferInv, PlaceInv, NEW p \in Processes, NEW lag \in PossibleLags, EndProbe(p, lag)
    PROVE  PlaceInv'
  <1>1. PICK q \in probes[p] :
            /\ probes' = [probes EXCEPT ![p] = @ \ {q}]
            /\ Submit(p, q.events, IsOverload(lag))
            /\ UNCHANGED <<issued, flush, redis, probeDue>>
    BY DEF EndProbe
  <1>2. /\ TypeOK /\ IsOverload(lag) \in BOOLEAN /\ issued \in Nat
        /\ q.events \in Seq(Events)
    BY DEF BufferInv, TypeOK, IsOverload, Probe
  <1>3. /\ Distinct(q.events) /\ EventsOf(q.events) \subseteq 1..issued
        /\ \A o \in Processes :
            /\ EventsOf(q.events) \cap Own(o) = {}
            /\ \A r \in probes[o] :
                EventsOf(q.events) \cap EventsOf(r.events) # {} => o = p /\ r = q
    BY <1>1 DEF PlaceInv, IssuedOnce
  <1>4. PICK part \in Seq(Events) :
            Added(p, part) /\ Distinct(part) /\ EventsOf(part) \subseteq EventsOf(q.events)
    BY <1>1, <1>2, <1>3, SubmitAdds
  <1>5. UNCHANGED <<stream, dropped, batch, issued>>
    BY <1>1 DEF flush, redis
  <1>6. \A o \in Processes : EventsOf(part) \cap Own(o) = {}
    BY <1>3, <1>4
  <1>7. /\ InOnePlace' /\ AcceptedAccounted'
        /\ Own(p)' = Own(p) \cup EventsOf(part)
        /\ \A o \in Processes \ {p} : Own(o)' = Own(o)
    BY <1>2, <1>4, <1>5, <1>6, AddedKeepsPlaces DEF PlaceInv
  <1>8. \A o \in Processes : \A r \in probes'[o] :
            /\ r \in probes[o] /\ ~(o = p /\ r = q)
            /\ EventsOf(r.events) \cap EventsOf(part) = {}
    <2>1. \A o \in Processes : \A r \in probes'[o] : r \in probes[o] /\ ~(o = p /\ r = q)
      BY <1>1, <1>2 DEF TypeOK
    <2> QED
      BY <1>3, <1>4, <2>1
  <1>9. IssuedOnce'
    <2>1. \A o \in Processes : probes'[o] \subseteq probes[o]
      BY <1>8
    <2>2. EventsOf(part) \subseteq 1..issued' /\ issued' \in Nat /\ issued <= issued'
      BY <1>2, <1>3, <1>4, <1>5
    <2> QED
      BY <1>2, <1>6, <1>7, <1>8, <2>1, <2>2, AcceptedStaysIssuedOnce DEF PlaceInv
  <1> QED
    BY <1>7, <1>9 DEF PlaceInv

LEMMA ProbeKeepsPlaces ==
    ASSUME BufferInv, PlaceInv, NEW p \in Processes, ProbeByWebhook(p) \/ ProbeByHealth(p)
    PROVE  PlaceInv'
  <1>1. UNCHANGED <<buffer, batch, stream, dropped>>
    BY DEF ProbeByWebhook, ProbeByHealth, flush, redis
  <1>2. TypeOK /\ issued \in Nat
    BY DEF BufferInv, TypeOK
  <1>3. PICK events :
            /\ Distinct(events) /\ EventsOf(events) \subseteq (issued + 1)..issued'
            /\ issued' \in Nat /\ issued <= issued'
            /\ probes' = [probes EXCEPT ![p] = @ \cup {[events |-> events, lag |-> Unread]}]
    <2>1. CASE ProbeByWebhook(p)
      <3>1. PICK n \in RequestSizes :
                issued + n <= MaxEvents /\ issued' = issued + n /\ BeginProbe(p, NextEvents(n))
        BY <2>1 DEF ProbeByWebhook
      <3>2. n \in Nat /\ issued' \in Nat /\ issued <= issued'
        BY <1>2, <3>1
      <3>3. /\ Distinct(NextEvents(n))
            /\ EventsOf(NextEvents(n)) = (issued + 1)..issued'
        BY <1>2, <3>1, <3>2, NextEventsAreNew DEF TypeOK
      <3> QED
        BY <3>1, <3>2, <3>3 DEF BeginProbe
    <2>2. CASE ProbeByHealth(p)
      <3> DEFINE none == << >>
      <3>1. Distinct(none) /\ EventsOf(none) = {}
        BY DEF Distinct, EventsOf
      <3>2. /\ issued' = issued
            /\ probes' = [probes EXCEPT ![p] = @ \cup {[events |-> none, lag |-> Unread]}]
        BY <2>2 DEF ProbeByHealth, BeginProbe
      <3>3. /\ Distinct(none) /\ EventsOf(none) \subseteq (issued + 1)..issued'
            /\ issued' \in Nat /\ issued <= issued'
            /\ probes' = [probes EXCEPT ![p] = @ \cup {[events |-> none, lag |-> Unread]}]
        BY <1>2, <3>1, <3>2
      <3> HIDE DEF none
      <3> QED
        BY <3>3
    <2> QED
      BY <2>1, <2>2
  <1>4. IssuedOnce'
    <2> DEFINE new == [events |-> events, lag |-> Unread]
    <2>1. /\ new.events = events /\ probes' = [probes EXCEPT ![p] = @ \cup {new}]
          /\ UNCHANGED accepted
      BY <1>1, <1>3 DEF answers, buffer
    <2> HIDE DEF new
    <2> QED
      BY <1>2, <1>3, <2>1, ProbedStaysIssuedOnce DEF PlaceInv
  <1>5. \A o \in Processes : /\ Own(o)' = Own(o) /\ Buffered(o)' = Buffered(o)
                             /\ Survivors(o)' = Survivors(o) /\ PublishedBy(o)' = PublishedBy(o)
    BY <1>1 DEF answers, buffer, Own, Buffered, Survivors, PublishedBy
  <1>6. InOnePlace'
    BY <1>1, <1>5 DEF PlaceInv, InOnePlace, answers, buffer
  <1>7. AcceptedAccounted'
    BY <1>1, <1>5 DEF PlaceInv, AcceptedAccounted, answers, buffer
  <1> QED
    BY <1>4, <1>6, <1>7 DEF PlaceInv

LEMMA MeasureKeepsPlaces ==
    ASSUME BufferInv, PlaceInv, NEW p \in Processes, MeasureLag(p) \/ MeasureFails(p)
    PROVE  PlaceInv'
  <1>1. PICK q \in probes[p], lag \in Int : LagIs(p, q, lag)
    <2>1. Len(stream) \in Int /\ LagOnError \in Int
      BY LenProperties DEF BufferInv, TypeOK, LagOnError
    <2> QED
      BY <2>1 DEF MeasureLag, MeasureFails
  <1>2. UNCHANGED <<buffer, batch, stream, dropped>>
    BY <1>1 DEF LagIs, flush, redis
  <1>3. IssuedOnce'
    BY <1>1, MeasuredStaysIssuedOnce DEF PlaceInv, BufferInv
  <1>4. \A o \in Processes : /\ Own(o)' = Own(o) /\ Buffered(o)' = Buffered(o)
                             /\ Survivors(o)' = Survivors(o) /\ PublishedBy(o)' = PublishedBy(o)
    BY <1>2 DEF answers, buffer, Own, Buffered, Survivors, PublishedBy
  <1>5. InOnePlace'
    BY <1>2, <1>4 DEF PlaceInv, InOnePlace, answers, buffer
  <1>6. AcceptedAccounted'
    BY <1>2, <1>4 DEF PlaceInv, AcceptedAccounted, answers, buffer
  <1> QED
    BY <1>3, <1>5, <1>6 DEF PlaceInv

\* Where the events are says nothing of who may issue or accept them.
LEMMA SameOwners ==
    ASSUME IssuedOnce, UNCHANGED <<issued, accepted, probes>>
    PROVE  IssuedOnce'
  <1>1. \A p \in Processes : Own(p)' = Own(p)
    BY DEF Own
  <1> QED
    BY <1>1 DEF IssuedOnce

LEMMA FlusherKeepsPlaces ==
    ASSUME BufferInv, PlaceInv, NEW p \in Processes,
           Flusher(p) \/ PublishFails(p) \/ DrainTimeout(p)
    PROVE  PlaceInv'
  <1>1. TypeOK /\ IssuedOnce /\ InOnePlace /\ AcceptedAccounted
    BY DEF BufferInv, PlaceInv
  <1>2. CASE FlushRound(p) \/ LastFlush(p)
    <2>1. /\ TakeBatch(p) /\ flusher[p] \in {"sleep", "ended"}
          /\ UNCHANGED <<issued, accepted, probes, stream, dropped>>
      BY <1>2 DEF FlushRound, LastFlush, answers, guard, redis
    <2>2. batch[p] = << >>
      BY <2>1 DEF BufferInv, FlusherInv
    <2>3. PICK first \in Seq(Events), rest \in Seq(Events) : Taken(p, first, rest)
      BY <1>1, <2>1, TakeBatchSplits
    <2>4. InOnePlace' /\ AcceptedAccounted'
      BY <1>1, <2>1, <2>2, <2>3, TakenKeepsPlaces
    <2>5. IssuedOnce'
      BY <1>1, <2>1, SameOwners
    <2> QED
      BY <2>4, <2>5 DEF PlaceInv
  <1>3. CASE PublishMany(p) \/ PublishFails(p) \/ DrainTimeout(p)
    <2>1. PICK done : Published(p, done)
      BY <1>1, <1>3, PublicationsPublish
    <2>2. UNCHANGED buffer /\ UNCHANGED <<issued, accepted, probes>>
      BY <1>3 DEF PublishMany, PublishFails, DrainTimeout, answers, buffer, guard
    <2>3. \A o, r \in Processes : o # r => Own(o) \cap Own(r) = {}
      BY <1>1 DEF IssuedOnce
    <2>4. InOnePlace' /\ AcceptedAccounted'
      BY <1>1, <2>1, <2>2, <2>3, PublishedKeepsPlaces
    <2>5. IssuedOnce'
      BY <1>1, <2>2, SameOwners
    <2> QED
      BY <2>4, <2>5 DEF PlaceInv
  <1> QED
    BY <1>2, <1>3 DEF Flusher

\* Redis forgets the stream: what is left of each process is its batch and its queue.
LEMMA LossKeepsPlaces ==
    ASSUME BufferInv, PlaceInv, RedisComesBackEmpty
    PROVE  PlaceInv'
  <1>1. /\ issued' = issued /\ accepted' = accepted /\ probes' = probes
        /\ queue' = queue /\ batch' = batch
        /\ stream' = << >> /\ dropped' = dropped \cup EventsOf(stream)
    BY DEF RedisComesBackEmpty, answers, buffer, flush, guard
  <1>2. /\ \A p \in Processes : queue[p] \in Seq(Events) /\ accepted[p] \in Seq(Events)
                                /\ batch[p] \in Seq(Events)
        /\ stream \in Seq(Events) /\ EventsOf(<< >>) = {}
    BY DEF BufferInv, TypeOK, EventsOf
  <1>3. InOnePlace /\ AcceptedAccounted /\ IssuedOnce
    BY DEF PlaceInv
  <1>4. IssuedOnce'
    BY <1>1, <1>3, SameOwners
  <1>5. InOnePlace'
    <2>1. \A p \in Processes : Own(p)' = Own(p) /\ Buffered(p)' = Buffered(p)
      BY <1>1 DEF Own, Buffered
    <2>2. EventsOf(stream') = {}
      BY <1>1, <1>2
    <2>3. \A p \in Processes :
            /\ Distinct(queue'[p])
            /\ Buffered(p)' \subseteq Own(p)'
            /\ EventsOf(batch'[p]) \cap EventsOf(queue'[p]) = {}
            /\ Buffered(p)' \cap dropped' = {}
      BY <1>1, <1>3, <2>1 DEF InOnePlace
    <2>4. \A e \in dropped' : \E p \in Processes : e \in Own(p)'
      BY <1>1, <1>3, <2>1 DEF InOnePlace
    <2> QED
      BY <2>2, <2>3, <2>4 DEF InOnePlace
  <1>6. ASSUME NEW p \in Processes
        PROVE  Survivors(p)' = PublishedBy(p)' \o batch'[p] \o queue'[p]
    <2> DEFINE alive == Events \ dropped
               kept == Events \ EventsOf(stream)
               sent == PublishedBy(p)
               taken == batch[p]
               left == queue[p]
               one == sent \o taken
    <2>1. /\ taken \in Seq(Events) /\ left \in Seq(Events)
          /\ sent \in Seq(Events) /\ EventsOf(sent) \subseteq EventsOf(stream)
      BY <1>2, OnlySelects DEF PublishedBy
    <2>2. Survivors(p) = one \o left /\ one \in Seq(Events)
      BY <1>3, <2>1, ConcatProperties DEF AcceptedAccounted
    <2>3. Survivors(p)' = Only(Survivors(p), kept)
      <3>1. alive \cap kept = Events \ dropped'
        BY <1>1
      <3>2. Only(Only(accepted[p], alive), kept) = Only(accepted[p], alive \cap kept)
        BY <1>2, OnlyTwice
      <3> QED
        BY <1>1, <3>1, <3>2 DEF Survivors
    <2>4. Only(sent, kept) = << >>
      <3>1. EventsOf(sent) \cap kept = {}
        BY <2>1
      <3> QED
        BY <2>1, <3>1, OnlyAllOrNothing
    <2>5. Only(taken, kept) = taken /\ Only(left, kept) = left
      <3>1. EventsOf(taken) \subseteq kept /\ EventsOf(left) \subseteq kept
        BY <1>2, <1>3, EventsOfSeq DEF InOnePlace, Buffered
      <3> QED
        BY <2>1, <3>1, OnlyAllOrNothing
    <2>6. PublishedBy(p)' = << >>
      BY <1>1, OnlyEmpty DEF PublishedBy
    <2>7. batch'[p] = taken /\ queue'[p] = left
      BY <1>1
    <2> HIDE DEF alive, kept, sent, taken
    <2>8. Only(one, kept) = Only(sent, kept) \o Only(taken, kept)
      BY <2>1, OnlyConcat
    <2> HIDE DEF one, left
    <2>9. Only(one \o left, kept) = Only(one, kept) \o Only(left, kept)
      BY SMTT(30), <2>1, <2>2, OnlyConcat
    <2>10. Survivors(p)' = << >> \o taken \o left
      BY <2>2, <2>3, <2>4, <2>5, <2>8, <2>9
    <2> QED
      BY <2>6, <2>7, <2>10
  <1>7. AcceptedAccounted'
    BY <1>6 DEF AcceptedAccounted
  <1> QED
    BY <1>4, <1>5, <1>7 DEF PlaceInv

LEMMA PlaceStep ==
    ASSUME BufferInv, PlaceInv, [Next]_vars
    PROVE  PlaceInv'
  <1>1. CASE UNCHANGED vars
    BY <1>1, SamePlaces DEF vars, flush, guard, redis
  <1>2. CASE Consume \/ \E p \in Processes : Stop(p) \/ ProbeInterval(p)
    <2>1. UNCHANGED <<issued, buffer, batch, probes, stream, dropped>>
      BY <1>2 DEF Consume, Stop, ProbeInterval, flush, guard, redis
    <2> QED
      BY <2>1, SamePlaces
  <1>3. CASE Next
    BY <1>2, <1>3, IngestKeepsPlaces, EndProbeKeepsPlaces, ProbeKeepsPlaces,
       MeasureKeepsPlaces, FlusherKeepsPlaces, LossKeepsPlaces DEF Next
  <1> QED
    BY <1>1, <1>3

\* Whatever fails and whenever a process stops, everything it answered 202 for is, once and
\* in the order it was accepted, in the stream, then in the batch, then in the queue; only
\* a failed publication, or Redis when it comes back empty, throws events away (routes.py:
\* ingest_events; buffer.py: submit, _take_batch and _flush).
THEOREM AcceptedIsAccounted == Spec => []AcceptedAccounted
  <1>1. BufferInv /\ PlaceInv /\ [Next]_vars => PlaceInv'
    BY PlaceStep
  <1>2. PlaceInv => AcceptedAccounted
    BY DEF PlaceInv
  <1> QED
    BY <1>1, <1>2, InitPlaceInv, BufferInvAlways, PTL DEF Spec
=============================================================================
