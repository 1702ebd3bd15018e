-------------------------- MODULE GrowingTreeProofs --------------------------
(* Theorems about the walk over a tree that changes, for every file system and
   every two arguments. *)
EXTENDS GrowingTree, ListLemmas, SequenceTheorems

(* Paths. *)

\* The first k names of a path.
LEMMA PrefixFacts ==
  ASSUME NEW S, NEW t \in Seq(S), NEW k \in 0 .. Len(t)
  PROVE  /\ SubSeq(t, 1, k) \in Seq(S) /\ Len(SubSeq(t, 1, k)) = k
         /\ \A i \in 1 .. k : SubSeq(t, 1, k)[i] = t[i]
<1>1. \A i \in 1 .. k : t[i] \in S
  OBVIOUS
<1>2. k \in Int /\ k - 1 + 1 = k /\ (1 <= k \/ k = 0)
  OBVIOUS
<1>3. QED
  BY <1>1, <1>2, SubSeqProperties

LEMMA PrefixOfPrefix ==
  ASSUME NEW S, NEW t \in Seq(S), NEW m \in 0 .. Len(t), NEW k \in 0 .. m
  PROVE  SubSeq(SubSeq(t, 1, m), 1, k) = SubSeq(t, 1, k)
<1>1. PICK u : u = SubSeq(t, 1, m)
  OBVIOUS
<1>2. u \in Seq(S) /\ Len(u) = m /\ \A i \in 1 .. m : u[i] = t[i]
  BY <1>1, PrefixFacts
<1>3. k \in 0 .. Len(u) /\ k \in 0 .. Len(t)
  BY <1>2
<1>4. /\ SubSeq(u, 1, k) \in Seq(S) /\ Len(SubSeq(u, 1, k)) = k
      /\ \A i \in 1 .. k : SubSeq(u, 1, k)[i] = u[i]
  BY <1>2, <1>3, PrefixFacts
<1>5. /\ SubSeq(t, 1, k) \in Seq(S) /\ Len(SubSeq(t, 1, k)) = k
      /\ \A i \in 1 .. k : SubSeq(t, 1, k)[i] = t[i]
  BY <1>3, PrefixFacts
<1>6. \A i \in 1 .. k : SubSeq(u, 1, k)[i] = SubSeq(t, 1, k)[i]
  BY <1>2, <1>4, <1>5
<1>7. SubSeq(u, 1, k) = SubSeq(t, 1, k)
  BY <1>4, <1>5, <1>6, SeqEqual
<1>8. QED
  BY <1>1, <1>7

\* The next name.
LEMMA NextName ==
  ASSUME NEW S, NEW t \in Seq(S), NEW k \in 0 .. Len(t) - 1
  PROVE  /\ t[k + 1] \in S /\ SubSeq(t, 1, k + 1) # << >>
         /\ Append(SubSeq(t, 1, k), t[k + 1]) = SubSeq(t, 1, k + 1)
         /\ Front(SubSeq(t, 1, k + 1)) = SubSeq(t, 1, k)
         /\ Last(SubSeq(t, 1, k + 1)) = t[k + 1]
<1>1. k \in 0 .. Len(t) /\ k + 1 \in 0 .. Len(t) /\ k + 1 \in 1 .. Len(t)
  OBVIOUS
<1>2. t[k + 1] \in S
  BY <1>1
<1>3. PICK u : u = SubSeq(t, 1, k)
  OBVIOUS
<1>4. PICK v : v = SubSeq(t, 1, k + 1)
  OBVIOUS
<1>5. u \in Seq(S) /\ Len(u) = k /\ \A i \in 1 .. k : u[i] = t[i]
  BY <1>1, <1>3, PrefixFacts
<1>6. v \in Seq(S) /\ Len(v) = k + 1 /\ \A i \in 1 .. k + 1 : v[i] = t[i]
  BY <1>1, <1>4, PrefixFacts
<1>7. /\ Append(u, t[k + 1]) \in Seq(S) /\ Len(Append(u, t[k + 1])) = k + 1
      /\ \A i \in 1 .. k : Append(u, t[k + 1])[i] = t[i]
      /\ Append(u, t[k + 1])[k + 1] = t[k + 1]
  BY <1>2, <1>5, AppendProperties
<1>8. Append(u, t[k + 1]) = v
  <2>1. \A i \in 1 .. k + 1 : i \in 1 .. k \/ i = k + 1
    OBVIOUS
  <2>2. \A i \in 1 .. k + 1 : Append(u, t[k + 1])[i] = v[i]
    BY <1>6, <1>7, <2>1
  <2>3. QED
    BY <1>6, <1>7, <2>2, SeqEqual
<1>9. Front(v) = u
  <2>1. SubSeq(v, 1, k) = u
    BY <1>1, <1>3, <1>4, PrefixOfPrefix
  <2>2. Len(v) - 1 = k
    BY <1>6
  <2>3. QED
    BY <2>1, <2>2 DEF Front
<1>10. Last(v) = t[k + 1] /\ v # << >>
  BY <1>6 DEF Last
<1>11. QED
  BY <1>2, <1>3, <1>4, <1>8, <1>9, <1>10

\* A path t below the directory a.
LEMMA BelowPath ==
  ASSUME NEW S, NEW a \in Seq(S), NEW t \in Seq(S)
  PROVE  /\ a \o t \in Seq(S) /\ Len(a \o t) = Len(a) + Len(t)
         /\ \A i \in 1 .. Len(a) : (a \o t)[i] = a[i]
         /\ \A i \in 1 .. Len(t) : (a \o t)[Len(a) + i] = t[i]
BY ConcatProperties

LEMMA BelowPrefix ==
  ASSUME NEW S, NEW a \in Seq(S), NEW t \in Seq(S), NEW k \in 0 .. Len(t)
  PROVE  SubSeq(a \o t, 1, Len(a) + k) = a \o SubSeq(t, 1, k)
<1>1. PICK u : u = SubSeq(t, 1, k)
  OBVIOUS
<1>2. u \in Seq(S) /\ Len(u) = k /\ \A i \in 1 .. k : u[i] = t[i]
  BY <1>1, PrefixFacts
<1>3. PICK v : v = a \o t
  OBVIOUS
<1>4. /\ v \in Seq(S) /\ Len(v) = Len(a) + Len(t) /\ \A i \in 1 .. Len(a) : v[i] = a[i]
      /\ \A i \in 1 .. Len(t) : v[Len(a) + i] = t[i]
  BY <1>3, BelowPath
<1>5. Len(a) + k \in 0 .. Len(v)
  BY <1>4
<1>6. PICK w : w = SubSeq(v, 1, Len(a) + k)
  OBVIOUS
<1>7. w \in Seq(S) /\ Len(w) = Len(a) + k /\ \A i \in 1 .. Len(a) + k : w[i] = v[i]
  BY <1>4, <1>5, <1>6, PrefixFacts
<1>8. PICK x : x = a \o u
  OBVIOUS
<1>9. /\ x \in Seq(S) /\ Len(x) = Len(a) + k /\ \A i \in 1 .. Len(a) : x[i] = a[i]
      /\ \A i \in 1 .. k : x[Len(a) + i] = u[i]
  BY <1>2, <1>8, BelowPath
<1>10. ASSUME NEW i \in 1 .. Len(a) + k PROVE w[i] = x[i]
  <2>1. CASE i \in 1 .. Len(a)
    BY <1>4, <1>7, <1>9, <2>1
  <2>2. CASE i \notin 1 .. Len(a)
    <3>1. PICK j \in 1 .. k : i = Len(a) + j
      <4>1. i - Len(a) \in 1 .. k /\ i = Len(a) + (i - Len(a))
        BY <2>2
      <4>2. QED
        BY <4>1
    <3>2. j \in 1 .. Len(t)
      OBVIOUS
    <3>3. w[i] = t[j] /\ x[i] = t[j]
      BY <1>2, <1>4, <1>7, <1>9, <3>1, <3>2
    <3>4. QED
      BY <3>3
  <2>3. QED
    BY <2>1, <2>2
<1>11. w = x
  BY <1>7, <1>9, <1>10, SeqEqual
<1>12. QED
  BY <1>1, <1>3, <1>6, <1>8, <1>11

\* What is left of a path below a, and that it is below a.
LEMMA BelowRest ==
  ASSUME NEW S, NEW a \in Seq(S), NEW t \in Seq(S)
  PROVE  /\ SubSeq(a \o t, Len(a) + 1, Len(a \o t)) = t
         /\ SubSeq(a \o t, 1, Len(a)) = a
         /\ IsPrefix(a, a \o t)
<1>1. PICK v : v = a \o t
  OBVIOUS
<1>2. /\ v \in Seq(S) /\ Len(v) = Len(a) + Len(t) /\ \A i \in 1 .. Len(a) : v[i] = a[i]
      /\ \A i \in 1 .. Len(t) : v[Len(a) + i] = t[i]
  BY <1>1, BelowPath
<1>3. PICK w : w = SubSeq(v, Len(a) + 1, Len(v))
  OBVIOUS
<1>4. Len(a) \in Nat /\ Len(t) \in Nat
  OBVIOUS
<1>5. \A i \in Len(a) + 1 .. Len(v) : v[i] \in S
  BY <1>2, <1>4
<1>6. w \in Seq(S) /\ Len(w) = Len(t) /\ \A i \in 1 .. Len(t) : w[i] = v[Len(a) + i]
  <2>1. /\ Len(a) + 1 \in Int /\ Len(v) \in Int /\ Len(v) - (Len(a) + 1) + 1 = Len(t)
        /\ \A i \in 1 .. Len(t) : Len(a) + 1 + i - 1 = Len(a) + i
        /\ (Len(a) + 1 <= Len(v) \/ Len(t) = 0)
    BY <1>2, <1>4
  <2>2. /\ w \in Seq(S)
        /\ Len(w) = IF Len(a) + 1 <= Len(v) THEN Len(v) - (Len(a) + 1) + 1 ELSE 0
        /\ \A i \in 1 .. Len(v) - (Len(a) + 1) + 1 : w[i] = v[Len(a) + 1 + i - 1]
    BY <1>3, <1>5, <2>1, SubSeqProperties
  <2>3. QED
    BY <2>1, <2>2
<1>7. w = t
  BY <1>2, <1>6, SeqEqual
<1>8. PICK x : x = SubSeq(v, 1, Len(a))
  OBVIOUS
<1>9. x \in Seq(S) /\ Len(x) = Len(a) /\ \A i \in 1 .. Len(a) : x[i] = v[i]
  <2>1. Len(a) \in 0 .. Len(v)
    BY <1>2, <1>4
  <2>2. QED
    BY <1>2, <1>8, <2>1, PrefixFacts
<1>10. x = a
  BY <1>2, <1>9, SeqEqual
<1>11. IsPrefix(a, v)
  BY <1>2, <1>4, <1>8, <1>10, SubSeqFull DEF IsPrefix
<1>12. QED
  BY <1>1, <1>3, <1>7, <1>8, <1>10, <1>11

\* A path with the prefix a is a path below a.
LEMMA BelowSplit ==
  ASSUME NEW S, NEW a \in Seq(S), NEW q \in Seq(S), IsPrefix(a, q)
  PROVE  /\ SubSeq(q, Len(a) + 1, Len(q)) \in Seq(S)
         /\ a \o SubSeq(q, Len(a) + 1, Len(q)) = q
<1>1. Len(a) \in Nat /\ Len(q) \in Nat /\ Len(a) <= Len(q) /\ SubSeq(q, 1, Len(a)) = a
  BY SubSeqFull DEF IsPrefix
<1>2. \A i \in 1 .. Len(a) : a[i] = q[i]
  <2>1. Len(a) \in 0 .. Len(q)
    BY <1>1
  <2>2. QED
    BY <1>1, <2>1, PrefixFacts
<1>3. PICK w : w = SubSeq(q, Len(a) + 1, Len(q))
  OBVIOUS
<1>4. /\ w \in Seq(S) /\ Len(w) = Len(q) - Len(a)
      /\ \A i \in 1 .. Len(q) - Len(a) : w[i] = q[Len(a) + i]
  <2>1. /\ Len(a) + 1 \in Int /\ Len(q) \in Int
        /\ Len(q) - (Len(a) + 1) + 1 = Len(q) - Len(a)
        /\ \A i \in 1 .. Len(q) - Len(a) : Len(a) + 1 + i - 1 = Len(a) + i
        /\ (Len(a) + 1 <= Len(q) \/ Len(q) - Len(a) = 0)
        /\ \A i \in Len(a) + 1 .. Len(q) : q[i] \in S
    BY <1>1
  <2>2. /\ w \in Seq(S)
        /\ Len(w) = IF Len(a) + 1 <= Len(q) THEN Len(q) - (Len(a) + 1) + 1 ELSE 0
        /\ \A i \in 1 .. Len(q) - (Len(a) + 1) + 1 : w[i] = q[Len(a) + 1 + i - 1]
    BY <1>3, <2>1, SubSeqProperties
  <2>3. QED
    BY <2>1, <2>2
<1>5. PICK v : v = a \o w
  OBVIOUS
<1>6. /\ v \in Seq(S) /\ Len(v) = Len(q) /\ \A i \in 1 .. Len(a) : v[i] = a[i]
      /\ \A i \in 1 .. Len(w) : v[Len(a) + i] = w[i]
  BY <1>1, <1>4, <1>5, BelowPath
<1>7. ASSUME NEW i \in 1 .. Len(q) PROVE v[i] = q[i]
  <2>1. CASE i \in 1 .. Len(a)
    BY <1>2, <1>6, <2>1
  <2>2. CASE i \notin 1 .. Len(a)
    <3>1. i - Len(a) \in 1 .. Len(w) /\ i = Len(a) + (i - Len(a))
      BY <1>1, <1>4, <2>2
    <3>2. v[i] = w[i - Len(a)] /\ w[i - Len(a)] = q[i]
      BY <1>4, <1>6, <3>1
    <3>3. QED
      BY <3>2
  <2>3. QED
    BY <2>1, <2>2
<1>8. v = q
  BY <1>6, <1>7, SeqEqual
<1>9. QED
  BY <1>3, <1>4, <1>5, <1>8

LEMMA BelowSame ==
  ASSUME NEW S, NEW a \in Seq(S), NEW p \in Seq(S), NEW q \in Seq(S), a \o p = a \o q
  PROVE  p = q
<1>1. /\ SubSeq(a \o p, Len(a) + 1, Len(a \o p)) = p
      /\ SubSeq(a \o q, Len(a) + 1, Len(a \o q)) = q
  BY BelowRest
<1>2. QED
  BY <1>1

\* A path below both a and b: one of the two is a prefix of the other.
LEMMA BelowBoth ==
  ASSUME NEW S, NEW a \in Seq(S), NEW b \in Seq(S), NEW p \in Seq(S), NEW q \in Seq(S),
         a \o p = b \o q
  PROVE  IsPrefix(a, b) \/ \E k \in 0 .. Len(a) - 1 : b = SubSeq(a, 1, k)
<1>1. PICK c : c = a \o p /\ c = b \o q
  OBVIOUS
<1>2. /\ c \in Seq(S) /\ SubSeq(c, 1, Len(a)) = a /\ SubSeq(c, 1, Len(b)) = b
      /\ Len(c) = Len(a) + Len(p) /\ Len(c) = Len(b) + Len(q)
  BY <1>1, BelowPath, BelowRest
<1>3. Len(a) \in 0 .. Len(c) /\ Len(b) \in 0 .. Len(c)
  BY <1>2
<1>4. CASE Len(a) <= Len(b)
  <2>1. Len(a) \in 0 .. Len(b)
    BY <1>3, <1>4
  <2>2. SubSeq(b, 1, Len(a)) = a
    BY <1>2, <1>3, <2>1, PrefixOfPrefix
  <2>3. QED
    BY <1>4, <2>2, SubSeqFull DEF IsPrefix
<1>5. CASE Len(b) < Len(a)
  <2>1. Len(b) \in 0 .. Len(a) /\ Len(b) \in 0 .. Len(a) - 1
    BY <1>3, <1>5
  <2>2. SubSeq(a, 1, Len(b)) = b
    BY <1>2, <1>3, <2>1, PrefixOfPrefix
  <2>3. QED
    BY <2>1, <2>2
<1>6. QED
  BY <1>3, <1>4, <1>5

\* A new last name.
LEMMA NewName ==
  ASSUME NEW S, NEW t \in Seq(S), NEW n \in S
  PROVE  /\ Append(t, n) \in Seq(S) /\ Append(t, n) # << >> /\ Front(Append(t, n)) = t
         /\ Last(Append(t, n)) = n
<1>1. PICK u : u = Append(t, n)
  OBVIOUS
<1>2. /\ u \in Seq(S) /\ u # << >> /\ Len(u) = Len(t) + 1 /\ Len(t) \in Nat
      /\ \A i \in 1 .. Len(t) : u[i] = t[i]
      /\ u[Len(t) + 1] = n
  BY <1>1, AppendProperties
<1>3. Len(t) \in 0 .. Len(u) /\ Len(u) - 1 = Len(t) /\ Len(t) \in 0 .. Len(u) - 1
  BY <1>2
<1>4. Front(u) = t
  <2>1. PICK f : f = SubSeq(u, 1, Len(t))
    OBVIOUS
  <2>2. f \in Seq(S) /\ Len(f) = Len(t) /\ \A i \in 1 .. Len(t) : f[i] = u[i]
    BY <1>2, <1>3, <2>1, PrefixFacts
  <2>3. f = t
    BY <1>2, <2>2, SeqEqual
  <2>4. QED
    BY <1>3, <2>1, <2>3 DEF Front
<1>5. Last(u) = n
  BY <1>2 DEF Last
<1>6. QED
  BY <1>1, <1>2, <1>4, <1>5

LEMMA BelowAppend ==
  ASSUME NEW S, NEW a \in Seq(S), NEW t \in Seq(S), NEW n \in S
  PROVE  a \o Append(t, n) = Append(a \o t, n)
<1>1. <<n>> \in Seq(S) /\ Append(t, n) = t \o <<n>>
  BY AppendIsConcat
<1>2. a \o Append(t, n) = (a \o t) \o <<n>>
  BY <1>1, ConcatAssociative
<1>3. (a \o t) \o <<n>> = Append(a \o t, n)
  BY BelowPath, AppendIsConcat
<1>4. QED
  BY <1>2, <1>3

LEMMA BelowFront ==
  ASSUME NEW S, NEW a \in Seq(S), NEW p \in Seq(S), p # << >>
  PROVE  /\ Front(p) \in Seq(S) /\ Front(p) = SubSeq(p, 1, Len(p) - 1)
         /\ Len(p) - 1 \in 0 .. Len(p) - 1
         /\ Front(a \o p) = a \o Front(p)
<1>1. Len(p) \in Nat \ {0} /\ Len(p) - 1 \in 0 .. Len(p) /\ Len(p) - 1 \in 0 .. Len(p) - 1
  BY EmptySeq
<1>2. Front(p) \in Seq(S)
  BY <1>1, PrefixFacts DEF Front
<1>3. Len(a \o p) - 1 = Len(a) + (Len(p) - 1)
  <2>1. Len(a \o p) = Len(a) + Len(p)
    BY BelowPath
  <2>2. QED
    BY <1>1, <2>1
<1>4. SubSeq(a \o p, 1, Len(a) + (Len(p) - 1)) = a \o SubSeq(p, 1, Len(p) - 1)
  BY <1>1, BelowPrefix
<1>5. QED
  BY <1>1, <1>2, <1>3, <1>4 DEF Front

\* A path that goes on repeating r: a copy of it below r goes on as well.
LEMMA Repeats ==
  ASSUME NEW S, NEW r \in Seq(S), NEW t \in Seq(S), t = SubSeq(r \o t, 1, Len(t))
  PROVE  r \o t = SubSeq(r \o (r \o t), 1, Len(r \o t))
<1>1. /\ r \o t \in Seq(S) /\ Len(r \o t) = Len(r) + Len(t) /\ Len(t) \in 0 .. Len(r \o t)
      /\ Len(r) \in Nat
  <2>1. Len(r) \in Nat /\ Len(t) \in Nat /\ Len(r \o t) = Len(r) + Len(t) /\ r \o t \in Seq(S)
    BY BelowPath
  <2>2. QED
    BY <2>1
<1>2. SubSeq(r \o (r \o t), 1, Len(r) + Len(t)) = r \o SubSeq(r \o t, 1, Len(t))
  BY <1>1, BelowPrefix
<1>3. QED
  BY <1>1, <1>2
-----------------------------------------------------------------------------
(* The file system. *)

LEMMA Constants ==
  /\ Source \in Seq(STRING) /\ OldDirs \subseteq Seq(STRING) /\ OldRegs \subseteq Seq(STRING)
  /\ Dests \subseteq Seq(STRING)
BY SourceAssumption, TreeAssumption

LEMMA TypeFacts ==
  ASSUME TypeOK
  PROVE  /\ dest \in Seq(STRING) /\ dirs \in SUBSET Seq(STRING) /\ regs \in SUBSET Seq(STRING)
         /\ dirs \cup regs \in SUBSET Seq(STRING)
         /\ \A p \in Seq(STRING) : SrcOf(p) \in Seq(STRING) /\ DstOf(p) \in Seq(STRING)
         /\ queue # << >> => /\ curr \in Seq(STRING) /\ curr = queue[1] /\ 1 \in DOMAIN queue
                             /\ SrcOf(curr) \in Seq(STRING) /\ DstOf(curr) \in Seq(STRING)
<1>1. dest \in Seq(STRING) /\ dirs \in SUBSET Seq(STRING) /\ regs \in SUBSET Seq(STRING)
  BY Constants DEF TypeOK
<1>2. \A p \in Seq(STRING) : SrcOf(p) \in Seq(STRING) /\ DstOf(p) \in Seq(STRING)
  BY <1>1, Constants, BelowPath DEF SrcOf, DstOf
<1>3. queue # << >> => curr \in Seq(STRING) /\ curr = queue[1] /\ 1 \in DOMAIN queue
  BY DEF TypeOK, curr
<1>4. QED
  BY <1>1, <1>2, <1>3

LEMMA BelowFacts ==
  ASSUME NEW S \in SUBSET Seq(STRING), NEW p
  PROVE  p \in Below(S) <=> p \in Seq(STRING) /\ SrcOf(p) \in S
<1>1. ASSUME p \in Below(S) PROVE p \in Seq(STRING) /\ SrcOf(p) \in S
  <2>1. PICK q \in S : IsPrefix(Source, q) /\ p = SubSeq(q, Len(Source) + 1, Len(q))
    BY <1>1 DEF Below
  <2>2. q \in Seq(STRING)
    BY <2>1
  <2>3. QED
    BY <2>1, <2>2, Constants, BelowSplit DEF SrcOf
<1>2. ASSUME p \in Seq(STRING), SrcOf(p) \in S PROVE p \in Below(S)
  <2>1. /\ SubSeq(SrcOf(p), Len(Source) + 1, Len(SrcOf(p))) = p
        /\ IsPrefix(Source, SrcOf(p))
    BY <1>2, Constants, BelowRest DEF SrcOf
  <2>2. QED
    BY <1>2, <2>1 DEF Below
<1>3. QED
  BY <1>1, <1>2

\* The entries of a directory.
LEMMA NamesFacts ==
  ASSUME NEW S \in SUBSET Seq(STRING), NEW dir \in Seq(STRING), NEW n
  PROVE  n \in Names(dir, S) <=> n \in STRING /\ Append(dir, n) \in S
<1>1. ASSUME n \in Names(dir, S) PROVE n \in STRING /\ Append(dir, n) \in S
  <2>1. PICK q \in S : q # << >> /\ Front(q) = dir /\ n = Last(q)
    BY <1>1 DEF Names
  <2>2. q \in Seq(STRING) /\ Len(q) \in Nat \ {0}
    BY <2>1, EmptySeq
  <2>3. PICK k : k = Len(q) - 1
    OBVIOUS
  <2>4. k \in 0 .. Len(q) - 1 /\ k + 1 = Len(q)
    BY <2>2, <2>3
  <2>5. q[k + 1] \in STRING /\ Append(SubSeq(q, 1, k), q[k + 1]) = SubSeq(q, 1, k + 1)
    BY <2>2, <2>4, NextName
  <2>6. SubSeq(q, 1, k + 1) = q
    BY <2>2, <2>4, SubSeqFull
  <2>7. dir = SubSeq(q, 1, k) /\ n = q[k + 1]
    BY <2>1, <2>3, <2>4 DEF Front, Last
  <2>8. QED
    BY <2>1, <2>5, <2>6, <2>7
<1>2. ASSUME n \in STRING, Append(dir, n) \in S PROVE n \in Names(dir, S)
  <2>1. Append(dir, n) # << >> /\ Front(Append(dir, n)) = dir
    BY <1>2, NewName
  <2>2. Last(Append(dir, n)) = n
    BY <1>2, NewName
  <2>3. QED
    BY <1>2, <2>1, <2>2 DEF Names
<1>3. QED
  BY <1>1, <1>2

\* The directories on the way to something that exists below the source, when what a
\* path in F lies in is in D.
LEMMA OnTheWayIn ==
  ASSUME NEW F, NEW D, \A p \in F : \A j \in 0 .. Len(p) - 1 : SubSeq(p, 1, j) \in D,
         NEW t \in Seq(STRING), SrcOf(t) \in F, NEW k \in 0 .. Len(t) - 1
  PROVE  SrcOf(SubSeq(t, 1, k)) \in D
<1>1. SrcOf(SubSeq(t, 1, k)) = SubSeq(SrcOf(t), 1, Len(Source) + k)
  <2>1. k \in 0 .. Len(t)
    OBVIOUS
  <2>2. QED
    BY <2>1, Constants, BelowPrefix DEF SrcOf
<1>2. Len(SrcOf(t)) = Len(Source) + Len(t) /\ Len(Source) \in Nat /\ Len(t) \in Nat
  BY Constants, BelowPath DEF SrcOf
<1>3. Len(Source) + k \in 0 .. Len(SrcOf(t)) - 1
  BY <1>2
<1>4. QED
  BY <1>1, <1>3

LEMMA OnTheWay ==
  ASSUME Closed, NEW t \in Seq(STRING), SrcOf(t) \in dirs \cup regs,
         NEW k \in 0 .. Len(t) - 1
  PROVE  SrcOf(SubSeq(t, 1, k)) \in dirs
BY OnTheWayIn DEF Closed

\* The next name on the way is an entry of the directory that was reached.
LEMMA NextIsListed ==
  ASSUME NEW F \in SUBSET Seq(STRING),
         \A p \in F : \A j \in 0 .. Len(p) - 1 : SubSeq(p, 1, j) \in F,
         NEW t \in Seq(STRING), SrcOf(t) \in F, NEW k \in 0 .. Len(t) - 1
  PROVE  t[k + 1] \in Names(SrcOf(SubSeq(t, 1, k)), F)
<1>1. /\ SubSeq(t, 1, k) \in Seq(STRING) /\ t[k + 1] \in STRING
      /\ Append(SubSeq(t, 1, k), t[k + 1]) = SubSeq(t, 1, k + 1)
  BY NextName, PrefixFacts
<1>2. SrcOf(SubSeq(t, 1, k + 1)) \in F
  <2>1. CASE k + 1 \in 0 .. Len(t) - 1
    BY <2>1, OnTheWayIn
  <2>2. CASE k + 1 = Len(t)
    BY <2>2, SubSeqFull
  <2>3. QED
    BY <2>1, <2>2
<1>3. Append(SrcOf(SubSeq(t, 1, k)), t[k + 1]) \in F
  <2>1. Source \o Append(SubSeq(t, 1, k), t[k + 1]) = Append(Source \o SubSeq(t, 1, k), t[k + 1])
    BY <1>1, Constants, BelowAppend
  <2>2. QED
    BY <1>1, <1>2, <2>1 DEF SrcOf
<1>4. SrcOf(SubSeq(t, 1, k)) \in Seq(STRING)
  BY <1>1, Constants, BelowPath DEF SrcOf
<1>5. QED
  BY <1>1, <1>3, <1>4, NamesFacts

LEMMA NextListed ==
  ASSUME TypeOK, Closed, NEW t \in Seq(STRING), SrcOf(t) \in dirs \cup regs,
         NEW k \in 0 .. Len(t) - 1
  PROVE  t[k + 1] \in Names(SrcOf(SubSeq(t, 1, k)), dirs \cup regs)
<1>1. dirs \cup regs \in SUBSET Seq(STRING)
  BY TypeFacts
<1>2. \A p \in dirs \cup regs : \A j \in 0 .. Len(p) - 1 : SubSeq(p, 1, j) \in dirs \cup regs
  BY DEF Closed
<1>3. QED
  BY <1>1, <1>2, NextIsListed

\* A path in a directory that exists.
LEMMA InDirectory ==
  ASSUME TypeOK, Closed, NEW x \in Seq(STRING), Front(x) \in dirs,
         NEW k \in 0 .. Len(x) - 1
  PROVE  SubSeq(x, 1, k) \in dirs
<1>1. Front(x) = SubSeq(x, 1, Len(x) - 1) /\ Len(x) - 1 \in 0 .. Len(x)
  BY DEF Front
<1>2. CASE k = Len(x) - 1
  BY <1>1, <1>2
<1>3. CASE k # Len(x) - 1
  <2>1. k \in 0 .. Len(x) - 1 - 1 /\ k \in 0 .. Len(x) - 1
    BY <1>3
  <2>2. Len(Front(x)) = Len(x) - 1
    BY <1>1, PrefixFacts
  <2>3. SubSeq(Front(x), 1, k) \in dirs
    BY <2>1, <2>2 DEF Closed
  <2>4. SubSeq(Front(x), 1, k) = SubSeq(x, 1, k)
    BY <1>1, <2>1, PrefixOfPrefix
  <2>5. QED
    BY <2>3, <2>4
<1>4. QED
  BY <1>2, <1>3

\* If something that was there before is below the destination, so is the destination.
LEMMA OldDest ==
  ASSUME TypeOK, NEW p \in Seq(STRING), DstOf(p) \in Old
  PROVE  dest \in Old
<1>1. dest \in Seq(STRING)
  BY TypeFacts
<1>2. CASE p = << >>
  BY <1>1, <1>2, ConcatEmptySeq DEF DstOf
<1>3. CASE p # << >>
  <2>1. Len(dest) \in 0 .. Len(DstOf(p)) - 1
    <3>1. Len(DstOf(p)) = Len(dest) + Len(p) /\ Len(dest) \in Nat
      BY <1>1, BelowPath DEF DstOf
    <3>2. Len(p) \in Nat \ {0}
      BY <1>3, EmptySeq
    <3>3. QED
      BY <3>1, <3>2
  <2>2. SubSeq(DstOf(p), 1, Len(dest)) = dest
    BY <1>1, BelowRest DEF DstOf
  <2>3. QED
    BY <2>1, <2>2, TreeAssumption DEF Old
<1>4. QED
  BY <1>2, <1>3
-----------------------------------------------------------------------------
(* The steps that change the tree. *)

USE DEF treeVars, readVars, Exit, Walk

LEMMA MkDirFacts ==
  ASSUME TreeInv, MkDir
  PROVE  /\ queue # << >> /\ curr \in Seq(STRING) /\ SrcOf(curr) \in dirs
         /\ dest \notin Old /\ DstOf(curr) \in Seq(STRING)
         /\ DstOf(curr) \notin dirs \cup regs /\ Front(DstOf(curr)) \in dirs
         /\ dirs' = dirs \cup {DstOf(curr)} /\ regs' = regs /\ dest' = dest
<1>1. queue # << >> /\ SrcOf(curr) \in dirs
  BY DEF MkDir, TreeInv, Position
<1>2. /\ DstOf(curr) \notin dirs \cup regs /\ Front(DstOf(curr)) \in dirs
      /\ dirs' = dirs \cup {DstOf(curr)} /\ regs' = regs /\ dest' = dest
  BY DEF MkDir, Makeable
<1>3. curr \in Seq(STRING) /\ DstOf(curr) \in Seq(STRING) /\ dest \in Seq(STRING)
  BY <1>1, TypeFacts DEF TreeInv
<1>4. ASSUME dest \in Old PROVE FALSE
  <2>1. queue = << << >> >> /\ dirs = OldDirs /\ regs = OldRegs
    BY <1>4 DEF TreeInv, Made, Taken
  <2>2. curr = << >>
    BY <2>1 DEF curr
  <2>3. DstOf(curr) = dest
    BY <1>3, <2>2, ConcatEmptySeq DEF DstOf
  <2>4. QED
    BY <1>2, <1>4, <2>1, <2>3 DEF Old
<1>5. QED
  BY <1>1, <1>2, <1>3, <1>4

LEMMA CreateFacts ==
  ASSUME TreeInv, NEW p \in handed, CreateFile(p)
  PROVE  /\ p \in Seq(STRING) /\ p # << >> /\ SrcOf(p) \in regs
         /\ dest \notin Old /\ DstOf(p) \in Seq(STRING) /\ DstOf(p) \notin dirs
         /\ Front(DstOf(p)) \in dirs
         /\ regs' = regs \cup {DstOf(p)} /\ dirs' = dirs /\ dest' = dest /\ handed' = handed \ {p}
<1>1. /\ p \in Seq(STRING) /\ SrcOf(p) \in regs /\ (p # << >> => DstOf(Front(p)) \in dirs)
      /\ DstOf(p) \in Seq(STRING) /\ dest \in Seq(STRING) /\ dirs \in SUBSET Seq(STRING)
      /\ dirs \cap regs = {}
  <2>1. TypeOK /\ p \in Seq(STRING) /\ dirs \cap regs = {}
    BY DEF TreeInv, TypeOK
  <2>2. QED
    BY <2>1, TypeFacts DEF TreeInv, Position, Met
<1>2. p # << >>
  <2>1. SrcOf(<< >>) = Source /\ Source \in dirs
    BY Constants, SourceAssumption, ConcatEmptySeq DEF SrcOf, TreeInv, Made
  <2>2. QED
    BY <1>1, <2>1
<1>3. dest \notin Old
  BY DEF TreeInv, Made, Taken
<1>4. Front(DstOf(p)) \in dirs
  BY <1>1, <1>2, BelowFront DEF DstOf
<1>5. ASSUME DstOf(p) \in dirs PROVE FALSE
  <2>1. DstOf(p) \notin OldDirs
    BY <1>1, <1>3, OldDest DEF TreeInv, Old
  <2>2. PICK q \in Below(dirs) : DstOf(p) = DstOf(q)
    BY <1>5, <2>1 DEF TreeInv, Made
  <2>3. q \in Seq(STRING) /\ SrcOf(q) \in dirs
    BY <1>1, <2>2, BelowFacts
  <2>4. q = p
    BY <1>1, <2>2, <2>3, BelowSame DEF DstOf
  <2>5. QED
    BY <1>1, <2>3, <2>4
<1>6. /\ regs' = regs \cup {DstOf(p)} /\ dirs' = dirs /\ dest' = dest /\ handed' = handed \ {p}
  BY DEF CreateFile, Counted
<1>7. QED
  BY <1>1, <1>2, <1>3, <1>4, <1>5, <1>6

\* The other steps leave the tree as it is.
LEMMA TreeSame ==
  ASSUME [Next]_vars, ~MkDir, ~\E p \in handed : CreateFile(p)
  PROVE  UNCHANGED <<dest, dirs, regs>>
<1>1. ASSUME NEW n \in Visible, ReadEntry(n) PROVE UNCHANGED <<dest, dirs, regs>>
  BY <1>1 DEF ReadEntry
<1>2. ASSUME NEW p \in handed, CreateFail(p) PROVE UNCHANGED <<dest, dirs, regs>>
  BY <1>2 DEF CreateFail
<1>3. CASE StatDir \/ StatReg \/ EndDir \/ FreeNode \/ WalkFail \/ Finish
  BY <1>3 DEF StatDir, StatReg, EndDir, FreeNode, WalkFail, Finish
<1>4. CASE UNCHANGED vars
  BY <1>4 DEF vars
<1>5. QED
  BY <1>1, <1>2, <1>3, <1>4 DEF Next, MainNext, ThreadNext, Terminated

\* How the tree changes.
LEMMA TreeGrows ==
  ASSUME TreeInv, [Next]_vars
  PROVE  /\ dest' = dest /\ dirs \subseteq dirs' /\ regs \subseteq regs'
         /\ dirs' \cup regs' \subseteq Seq(STRING) /\ dirs' \cap regs' = {}
<1>1. dirs \cup regs \subseteq Seq(STRING) /\ dirs \cap regs = {}
  BY DEF TreeInv, TypeOK
<1>2. CASE MkDir
  BY <1>1, <1>2, MkDirFacts
<1>3. CASE \E p \in handed : CreateFile(p)
  <2>1. PICK p \in handed : CreateFile(p)
    BY <1>3
  <2>2. QED
    BY <1>1, <2>1, CreateFacts
<1>4. CASE ~MkDir /\ ~\E p \in handed : CreateFile(p)
  BY <1>1, <1>4, TreeSame
<1>5. QED
  BY <1>2, <1>3, <1>4

LEMMA ClosedStep == TreeInv /\ [Next]_vars => Closed'
<1> SUFFICES ASSUME TreeInv, [Next]_vars,
                    NEW x \in dirs' \cup regs', NEW k \in 0 .. Len(x) - 1
             PROVE  SubSeq(x, 1, k) \in dirs'
  BY DEF Closed
<1>1. dirs \subseteq dirs'
  BY TreeGrows
<1>2. CASE x \in dirs \cup regs
  BY <1>1, <1>2 DEF TreeInv, Closed
<1>3. CASE x \notin dirs \cup regs
  <2>1. x \in Seq(STRING) /\ Front(x) \in dirs
    <3>1. CASE MkDir
      BY <1>3, <3>1, MkDirFacts
    <3>2. CASE \E p \in handed : CreateFile(p)
      <4>1. PICK p \in handed : CreateFile(p)
        BY <3>2
      <4>2. QED
        BY <1>3, <4>1, CreateFacts
    <3>3. CASE ~MkDir /\ ~\E p \in handed : CreateFile(p)
      BY <1>3, <3>3, TreeSame
    <3>4. QED
      BY <3>1, <3>2, <3>3
  <2>2. QED
    BY <1>1, <2>1, InDirectory DEF TreeInv
<1>4. QED
  BY <1>2, <1>3

\* With the name of the destination taken, the walk stays at the source argument.
LEMMA TakenStep ==
  ASSUME TreeInv, [Next]_vars, dest \in Old
  PROVE  Taken'
<1>1. /\ queue = << << >> >> /\ walk \in {"stat", "mkdir"} /\ handed = {}
      /\ dirs = OldDirs /\ regs = OldRegs
  BY DEF TreeInv, Made, Taken
<1>2. ~MkDir
  BY MkDirFacts
<1>3. ~StatReg
  <2>1. curr = << >>
    BY <1>1 DEF curr
  <2>2. SrcOf(curr) = Source
    BY <2>1, Constants, ConcatEmptySeq DEF SrcOf
  <2>3. QED
    BY <1>1, <2>2, SourceAssumption, TreeAssumption DEF StatReg
<1>4. UNCHANGED <<queue, handed, dirs, regs>> /\ walk' \in {"stat", "mkdir"}
  <2>1. CASE StatDir \/ WalkFail \/ Finish
    BY <1>1, <2>1 DEF StatDir, WalkFail, Finish
  <2>2. CASE EndDir \/ FreeNode \/ \E n \in Visible : ReadEntry(n)
    BY <1>1, <2>2 DEF EndDir, FreeNode, ReadEntry
  <2>3. CASE ThreadNext
    BY <1>1, <2>3 DEF ThreadNext
  <2>4. CASE UNCHANGED vars
    BY <1>1, <2>4 DEF vars
  <2>5. QED
    BY <1>2, <1>3, <2>1, <2>2, <2>3, <2>4 DEF Next, MainNext, Terminated
<1>5. QED
  BY <1>1, <1>4 DEF Taken

LEMMA MadeStep == TreeInv /\ [Next]_vars => Made'
<1> SUFFICES ASSUME TreeInv, [Next]_vars PROVE Made'
  OBVIOUS
<1>1. /\ dest' = dest /\ dirs \subseteq dirs' /\ regs \subseteq regs'
      /\ dirs' \in SUBSET Seq(STRING) /\ regs' \in SUBSET Seq(STRING)
      /\ dirs \in SUBSET Seq(STRING) /\ regs \in SUBSET Seq(STRING)
  BY TreeGrows DEF TreeInv, TypeOK
<1>2. OldDirs \subseteq dirs' /\ OldRegs \subseteq regs'
  BY <1>1 DEF TreeInv, Made
<1>3. dest' \in Old => Taken'
  BY <1>1, TakenStep
<1>4. \A p : (p \in Below(dirs) => p \in Below(dirs')) /\ (p \in Below(regs) => p \in Below(regs'))
  BY <1>1, BelowFacts
<1>5. ASSUME NEW x \in dirs' \ OldDirs PROVE \E p \in Below(dirs') : x = dest' \o p
  <2>1. CASE x \in dirs
    BY <1>1, <1>4, <2>1 DEF TreeInv, Made, DstOf
  <2>2. CASE x \notin dirs
    <3>1. MkDir
      <4>1. ASSUME NEW p \in handed, CreateFile(p) PROVE dirs' = dirs
        BY <4>1, CreateFacts
      <4>2. QED
        BY <2>2, <4>1, TreeSame
    <3>2. x = DstOf(curr) /\ curr \in Seq(STRING) /\ SrcOf(curr) \in dirs
      BY <2>2, <3>1, MkDirFacts
    <3>3. curr \in Below(dirs')
      BY <1>1, <3>2, BelowFacts
    <3>4. QED
      BY <1>1, <3>2, <3>3 DEF DstOf
  <2>3. QED
    BY <2>1, <2>2
<1>6. ASSUME NEW x \in regs' \ OldRegs PROVE \E p \in Below(regs') : x = dest' \o p
  <2>1. CASE x \in regs
    BY <1>1, <1>4, <2>1 DEF TreeInv, Made, DstOf
  <2>2. CASE x \notin regs
    <3>1. PICK p \in handed : CreateFile(p)
      BY <2>2, MkDirFacts, TreeSame
    <3>2. x = DstOf(p) /\ p \in Seq(STRING) /\ SrcOf(p) \in regs
      BY <2>2, <3>1, CreateFacts
    <3>3. p \in Below(regs')
      BY <1>1, <3>2, BelowFacts
    <3>4. QED
      BY <1>1, <3>2, <3>3 DEF DstOf
  <2>3. QED
    BY <2>1, <2>2
<1>7. QED
  BY <1>2, <1>3, <1>5, <1>6 DEF Made, DstOf

LEMMA SrcOfEntryIn ==
  ASSUME NEW S, Source \in Seq(S), NEW c \in Seq(S), NEW n \in S
  PROVE  SrcOf(Append(c, n)) = Append(SrcOf(c), n)
BY BelowAppend DEF SrcOf

LEMMA SrcOfEntry ==
  \A c \in Seq(STRING), n \in STRING : SrcOf(Append(c, n)) = Append(SrcOf(c), n)
BY Constants, SrcOfEntryIn

\* What readdir may return next.
LEMMA VisibleFacts ==
  ASSUME TypeOK, NEW n \in Visible
  PROVE  /\ queue # << >> /\ n \in STRING /\ Append(curr, n) \in Seq(STRING)
         /\ SrcOf(Append(curr, n)) \in dirs \cup regs /\ Front(Append(curr, n)) = curr
<1>1. queue # << >> /\ n \in Names(SrcOf(curr), dirs \cup regs)
  BY DEF Visible
<1>2. curr \in Seq(STRING) /\ SrcOf(curr) \in Seq(STRING) /\ dirs \cup regs \in SUBSET Seq(STRING)
  BY <1>1, TypeFacts
<1>3. n \in STRING /\ Append(SrcOf(curr), n) \in dirs \cup regs
  BY <1>1, <1>2, NamesFacts
<1>4. SrcOf(Append(curr, n)) = Append(SrcOf(curr), n)
  BY <1>2, <1>3, SrcOfEntry
<1>5. Append(curr, n) \in Seq(STRING) /\ Front(Append(curr, n)) = curr
  BY <1>2, <1>3, NewName
<1>6. QED
  BY <1>1, <1>3, <1>4, <1>5

LEMMA TypeStep == TreeInv /\ [Next]_vars => TypeOK'
<1> SUFFICES ASSUME TreeInv, [Next]_vars PROVE TypeOK'
  OBVIOUS
<1>1. dest' = dest /\ dirs' \cup regs' \subseteq Seq(STRING) /\ dirs' \cap regs' = {}
  BY TreeGrows
<1>2. /\ queue' \in Seq(Seq(STRING)) /\ walk' \in {"stat", "mkdir", "readdir", "free"}
      /\ unread' \subseteq STRING /\ returned' \subseteq STRING /\ handed' \subseteq Seq(STRING)
      /\ status' \in {"running", "success", "failure"}
  <2> USE DEF TreeInv, TypeOK
  <2>1. CASE StatDir \/ EndDir \/ WalkFail \/ Finish
    BY <2>1 DEF StatDir, EndDir, WalkFail, Finish
  <2>2. CASE StatReg
    <3>1. curr \in Seq(STRING)
      BY <2>2, TypeFacts DEF StatReg
    <3>2. QED
      BY <2>2, <3>1 DEF StatReg
  <2>3. CASE MkDir
    <3>1. SrcOf(curr) \in Seq(STRING) /\ dirs' \cup regs \in SUBSET Seq(STRING)
      BY <1>1, <2>3, MkDirFacts, TypeFacts
    <3>2. unread' \subseteq STRING
      BY <2>3, <3>1, NamesFacts DEF MkDir, Listed
    <3>3. QED
      BY <2>3, <3>2 DEF MkDir
  <2>4. ASSUME NEW n \in Visible, ReadEntry(n)
        PROVE  /\ queue' \in Seq(Seq(STRING)) /\ unread' \subseteq STRING
               /\ returned' \subseteq STRING /\ walk' = "readdir"
               /\ handed' = handed /\ status' = status
    <3>1. n \in STRING /\ Append(curr, n) \in Seq(STRING)
      BY VisibleFacts
    <3>2. queue' \in Seq(Seq(STRING))
      BY <2>4, <3>1 DEF ReadEntry, Entry
    <3>3. QED
      BY <2>4, <3>1, <3>2 DEF ReadEntry
  <2>5. CASE FreeNode
    <3>1. queue # << >>
      BY <2>5 DEF FreeNode, Position
    <3>2. Tail(queue) \in Seq(Seq(STRING))
      BY <3>1, TailCovers
    <3>3. QED
      BY <2>5, <3>2 DEF FreeNode
  <2>6. CASE ThreadNext
    <3>1. PICK p \in handed : CreateFile(p) \/ CreateFail(p)
      BY <2>6 DEF ThreadNext
    <3>2. QED
      BY <3>1 DEF CreateFile, CreateFail, Counted
  <2>7. CASE UNCHANGED vars
    BY <2>7 DEF vars
  <2>8. QED
    BY <2>1, <2>2, <2>3, <2>4, <2>5, <2>6, <2>7 DEF Next, MainNext, Terminated
<1>3. QED
  BY <1>1, <1>2 DEF TreeInv, TypeOK

LEMMA PositionStep == TreeInv /\ [Next]_vars => Position'
<1> SUFFICES ASSUME TreeInv, [Next]_vars PROVE Position'
  OBVIOUS
<1> USE DEF TreeInv, Position
<1>1. dest' = dest /\ dirs \subseteq dirs' /\ regs \subseteq regs'
  BY TreeGrows
<1>2. \A p : SrcOf(p)' = SrcOf(p) /\ DstOf(p)' = DstOf(p) /\ (Met(p) => Met(p)')
  BY <1>1 DEF SrcOf, DstOf, Met
<1>3. queue \in Seq(Seq(STRING)) /\ (queue # << >> => curr = queue[1] /\ 1 \in DOMAIN queue)
  BY TypeFacts DEF TypeOK
<1>4. CASE StatDir
  <2>1. curr' = curr /\ SrcOf(curr) \in dirs /\ queue # << >> /\ walk' = "mkdir"
        /\ UNCHANGED <<queue, handed, status>>
    BY <1>4 DEF StatDir, curr
  <2>2. QED
    BY <1>1, <1>2, <1>4, <2>1 DEF StatDir
<1>5. CASE StatReg
  <2>1. Met(curr) /\ SrcOf(curr) \in regs
    BY <1>3, <1>5 DEF StatReg
  <2>2. QED
    BY <1>1, <1>2, <1>5, <2>1 DEF StatReg
<1>6. CASE MkDir
  <2>1. queue # << >> /\ SrcOf(curr) \in dirs' /\ DstOf(curr) \in dirs' /\ curr' = curr
    BY <1>1, <1>6, MkDirFacts DEF MkDir, curr
  <2>2. QED
    BY <1>1, <1>2, <1>6, <2>1 DEF MkDir
<1>7. CASE \E n \in Visible : ReadEntry(n)
  <2>1. PICK n \in Visible : ReadEntry(n)
    BY <1>7
  <2>2. /\ walk = "readdir" /\ walk' = "readdir" /\ queue' = Append(queue, Append(curr, n))
        /\ status = "running" /\ UNCHANGED <<handed, status>>
    BY <2>1 DEF ReadEntry, Entry
  <2>3. queue # << >> /\ Met(Append(curr, n)) /\ Append(curr, n) \in Seq(STRING)
    BY <2>2, VisibleFacts DEF Met
  <2>4. curr' = curr /\ queue' # << >>
    BY <1>3, <2>2, <2>3, AppendElements DEF curr
  <2>5. \A i \in DOMAIN queue' : queue'[i] = Append(curr, n)
                                 \/ (i \in DOMAIN queue /\ queue'[i] = queue[i])
    BY <1>3, <2>2, <2>3
  <2>6. QED
    BY <1>1, <1>2, <2>2, <2>3, <2>4, <2>5
<1>8. CASE EndDir
  BY <1>1, <1>2, <1>8 DEF EndDir
<1>9. CASE FreeNode
  <2>1. \A i \in DOMAIN queue' : i + 1 \in DOMAIN queue /\ queue'[i] = queue[i + 1]
    BY <1>3, <1>9 DEF FreeNode
  <2>2. QED
    BY <1>1, <1>2, <1>9, <2>1 DEF FreeNode
<1>10. CASE WalkFail \/ Finish
  BY <1>1, <1>2, <1>10 DEF WalkFail, Finish, curr
<1>11. CASE ThreadNext
  <2>1. PICK p \in handed : CreateFile(p) \/ CreateFail(p)
    BY <1>11 DEF ThreadNext
  <2>2. /\ UNCHANGED <<queue, walk>> /\ handed' \subseteq handed /\ status = "running"
        /\ status' \in {"running", "failure"}
    BY <2>1 DEF CreateFile, CreateFail, Counted
  <2>3. QED
    BY <1>1, <1>2, <2>2 DEF curr
<1>12. CASE UNCHANGED vars
  BY <1>1, <1>2, <1>12 DEF vars, curr
<1>13. QED
  BY <1>4, <1>5, <1>6, <1>7, <1>8, <1>9, <1>10, <1>11, <1>12 DEF Next, MainNext, Terminated

\* What is waiting to be visited is visited or goes on waiting.
LEMMA PendingStep ==
  ASSUME TreeInv, [Next]_vars, NEW t \in Seq(STRING), SrcOf(t) \in dirs \cup regs, Pending(t)
  PROVE  Pending(t)' \/ t \in handed' \/ (MkDir /\ curr = t)
<1>1. PICK k \in 0 .. Len(t) :
        \/ \E i \in DOMAIN queue :
             queue[i] = SubSeq(t, 1, k) /\ (i # 1 \/ walk \in {"stat", "mkdir"})
        \/ walk = "readdir" /\ k < Len(t) /\ curr = SubSeq(t, 1, k) /\ t[k + 1] \in unread
  BY DEF Pending
<1>2. /\ queue \in Seq(Seq(STRING)) /\ Len(t) \in Nat
      /\ queue # << >> => curr = queue[1] /\ 1 \in DOMAIN queue
  BY TypeFacts DEF TreeInv, TypeOK
<1>3. k = Len(t) \/ k \in 0 .. Len(t) - 1
  BY <1>2
<1>4. k = Len(t) => SubSeq(t, 1, k) = t
  BY SubSeqFull
<1>5. CASE StatDir
  BY <1>1, <1>5 DEF StatDir, Pending
<1>6. CASE StatReg
  <2>1. walk = "stat" /\ SrcOf(curr) \in regs /\ queue # << >> /\ handed' = handed \cup {curr}
        /\ queue' = queue
    BY <1>6 DEF StatReg
  <2>2. PICK i \in DOMAIN queue : queue[i] = SubSeq(t, 1, k)
    BY <1>1, <2>1
  <2>3. CASE i # 1
    BY <2>1, <2>2, <2>3 DEF Pending
  <2>4. CASE i = 1
    <3>1. curr = SubSeq(t, 1, k)
      BY <1>2, <2>1, <2>2, <2>4
    <3>2. k \notin 0 .. Len(t) - 1
      <4>1. k \in 0 .. Len(t) - 1 => SrcOf(SubSeq(t, 1, k)) \in dirs
        BY OnTheWay DEF TreeInv
      <4>2. QED
        BY <2>1, <3>1, <4>1 DEF TreeInv, TypeOK
    <3>3. QED
      BY <1>3, <1>4, <2>1, <3>1, <3>2
  <2>5. QED
    BY <2>3, <2>4
<1>7. CASE MkDir
  <2>1. /\ walk = "mkdir" /\ walk' = "readdir" /\ queue' = queue /\ curr' = curr
        /\ unread' = Names(SrcOf(curr), dirs' \cup regs) /\ queue # << >>
    BY <1>7, MkDirFacts DEF MkDir, Listed, curr
  <2>2. PICK i \in DOMAIN queue : queue[i] = SubSeq(t, 1, k)
    BY <1>1, <2>1
  <2>3. CASE i # 1
    BY <2>1, <2>2, <2>3 DEF Pending
  <2>4. CASE i = 1
    <3>1. curr = SubSeq(t, 1, k)
      BY <1>2, <2>1, <2>2, <2>4
    <3>2. CASE k = Len(t)
      BY <1>4, <1>7, <3>1, <3>2
    <3>3. CASE k \in 0 .. Len(t) - 1
      <4>1. t[k + 1] \in Names(SrcOf(curr), dirs \cup regs)
        BY <3>1, <3>3, NextListed DEF TreeInv
      <4>2. /\ dirs \cup regs \in SUBSET Seq(STRING) /\ dirs' \cup regs \in SUBSET Seq(STRING)
            /\ SrcOf(curr) \in Seq(STRING) /\ dirs \subseteq dirs'
        BY <1>7, <2>1, MkDirFacts, TypeFacts DEF TreeInv
      <4>3. t[k + 1] \in unread'
        BY <2>1, <4>1, <4>2, NamesFacts
      <4>4. k < Len(t)
        BY <1>2, <3>3
      <4>5. QED
        BY <2>1, <3>1, <4>3, <4>4 DEF Pending
    <3>4. QED
      BY <1>3, <3>2, <3>3
  <2>5. QED
    BY <2>3, <2>4
<1>8. CASE \E n \in Visible : ReadEntry(n)
  <2>1. PICK n \in Visible : ReadEntry(n)
    BY <1>8
  <2>2. /\ walk = "readdir" /\ walk' = "readdir" /\ queue' = Append(queue, Append(curr, n))
        /\ unread' = unread \ {n}
    BY <2>1 DEF ReadEntry, Entry
  <2>3. queue # << >> /\ Append(curr, n) \in Seq(STRING)
    BY VisibleFacts DEF TreeInv
  <2>4. curr' = curr
    BY <1>2, <2>2, <2>3, AppendElements DEF curr
  <2>5. /\ \A i \in DOMAIN queue : i \in DOMAIN queue' /\ queue'[i] = queue[i]
        /\ Len(queue) + 1 \in DOMAIN queue' /\ queue'[Len(queue) + 1] = Append(curr, n)
        /\ Len(queue) + 1 # 1
    BY <1>2, <2>2, <2>3
  <2>6. CASE \E i \in DOMAIN queue : queue[i] = SubSeq(t, 1, k) /\ i # 1
    BY <2>5, <2>6 DEF Pending
  <2>7. CASE k < Len(t) /\ curr = SubSeq(t, 1, k) /\ t[k + 1] \in unread
    <3>1. CASE t[k + 1] = n
      <4>1. k \in 0 .. Len(t) - 1 /\ k + 1 \in 0 .. Len(t)
        BY <1>2, <2>7
      <4>2. Append(curr, n) = SubSeq(t, 1, k + 1)
        BY <2>7, <3>1, <4>1, NextName
      <4>3. QED
        BY <2>5, <4>1, <4>2 DEF Pending
    <3>2. CASE t[k + 1] # n
      BY <2>2, <2>4, <2>7, <3>2 DEF Pending
    <3>3. QED
      BY <3>1, <3>2
  <2>8. QED
    BY <1>1, <2>2, <2>6, <2>7
<1>9. CASE EndDir
  BY <1>1, <1>9 DEF EndDir, Pending
<1>10. CASE FreeNode
  <2>1. walk = "free" /\ walk' = "stat" /\ queue' = Tail(queue)
    BY <1>10 DEF FreeNode
  <2>2. PICK i \in DOMAIN queue : queue[i] = SubSeq(t, 1, k) /\ i # 1
    BY <1>1, <2>1
  <2>3. PICK j : j = i - 1
    OBVIOUS
  <2>4. j \in DOMAIN queue' /\ queue'[j] = queue[i]
    BY <1>2, <2>1, <2>2, <2>3
  <2>5. QED
    BY <2>1, <2>2, <2>4 DEF Pending
<1>11. CASE WalkFail \/ Finish
  BY <1>1, <1>11 DEF WalkFail, Finish, Pending, curr
<1>12. CASE ThreadNext
  <2>1. UNCHANGED <<queue, walk, unread>>
    BY <1>12 DEF ThreadNext, CreateFile, CreateFail
  <2>2. QED
    BY <1>1, <2>1 DEF Pending, curr
<1>13. CASE UNCHANGED vars
  BY <1>1, <1>13 DEF vars, Pending, curr
<1>14. QED
  BY <1>5, <1>6, <1>7, <1>8, <1>9, <1>10, <1>11, <1>12, <1>13 DEF Next, MainNext, Terminated

\* At the start everything is to be found below the first node.
LEMMA RootPending ==
  ASSUME queue = << << >> >>, walk = "stat", NEW t \in Seq(STRING)
  PROVE  Pending(t)
<1>1. 0 \in 0 .. Len(t)
  OBVIOUS
<1>2. SubSeq(t, 1, 0) = << >>
  BY <1>1, PrefixFacts, EmptySeq
<1>3. 1 \in DOMAIN queue /\ queue[1] = << >>
  OBVIOUS
<1>4. QED
  BY <1>1, <1>2, <1>3 DEF Pending

LEMMA TreeInit == Init => TreeInv
<1> SUFFICES ASSUME Init PROVE TreeInv
  OBVIOUS
<1> USE DEF Init
<1>1. SrcOf(<< >>) = Source /\ << >> \in Seq(STRING) /\ Source \in OldDirs
  BY Constants, ConcatEmptySeq, SourceAssumption DEF SrcOf
<1>2. TypeOK
  BY <1>1, TreeAssumption DEF TypeOK
<1>3. Closed
  BY TreeAssumption DEF Closed
<1>4. Made
  BY DEF Made, Taken
<1>5. Position
  BY <1>1 DEF Position, Met
<1>6. \A t \in Seq(STRING) : Pending(t)
  BY RootPending
<1>7. NothingLost
  <2>1. Old \in SUBSET Seq(STRING)
    BY Constants DEF Old
  <2>2. \A t \in Below(Old) : t \in Seq(STRING)
    BY <2>1, BelowFacts
  <2>3. QED
    BY <1>6, <2>2 DEF NothingLost
<1>8. GoesOn
  <2>1. << >> \in Below(dirs)
    <3>1. dirs \in SUBSET Seq(STRING)
      BY Constants
    <3>2. QED
      BY <1>1, <3>1, BelowFacts
  <2>2. ASSUME Inside PROVE << >> = SubSeq(Rel \o << >>, 1, Len(<< >>))
    <3>1. dest \in Seq(STRING)
      BY Constants
    <3>2. Rel \in Seq(STRING)
      BY <2>2, <3>1, Constants, BelowSplit DEF Rel, Inside
    <3>3. PICK r \in Seq(STRING) : r = Rel \o << >>
      BY <1>1, <3>2, BelowPath
    <3>4. 0 \in 0 .. Len(r)
      BY <3>3
    <3>5. SubSeq(r, 1, 0) = << >>
      BY <3>3, <3>4, PrefixFacts, EmptySeq
    <3>6. QED
      BY <3>3, <3>5
  <2>3. QED
    BY <1>1, <1>6, <2>1, <2>2 DEF GoesOn
<1>9. QED
  BY <1>2, <1>3, <1>4, <1>5, <1>7, <1>8 DEF TreeInv

LEMMA NothingLostStep == TreeInv /\ [Next]_vars => NothingLost'
<1> SUFFICES ASSUME TreeInv, [Next]_vars, NEW t \in Below(Old)
             PROVE  Pending(t)' \/ Handled(t)'
  BY DEF NothingLost
<1>1. t \in Seq(STRING) /\ SrcOf(t) \in dirs \cup regs
  <2>1. Old \in SUBSET Seq(STRING) /\ Old \subseteq dirs \cup regs
    BY Constants DEF Old, TreeInv, Made
  <2>2. QED
    BY <2>1, BelowFacts
<1>2. dest' = dest /\ dirs \subseteq dirs' /\ regs \subseteq regs' /\ DstOf(t)' = DstOf(t)
  BY TreeGrows DEF DstOf
<1>3. CASE Pending(t)
  <2>1. Pending(t)' \/ t \in handed' \/ (MkDir /\ curr = t)
    BY <1>1, <1>3, PendingStep
  <2>2. MkDir /\ curr = t => DstOf(t) \in dirs'
    BY MkDirFacts
  <2>3. QED
    BY <1>2, <2>1, <2>2 DEF Handled
<1>4. CASE DstOf(t) \in dirs \cup regs
  BY <1>2, <1>4 DEF Handled
<1>5. CASE t \in handed
  <2>1. CASE \E p \in handed : CreateFile(p)
    <3>1. PICK p \in handed : CreateFile(p)
      BY <2>1
    <3>2. regs' = regs \cup {DstOf(p)} /\ handed' = handed \ {p}
      BY <3>1, CreateFacts
    <3>3. QED
      BY <1>2, <1>5, <3>2 DEF Handled
  <2>2. CASE ~\E p \in handed : CreateFile(p)
    <3>1. handed \subseteq handed'
      <4>1. ASSUME NEW n \in Visible, ReadEntry(n) PROVE handed' = handed
        BY <4>1 DEF ReadEntry
      <4>2. ASSUME NEW p \in handed, CreateFail(p) PROVE handed' = handed
        BY <4>2 DEF CreateFail
      <4>3. CASE StatDir \/ StatReg \/ MkDir \/ EndDir \/ FreeNode \/ WalkFail \/ Finish
        BY <4>3 DEF StatDir, StatReg, MkDir, EndDir, FreeNode, WalkFail, Finish
      <4>4. CASE UNCHANGED vars
        BY <4>4 DEF vars
      <4>5. QED
        BY <2>2, <4>1, <4>2, <4>3, <4>4 DEF Next, MainNext, ThreadNext, Terminated
    <3>2. QED
      BY <1>5, <3>1 DEF Handled
  <2>3. QED
    BY <2>1, <2>2
<1>6. QED
  BY <1>3, <1>4, <1>5 DEF TreeInv, NothingLost, Handled

LEMMA GoesOnStep == ASSUME TreeInv, [Next]_vars PROVE GoesOn'
<1> SUFFICES ASSUME Inside
             PROVE  (\E t \in Below(dirs) : t = SubSeq(Rel \o t, 1, Len(t)) /\ Pending(t))'
  <2>1. dest' = dest
    BY TreeGrows
  <2>2. Inside' = Inside
    BY <2>1 DEF Inside
  <2>3. QED
    BY <2>2 DEF GoesOn
<1>1. /\ dest' = dest /\ dirs \subseteq dirs' /\ dirs' \cap regs' = {}
      /\ dirs' \in SUBSET Seq(STRING) /\ dirs \in SUBSET Seq(STRING)
      /\ dirs' \cup regs' \in SUBSET Seq(STRING)
  BY TreeGrows, TypeFacts DEF TreeInv
<1>2. Rel' = Rel
  BY <1>1 DEF Rel
<1>3. PICK t \in Below(dirs) : t = SubSeq(Rel \o t, 1, Len(t)) /\ Pending(t)
  BY DEF TreeInv, GoesOn
<1>4. t \in Seq(STRING) /\ SrcOf(t) \in dirs
  BY <1>1, <1>3, BelowFacts
<1>5. t \in Below(dirs')
  BY <1>1, <1>4, BelowFacts
<1>6. CASE Pending(t)'
  BY <1>2, <1>3, <1>5, <1>6
<1>7. t \notin handed'
  <2>1. SrcOf(t)' = SrcOf(t)
    BY DEF SrcOf
  <2>2. Position'
    BY PositionStep
  <2>3. t \in handed' => SrcOf(t) \in regs'
    BY <2>1, <2>2 DEF Position
  <2>4. QED
    BY <1>1, <1>4, <2>3
<1>8. CASE MkDir /\ curr = t
  <2>1. dest \in Seq(STRING) /\ dest \notin Old
    BY <1>8, MkDirFacts, TypeFacts DEF TreeInv
  <2>2. Rel \in Seq(STRING) /\ Source \o Rel = dest
    BY <2>1, Constants, BelowSplit DEF Rel, Inside
  <2>3. Rel # << >>
    BY <2>1, <2>2, Constants, ConcatEmptySeq, SourceAssumption DEF Old
  <2>4. PICK u : u = Rel \o t
    OBVIOUS
  <2>5. u \in Seq(STRING) /\ Len(u) = Len(Rel) + Len(t) /\ Len(t) \in Nat /\ Len(Rel) \in Nat \ {0}
    BY <1>4, <2>2, <2>3, <2>4, BelowPath, EmptySeq
  <2>6. SrcOf(u) = DstOf(t)
    <3>1. Source \o (Rel \o t) = (Source \o Rel) \o t
      <4>1. PICK S : S = STRING
        OBVIOUS
      <4>2. Source \in Seq(S) /\ Rel \in Seq(S) /\ t \in Seq(S)
        BY <1>4, <2>2, <4>1, Constants
      <4>3. QED
        BY <4>2, ConcatAssociative
    <3>2. QED
      BY <2>2, <2>4, <3>1 DEF SrcOf, DstOf
  <2>7. SrcOf(u) \in dirs' /\ u \in Below(dirs')
    <3>1. SrcOf(u) \in dirs'
      BY <1>8, <2>6, MkDirFacts
    <3>2. QED
      BY <1>1, <2>5, <3>1, BelowFacts
  <2>8. u = SubSeq(Rel \o u, 1, Len(u))
    BY <1>3, <1>4, <2>2, <2>4, Repeats
  <2>9. SubSeq(u, 1, Len(t)) = t
    BY <1>3, <2>4
  <2>10. Len(t) \in 0 .. Len(u) - 1 /\ Len(t) \in 0 .. Len(u) /\ Len(t) < Len(u)
    BY <2>5
  <2>11. u[Len(t) + 1] \in Names(SrcOf(t), dirs' \cup regs')
    <3>1. Closed'
      BY ClosedStep
    <3>2. \A p \in dirs' \cup regs' : \A j \in 0 .. Len(p) - 1 : SubSeq(p, 1, j) \in dirs' \cup regs'
      BY <3>1 DEF Closed
    <3>3. u[Len(t) + 1] \in Names(SrcOf(SubSeq(u, 1, Len(t))), dirs' \cup regs')
      BY <1>1, <2>5, <2>7, <2>10, <3>2, NextIsListed
    <3>4. QED
      BY <2>9, <3>3
  <2>12. /\ walk' = "readdir" /\ curr' = curr /\ unread' = Names(SrcOf(curr), dirs' \cup regs')
    BY <1>8, MkDirFacts DEF MkDir, Listed, curr
  <2>13. Pending(u)'
    BY <1>8, <2>9, <2>10, <2>11, <2>12 DEF Pending
  <2>14. QED
    BY <1>2, <2>7, <2>8, <2>13
<1>9. QED
  BY <1>3, <1>4, <1>6, <1>7, <1>8, PendingStep

LEMMA TreeStep == TreeInv /\ [Next]_vars => TreeInv'
BY TypeStep, ClosedStep, MadeStep, PositionStep, NothingLostStep, GoesOnStep DEF TreeInv
-----------------------------------------------------------------------------
(* The theorems. *)

\* Outside the source the program makes nothing that the walk could meet.
LEMMA Outside ==
  ASSUME TreeInv, ~Inside, NEW p \in Seq(STRING), SrcOf(p) \in dirs \cup regs
  PROVE  SrcOf(p) \in Old
<1>1. CASE dest \in Old
  BY <1>1 DEF TreeInv, Made, Taken, Old
<1>2. CASE dest \notin Old
  <2> SUFFICES ASSUME SrcOf(p) \notin Old PROVE FALSE
    OBVIOUS
  <2>1. PICK q \in Below(dirs) \cup Below(regs) : SrcOf(p) = DstOf(q)
    BY DEF TreeInv, Made, Old
  <2>2. q \in Seq(STRING)
    BY TypeFacts, BelowFacts DEF TreeInv
  <2>3. \/ IsPrefix(Source, dest)
        \/ \E k \in 0 .. Len(Source) - 1 : dest = SubSeq(Source, 1, k)
    <3>1. Source \in Seq(STRING) /\ dest \in Seq(STRING)
      BY Constants, TypeFacts DEF TreeInv
    <3>2. Source \o p = dest \o q
      BY <2>1 DEF SrcOf, DstOf
    <3>3. QED
      BY <2>2, <3>1, <3>2, BelowBoth
  <2>4. \A k \in 0 .. Len(Source) - 1 : SubSeq(Source, 1, k) \in Old
    BY SourceAssumption, TreeAssumption DEF Old
  <2>5. QED
    BY <1>2, <2>3, <2>4 DEF Inside
<1>3. QED
  BY <1>1, <1>2

\* Something waits to be visited only while the queue is not empty.
LEMMA PendingQueue ==
  ASSUME Position, NEW t, Pending(t)
  PROVE  queue # << >>
BY DEF Position, Pending

\* Every reachable state satisfies the inductive invariant of the growing tree: what
\* was there and is not copied yet is still found, and when the destination lies in
\* the source some path below it is always still to be visited (cpr.c:78-107).
THEOREM TreeInductive == Spec => []TreeInv
<1>1. Init => TreeInv
  BY TreeInit
<1>2. TreeInv /\ [Next]_vars => TreeInv'
  BY TreeStep
<1>3. QED
  BY <1>1, <1>2, PTL DEF Spec

\* The queue, readdir's entries and the tree keep their types; no path is ever both a
\* directory and a regular file (cpr.c:88, 98).
THEOREM TreeTypeCorrect == Spec => []TypeOK
<1>1. TreeInv => TypeOK
  BY DEF TreeInv
<1>2. QED
  BY <1>1, TreeInductive, PTL

\* A copy of a directory into itself never reports success, and its queue never runs
\* empty, wherever inside the destination lies (cpr.c:78-107).
THEOREM NeverCopiesItselfCorrect == Spec => []NeverCopiesItself
<1>1. TreeInv => NeverCopiesItself
  <2> SUFFICES ASSUME TreeInv, Inside PROVE queue # << >> /\ status # "success"
    BY DEF NeverCopiesItself
  <2>1. PICK t : Pending(t)
    BY DEF TreeInv, GoesOn
  <2>2. queue # << >>
    BY <2>1, PendingQueue DEF TreeInv
  <2>3. QED
    BY <2>2 DEF TreeInv, Position
<1>2. QED
  BY <1>1, TreeInductive, PTL

\* With a destination outside the source, the walk meets what was there at the start
\* and nothing else, makes the image of it and nothing else, and has made all of it
\* when the program reports success (cpr.c:78-107).
THEOREM CopiesCorrect == Spec => []CopiesWhatWasThere
<1>1. TreeInv => CopiesWhatWasThere
  <2> SUFFICES ASSUME TreeInv, ~Inside
               PROVE  /\ \A i \in DOMAIN queue : SrcOf(queue[i]) \in Old
                      /\ (dirs \cup regs) \ Old \subseteq {DstOf(p) : p \in Below(Old)}
                      /\ status = "success" => {DstOf(p) : p \in Below(Old)} \subseteq dirs \cup regs
    BY DEF CopiesWhatWasThere
  <2>1. \A i \in DOMAIN queue : SrcOf(queue[i]) \in Old
    <3>1. queue \in Seq(Seq(STRING))
      BY DEF TreeInv, TypeOK
    <3>2. \A i \in DOMAIN queue : queue[i] \in Seq(STRING)
      BY <3>1
    <3>3. QED
      BY <3>2, Outside DEF TreeInv, Position, Met
  <2>2. ASSUME NEW x \in (dirs \cup regs) \ Old PROVE \E p \in Below(Old) : x = DstOf(p)
    <3>1. PICK p \in Below(dirs) \cup Below(regs) : x = DstOf(p)
      BY DEF TreeInv, Made, Old
    <3>2. p \in Seq(STRING) /\ SrcOf(p) \in dirs \cup regs
      BY TypeFacts, BelowFacts DEF TreeInv
    <3>3. Old \in SUBSET Seq(STRING)
      BY Constants DEF Old
    <3>4. p \in Below(Old)
      BY <3>2, <3>3, Outside, BelowFacts
    <3>5. QED
      BY <3>1, <3>4
  <2>3. ASSUME status = "success", NEW p \in Below(Old) PROVE DstOf(p) \in dirs \cup regs
    <3>1. queue = << >> /\ handed = {}
      BY <2>3 DEF TreeInv, Position
    <3>2. ~Pending(p)
      BY <3>1, PendingQueue DEF TreeInv
    <3>3. QED
      BY <3>1, <3>2 DEF TreeInv, NothingLost, Handled
  <2>4. QED
    BY <2>1, <2>2, <2>3
<1>2. QED
  BY <1>1, TreeInductive, PTL
=============================================================================
