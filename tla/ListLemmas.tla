------------------------------ MODULE ListLemmas ------------------------------
(* What the proofs need of lists, of numbers and of loops. *)
EXTENDS Integers, SequencesExt, WellFoundedInduction, TLAPS

(* The list that both versions of cpr use as a queue: nodes are added at its end
   and taken from its front. *)

\* The elements of a list to whose end one was added.
LEMMA AppendElements ==
  ASSUME NEW S, NEW list \in Seq(S), NEW n \in S
  PROVE  /\ Append(list, n) \in Seq(S) /\ Append(list, n) # << >>
         /\ ToSet(Append(list, n)) = ToSet(list) \cup {n}
         /\ list # << >> => Head(Append(list, n)) = Head(list)
<1> DEFINE new == Append(list, n)
<1>1. /\ new \in Seq(S)
      /\ Len(new) = Len(list) + 1 /\ Len(list) \in Nat
      /\ \A i \in 1 .. Len(list) : new[i] = list[i]
      /\ new[Len(list) + 1] = n
  OBVIOUS
<1>2. DOMAIN new = 1 .. Len(list) + 1 /\ DOMAIN list = 1 .. Len(list)
  BY <1>1
<1>3. ASSUME NEW x \in ToSet(new) PROVE x \in ToSet(list) \cup {n}
  BY <1>1, <1>2 DEF ToSet
<1>4. ASSUME NEW x \in ToSet(list) \cup {n} PROVE x \in ToSet(new)
  <2>1. CASE x = n
    <3>1. Len(list) + 1 \in DOMAIN new
      BY <1>1, <1>2
    <3>2. QED
      BY <1>1, <2>1, <3>1 DEF ToSet
  <2>2. CASE x \in ToSet(list)
    <3>1. PICK i \in DOMAIN list : x = list[i]
      BY <2>2 DEF ToSet
    <3>2. i \in DOMAIN new /\ new[i] = x
      BY <1>1, <1>2, <3>1
    <3>3. QED
      BY <3>2 DEF ToSet
  <2>3. QED
    BY <2>1, <2>2
<1>5. list # << >> => Head(new) = Head(list)
  OBVIOUS
<1>6. ToSet(new) = ToSet(list) \cup {n}
  BY <1>3, <1>4
<1>7. new # << >>
  BY <1>1
<1> HIDE DEF new
<1>8. QED
  BY <1>1, <1>5, <1>6, <1>7 DEF new

\* The elements of a list are its first one and those of the rest.
LEMMA TailCovers ==
  ASSUME NEW S, NEW list \in Seq(S), list # << >>
  PROVE  /\ Head(list) \in S /\ Tail(list) \in Seq(S)
         /\ Head(list) \in ToSet(list)
         /\ ToSet(list) = ToSet(Tail(list)) \cup {Head(list)}
<1>1. /\ Len(list) \in Nat \ {0} /\ DOMAIN list = 1 .. Len(list)
      /\ Head(list) = list[1] /\ Head(list) \in S
  OBVIOUS
<1>2. /\ Tail(list) \in Seq(S)
      /\ DOMAIN Tail(list) = 1 .. Len(list) - 1
      /\ \A i \in 1 .. Len(list) - 1 : Tail(list)[i] = list[i + 1]
  BY <1>1
<1>3. Head(list) \in ToSet(list)
  BY <1>1 DEF ToSet
<1>4. ASSUME NEW x \in ToSet(Tail(list)) PROVE x \in ToSet(list)
  <2>1. PICK i \in 1 .. Len(list) - 1 : x = list[i + 1]
    BY <1>2 DEF ToSet
  <2>2. i + 1 \in DOMAIN list
    BY <1>1
  <2>3. QED
    BY <2>1, <2>2 DEF ToSet
<1>5. ASSUME NEW x \in ToSet(list), x # Head(list) PROVE x \in ToSet(Tail(list))
  <2>1. PICK i \in 1 .. Len(list) : x = list[i]
    BY <1>1 DEF ToSet
  <2>2. i - 1 \in 1 .. Len(list) - 1 /\ Tail(list)[i - 1] = list[i]
    BY <1>1, <1>2, <1>5, <2>1
  <2>3. QED
    BY <1>2, <2>1, <2>2 DEF ToSet
<1>6. QED
  BY <1>1, <1>2, <1>3, <1>4, <1>5

\* A list without duplicates has none when something new is added at its end.
LEMMA AppendDistinct ==
  ASSUME NEW S, NEW list \in Seq(S), NEW n \in S, IsInjective(list), n \notin ToSet(list)
  PROVE  IsInjective(Append(list, n))
<1> DEFINE new == Append(list, n)
<1> SUFFICES ASSUME NEW i \in DOMAIN new, NEW j \in DOMAIN new, new[i] = new[j]
             PROVE  i = j
  BY DEF IsInjective
<1>1. /\ Len(list) \in Nat /\ DOMAIN new = 1 .. Len(list) + 1 /\ DOMAIN list = 1 .. Len(list)
      /\ \A k \in 1 .. Len(list) : new[k] = list[k]
      /\ new[Len(list) + 1] = n
  OBVIOUS
<1> HIDE DEF new
<1>2. \A k \in 1 .. Len(list) : list[k] # n
  BY <1>1 DEF ToSet
<1>3. CASE i = Len(list) + 1 \/ j = Len(list) + 1
  BY <1>1, <1>2, <1>3
<1>4. CASE i \in 1 .. Len(list) /\ j \in 1 .. Len(list)
  BY <1>1, <1>4 DEF IsInjective
<1>5. QED
  BY <1>1, <1>3, <1>4

\* The first of a list without duplicates is not in the rest, which has none.
LEMMA TailDistinct ==
  ASSUME NEW S, NEW list \in Seq(S), list # << >>, IsInjective(list)
  PROVE  IsInjective(Tail(list)) /\ Head(list) \notin ToSet(Tail(list))
<1> DEFINE rest == Tail(list)
<1>1. /\ Len(list) \in Nat \ {0} /\ DOMAIN list = 1 .. Len(list) /\ Head(list) = list[1]
      /\ DOMAIN rest = 1 .. Len(list) - 1
      /\ \A i \in 1 .. Len(list) - 1 : rest[i] = list[i + 1]
  OBVIOUS
<1> HIDE DEF rest
<1>2. ASSUME NEW i \in DOMAIN rest, NEW j \in DOMAIN rest, rest[i] = rest[j] PROVE i = j
  <2>1. i + 1 \in DOMAIN list /\ j + 1 \in DOMAIN list /\ list[i + 1] = list[j + 1]
    BY <1>1, <1>2
  <2>2. i + 1 = j + 1
    BY <2>1 DEF IsInjective
  <2>3. QED
    BY <1>1, <2>2
<1>3. ASSUME NEW i \in DOMAIN rest PROVE rest[i] # Head(list)
  <2>1. 1 \in DOMAIN list /\ i + 1 \in DOMAIN list /\ i + 1 # 1 /\ rest[i] = list[i + 1]
    BY <1>1
  <2>2. QED
    BY <1>1, <2>1 DEF IsInjective
<1>4. IsInjective(rest) /\ Head(list) \notin ToSet(rest)
  BY <1>2, <1>3 DEF IsInjective, ToSet
<1>5. QED
  BY <1>4 DEF rest
-----------------------------------------------------------------------------
(* Loops over numbers in ascending order, which the model writes as folds. *)

\* Every set of numbers has a least element: induction, in the form used below.
Less == {ss \in Nat \X Nat : ss[1] < ss[2]}

LEMMA LessWellFounded == IsWellFoundedOn(Less, Nat)
BY NatLessThanWellFounded, Zenon DEF Less, OpToRel

LEMMA Least ==
  ASSUME NEW T \in SUBSET Nat, T # {}
  PROVE  \E m \in T : \A k \in T : ~(k < m)
<1>1. PICK m \in T : \A k \in T : <<k, m>> \notin Less
  BY LessWellFounded, WFMin
<1>2. QED
  BY <1>1 DEF Less

\* A set of numbers has a greatest one.
LEMMA MaxIsGreatest ==
  ASSUME NEW m \in Nat, NEW s \in SUBSET (0 .. m), s # {}
  PROVE  Max(s) \in s /\ \A x \in s : x <= Max(s)
<1> DEFINE P(k) == k \in Nat /\ k <= m /\ m - k \in s
<1>1. PICK z \in s : TRUE
  OBVIOUS
<1>2. P(m - z)
  BY <1>1
<1> DEFINE Q == {k \in Nat : P(k)}
<1>3. PICK k \in Q : \A j \in Q : k <= j
  <2>1. Q # {} /\ Q \subseteq Nat
    BY <1>2
  <2> HIDE DEF Q
  <2>2. QED
    BY <2>1, Least
<1>4. m - k \in s /\ k \in Nat /\ k <= m
  BY <1>3
<1>5. ASSUME NEW y \in s PROVE y <= m - k
  <2>1. m - y \in Q
    BY <1>5
  <2>2. k <= m - y
    BY <1>3, <2>1
  <2>3. QED
    BY <2>2, <1>5, <1>4
<1>6. \E y \in s : \A x \in s : y >= x
  BY <1>4, <1>5
<1>7. Max(s) \in s /\ \A x \in s : Max(s) >= x
  BY <1>6 DEF Max
<1>8. QED
  BY <1>7


\* Without its greatest number a set lies one lower.
LEMMA WithoutMax ==
  ASSUME NEW n \in Nat, NEW s \in SUBSET (0 .. n), s # {}
  PROVE  Max(s) \in s /\ \A x \in s \ {Max(s)} : x < Max(s) /\ x < n
<1>1. Max(s) \in s /\ \A x \in s : x <= Max(s)
  BY MaxIsGreatest
<1>2. ASSUME NEW x \in s \ {Max(s)} PROVE x < Max(s) /\ x < n
  <2>1. PICK k : k = Max(s)
    OBVIOUS
  <2>2. k \in 0 .. n /\ x \in 0 .. n /\ x <= k /\ x # k
    BY <1>1, <2>1
  <2>3. QED
    BY <2>1, <2>2
<1>3. QED
  BY <1>1, <1>2

\* F[s] is what a loop over the numbers of s in ascending order makes of base.
IsLoop(F, K, base, step) ==
  \A s \in SUBSET K :
    F[s] = IF s = {} THEN base ELSE step[<<F[s \ {Max(s)}], Max(s)>>]

\* A loop over numbers in ascending order has a result after each of them.
LEMMA LoopExists ==
  ASSUME NEW m \in Nat, NEW K \in SUBSET (0 .. m),
         NEW V, NEW base \in V, NEW step \in [V \X K -> V]
  PROVE  \E F \in [SUBSET K -> V] : IsLoop(F, K, base, step)
<1> DEFINE Below(n) == SUBSET {k \in K : k < n}
           Eq(F, s) == F[s] = IF s = {} THEN base
                              ELSE step[<<F[s \ {Max(s)}], Max(s)>>]
           Good(F, n) == F \in [Below(n) -> V] /\ \A s \in Below(n) : Eq(F, s)
           Bad == {n \in Nat : ~ \E F : Good(F, n)}
<1>1. \E F : Good(F, 0)
  <2>1. {k \in K : k < 0} = {}
    <3>1. \A k \in K : k \in 0 .. m
      OBVIOUS
    <3>2. \A k \in K : ~ (k < 0)
      BY <3>1
    <3>3. QED
      BY <3>2
  <2>2. [s \in {{}} |-> base] \in [{{}} -> V] /\ [s \in {{}} |-> base][{}] = base
    OBVIOUS
  <2>3. Below(0) = {{}}
    BY <2>1
  <2>4. Good([s \in {{}} |-> base], 0)
    BY <2>2, <2>3
  <2>5. QED
    BY <2>4
<1>2. ASSUME NEW n \in Nat, NEW F, Good(F, n)
      PROVE  \E G : Good(G, n + 1)
  <2> DEFINE Body(s) == IF s = {} THEN base ELSE step[<<F[s \ {Max(s)}], Max(s)>>]
             G == [s \in Below(n + 1) |-> Body(s)]
  <2>1. ASSUME NEW s \in Below(n + 1), s # {}
        PROVE  Max(s) \in K /\ s \ {Max(s)} \in Below(n) /\ Max(s) \in s
    <3>1. s \in SUBSET (0 .. n)
      BY <2>1
    <3>2. Max(s) \in s /\ \A x \in s \ {Max(s)} : x < n
      BY <3>1, <2>1, WithoutMax
    <3>3. QED
      BY <3>2
  <2>2. ASSUME NEW s \in Below(n + 1) PROVE Body(s) \in V
    <3>1. CASE s # {}
      <4>1. Max(s) \in K /\ F[s \ {Max(s)}] \in V
        BY <2>1, <3>1, <1>2
      <4>2. step[<<F[s \ {Max(s)}], Max(s)>>] \in V
        BY <4>1
      <4>3. QED
        BY <4>2, <3>1
    <3>2. QED
      BY <3>1
  <2>3. G \in [Below(n + 1) -> V]
    BY <2>2
  <2>4. ASSUME NEW t \in Below(n) PROVE t \in Below(n + 1) /\ G[t] = F[t]
    <3>1. t \in Below(n + 1)
      OBVIOUS
    <3>2. F[t] = Body(t)
      BY <1>2
    <3> HIDE DEF Below, Body
    <3>3. G[t] = Body(t)
      BY <3>1
    <3>4. QED
      BY <3>1, <3>2, <3>3
  <2>5. ASSUME NEW s \in Below(n + 1) PROVE Eq(G, s)
    <3>1. s # {} => G[s \ {Max(s)}] = F[s \ {Max(s)}]
      BY <2>1, <2>4
    <3>2. G[s] = Body(s)
      OBVIOUS
    <3> HIDE DEF G
    <3>3. QED
      BY <3>1, <3>2
  <2> HIDE DEF G
  <2>6. QED
    BY <2>3, <2>5
<1>3. Bad = {}
  <2> SUFFICES ASSUME Bad # {} PROVE FALSE
    OBVIOUS
  <2>1. PICK n \in Bad : \A k \in Bad : ~(k < n)
    <3> Bad \in SUBSET Nat
      OBVIOUS
    <3> HIDE DEF Bad
    <3> QED
      BY Least
  <2>2. n \in Nat /\ ~ \E F : Good(F, n)
    BY <2>1
  <2> HIDE DEF Good
  <2>3. n # 0
    BY <2>2, <1>1
  <2>4. n - 1 \in Nat /\ n - 1 \notin Bad
    BY <2>1, <2>2, <2>3
  <2>5. PICK F : Good(F, n - 1)
    BY <2>4
  <2>6. \E G : Good(G, (n - 1) + 1)
    BY <2>4, <2>5, <1>2
  <2>7. (n - 1) + 1 = n
    BY <2>2
  <2>8. QED
    BY <2>2, <2>6, <2>7
<1>4. PICK F : Good(F, m + 1)
  <2>1. m + 1 \in Nat
    OBVIOUS
  <2> HIDE DEF Good
  <2>2. QED
    BY <2>1, <1>3
<1>5. {k \in K : k < m + 1} = K
  <2>1. \A k \in K : k \in 0 .. m
    OBVIOUS
  <2>2. \A k \in K : k < m + 1
    BY <2>1
  <2>3. QED
    BY <2>2
<1>6. QED
  BY <1>4, <1>5 DEF IsLoop

\* What holds of the empty set, and of a set when it holds of the set without its
\* greatest number, holds of every set of numbers up to a bound.
LEMMA AscendingInduction ==
  ASSUME NEW m \in Nat, NEW K \in SUBSET (0 .. m), NEW Good,
         {} \in Good,
         \A s \in SUBSET K : s # {} /\ s \ {Max(s)} \in Good => s \in Good
  PROVE  \A s \in SUBSET K : s \in Good
<1> DEFINE Below(n) == SUBSET {k \in K : k < n}
           Bad == {n \in Nat : \E s \in Below(n) : s \notin Good}
<1>1. \A s \in Below(0) : s \in Good
  <2>1. \A k \in K : k \in 0 .. m
    OBVIOUS
  <2>2. \A k \in K : ~ (k < 0)
    BY <2>1
  <2>3. {k \in K : k < 0} = {}
    BY <2>2
  <2>4. Below(0) = {{}}
    BY <2>3
  <2>5. QED
    BY <2>4
<1>2. ASSUME NEW n \in Nat, \A s \in Below(n) : s \in Good,
             NEW s \in Below(n + 1), s # {}
      PROVE  s \in Good
  <2>1. s \in SUBSET (0 .. n)
    BY <1>2
  <2>2. Max(s) \in s /\ \A x \in s \ {Max(s)} : x < n
    BY <2>1, <1>2, WithoutMax
  <2>3. s \ {Max(s)} \in Below(n)
    BY <2>2
  <2>4. s \in SUBSET K /\ s \ {Max(s)} \in Good
    BY <2>3, <1>2
  <2>5. QED
    BY <2>4, <1>2
<1>3. Bad = {}
  <2> SUFFICES ASSUME Bad # {} PROVE FALSE
    OBVIOUS
  <2>1. PICK n \in Bad : \A k \in Bad : ~(k < n)
    <3> Bad \in SUBSET Nat
      OBVIOUS
    <3> HIDE DEF Bad
    <3> QED
      BY Least
  <2>2. n \in Nat /\ \E s \in Below(n) : s \notin Good
    BY <2>1
  <2> HIDE DEF Below
  <2>3. n # 0
    BY <2>2, <1>1
  <2>4. n - 1 \in Nat /\ n - 1 \notin Bad /\ (n - 1) + 1 = n
    BY <2>1, <2>2, <2>3
  <2>5. \A s \in Below(n - 1) : s \in Good
    BY <2>4
  <2>6. \A s \in Below((n - 1) + 1) : s \in Good
    BY <2>4, <2>5, <1>2
  <2>7. QED
    BY <2>2, <2>4, <2>6
<1>4. ASSUME NEW s \in SUBSET K PROVE s \in Good
  <2>1. s \in Below(m + 1) /\ m + 1 \in Nat
    OBVIOUS
  <2>2. m + 1 \notin Bad
    BY <1>3
  <2> HIDE DEF Below
  <2>3. QED
    BY <2>1, <2>2
<1>5. QED
  BY <1>4

\* The results of a loop lie where those of its steps lie.
BehavesAsLoop(G, K, V, base, step) ==
  /\ G[{}] = base
  /\ \A s \in SUBSET K :
       s # {} /\ G[s \ {Max(s)}] \in V => G[s] = step[<<G[s \ {Max(s)}], Max(s)>>]

LEMMA LoopTyped ==
  ASSUME NEW m \in Nat, NEW K \in SUBSET (0 .. m),
         NEW V, NEW base \in V, NEW step \in [V \X K -> V],
         NEW G, BehavesAsLoop(G, K, V, base, step)
  PROVE  \A s \in SUBSET K : G[s] \in V
<1> DEFINE Good == {s \in SUBSET K : G[s] \in V}
<1>1. {} \in Good
  BY DEF BehavesAsLoop
<1>2. ASSUME NEW s \in SUBSET K, s # {}, s \ {Max(s)} \in Good PROVE s \in Good
  <2>1. Max(s) \in s
    <3>1. s \in SUBSET (0 .. m)
      OBVIOUS
    <3>2. QED
      BY <3>1, <1>2, MaxIsGreatest
  <2>2. G[s \ {Max(s)}] \in V /\ Max(s) \in K
    BY <1>2, <2>1
  <2>3. G[s] = step[<<G[s \ {Max(s)}], Max(s)>>]
    BY <1>2, <2>2 DEF BehavesAsLoop
  <2>4. QED
    BY <2>2, <2>3
<1> HIDE DEF Good
<1>3. \A s \in SUBSET K : s \in Good
  BY <1>1, <1>2, AscendingInduction
<1>4. QED
  BY <1>3 DEF Good
=============================================================================
