------------------------------ MODULE FoldRules ------------------------------
(***************************************************************************)
(* Induction along a fold: what holds of the start value and is kept by    *)
(* every element holds of the result of FoldLeft.  A proof module          *)
(* instantiates this one with the operator of its fold and with what is to *)
(* hold.                                                                   *)
(***************************************************************************)
EXTENDS Integers, Sequences, WellFoundedInduction, TLAPS

CONSTANTS
  Step(_, _),        \* the operator of the fold
  Holds(_, _, _)     \* of a sequence, how many elements are taken in, and the value so far

-----------------------------------------------------------------------------
\* A set of naturals that is not empty has a least element.
LEMMA LeastNumber ==
  ASSUME NEW T, T \subseteq Nat, T # {}
  PROVE  \E m \in T : \A k \in T : m <= k
<1>1. \E m \in T : \A k \in T : <<k, m>> \notin OpToRel(<, Nat)
  BY NatLessThanWellFounded, WFMin
<1>2. PICK m \in T : \A k \in T : <<k, m>> \notin OpToRel(<, Nat)
  BY <1>1
<1>3. ASSUME NEW k \in T PROVE m <= k
  <2>1. ~ k < m
    BY <1>2 DEF OpToRel
  <2> QED BY <2>1
<1> QED BY <1>3

\* A set of naturals that has 0, and with every number below n the next one, has the numbers to n.
LEMMA SetInduction ==
  ASSUME NEW T, NEW n \in Nat, 0 \in T, \A i \in 0..(n - 1) : i \in T => i + 1 \in T
  PROVE  0..n \subseteq T
<1> SUFFICES ASSUME ~(0..n \subseteq T) PROVE FALSE
  OBVIOUS
<1> DEFINE bad == {i \in 0..n : i \notin T}
<1>1. PICK m \in bad : \A k \in bad : m <= k
  <2>1. bad \subseteq Nat /\ bad # {}
    OBVIOUS
  <2> QED BY <2>1, LeastNumber
<1>2. m \in 1..n
  BY <1>1
<1>3. m - 1 \in 0..(n - 1) /\ m - 1 \notin bad
  BY <1>1, <1>2
<1>4. (m - 1) + 1 = m
  BY <1>2
<1>5. m \in T
  BY <1>3, <1>4
<1> QED BY <1>1, <1>5

-----------------------------------------------------------------------------
\* A set of numbers up to some number that is not empty has a greatest element.
LEMMA GreatestNumber ==
  ASSUME NEW n \in Nat, NEW T, T \subseteq 0..n, T # {}
  PROVE  \E m \in T : \A k \in T : k <= m
<1> DEFINE left == {n - k : k \in T}
<1>1. left \subseteq Nat /\ left # {}
  <2>1. \A k \in T : n - k \in Nat
    OBVIOUS
  <2> QED BY <2>1
<1>2. PICK d \in left : \A e \in left : d <= e
  BY <1>1, LeastNumber
<1>3. PICK m \in T : d = n - m
  BY <1>2
<1>4. ASSUME NEW k \in T PROVE k <= m
  <2>1. n - m <= n - k
    BY <1>2, <1>3
  <2>2. m \in Int /\ k \in Int
    OBVIOUS
  <2> QED BY <2>1, <2>2
<1> QED BY <1>4

\* The greatest of a set of numbers.
Max(s) == CHOOSE x \in s : \A y \in s : x >= y

\* The greatest of a set of positions.
LEMMA GreatestPosition ==
  ASSUME NEW n \in Nat
  PROVE  \A s \in SUBSET (1..n) : s # {} => Max(s) \in s /\ \A y \in s : Max(s) >= y
<1> SUFFICES ASSUME NEW s \in SUBSET (1..n), s # {}
             PROVE  \E x \in s : \A y \in s : x >= y
  BY DEF Max
<1>1. PICK x \in s : \A y \in s : y <= x
  <2>1. s \subseteq 0..n
    OBVIOUS
  <2> QED BY <2>1, GreatestNumber
<1>2. \A y \in s : x >= y
  BY <1>1
<1> QED BY <1>2

\* FoldLeft of the community modules, as its definitions make it of the fold of a set.
Fold(base, seq) ==
  LET iter[s \in SUBSET DOMAIN seq] ==
        IF s = {} THEN base ELSE Step(iter[s \ {Max(s)}], seq[Max(s)])
  IN  iter[DOMAIN seq]

\* The function by which MapThenFoldSet defines the fold.
Iterates(seq, base, n, f) ==
  f = [s \in SUBSET (1..n) |->
         IF s = {} THEN base ELSE Step(f[s \ {Max(s)}], seq[Max(s)])]

\* There is such a function for every length.
LEMMA IterationExists ==
  ASSUME NEW seq, NEW base, NEW n \in Nat
  PROVE  \E f : Iterates(seq, base, n, f)
<1> DEFINE T == {k \in Nat : \E f : Iterates(seq, base, k, f)}
<1>1. 0 \in T
  <2> DEFINE f == [s \in SUBSET (1..0) |-> base]
  <2>1. Iterates(seq, base, 0, f)
    BY DEF Iterates
  <2> QED BY <2>1
<1>2. ASSUME NEW k \in 0..(n - 1), k \in T PROVE k + 1 \in T
  <2>1. PICK f : Iterates(seq, base, k, f)
    BY <1>2
  <2> DEFINE g == [s \in SUBSET (1..(k + 1)) |->
                     IF k + 1 \in s THEN Step(f[s \ {k + 1}], seq[k + 1]) ELSE f[s]]
  <2>2. ASSUME NEW s \in SUBSET (1..(k + 1))
        PROVE  g[s] = IF s = {} THEN base ELSE Step(g[s \ {Max(s)}], seq[Max(s)])
    <3>1. CASE k + 1 \in s
      <4>1. Max(s) \in s /\ \A y \in s : Max(s) >= y
        <5>1. k + 1 \in Nat /\ s # {}
          BY <3>1
        <5> QED BY <5>1, GreatestPosition
      <4>2. Max(s) = k + 1
        <5>1. Max(s) \in 1..(k + 1) /\ Max(s) >= k + 1
          BY <3>1, <4>1
        <5> QED BY <5>1
      <4>3. s \ {k + 1} \in SUBSET (1..(k + 1)) /\ k + 1 \notin s \ {k + 1}
        OBVIOUS
      <4>4. g[s \ {k + 1}] = f[s \ {k + 1}]
        BY <4>3
      <4> QED BY <3>1, <4>2, <4>4
    <3>2. CASE k + 1 \notin s
      <4>1. s \in SUBSET (1..k)
        BY <3>2
      <4>2. g[s] = f[s]
        BY <3>2
      <4>3. f[s] = IF s = {} THEN base ELSE Step(f[s \ {Max(s)}], seq[Max(s)])
        BY <2>1, <4>1 DEF Iterates
      <4>4. s \ {Max(s)} \in SUBSET (1..(k + 1)) /\ k + 1 \notin s \ {Max(s)}
        BY <3>2
      <4>5. g[s \ {Max(s)}] = f[s \ {Max(s)}]
        BY <4>4
      <4> QED BY <4>2, <4>3, <4>5
    <3> QED BY <3>1, <3>2
  <2>3. Iterates(seq, base, k + 1, g)
    <3> DEFINE h == [s \in SUBSET (1..(k + 1)) |->
                       IF s = {} THEN base ELSE Step(g[s \ {Max(s)}], seq[Max(s)])]
    <3>1. \A s \in SUBSET (1..(k + 1)) : g[s] = h[s]
      BY <2>2
    <3>2. g = h
      <4> HIDE <2>2
      <4> QED BY <3>1
    <3> QED BY <3>2 DEF Iterates
  <2> QED BY <2>3
<1> HIDE DEF T
<1>3. 0..n \subseteq T
  BY <1>1, <1>2, SetInduction
<1> QED BY <1>3 DEF T

\* A fold is the value of such a function at all its positions.
LEMMA FoldIsIteration ==
  ASSUME NEW S, NEW seq \in Seq(S), NEW base
  PROVE  \E f : Iterates(seq, base, Len(seq), f) /\ Fold(base, seq) = f[1..Len(seq)]
<1> DEFINE f == CHOOSE f : Iterates(seq, base, Len(seq), f)
<1>1. Iterates(seq, base, Len(seq), f)
  BY IterationExists
<1>2. Fold(base, seq) = f[1..Len(seq)]
  <2>1. DOMAIN seq = 1..Len(seq)
    OBVIOUS
  <2> QED BY <2>1 DEF Fold, Iterates
<1> QED BY <1>1, <1>2

\* What such a function takes in, one position after the other.
LEMMA IterationSteps ==
  ASSUME NEW seq, NEW base, NEW n \in Nat, NEW f, Iterates(seq, base, n, f)
  PROVE  /\ f[1..0] = base
         /\ \A i \in 1..n : f[1..i] = Step(f[1..(i - 1)], seq[i])
<1>1. f[1..0] = base
  <2>1. 1..0 = {}
    OBVIOUS
  <2> QED BY <2>1 DEF Iterates
<1>2. ASSUME NEW i \in 1..n PROVE f[1..i] = Step(f[1..(i - 1)], seq[i])
  <2>1. 1..i \in SUBSET (1..n) /\ 1..i # {} /\ i \in 1..i
    OBVIOUS
  <2>2. Max(1..i) = i
    <3>1. Max(1..i) \in 1..i /\ \A y \in 1..i : Max(1..i) >= y
      BY <2>1, GreatestPosition
    <3> QED BY <2>1, <3>1
  <2>3. (1..i) \ {i} = 1..(i - 1)
    OBVIOUS
  <2> QED BY <2>1, <2>2, <2>3 DEF Iterates
<1> QED BY <1>1, <1>2

-----------------------------------------------------------------------------
\* Induction along a fold.
THEOREM FoldRule ==
  ASSUME NEW S, NEW seq \in Seq(S), NEW base,
         Holds(seq, 0, base),
         \A i \in 1..Len(seq) : \A value :
            Holds(seq, i - 1, value) => Holds(seq, i, Step(value, seq[i]))
  PROVE  Holds(seq, Len(seq), Fold(base, seq))
<1>1. PICK f : Iterates(seq, base, Len(seq), f) /\ Fold(base, seq) = f[1..Len(seq)]
  BY FoldIsIteration
<1>2. Len(seq) \in Nat
  OBVIOUS
<1> DEFINE T == {i \in Nat : i <= Len(seq) => Holds(seq, i, f[1..i])}
<1>3. 0 \in T
  BY <1>1, <1>2, IterationSteps
<1>4. ASSUME NEW i \in 0..(Len(seq) - 1), i \in T PROVE i + 1 \in T
  <2>1. i + 1 \in 1..Len(seq) /\ (i + 1) - 1 = i /\ i <= Len(seq)
    BY <1>2
  <2>2. f[1..(i + 1)] = Step(f[1..i], seq[i + 1])
    BY <1>1, <1>2, <2>1, IterationSteps
  <2>3. Holds(seq, i, f[1..i])
    BY <1>4, <2>1
  <2>4. Holds(seq, i + 1, Step(f[1..i], seq[i + 1]))
    BY <2>1, <2>3
  <2> QED BY <2>2, <2>4
<1>5. 0..Len(seq) \subseteq T
  <2> HIDE DEF T
  <2> QED BY <1>2, <1>3, <1>4, SetInduction
<1>6. Len(seq) \in T
  BY <1>2, <1>5
<1> QED BY <1>1, <1>2, <1>6

\* A fold of nothing is where it starts.
THEOREM FoldOfNothing ==
  ASSUME NEW base
  PROVE  Fold(base, <<>>) = base
<1>1. PICK none : none = <<>>
  OBVIOUS
<1>2. none \in Seq({}) /\ Len(none) = 0
  BY <1>1
<1>3. PICK f : Iterates(none, base, Len(none), f) /\ Fold(base, none) = f[1..Len(none)]
  BY <1>2, FoldIsIteration
<1>4. Iterates(none, base, 0, f) /\ Fold(base, none) = f[1..0]
  BY <1>2, <1>3
<1>5. f[1..0] = base
  <2>1. 1..0 = {} /\ {} \in SUBSET (1..0)
    OBVIOUS
  <2>2. f[{}] = base
    BY <1>4, <2>1 DEF Iterates
  <2> QED BY <2>1, <2>2
<1> QED BY <1>1, <1>4, <1>5

\* Sequences that agree as far as n are folded alike as far as n.
LEMMA SamePrefix ==
  ASSUME NEW seq, NEW more, NEW base, NEW n \in Nat, NEW m \in Nat, n <= m,
         NEW f, Iterates(seq, base, n, f), NEW g, Iterates(more, base, m, g),
         \A i \in 1..n : more[i] = seq[i]
  PROVE  g[1..n] = f[1..n]
<1> DEFINE T == {i \in Nat : i <= n => g[1..i] = f[1..i]}
<1>1. 0 \in T
  <2>1. f[1..0] = base
    <3>1. 1..0 = {} /\ {} \in SUBSET (1..n)
      OBVIOUS
    <3> QED BY <3>1 DEF Iterates
  <2>2. g[1..0] = base
    <3>1. 1..0 = {} /\ {} \in SUBSET (1..m)
      OBVIOUS
    <3> QED BY <3>1 DEF Iterates
  <2> QED BY <2>1, <2>2
<1>2. ASSUME NEW i \in 0..(n - 1), i \in T PROVE i + 1 \in T
  <2>1. i + 1 \in 1..n /\ i + 1 \in 1..m /\ (i + 1) - 1 = i /\ i <= n
    OBVIOUS
  <2>2. f[1..(i + 1)] = Step(f[1..i], seq[i + 1])
    <3>1. \A j \in 1..n : f[1..j] = Step(f[1..(j - 1)], seq[j])
      BY IterationSteps
    <3> QED BY <2>1, <3>1
  <2>3. g[1..(i + 1)] = Step(g[1..i], more[i + 1])
    <3>1. \A j \in 1..m : g[1..j] = Step(g[1..(j - 1)], more[j])
      BY IterationSteps
    <3> QED BY <2>1, <3>1
  <2>4. g[1..(i + 1)] = f[1..(i + 1)]
    BY <1>2, <2>1, <2>2, <2>3
  <2> QED BY <2>4
<1>3. 0..n \subseteq T
  <2> HIDE DEF T
  <2> QED BY <1>1, <1>2, SetInduction
<1> QED BY <1>3

\* One more element is one more step.
THEOREM FoldOfAppend ==
  ASSUME NEW S, NEW seq \in Seq(S), NEW x \in S, NEW base
  PROVE  Fold(base, Append(seq, x)) = Step(Fold(base, seq), x)
<1> DEFINE more == Append(seq, x)
           n == Len(seq)
<1>1. more \in Seq(S) /\ n \in Nat /\ Len(more) = n + 1 /\ more[n + 1] = x
      /\ \A i \in 1..n : more[i] = seq[i]
  OBVIOUS
<1>2. PICK f : Iterates(seq, base, n, f) /\ Fold(base, seq) = f[1..n]
  BY FoldIsIteration
<1>3. PICK g : Iterates(more, base, n + 1, g) /\ Fold(base, more) = g[1..(n + 1)]
  BY <1>1, FoldIsIteration
<1> HIDE DEF more, n
<1>4. n + 1 \in Nat /\ n <= n + 1 /\ n + 1 \in 1..(n + 1) /\ (n + 1) - 1 = n
  BY <1>1
<1>5. g[1..n] = f[1..n]
  <2>1. n \in Nat /\ n + 1 \in Nat /\ n <= n + 1 /\ \A i \in 1..n : more[i] = seq[i]
    BY <1>1, <1>4
  <2>2. Iterates(seq, base, n, f) /\ Iterates(more, base, n + 1, g)
    BY <1>2, <1>3
  <2>3. PICK m : m = n + 1
    OBVIOUS
  <2> QED BY <2>1, <2>2, <2>3, SamePrefix
<1>6. g[1..(n + 1)] = Step(g[1..n], x)
  BY <1>1, <1>3, <1>4, IterationSteps
<1> QED BY <1>2, <1>3, <1>5, <1>6 DEF more

\* One sequence after another is one fold after another.
THEOREM FoldOfConcat ==
  ASSUME NEW S, NEW seq \in Seq(S), NEW rest \in Seq(S), NEW base
  PROVE  Fold(base, seq \o rest) = Fold(Fold(base, seq), rest)
<1>1. PICK both, n, m : both = seq \o rest /\ n = Len(seq) /\ m = Len(rest)
  OBVIOUS
<1>2. n \in Nat /\ m \in Nat
  BY <1>1
<1>3. both \in Seq(S) /\ Len(both) = n + m
  BY <1>1
<1>4. \A i \in 1..n : both[i] = seq[i]
  BY <1>1
<1>5. \A i \in 1..m : both[n + i] = rest[i]
  <2>1. SUFFICES ASSUME NEW i \in 1..m PROVE both[n + i] = rest[i]
    OBVIOUS
  <2>2. n + i \in 1..(Len(seq) + Len(rest)) /\ ~(n + i <= Len(seq)) /\ (n + i) - Len(seq) = i
    BY <1>1, <1>2
  <2> QED BY <1>1, <2>2
<1>6. PICK f : Iterates(seq, base, n, f) /\ Fold(base, seq) = f[1..n]
  BY <1>1, FoldIsIteration
<1>7. PICK g : Iterates(both, base, n + m, g) /\ Fold(base, both) = g[1..(n + m)]
  BY <1>3, FoldIsIteration
<1>8. PICK mid : mid = Fold(base, seq)
  OBVIOUS
<1>9. PICK h : Iterates(rest, mid, m, h) /\ Fold(mid, rest) = h[1..m]
  BY <1>1, FoldIsIteration
<1>10. g[1..n] = mid
  <2>1. n + m \in Nat /\ n <= n + m
    BY <1>2
  <2> QED BY <1>2, <1>4, <1>6, <1>7, <1>8, <2>1, SamePrefix
<1> DEFINE T == {i \in Nat : i <= m => g[1..(n + i)] = h[1..i]}
<1>11. 0 \in T
  <2>1. h[1..0] = mid
    BY <1>2, <1>9, IterationSteps
  <2>2. n + 0 = n
    BY <1>2
  <2> QED BY <1>10, <2>1, <2>2
<1>12. ASSUME NEW i \in 0..(m - 1), i \in T PROVE i + 1 \in T
  <2>1. /\ i + 1 \in 1..m /\ (i + 1) - 1 = i /\ i <= m /\ n + i + 1 \in 1..(n + m)
        /\ (n + i + 1) - 1 = n + i /\ n + (i + 1) = n + i + 1
    BY <1>2
  <2>2. h[1..(i + 1)] = Step(h[1..i], rest[i + 1])
    <3>1. \A j \in 1..m : h[1..j] = Step(h[1..(j - 1)], rest[j])
      BY <1>2, <1>9, IterationSteps
    <3> QED BY <2>1, <3>1
  <2>3. g[1..(n + i + 1)] = Step(g[1..(n + i)], both[n + i + 1])
    <3>1. n + m \in Nat
      BY <1>2
    <3>2. \A j \in 1..(n + m) : g[1..j] = Step(g[1..(j - 1)], both[j])
      BY <1>7, <3>1, IterationSteps
    <3> QED BY <2>1, <3>2
  <2>4. both[n + i + 1] = rest[i + 1]
    BY <1>5, <2>1
  <2>5. g[1..(n + (i + 1))] = h[1..(i + 1)]
    BY <1>12, <2>1, <2>2, <2>3, <2>4
  <2> QED BY <2>5
<1>13. 0..m \subseteq T
  <2> HIDE DEF T
  <2> QED BY <1>2, <1>11, <1>12, SetInduction
<1>14. g[1..(n + m)] = h[1..m]
  BY <1>2, <1>13
<1> QED BY <1>1, <1>7, <1>8, <1>9, <1>14
=============================================================================
