------------------------------ MODULE DataLemmas ------------------------------
(***************************************************************************)
(* Lemmas about numbers and about the folds of the community modules, over *)
(* finite sets and over sequences.                                         *)
(*                                                                         *)
(* A fold is a function on the subsets of a set that is chosen to satisfy  *)
(* a recursion.  RecursionOnSubsets shows that there is such a function,   *)
(* for a step that is itself a function; the lemmas on sums and on folds   *)
(* of sequences follow from its equation.  Induction is over sets of       *)
(* natural numbers.                                                        *)
(***************************************************************************)
EXTENDS Integers, Sequences, SequencesExt, FiniteSetsExt, Functions, FiniteSetTheorems,
        SequenceTheorems, WellFoundedInduction, TLAPS

(***************************************************************************)
(* Division rounds down.                                                   *)
(***************************************************************************)
LEMMA Division ==
  ASSUME NEW a \in Nat, NEW b \in Nat \ {0}
  PROVE  /\ a \div b \in Nat
         /\ (a \div b) * b <= a
         /\ a < (a \div b) * b + b
  OBVIOUS

LEMMA MultipleMonotone ==
  ASSUME NEW q \in Int, NEW r \in Int, q <= r, NEW b \in Nat
  PROVE  q * b <= r * b
  OBVIOUS

LEMMA DivisionMonotone ==
  ASSUME NEW a \in Nat, NEW c \in Nat, a <= c, NEW b \in Nat \ {0}
  PROVE  a \div b <= c \div b
<1>1. /\ a \div b \in Nat /\ c \div b \in Nat
      /\ (a \div b) * b <= a
      /\ c < (c \div b) * b + b
  BY Division
<1>2. SUFFICES ASSUME c \div b + 1 <= a \div b PROVE FALSE
  BY <1>1
<1>3. (c \div b + 1) * b <= (a \div b) * b
  BY <1>1, <1>2, MultipleMonotone
<1>4. (c \div b + 1) * b = (c \div b) * b + b
  BY <1>1
<1>5. (c \div b) * b \in Int /\ (a \div b) * b \in Int
  BY <1>1
<1>6. QED
  BY <1>1, <1>3, <1>4, <1>5

(***************************************************************************)
(* A set of natural numbers has a least element, and a set that contains   *)
(* zero and the successor of each of its elements contains them all.       *)
(***************************************************************************)
LEMMA HasLeast ==
  ASSUME NEW S \in SUBSET Nat, S # {}
  PROVE  \E m \in S : \A n \in S : m <= n
<1> DEFINE Less == {pair \in Nat \X Nat : pair[1] < pair[2]}
<1>1. IsWellFoundedOn(Less, Nat)
  BY NatLessThanWellFounded DEF OpToRel
<1>2. PICK m \in S : \A n \in S : ~ (<<n, m>> \in Less)
  <2> HIDE DEF Less
  <2> QED BY <1>1, WFMin
<1>3. ASSUME NEW n \in S PROVE m <= n
  <2>1. n \in Nat /\ m \in Nat
    BY <1>3
  <2>2. n < m => <<n, m>> \in Less
    BY <2>1
  <2>3. ~ (n < m)
    <3> HIDE DEF Less
    <3> QED BY <1>2, <1>3, <2>2
  <2>4. QED
    BY <2>1, <2>3
<1>4. QED
  BY <1>3

LEMMA AllNaturals ==
  ASSUME NEW S \in SUBSET Nat, 0 \in S, \A n \in S : n + 1 \in S
  PROVE  S = Nat
<1> SUFFICES ASSUME Nat \ S # {} PROVE FALSE
  OBVIOUS
<1>1. PICK m \in Nat \ S : \A n \in Nat \ S : m <= n
  BY HasLeast
<1>2. m # 0 /\ m - 1 \in Nat /\ ~(m <= m - 1)
  BY <1>1
<1>3. m - 1 \in S
  BY <1>1, <1>2
<1>4. QED
  BY <1>1, <1>3

(***************************************************************************)
(* A sequence that ascends from each element to the next one ascends.      *)
(***************************************************************************)
LEMMA AscendingSequence ==
  ASSUME NEW s \in Seq(Nat), \A i \in 2..Len(s) : s[i - 1] < s[i],
         NEW j \in 1..Len(s), NEW i \in 1..j
  PROVE  s[i] <= s[j]
<1> DEFINE N == {k \in Nat : i + k <= Len(s) => s[i] <= s[i + k]}
<1>1. Len(s) \in Nat /\ \A k \in 1..Len(s) : s[k] \in Nat
  OBVIOUS
<1>2. 0 \in N
  BY <1>1
<1>3. ASSUME NEW k \in N PROVE k + 1 \in N
  <2> SUFFICES ASSUME i + (k + 1) <= Len(s) PROVE s[i] <= s[i + (k + 1)]
    OBVIOUS
  <2>1. k \in Nat /\ s[i] <= s[i + k]
    BY <1>1
  <2> HIDE DEF N
  <2>2. i + (k + 1) \in 2..Len(s) /\ (i + (k + 1)) - 1 = i + k /\ i + k \in 1..Len(s)
    BY <1>1, <2>1
  <2>3. s[i + k] < s[i + (k + 1)]
    BY <2>2
  <2>4. i \in 1..Len(s) /\ i + (k + 1) \in 1..Len(s)
    BY <1>1, <2>1, <2>2
  <2>5. QED
    BY <1>1, <2>1, <2>2, <2>3, <2>4, SMTT(30)
<1>4. N = Nat
  <2> HIDE DEF N
  <2> QED BY <1>2, <1>3, AllNaturals DEF N
<1>5. j - i \in Nat /\ i + (j - i) = j
  BY <1>1
<1>6. j - i \in N
  <2> HIDE DEF N
  <2> QED BY <1>4, <1>5
<1>7. QED
  BY <1>1, <1>5, <1>6

(***************************************************************************)
(* Recursion over the subsets of a finite set.                             *)
(***************************************************************************)
Chooses(C, S) == \A s \in SUBSET S : s # {} => C[s] \in s

Follows(g, S, base, C, F) ==
  \A s \in SUBSET S : g[s] = IF s = {} THEN base ELSE F[<<C[s], g[s \ {C[s]}]>>]

LEMMA RecursionOnSubsets ==
  ASSUME NEW S, IsFiniteSet(S), NEW V, NEW base \in V, NEW C, Chooses(C, S),
         NEW F \in [S \X V -> V]
  PROVE  \E g \in [SUBSET S -> V] : Follows(g, S, base, C, F)
<1> DEFINE Small(n) == {s \in SUBSET S : Cardinality(s) <= n}
           Good(g, n) == /\ g \in [Small(n) -> V]
                         /\ \A s \in Small(n) :
                              g[s] = IF s = {} THEN base ELSE F[<<C[s], g[s \ {C[s]}]>>]
           N == {n \in Nat : \E g : Good(g, n)}
<1>1. \A s \in SUBSET S : IsFiniteSet(s) /\ Cardinality(s) \in Nat
  BY FS_Subset, FS_CardinalityType
<1>2. 0 \in N
  <2>1. \A s \in Small(0) : s = {}
    BY <1>1, FS_EmptySet
  <2>2. Good([s \in Small(0) |-> base], 0)
    BY <2>1
  <2>3. QED
    BY <2>2
<1>3. ASSUME NEW n \in N PROVE n + 1 \in N
  <2>1. PICK g : Good(g, n)
    OBVIOUS
  <2>2. n \in Nat /\ n + 1 \in Nat
    OBVIOUS
  <2> DEFINE h == [s \in Small(n + 1) |->
                     IF s \in Small(n) THEN g[s] ELSE F[<<C[s], g[s \ {C[s]}]>>]]
  <2>3. ASSUME NEW s \in Small(n + 1), s # {}
        PROVE  s \ {C[s]} \in Small(n) /\ s \ {C[s]} \in Small(n + 1) /\ C[s] \in S
    <3>1. C[s] \in s /\ s \in SUBSET S
      BY <2>3 DEF Chooses
    <3>2. Cardinality(s \ {C[s]}) = Cardinality(s) - 1
      BY <1>1, <3>1, FS_RemoveElement
    <3>3. Cardinality(s) \in Nat /\ Cardinality(s) <= n + 1
      BY <1>1
    <3>4. Cardinality(s \ {C[s]}) <= n /\ Cardinality(s \ {C[s]}) <= n + 1
      BY <2>2, <3>2, <3>3
    <3>5. QED
      BY <3>1, <3>4
  <2>4. \A s \in Small(n) : s \in Small(n + 1)
    BY <1>1, <2>2
  <2>5. Small(n) # {} /\ {} \in Small(n)
    BY <2>2, FS_EmptySet
  <2>6. ASSUME NEW s \in Small(n + 1)
        PROVE  h[s] \in V /\ h[s] = IF s = {} THEN base ELSE F[<<C[s], h[s \ {C[s]}]>>]
    <3>1. CASE s = {}
      <4>1. h[s] = g[s] /\ g[s] = base
        BY <2>1, <2>5, <3>1
      <4>2. QED
        BY <3>1, <4>1
    <3>2. CASE s # {}
      <4>1. h[s \ {C[s]}] = g[s \ {C[s]}] /\ g[s \ {C[s]}] \in V
        BY <2>1, <2>3, <3>2
      <4>2. h[s] = F[<<C[s], g[s \ {C[s]}]>>]
        <5>1. CASE s \in Small(n)
          BY <2>1, <3>2, <5>1
        <5>2. CASE s \notin Small(n)
          BY <5>2
        <5>3. QED
          BY <5>1, <5>2
      <4>3. h[s] \in V
        <5> HIDE DEF h
        <5> QED BY <2>3, <3>2, <4>1, <4>2
      <4>4. QED
        <5> HIDE DEF h
        <5> QED BY <3>2, <4>1, <4>2, <4>3
    <3>3. QED
      BY <3>1, <3>2
  <2>7. Good(h, n + 1)
    BY <2>6
  <2>8. QED
    BY <2>2, <2>7
<1>4. N = Nat
  <2> HIDE DEF N
  <2> QED BY <1>2, <1>3, AllNaturals DEF N
<1>5. PICK g : Good(g, Cardinality(S))
  BY <1>1, <1>4
<1>6. Small(Cardinality(S)) = SUBSET S
  BY <1>1, FS_Subset
<1>7. QED
  BY <1>5, <1>6 DEF Follows

LEMMA SameRecursion ==
  ASSUME NEW S, IsFiniteSet(S), NEW C, Chooses(C, S), NEW g, NEW h, g[{}] = h[{}],
         \A s \in SUBSET S : s # {} /\ g[s \ {C[s]}] = h[s \ {C[s]}] => g[s] = h[s]
  PROVE  \A s \in SUBSET S : g[s] = h[s]
<1> DEFINE N == {n \in Nat : \A s \in SUBSET S : Cardinality(s) = n => g[s] = h[s]}
<1>1. \A s \in SUBSET S : IsFiniteSet(s) /\ Cardinality(s) \in Nat
  BY FS_Subset, FS_CardinalityType
<1>2. 0 \in N
  BY <1>1, FS_EmptySet
<1>3. ASSUME NEW n \in N PROVE n + 1 \in N
  <2> SUFFICES ASSUME NEW s \in SUBSET S, Cardinality(s) = n + 1 PROVE g[s] = h[s]
    OBVIOUS
  <2>1. n \in Nat /\ n + 1 # 0
    OBVIOUS
  <2>2. n \in Nat /\ s # {}
    <3> HIDE DEF N
    <3> QED BY <2>1, FS_EmptySet
  <2>3. C[s] \in s
    BY <2>2 DEF Chooses
  <2>4. Cardinality(s \ {C[s]}) = n
    BY <1>1, <2>2, <2>3, FS_RemoveElement
  <2>5. g[s \ {C[s]}] = h[s \ {C[s]}]
    BY <2>4
  <2>6. QED
    BY <2>2, <2>5
<1>4. N = Nat
  <2> HIDE DEF N
  <2> QED BY <1>2, <1>3, AllNaturals DEF N
<1>5. QED
  BY <1>1, <1>4

------------------------------------------------------------------------------

(***************************************************************************)
(* A recursion that calls itself last, on an argument of a smaller         *)
(* measure, defines a function.                                            *)
(***************************************************************************)
Descends(S, Done, next, measure) == \A r \in S \ Done : measure[next[r]] < measure[r]

EndsWith(g, S, Done, result, next) ==
  \A r \in S : g[r] = IF r \in Done THEN result[r] ELSE g[next[r]]

LEMMA TailRecursion ==
  ASSUME NEW S, NEW V, NEW measure \in [S -> Nat], NEW Done \in SUBSET S, NEW result \in [Done -> V],
         NEW next \in [S \ Done -> S], Descends(S, Done, next, measure)
  PROVE  \E g \in [S -> V] : EndsWith(g, S, Done, result, next)
<1> DEFINE D(n) == {r \in S : measure[r] <= n}
           Good(g, n) == /\ g \in [D(n) -> V]
                         /\ \A r \in D(n) : g[r] = IF r \in Done THEN result[r] ELSE g[next[r]]
           N == {n \in Nat : \E g : Good(g, n)}
<1>1. ASSUME NEW n \in Nat, NEW r \in D(n), r \notin Done
      PROVE  /\ next[r] \in S /\ next[r] \in D(n) /\ n # 0
             /\ \A k \in Nat : n = k + 1 => next[r] \in D(k)
  <2>1. /\ next[r] \in S /\ measure[r] \in Nat /\ measure[next[r]] \in Nat
        /\ measure[r] <= n /\ measure[next[r]] < measure[r]
    BY <1>1 DEF Descends
  <2>2. QED
    BY <2>1
<1>2. 0 \in N
  <2>1. \A r \in D(0) : r \in Done
    BY <1>1
  <2>2. Good([r \in D(0) |-> result[r]], 0)
    BY <2>1
  <2>3. QED
    BY <2>2
<1>3. ASSUME NEW n \in N PROVE n + 1 \in N
  <2>1. PICK g : Good(g, n)
    OBVIOUS
  <2>2. n \in Nat /\ n + 1 \in Nat /\ \A r \in D(n) : r \in D(n + 1)
    OBVIOUS
  <2> DEFINE h == [r \in D(n + 1) |-> IF r \in D(n) THEN g[r]
                                      ELSE IF r \in Done THEN result[r] ELSE g[next[r]]]
  <2>3. ASSUME NEW r \in D(n + 1)
        PROVE  h[r] \in V /\ h[r] = IF r \in Done THEN result[r] ELSE h[next[r]]
    <3>1. r \notin Done => next[r] \in D(n) /\ next[r] \in D(n + 1)
      BY <1>1, <2>2
    <3> HIDE DEF D
    <3>2. r \notin Done => h[next[r]] = g[next[r]] /\ g[next[r]] \in V
      BY <2>1, <3>1
    <3>3. QED
      BY <2>1, <2>2, <3>1, <3>2
  <2>4. Good(h, n + 1)
    <3> HIDE DEF D
    <3> QED BY <2>3
  <2>5. QED
    BY <2>2, <2>4
<1>4. N = Nat
  <2> HIDE DEF N
  <2> QED BY <1>2, <1>3, AllNaturals DEF N
<1>5. ASSUME NEW n \in Nat, NEW m \in Nat, n <= m, NEW g, NEW h, Good(g, n), Good(h, m)
      PROVE  \A r \in D(n) : g[r] = h[r]
  <2> DEFINE K == {k \in Nat : \A r \in D(n) : measure[r] <= k => g[r] = h[r]}
  <2>1. \A r \in D(n) : r \in D(m) /\ measure[r] \in Nat
    BY <1>5
  <2>2. 0 \in K
    <3> SUFFICES ASSUME NEW r \in D(n), measure[r] <= 0 PROVE g[r] = h[r]
      OBVIOUS
    <3>1. r \in D(0)
      OBVIOUS
    <3>2. r \in Done
      BY <1>1, <3>1
    <3>3. QED
      BY <1>5, <2>1, <3>2
  <2>3. ASSUME NEW k \in K PROVE k + 1 \in K
    <3> SUFFICES ASSUME NEW r \in D(n), measure[r] <= k + 1 PROVE g[r] = h[r]
      OBVIOUS
    <3>1. k \in Nat /\ k + 1 \in Nat /\ r \in D(k + 1)
      OBVIOUS
    <3>2. CASE r \in Done
      BY <1>5, <2>1, <3>2
    <3>3. CASE r \notin Done
      <4>1. next[r] \in D(n) /\ next[r] \in D(k)
        BY <1>1, <3>1, <3>3
      <4>2. g[next[r]] = h[next[r]]
        BY <4>1
      <4>3. QED
        BY <1>5, <2>1, <3>3, <4>2
    <3>4. QED
      BY <3>2, <3>3
  <2>4. K = Nat
    <3> HIDE DEF K
    <3> QED BY <2>2, <2>3, AllNaturals DEF K
  <2>5. n \in K
    <3> HIDE DEF K
    <3> QED BY <2>4
  <2>6. QED
    BY <2>5
<1> DEFINE part(n) == CHOOSE g : Good(g, n)
           whole == [r \in S |-> part(measure[r])[r]]
<1>6. \A n \in Nat : Good(part(n), n)
  <2> HIDE DEF Good
  <2> SUFFICES ASSUME NEW n \in Nat PROVE Good(part(n), n)
    OBVIOUS
  <2>1. \E g : Good(g, n)
    BY <1>4
  <2>2. QED
    BY <2>1
<1>7. ASSUME NEW r \in S
      PROVE  whole[r] \in V /\ whole[r] = IF r \in Done THEN result[r] ELSE whole[next[r]]
  <2> HIDE DEF part
  <2>1. measure[r] \in Nat /\ r \in D(measure[r])
    OBVIOUS
  <2> DEFINE own == part(measure[r])
  <2>2. Good(own, measure[r]) /\ whole[r] = own[r]
    BY <1>6, <2>1
  <2>3. own[r] \in V /\ own[r] = IF r \in Done THEN result[r] ELSE own[next[r]]
    BY <2>1, <2>2
  <2>4. CASE r \in Done
    BY <2>2, <2>3, <2>4
  <2>5. CASE r \notin Done
    <3> DEFINE x == next[r]
               other == part(measure[x])
    <3>1. x \in S /\ measure[x] \in Nat /\ measure[x] <= measure[r] /\ x \in D(measure[x])
      BY <2>1, <2>5 DEF Descends
    <3>2. Good(other, measure[x]) /\ whole[x] = other[x]
      BY <1>6, <3>1
    <3>3. other[x] = own[x]
      <4> HIDE DEF own, other, x, Good, D
      <4> QED BY <1>5, <2>1, <2>2, <3>1, <3>2
    <3>4. QED
      BY <2>2, <2>3, <2>5, <3>2, <3>3
  <2>6. QED
    BY <2>4, <2>5
<1>8. whole \in [S -> V]
  <2> HIDE DEF part
  <2>1. \A r \in S : part(measure[r])[r] \in V
    BY <1>7
  <2>2. QED
    BY <2>1
<1>9. QED
  <2> HIDE DEF whole
  <2> QED BY <1>7, <1>8 DEF EndsWith

------------------------------------------------------------------------------

(***************************************************************************)
(* Sums.  SumFunctionOnSet takes the elements of a set in an order of its  *)
(* own, which SumSplits shows not to matter.                               *)
(***************************************************************************)
Choice(S) == CHOOSE x \in S : TRUE

Integral(f, S) == IsFiniteSet(S) /\ \A x \in S : f[x] \in Int

ChoiceOf(S) == [s \in SUBSET S |-> Choice(s)]
Plus(f, S) == [pair \in S \X Int |-> f[pair[1]] + pair[2]]

Adds(g, f, S) ==
  \A s \in SUBSET S : g[s] = IF s = {} THEN 0 ELSE f[Choice(s)] + g[s \ {Choice(s)}]

LEMMA ChoiceChooses == ASSUME NEW S PROVE Chooses(ChoiceOf(S), S)
BY DEF Chooses, ChoiceOf, Choice

LEMMA SumFollows ==
  ASSUME NEW f, NEW S, Integral(f, S)
  PROVE  \E g \in [SUBSET S -> Int] : Adds(g, f, S) /\ SumFunctionOnSet(f, S) = g[S]
<1>1. Plus(f, S) \in [S \X Int -> Int]
  BY DEF Plus, Integral
<1>2. PICK g \in [SUBSET S -> Int] : Follows(g, S, 0, ChoiceOf(S), Plus(f, S))
  <2> DEFINE F == Plus(f, S)
             C == ChoiceOf(S)
  <2>1. F \in [S \X Int -> Int] /\ Chooses(C, S) /\ IsFiniteSet(S) /\ 0 \in Int
    BY <1>1, ChoiceChooses DEF Integral
  <2> HIDE DEF F, C
  <2>2. \E g \in [SUBSET S -> Int] : Follows(g, S, 0, C, F)
    BY <2>1, RecursionOnSubsets
  <2> QED
    BY <2>2 DEF F, C
<1> DEFINE body(k) == [s \in SUBSET S |-> IF s = {} THEN 0 ELSE f[Choice(s)] + k[s \ {Choice(s)}]]
<1>3. ASSUME NEW s \in SUBSET S, s # {}
      PROVE  Choice(s) \in s /\ Choice(s) \in S
  BY <1>3 DEF Choice
<1>4. ASSUME NEW s \in SUBSET S
      PROVE  g[s] = IF s = {} THEN 0 ELSE f[Choice(s)] + g[s \ {Choice(s)}]
  <2>1. CASE s = {}
    BY <1>2, <2>1 DEF Follows
  <2>2. CASE s # {}
    <3>1. Choice(s) \in S /\ g[s \ {Choice(s)}] \in Int /\ ChoiceOf(S)[s] = Choice(s)
      BY <1>3, <2>2 DEF ChoiceOf
    <3>2. g[s] = Plus(f, S)[<<Choice(s), g[s \ {Choice(s)}]>>]
      BY <1>2, <2>2, <3>1 DEF Follows
    <3>3. QED
      BY <2>2, <3>1, <3>2 DEF Plus
  <2>3. QED
    BY <2>1, <2>2
<1>5. g = body(g)
  <2>1. \A s \in SUBSET S : g[s] = body(g)[s]
    BY <1>4
  <2>2. QED
    BY <2>1
<1> DEFINE iter == CHOOSE k : k = body(k)
<1>6. iter = body(iter)
  <2> HIDE DEF body
  <2> QED BY <1>5
<1>7. ASSUME NEW s \in SUBSET S
      PROVE  iter[s] = IF s = {} THEN 0 ELSE f[Choice(s)] + iter[s \ {Choice(s)}]
  <2> HIDE DEF iter
  <2> QED BY <1>6
<1>8. \A s \in SUBSET S : iter[s] = g[s]
  <2> HIDE DEF iter
  <2>1. iter[{}] = g[{}]
    BY <1>4, <1>7
  <2> DEFINE C == ChoiceOf(S)
  <2>2. \A s \in SUBSET S : s # {} /\ iter[s \ {C[s]}] = g[s \ {C[s]}] => iter[s] = g[s]
    BY <1>4, <1>7 DEF ChoiceOf
  <2>3. Chooses(C, S) /\ IsFiniteSet(S)
    BY ChoiceChooses DEF Integral
  <2> HIDE DEF C
  <2>4. QED
    BY <2>1, <2>2, <2>3, SameRecursion
<1>9. SumFunctionOnSet(f, S) = iter[S]
  BY DEF SumFunctionOnSet, FoldFunctionOnSet, MapThenFoldSet, Choice
<1>10. Adds(g, f, S)
  BY <1>4 DEF Adds
<1>11. QED
  BY <1>8, <1>9, <1>10

LEMMA SumEquation ==
  ASSUME NEW f, NEW S, Integral(f, S)
  PROVE  /\ SumFunctionOnSet(f, S) \in Int
         /\ S = {} => SumFunctionOnSet(f, S) = 0
         /\ S # {} => /\ Choice(S) \in S
                      /\ SumFunctionOnSet(f, S) = f[Choice(S)] + SumFunctionOnSet(f, S \ {Choice(S)})
<1>1. PICK g \in [SUBSET S -> Int] : Adds(g, f, S) /\ SumFunctionOnSet(f, S) = g[S]
  BY SumFollows
<1>2. ASSUME S # {}
      PROVE  /\ Choice(S) \in S
             /\ SumFunctionOnSet(f, S) = f[Choice(S)] + SumFunctionOnSet(f, S \ {Choice(S)})
  <2> DEFINE T == S \ {Choice(S)}
  <2>1. Choice(S) \in S
    BY <1>2 DEF Choice
  <2>2. Integral(f, T)
    BY FS_Subset DEF Integral
  <2>3. PICK h \in [SUBSET T -> Int] : Adds(h, f, T) /\ SumFunctionOnSet(f, T) = h[T]
    <3> HIDE DEF T
    <3> QED BY <2>2, SumFollows
  <2>4. \A s \in SUBSET T : g[s] = h[s]
    <3> DEFINE C == ChoiceOf(T)
               G == g
               H == h
    <3>1. G[{}] = H[{}] /\ \A s \in SUBSET T : s \in SUBSET S
      BY <1>1, <2>3 DEF Adds
    <3>2. \A s \in SUBSET T : s # {} /\ G[s \ {C[s]}] = H[s \ {C[s]}] => G[s] = H[s]
      BY <1>1, <2>3 DEF Adds, ChoiceOf
    <3> HIDE DEF T
    <3>3. Chooses(C, T) /\ IsFiniteSet(T)
      BY <2>2, ChoiceChooses DEF Integral
    <3> HIDE DEF C, G, H
    <3>4. \A s \in SUBSET T : G[s] = H[s]
      BY <3>1, <3>2, <3>3, SameRecursion
    <3>5. QED
      BY <3>4 DEF G, H
  <2>5. g[S] = f[Choice(S)] + g[T]
    BY <1>1, <1>2 DEF Adds
  <2>6. QED
    BY <1>1, <2>1, <2>3, <2>4, <2>5
<1>3. S = {} => g[S] = 0
  BY <1>1 DEF Adds
<1>4. QED
  BY <1>1, <1>2, <1>3

(***************************************************************************)
(* A set of subsets that contains the empty set, and each of its elements  *)
(* with one element more, is the set of all subsets.                       *)
(***************************************************************************)
LEMMA AllSubsets ==
  ASSUME NEW S, IsFiniteSet(S), NEW P \in SUBSET (SUBSET S), {} \in P,
         \A s \in P : \A x \in S \ s : s \union {x} \in P
  PROVE  P = SUBSET S
<1> DEFINE N == {n \in Nat : \A s \in SUBSET S : Cardinality(s) = n => s \in P}
<1>1. \A s \in SUBSET S : IsFiniteSet(s) /\ Cardinality(s) \in Nat
  BY FS_Subset, FS_CardinalityType
<1>2. 0 \in N
  BY <1>1, FS_EmptySet
<1>3. ASSUME NEW n \in N PROVE n + 1 \in N
  <2> SUFFICES ASSUME NEW s \in SUBSET S, Cardinality(s) = n + 1 PROVE s \in P
    OBVIOUS
  <2>1. n \in Nat /\ n + 1 # 0
    OBVIOUS
  <2>2. s # {}
    <3> HIDE DEF N
    <3> QED BY <2>1, FS_EmptySet
  <2>3. PICK x : x \in s
    BY <2>2
  <2>4. Cardinality(s \ {x}) = n
    <3>1. Cardinality(s \ {x}) = Cardinality(s) - 1
      BY <1>1, <2>3, FS_RemoveElement
    <3> HIDE DEF N
    <3> QED BY <2>1, <3>1
  <2>5. s \ {x} \in P /\ x \in S \ (s \ {x})
    BY <2>3, <2>4
  <2>6. (s \ {x}) \union {x} = s
    BY <2>3
  <2>7. QED
    BY <2>5, <2>6
<1>4. N = Nat
  <2> HIDE DEF N
  <2> QED BY <1>2, <1>3, AllNaturals DEF N
<1>5. QED
  BY <1>1, <1>4

(***************************************************************************)
(* Any element may be taken out of a sum first.                            *)
(***************************************************************************)
LEMMA SumSplits ==
  ASSUME NEW f, NEW S, Integral(f, S), NEW x \in S
  PROVE  SumFunctionOnSet(f, S) = f[x] + SumFunctionOnSet(f, S \ {x})
<1> DEFINE Sum(s) == SumFunctionOnSet(f, s)
           N == {n \in Nat : \A s \in SUBSET S : Cardinality(s) = n =>
                               \A y \in s : Sum(s) = f[y] + Sum(s \ {y})}
<1>1. \A s \in SUBSET S : IsFiniteSet(s) /\ Cardinality(s) \in Nat /\ Integral(f, s)
  BY FS_Subset, FS_CardinalityType DEF Integral
<1>2. 0 \in N
  BY <1>1, FS_EmptySet
<1>3. ASSUME NEW n \in N PROVE n + 1 \in N
  <2> SUFFICES ASSUME NEW s \in SUBSET S, Cardinality(s) = n + 1, NEW y \in s
               PROVE  Sum(s) = f[y] + Sum(s \ {y})
    OBVIOUS
  <2> DEFINE c == Choice(s)
  <2>1. n \in Nat /\ \A t \in SUBSET S : Cardinality(t) = n =>
                         \A z \in t : Sum(t) = f[z] + Sum(t \ {z})
    OBVIOUS
  <2> HIDE DEF N, Sum
  <2>2. c \in s /\ Sum(s) = f[c] + Sum(s \ {c})
    BY <1>1, SumEquation DEF Sum
  <2> HIDE DEF c
  <2>3. CASE c = y
    BY <2>2, <2>3
  <2>4. CASE c # y
    <3>1. Cardinality(s \ {c}) = n /\ Cardinality(s \ {y}) = n
      <4>1. /\ Cardinality(s \ {c}) = Cardinality(s) - 1
            /\ Cardinality(s \ {y}) = Cardinality(s) - 1
        BY <1>1, <2>2, FS_RemoveElement
      <4>2. QED
        BY <2>1, <4>1
    <3>2. Sum(s \ {c}) = f[y] + Sum((s \ {c}) \ {y})
      BY <2>1, <2>4, <3>1
    <3>3. Sum(s \ {y}) = f[c] + Sum((s \ {y}) \ {c})
      BY <2>1, <2>2, <2>4, <3>1
    <3>4. (s \ {c}) \ {y} = (s \ {y}) \ {c}
      OBVIOUS
    <3>5. Sum((s \ {c}) \ {y}) \in Int
      BY <1>1, SumEquation DEF Sum
    <3>6. f[c] \in Int /\ f[y] \in Int
      BY <2>2 DEF Integral
    <3> DEFINE rest == Sum((s \ {c}) \ {y})
    <3>7. Sum(s) = f[c] + (f[y] + rest) /\ Sum(s \ {y}) = f[c] + rest
      BY <2>2, <3>2, <3>3, <3>4
    <3> HIDE DEF rest
    <3>8. f[c] + (f[y] + rest) = f[y] + (f[c] + rest)
      BY <3>5, <3>6 DEF rest
    <3>9. QED
      BY <3>7, <3>8
  <2>5. QED
    BY <2>3, <2>4
<1>4. N = Nat
  <2> HIDE DEF N
  <2> QED BY <1>2, <1>3, AllNaturals DEF N
<1>5. QED
  BY <1>1, <1>4

LEMMA SumEmpty == ASSUME NEW f PROVE SumFunctionOnSet(f, {}) = 0
BY SumEquation, FS_EmptySet DEF Integral

LEMMA SumType ==
  ASSUME NEW f, NEW S, Integral(f, S)
  PROVE  SumFunctionOnSet(f, S) \in Int
BY SumEquation

LEMMA SumAddsElement ==
  ASSUME NEW f, NEW S, IsFiniteSet(S), NEW x, x \notin S, \A y \in S \union {x} : f[y] \in Int
  PROVE  SumFunctionOnSet(f, S \union {x}) = f[x] + SumFunctionOnSet(f, S)
<1> DEFINE T == S \union {x}
<1>1. Integral(f, T) /\ x \in T
  BY FS_AddElement DEF Integral
<1>2. T \ {x} = S
  OBVIOUS
<1> HIDE DEF T
<1>3. SumFunctionOnSet(f, T) = f[x] + SumFunctionOnSet(f, T \ {x})
  BY <1>1, SumSplits
<1>4. QED
  BY <1>2, <1>3 DEF T

(***************************************************************************)
(* Sums of functions that agree, or that are ordered.                      *)
(***************************************************************************)
LEMMA SumIsMonotone ==
  ASSUME NEW f, NEW h, NEW S, Integral(f, S), Integral(h, S), \A x \in S : f[x] <= h[x]
  PROVE  SumFunctionOnSet(f, S) <= SumFunctionOnSet(h, S)
<1> DEFINE P == {s \in SUBSET S : SumFunctionOnSet(f, s) <= SumFunctionOnSet(h, s)}
<1>1. {} \in P
  BY SumEmpty
<1>2. ASSUME NEW s \in P, NEW x \in S \ s PROVE s \union {x} \in P
  <2>1. IsFiniteSet(s) /\ Integral(f, s) /\ Integral(h, s)
    BY FS_Subset DEF Integral
  <2>2. /\ SumFunctionOnSet(f, s \union {x}) = f[x] + SumFunctionOnSet(f, s)
        /\ SumFunctionOnSet(h, s \union {x}) = h[x] + SumFunctionOnSet(h, s)
    BY <2>1, SumAddsElement DEF Integral
  <2>3. /\ SumFunctionOnSet(f, s) \in Int /\ SumFunctionOnSet(h, s) \in Int
        /\ f[x] \in Int /\ h[x] \in Int
    BY <2>1, SumType DEF Integral
  <2>4. QED
    BY <2>2, <2>3
<1>3. P = SUBSET S
  <2>1. P \in SUBSET (SUBSET S) /\ IsFiniteSet(S)
    BY DEF Integral
  <2> HIDE DEF P
  <2> QED BY <1>1, <1>2, <2>1, AllSubsets
<1>4. QED
  BY <1>3

LEMMA SumIsExtensional ==
  ASSUME NEW f, NEW h, NEW S, Integral(f, S), \A x \in S : f[x] = h[x]
  PROVE  SumFunctionOnSet(f, S) = SumFunctionOnSet(h, S)
<1>1. Integral(h, S) /\ \A x \in S : f[x] <= h[x] /\ h[x] <= f[x]
  BY DEF Integral
<1>2. SumFunctionOnSet(f, S) <= SumFunctionOnSet(h, S)
  BY <1>1, SumIsMonotone
<1>3. SumFunctionOnSet(h, S) <= SumFunctionOnSet(f, S)
  BY <1>1, SumIsMonotone
<1>4. QED
  BY <1>1, <1>2, <1>3, SumType

LEMMA SumOfNaturals ==
  ASSUME NEW f, NEW S, IsFiniteSet(S), \A x \in S : f[x] \in Nat
  PROVE  SumFunctionOnSet(f, S) \in Nat
<1> DEFINE P == {s \in SUBSET S : SumFunctionOnSet(f, s) \in Nat}
<1>1. {} \in P
  BY SumEmpty
<1>2. ASSUME NEW s \in P, NEW x \in S \ s PROVE s \union {x} \in P
  <2>1. IsFiniteSet(s) /\ \A y \in s \union {x} : f[y] \in Int
    BY FS_Subset
  <2>2. SumFunctionOnSet(f, s \union {x}) = f[x] + SumFunctionOnSet(f, s)
    BY <2>1, SumAddsElement
  <2>3. SumFunctionOnSet(f, s) \in Nat /\ f[x] \in Nat
    OBVIOUS
  <2>4. QED
    BY <2>2, <2>3
<1>3. P = SUBSET S
  <2>1. P \in SUBSET (SUBSET S)
    OBVIOUS
  <2> HIDE DEF P
  <2> QED BY <1>1, <1>2, <2>1, AllSubsets
<1>4. QED
  BY <1>3

(***************************************************************************)
(* A sum of naturals is at least each of them.                             *)
(***************************************************************************)
LEMMA SumCoversSummand ==
  ASSUME NEW f, NEW S, IsFiniteSet(S), \A x \in S : f[x] \in Nat, NEW a \in S
  PROVE  SumFunctionOnSet(f, S) >= f[a]
<1>1. SumFunctionOnSet(f, S) = f[a] + SumFunctionOnSet(f, S \ {a})
  BY SumSplits DEF Integral
<1>2. SumFunctionOnSet(f, S \ {a}) \in Nat
  <2> DEFINE T == S \ {a}
  <2>1. IsFiniteSet(T) /\ \A x \in T : f[x] \in Nat
    BY FS_Subset
  <2> HIDE DEF T
  <2>2. SumFunctionOnSet(f, T) \in Nat
    BY <2>1, SumOfNaturals
  <2> QED BY <2>2 DEF T
<1>3. QED
  BY <1>1, <1>2

LEMMA SumExcept ==
  ASSUME NEW f, NEW h, NEW S, Integral(f, S), NEW a \in S, h[a] \in Int,
         \A x \in S \ {a} : h[x] = f[x]
  PROVE  SumFunctionOnSet(h, S) = SumFunctionOnSet(f, S) + (h[a] - f[a])
<1>1. Integral(h, S) /\ Integral(f, S \ {a})
  BY FS_Subset DEF Integral
<1>2. SumFunctionOnSet(f, S) = f[a] + SumFunctionOnSet(f, S \ {a})
  BY SumSplits
<1>3. SumFunctionOnSet(h, S) = h[a] + SumFunctionOnSet(h, S \ {a})
  BY <1>1, SumSplits
<1> DEFINE T == S \ {a}
<1>4. SumFunctionOnSet(f, T) = SumFunctionOnSet(h, T)
  <2>1. Integral(f, T) /\ \A x \in T : f[x] = h[x]
    BY <1>1
  <2> HIDE DEF T
  <2> QED BY <2>1, SumIsExtensional
<1>5. f[a] \in Int /\ SumFunctionOnSet(f, T) \in Int
  BY <1>1, SumType DEF Integral
<1>6. QED
  BY <1>2, <1>3, <1>4, <1>5

(***************************************************************************)
(* Any function that satisfies the recursion of a sum is the sum.  This is *)
(* how MapThenSumSet, whose summand is an operator, becomes the sum of a   *)
(* function.                                                               *)
(***************************************************************************)
LEMMA SumIsUnique ==
  ASSUME NEW f, NEW S, Integral(f, S), NEW g, Adds(g, f, S)
  PROVE  g[S] = SumFunctionOnSet(f, S)
<1>1. PICK h \in [SUBSET S -> Int] : Adds(h, f, S) /\ SumFunctionOnSet(f, S) = h[S]
  BY SumFollows
<1> DEFINE C == ChoiceOf(S)
           H == h
<1>2. g[{}] = H[{}]
  BY <1>1 DEF Adds
<1>3. \A s \in SUBSET S : s # {} /\ g[s \ {C[s]}] = H[s \ {C[s]}] => g[s] = H[s]
  BY <1>1 DEF Adds, ChoiceOf
<1>4. Chooses(C, S) /\ IsFiniteSet(S)
  BY ChoiceChooses DEF Integral
<1> HIDE DEF C, H
<1>5. \A s \in SUBSET S : g[s] = H[s]
  BY <1>2, <1>3, <1>4, SameRecursion
<1>6. QED
  BY <1>1, <1>5 DEF H

LEMMA SumExists ==
  ASSUME NEW f, NEW S, Integral(f, S)
  PROVE  \E g \in [SUBSET S -> Int] : Adds(g, f, S)
BY SumFollows

(***************************************************************************)
(* A sum of differences along an interval.                                 *)
(***************************************************************************)
LEMMA SumTelescopes ==
  ASSUME NEW n \in Nat, NEW c \in [0..n -> Int], NEW f,
         \A i \in 1..n : f[i] = c[i] - c[i - 1]
  PROVE  SumFunctionOnSet(f, 1..n) = c[n] - c[0]
<1> DEFINE N == {k \in Nat : k <= n => SumFunctionOnSet(f, 1..k) = c[k] - c[0]}
<1>1. 0 \in N
  <2>1. 1..0 = {} /\ c[0] \in Int
    OBVIOUS
  <2>2. QED
    BY <2>1, SumEmpty
<1>2. ASSUME NEW k \in N PROVE k + 1 \in N
  <2> SUFFICES ASSUME k + 1 <= n
               PROVE  SumFunctionOnSet(f, 1..(k + 1)) = c[k + 1] - c[0]
    OBVIOUS
  <2>1. k \in Nat /\ SumFunctionOnSet(f, 1..k) = c[k] - c[0]
    OBVIOUS
  <2> HIDE DEF N
  <2>2. 1..(k + 1) = (1..k) \union {k + 1} /\ k + 1 \notin 1..k
    BY <2>1, SMTT(30)
  <2>3. c[0] \in Int /\ c[k] \in Int /\ c[k + 1] \in Int
    BY <2>1
  <2>4. \A i \in (1..k) \union {k + 1} : f[i] \in Int
    <3> SUFFICES ASSUME NEW i \in 1..(k + 1) PROVE f[i] \in Int
      BY <2>2
    <3>1. i \in 1..n /\ i \in 0..n /\ i - 1 \in 0..n
      BY <2>1
    <3>2. QED
      BY <3>1
  <2>5. IsFiniteSet(1..k)
    BY <2>1, FS_Interval
  <2> DEFINE S == 1..k
  <2>6. IsFiniteSet(S) /\ k + 1 \notin S /\ \A y \in S \union {k + 1} : f[y] \in Int
    BY <2>2, <2>4, <2>5
  <2>7. SumFunctionOnSet(f, S \union {k + 1}) = f[k + 1] + SumFunctionOnSet(f, S)
    <3> HIDE DEF S
    <3> QED BY <2>6, SumAddsElement
  <2>8. f[k + 1] = c[k + 1] - c[k]
    <3>1. k + 1 \in 1..n /\ (k + 1) - 1 = k
      BY <2>1
    <3>2. QED
      BY <3>1
  <2>9. SumFunctionOnSet(f, 1..(k + 1)) = f[k + 1] + SumFunctionOnSet(f, 1..k)
    BY <2>2, <2>7
  <2>10. QED
    BY <2>1, <2>3, <2>8, <2>9
<1>3. N = Nat
  <2> HIDE DEF N
  <2> QED BY <1>1, <1>2, AllNaturals DEF N
<1>4. n \in N
  <2> HIDE DEF N
  <2> QED BY <1>3
<1>5. QED
  BY <1>4

------------------------------------------------------------------------------

(***************************************************************************)
(* Folds of sequences.  FoldLeft takes the elements of a sequence from its *)
(* end: the value of the fold over the first k elements is the step from   *)
(* the value over the first k - 1.                                         *)
(***************************************************************************)
MaxOf(n) == [s \in SUBSET (1..n) |-> Max(s)]

LEMMA HasGreatest ==
  ASSUME NEW n \in Nat, NEW s \in SUBSET (1..n), s # {}
  PROVE  Max(s) \in s /\ \A i \in s : i <= Max(s)
<1> DEFINE Upper == {m \in Nat : \A i \in s : i <= m}
<1>1. n \in Upper
  OBVIOUS
<1>2. PICK m \in Upper : \A k \in Upper : m <= k
  BY <1>1, HasLeast
<1>3. m \in s
  <2> SUFFICES ASSUME m \notin s PROVE FALSE
    OBVIOUS
  <2>1. PICK i : i \in s
    OBVIOUS
  <2>2. m # 0
    BY <2>1
  <2>3. m - 1 \in Upper
    BY <2>2
  <2>4. m \in Nat /\ m <= m - 1
    BY <1>2, <2>3
  <2>5. QED
    BY <2>4
<1>4. m \in s /\ \A i \in s : m >= i
  BY <1>3
<1>5. Max(s) \in s /\ \A i \in s : Max(s) >= i
  BY <1>4 DEF Max
<1>6. QED
  BY <1>5

LEMMA MaxChooses == ASSUME NEW n \in Nat PROVE Chooses(MaxOf(n), 1..n)
BY HasGreatest DEF Chooses, MaxOf

LEMMA TopOfInterval ==
  ASSUME NEW k \in Nat, k # 0
  PROVE  1..k # {} /\ Max(1..k) = k /\ (1..k) \ {Max(1..k)} = 1..(k - 1)
<1>1. Max(1..k) \in 1..k /\ \A i \in 1..k : i <= Max(1..k)
  <2>1. k \in 1..k
    OBVIOUS
  <2> QED BY <2>1, HasGreatest
<1>2. Max(1..k) = k
  BY <1>1
<1>3. QED
  BY <1>2

FoldTrace(trace, n, V, base, F) ==
  /\ trace \in [0..n -> V]
  /\ trace[0] = base
  /\ \A k \in 1..n : trace[k] = F[<<k, trace[k - 1]>>]

HasFoldTrace(n, V, base, F, result) ==
  \E trace : FoldTrace(trace, n, V, base, F) /\ trace[n] = result

FoldsWith(g, n, V, base, F) ==
  /\ g \in [SUBSET (1..n) -> V]
  /\ \A s \in SUBSET (1..n) : g[s] = IF s = {} THEN base ELSE F[<<Max(s), g[s \ {Max(s)}]>>]

IsFold(iter, n, V, base, F) ==
  /\ iter[{}] = base
  /\ \A s \in SUBSET (1..n) : s # {} /\ iter[s \ {Max(s)}] \in V =>
       iter[s] = F[<<Max(s), iter[s \ {Max(s)}]>>]

LEMMA FoldExists ==
  ASSUME NEW n \in Nat, NEW V, NEW base \in V, NEW F \in [(1..n) \X V -> V]
  PROVE  \E g : FoldsWith(g, n, V, base, F)
<1> DEFINE S == 1..n
           C == MaxOf(n)
<1>1. IsFiniteSet(S) /\ Chooses(C, S)
  BY FS_Interval, MaxChooses
<1>2. PICK g \in [SUBSET S -> V] : Follows(g, S, base, C, F)
  <2> HIDE DEF S, C
  <2>1. F \in [S \X V -> V]
    BY DEF S
  <2> QED BY <1>1, <2>1, RecursionOnSubsets
<1>3. \A s \in SUBSET S : C[s] = Max(s)
  BY DEF MaxOf
<1>4. FoldsWith(g, n, V, base, F)
  BY <1>2, <1>3 DEF Follows, FoldsWith
<1>5. QED
  BY <1>4

LEMMA FoldHasTrace ==
  ASSUME NEW n \in Nat, NEW V, NEW base \in V, NEW F \in [(1..n) \X V -> V], NEW iter,
         IsFold(iter, n, V, base, F)
  PROVE  HasFoldTrace(n, V, base, F, iter[1..n])
<1> DEFINE trace == [k \in 0..n |-> iter[1..k]]
           N == {k \in Nat : k <= n => iter[1..k] \in V}
<1>1. ASSUME NEW k \in Nat, k + 1 <= n, iter[1..k] \in V
      PROVE  iter[1..(k + 1)] = F[<<k + 1, iter[1..k]>>] /\ iter[1..(k + 1)] \in V
  <2>1. 1..(k + 1) \in SUBSET (1..n) /\ k + 1 \in 1..n /\ k + 1 \in Nat /\ k + 1 # 0 /\ (k + 1) - 1 = k
    BY <1>1
  <2>2. 1..(k + 1) # {} /\ Max(1..(k + 1)) = k + 1 /\ (1..(k + 1)) \ {Max(1..(k + 1))} = 1..k
    BY <2>1, TopOfInterval
  <2>3. iter[1..(k + 1)] = F[<<k + 1, iter[1..k]>>]
    BY <1>1, <2>1, <2>2 DEF IsFold
  <2>4. QED
    BY <1>1, <2>1, <2>3
<1>2. iter[1..0] = base
  <2>1. 1..0 = {}
    OBVIOUS
  <2>2. QED
    BY <2>1 DEF IsFold
<1>3. 0 \in N
  BY <1>2
<1>4. ASSUME NEW k \in N PROVE k + 1 \in N
  <2> SUFFICES ASSUME k + 1 <= n PROVE iter[1..(k + 1)] \in V
    OBVIOUS
  <2>1. k \in Nat /\ iter[1..k] \in V
    OBVIOUS
  <2> HIDE DEF N
  <2>2. QED
    BY <1>1, <2>1
<1>5. N = Nat
  <2> HIDE DEF N
  <2> QED BY <1>3, <1>4, AllNaturals DEF N
<1>6. \A k \in 0..n : iter[1..k] \in V
  BY <1>5
<1>7. ASSUME NEW k \in 1..n PROVE trace[k] = F[<<k, trace[k - 1]>>]
  <2>1. k - 1 \in Nat /\ (k - 1) + 1 = k /\ k - 1 \in 0..n /\ k \in 0..n
    OBVIOUS
  <2>2. iter[1..((k - 1) + 1)] = F[<<(k - 1) + 1, iter[1..(k - 1)]>>]
    BY <1>1, <1>6, <2>1
  <2>3. QED
    BY <2>1, <2>2
<1>8. trace \in [0..n -> V] /\ trace[0] = base /\ trace[n] = iter[1..n]
  BY <1>2, <1>6
<1>9. QED
  <2> HIDE DEF trace
  <2> QED BY <1>7, <1>8 DEF FoldTrace, HasFoldTrace

(***************************************************************************)
(* Least elements, sums that are constant on a subset or vanish outside of *)
(* one, and sums along a renaming.                                         *)
(***************************************************************************)
LEMMA LeastOfFinite ==
  ASSUME NEW S, IsFiniteSet(S), S \subseteq Int, S # {}
  PROVE  Min(S) \in S /\ \A x \in S : Min(S) <= x
<1> DEFINE P == {s \in SUBSET S : s = {} \/ \E m \in s : \A x \in s : m <= x}
<1>1. {} \in P
  OBVIOUS
<1>2. ASSUME NEW s \in P, NEW y \in S \ s PROVE s \union {y} \in P
  <2>1. CASE s = {}
    BY <2>1
  <2>2. CASE s # {}
    <3>1. PICK m \in s : \A x \in s : m <= x
      BY <2>2
    <3>2. m \in Int /\ y \in Int
      OBVIOUS
    <3>3. CASE m <= y
      BY <3>1, <3>3
    <3>4. CASE y < m
      <4>1. \A x \in s \union {y} : y <= x
        BY <3>1, <3>2, <3>4
      <4>2. QED
        BY <4>1
    <3>5. QED
      BY <3>2, <3>3, <3>4
  <2>3. QED
    BY <2>1, <2>2
<1>3. P = SUBSET S
  <2>1. P \in SUBSET (SUBSET S)
    OBVIOUS
  <2> HIDE DEF P
  <2> QED BY <1>1, <1>2, <2>1, AllSubsets
<1>4. PICK m \in S : \A x \in S : m <= x
  BY <1>3
<1>5. QED
  BY <1>4 DEF Min

LEMMA ImageIsFinite ==
  ASSUME NEW S, IsFiniteSet(S), NEW f
  PROVE  IsFiniteSet({f[x] : x \in S})
<1> DEFINE T == {f[x] : x \in S}
           g == [x \in S |-> f[x]]
<1>1. g \in Surjection(S, T)
  BY DEF Surjection
<1>2. IsFiniteSet(T)
  <2> HIDE DEF g, T
  <2> QED BY <1>1, FS_Surjection
<1>3. QED
  BY <1>2

LEMMA SumOnSubset ==
  ASSUME NEW f, NEW S, Integral(f, S), NEW T \in SUBSET S, \A x \in S \ T : f[x] = 0
  PROVE  SumFunctionOnSet(f, S) = SumFunctionOnSet(f, T)
<1> DEFINE R == S \ T
           P == {s \in SUBSET R : SumFunctionOnSet(f, T \union s) = SumFunctionOnSet(f, T)}
<1>1. {} \in P
  <2>1. T \union {} = T
    OBVIOUS
  <2> QED BY <2>1
<1>2. ASSUME NEW s \in P, NEW x \in R \ s PROVE s \union {x} \in P
  <2> DEFINE U == T \union s
  <2>1. IsFiniteSet(U) /\ x \notin U /\ \A y \in U \union {x} : f[y] \in Int
    BY FS_Subset DEF Integral
  <2>2. T \union (s \union {x}) = U \union {x}
    OBVIOUS
  <2>3. f[x] = 0 /\ SumFunctionOnSet(f, U) = SumFunctionOnSet(f, T)
    OBVIOUS
  <2> HIDE DEF U
  <2>4. SumFunctionOnSet(f, U \union {x}) = f[x] + SumFunctionOnSet(f, U)
    BY <2>1, SumAddsElement
  <2>5. SumFunctionOnSet(f, U) \in Int
    BY <2>1, SumType DEF Integral
  <2>6. SumFunctionOnSet(f, T \union (s \union {x})) = SumFunctionOnSet(f, T)
    BY <2>2, <2>3, <2>4, <2>5
  <2>7. QED
    BY <2>6
<1>3. P = SUBSET R
  <2>1. P \in SUBSET (SUBSET R) /\ IsFiniteSet(R)
    BY FS_Subset DEF Integral
  <2> HIDE DEF P, R
  <2> QED BY <1>1, <1>2, <2>1, AllSubsets
<1>4. R \in P /\ T \union R = S
  <2>1. T \union R = S
    OBVIOUS
  <2> HIDE DEF P, R
  <2> QED BY <1>3, <2>1
<1>5. QED
  BY <1>4

LEMMA SumOfConstant ==
  ASSUME NEW S, IsFiniteSet(S), NEW c \in Int, NEW f, \A x \in S : f[x] = c
  PROVE  SumFunctionOnSet(f, S) = Cardinality(S) * c
<1> DEFINE P == {s \in SUBSET S : SumFunctionOnSet(f, s) = Cardinality(s) * c}
<1>1. {} \in P
  <2>1. Cardinality({}) = 0 /\ 0 * c = 0
    BY FS_EmptySet
  <2> QED BY <2>1, SumEmpty
<1>2. ASSUME NEW s \in P, NEW x \in S \ s PROVE s \union {x} \in P
  <2>1. IsFiniteSet(s) /\ x \notin s /\ \A y \in s \union {x} : f[y] \in Int
    BY FS_Subset
  <2>2. SumFunctionOnSet(f, s \union {x}) = f[x] + SumFunctionOnSet(f, s)
    BY <2>1, SumAddsElement
  <2>3. Cardinality(s \union {x}) = Cardinality(s) + 1 /\ Cardinality(s) \in Nat
    BY <2>1, FS_AddElement, FS_CardinalityType
  <2>4. SumFunctionOnSet(f, s) = Cardinality(s) * c /\ f[x] = c
    OBVIOUS
  <2> DEFINE n == Cardinality(s)
  <2> HIDE DEF n
  <2>5. n \in Nat => c + n * c = (n + 1) * c
    OBVIOUS
  <2>6. SumFunctionOnSet(f, s \union {x}) = Cardinality(s \union {x}) * c
    BY <2>2, <2>3, <2>4, <2>5 DEF n
  <2>7. QED
    BY <2>6
<1>3. P = SUBSET S
  <2>1. P \in SUBSET (SUBSET S)
    OBVIOUS
  <2> HIDE DEF P
  <2> QED BY <1>1, <1>2, <2>1, AllSubsets
<1>4. QED
  BY <1>3

LEMMA SumRenamed ==
  ASSUME NEW f, NEW S, Integral(f, S), NEW c, NEW T, IsFiniteSet(T), NEW h,
         \A x \in S : c[x] \in T, \A x, y \in S : c[x] = c[y] => x = y,
         \A x \in S : h[c[x]] = f[x]
  PROVE  SumFunctionOnSet(h, {c[x] : x \in S}) = SumFunctionOnSet(f, S)
<1> DEFINE Image(s) == {c[x] : x \in s}
           P == {s \in SUBSET S : SumFunctionOnSet(h, Image(s)) = SumFunctionOnSet(f, s)}
<1>1. {} \in P
  <2>1. Image({}) = {}
    OBVIOUS
  <2> QED BY <2>1, SumEmpty
<1>2. ASSUME NEW s \in P, NEW x \in S \ s PROVE s \union {x} \in P
  <2> DEFINE I == Image(s)
             a == c[x]
  <2>1. IsFiniteSet(s) /\ x \notin s /\ \A y \in s \union {x} : f[y] \in Int
    BY FS_Subset DEF Integral
  <2>2. IsFiniteSet(I)
    <3>1. I \subseteq T
      OBVIOUS
    <3> HIDE DEF I
    <3> QED BY <3>1, FS_Subset
  <2>3. a \notin I /\ \A y \in I \union {a} : h[y] \in Int
    BY <2>1
  <2>4. Image(s \union {x}) = I \union {a} /\ h[a] = f[x]
    OBVIOUS
  <2>5. SumFunctionOnSet(h, I) = SumFunctionOnSet(f, s)
    OBVIOUS
  <2> HIDE DEF I, a, Image
  <2>6. SumFunctionOnSet(h, I \union {a}) = h[a] + SumFunctionOnSet(h, I)
    BY <2>2, <2>3, SumAddsElement
  <2>7. SumFunctionOnSet(f, s \union {x}) = f[x] + SumFunctionOnSet(f, s)
    BY <2>1, SumAddsElement
  <2>8. QED
    BY <2>4, <2>5, <2>6, <2>7
<1>3. P = SUBSET S
  <2>1. P \in SUBSET (SUBSET S) /\ IsFiniteSet(S)
    BY DEF Integral
  <2> HIDE DEF P
  <2> QED BY <1>1, <1>2, <2>1, AllSubsets
<1>4. QED
  BY <1>3

(***************************************************************************)
(* Sums of differences, and of a function that changed on some elements.   *)
(***************************************************************************)
LEMMA SumOfDifferences ==
  ASSUME NEW f, NEW h, NEW S, Integral(f, S), Integral(h, S), NEW d, \A x \in S : d[x] = h[x] - f[x]
  PROVE  SumFunctionOnSet(d, S) = SumFunctionOnSet(h, S) - SumFunctionOnSet(f, S)
<1> DEFINE P == {s \in SUBSET S :
                   SumFunctionOnSet(d, s) = SumFunctionOnSet(h, s) - SumFunctionOnSet(f, s)}
<1>1. {} \in P
  BY SumEmpty
<1>2. ASSUME NEW s \in P, NEW x \in S \ s PROVE s \union {x} \in P
  <2>1. IsFiniteSet(s) /\ x \notin s /\ s \in SUBSET S /\ x \in S
        /\ SumFunctionOnSet(d, s) = SumFunctionOnSet(h, s) - SumFunctionOnSet(f, s)
    BY FS_Subset DEF Integral
  <2>2. \A y \in s \union {x} : f[y] \in Int /\ h[y] \in Int /\ d[y] \in Int
    BY <2>1 DEF Integral
  <2> HIDE DEF P
  <2>3. /\ SumFunctionOnSet(d, s \union {x}) = d[x] + SumFunctionOnSet(d, s)
        /\ SumFunctionOnSet(h, s \union {x}) = h[x] + SumFunctionOnSet(h, s)
        /\ SumFunctionOnSet(f, s \union {x}) = f[x] + SumFunctionOnSet(f, s)
    BY <2>1, <2>2, SumAddsElement
  <2>4. SumFunctionOnSet(h, s) \in Int /\ SumFunctionOnSet(f, s) \in Int
    BY <2>1, <2>2, SumType DEF Integral
  <2>5. h[x] \in Int /\ f[x] \in Int /\ d[x] = h[x] - f[x]
    BY <2>1, <2>2
  <2>6. SumFunctionOnSet(d, s \union {x})
          = SumFunctionOnSet(h, s \union {x}) - SumFunctionOnSet(f, s \union {x})
    BY <2>1, <2>3, <2>4, <2>5
  <2>7. QED
    BY <2>1, <2>6 DEF P
<1>3. P = SUBSET S
  <2>1. P \in SUBSET (SUBSET S)
    OBVIOUS
  <2> HIDE DEF P
  <2> QED BY <1>1, <1>2, <2>1, AllSubsets DEF Integral
<1>4. QED
  BY <1>3

LEMMA SumChanges ==
  ASSUME NEW f, NEW h, NEW S, Integral(f, S), Integral(h, S), NEW D \in SUBSET S,
         \A x \in S \ D : h[x] = f[x], NEW d, \A x \in D : d[x] = h[x] - f[x]
  PROVE  SumFunctionOnSet(h, S) = SumFunctionOnSet(f, S) + SumFunctionOnSet(d, D)
<1> DEFINE e == [x \in S |-> h[x] - f[x]]
<1>1. /\ \A x \in S : e[x] = h[x] - f[x] /\ e[x] \in Int
      /\ \A x \in S \ D : e[x] = 0
      /\ \A x \in D : e[x] = d[x]
  BY DEF Integral
<1> HIDE DEF e
<1>2. Integral(e, S) /\ Integral(e, D)
  BY <1>1, FS_Subset DEF Integral
<1>3. SumFunctionOnSet(e, S) = SumFunctionOnSet(h, S) - SumFunctionOnSet(f, S)
  BY <1>1, SumOfDifferences
<1>4. SumFunctionOnSet(e, S) = SumFunctionOnSet(e, D)
  BY <1>1, <1>2, SumOnSubset
<1>5. SumFunctionOnSet(e, D) = SumFunctionOnSet(d, D)
  BY <1>1, <1>2, SumIsExtensional
<1>6. SumFunctionOnSet(h, S) \in Int /\ SumFunctionOnSet(f, S) \in Int
  BY SumType
<1>7. QED
  BY <1>3, <1>4, <1>5, <1>6
===============================================================================
