------------------------------ MODULE SumProofs ------------------------------
(***************************************************************************)
(* Finite sums and induction, for the other proofs.                        *)
(*                                                                         *)
(* The library's induction theorems have an operator as a parameter, which *)
(* the provers cannot instantiate.  What they can use is a set of          *)
(* counterexamples: it has a smallest member (SmallestSubset and           *)
(* SmallestNumber, from the library's theorem that strict inclusion on the *)
(* finite sets is well founded), and that member is shown not to be one.   *)
(*                                                                         *)
(* SumFunctionOnSet is a fold, a recursive function defined with CHOOSE.   *)
(* That a function satisfying the recursion exists is shown level by       *)
(* level, on the subsets of at most n members; then its laws follow: one   *)
(* summand may be taken out, a sum may be split, changing one summand      *)
(* changes it by the difference.                                           *)
(***************************************************************************)
EXTENDS Integers, Sequences, Functions, FiniteSetTheorems, SequenceTheorems, TLAPS

\* The member of a set the folds take first.
Pick(s) == CHOOSE x \in s : TRUE

\* A set of subsets of a finite set has a smallest member: induction on finite sets.
LEMMA SmallestSubset ==
  ASSUME NEW S, IsFiniteSet(S), NEW B \in SUBSET SUBSET S, B # {}
  PROVE  \E x \in B : \A y \in B : y \subseteq x => y = x
  <1>1. IsWellFoundedOn(StrictSubsetOrdering(S), SUBSET S)
    BY FS_StrictSubsetOrderingWellFounded, FS_FiniteSubsetsOfFinite
  <1>2. PICK x \in B : \A y \in B : ~(<<y, x>> \in StrictSubsetOrdering(S))
    BY <1>1, WFMin, Zenon
  <1> QED
    BY <1>2 DEF StrictSubsetOrdering

\* A set of natural numbers has a smallest member: induction on numbers.
LEMMA SmallestNumber ==
  ASSUME NEW B \in SUBSET Nat, B # {}
  PROVE  \E x \in B : \A y \in B : x <= y
  <1>1. PICK n \in B : TRUE
    OBVIOUS
  <1> DEFINE D == 0 .. n
             I == {0 .. k : k \in {k \in B : k <= n}}
  <1>2. I \in SUBSET SUBSET D /\ I # {}
    BY <1>1
  <1>3. IsFiniteSet(D)
    BY <1>1, FS_Interval
  <1>4. PICK J \in I : \A K \in I : K \subseteq J => K = J
    <2> HIDE DEF I, D
    <2> QED
      BY <1>2, <1>3, SmallestSubset
  <1>5. PICK x \in B : x <= n /\ J = 0 .. x
    BY <1>4
  <1>6. ASSUME NEW y \in B PROVE x <= y
    <2>1. SUFFICES ASSUME y < x PROVE FALSE
      OBVIOUS
    <2>2. 0 .. y \in I /\ 0 .. y \subseteq 0 .. x
      BY <1>5, <2>1
    <2>3. 0 .. y = 0 .. x
      BY <2>2, <1>4, <1>5
    <2> QED
      BY <2>1, <2>3
  <1> QED
    BY <1>6

\* A set of numbers that is bounded has a largest member.
LEMMA LargestNumber ==
  ASSUME NEW n \in Nat, NEW B \in SUBSET (0 .. n), B # {}
  PROVE  \E x \in B : \A y \in B : y <= x
  <1> DEFINE C == {n - x : x \in B}
  <1>1. C \in SUBSET Nat /\ C # {}
    <2>1. \A x \in B : n - x \in Nat
      OBVIOUS
    <2> QED
      BY <2>1
  <1>2. PICK c \in C : \A d \in C : c <= d
    <2> HIDE DEF C
    <2> QED
      BY <1>1, SmallestNumber
  <1>3. PICK x \in B : c = n - x
    BY <1>2
  <1>4. ASSUME NEW y \in B PROVE y <= x
    <2>1. n - y \in C
      OBVIOUS
    <2>2. n - x <= n - y
      BY <1>2, <1>3, <2>1
    <2> QED
      BY <2>2
  <1> QED
    BY <1>4

\* The subsets of at most n members.
Level(S, n) == {s \in SUBSET S : Cardinality(s) <= n}

\* g satisfies the recursion of the sum of f, on the family D of sets.
IsSum(g, f, D) ==
  g = [s \in D |-> IF s = {} THEN 0 ELSE f[Pick(s)] + g[s \ {Pick(s)}]]

\* The sum is a function that satisfies the recursion, if there is one.
LEMMA SumIsChosen ==
  ASSUME NEW S, NEW f, \E g : IsSum(g, f, SUBSET S)
  PROVE  \E g : IsSum(g, f, SUBSET S) /\ SumFunctionOnSet(f, S) = g[S]
  BY DEF IsSum, SumFunctionOnSet, FoldFunctionOnSet, MapThenFoldSet, Pick

\* There is one, on the subsets of at most n members.
LEMMA SumLevels ==
  ASSUME NEW S, IsFiniteSet(S), NEW f, NEW n \in Nat
  PROVE  \E g : IsSum(g, f, Level(S, n))
  <1> DEFINE B == {k \in Nat : ~\E g : IsSum(g, f, Level(S, k))}
  <1>1. SUFFICES ASSUME B # {} PROVE FALSE
    BY Zenon
  <1>2. PICK m \in B : \A k \in B : m <= k
    BY <1>1, SmallestNumber
  <1>0. \A s \in SUBSET S : /\ IsFiniteSet(s) /\ Cardinality(s) \in Nat
                            /\ s # {} => Pick(s) \in s /\ Cardinality(s \ {Pick(s)}) = Cardinality(s) - 1
    BY FS_Subset, FS_CardinalityType, FS_RemoveElement DEF Pick
  <1>3. m # 0
    <2>1. ASSUME NEW s \in SUBSET S PROVE Cardinality(s) <= 0 <=> s = {}
      <3>1. Cardinality(s) \in Nat /\ (Cardinality(s) = 0 <=> s = {})
        BY <1>0, FS_EmptySet
      <3> QED
        BY <3>1
    <2>3. Level(S, 0) = {{}}
      BY <2>1 DEF Level
    <2> DEFINE g == [s \in {{}} |-> 0]
    <2>2. IsSum(g, f, Level(S, 0))
      BY <2>3 DEF IsSum
    <2> QED
      BY <2>2, Zenon
  <1>4. PICK h : IsSum(h, f, Level(S, m - 1))
    BY <1>2, <1>3
  <1> DEFINE g == [s \in Level(S, m) |->
                     IF s = {} THEN 0 ELSE f[Pick(s)] + h[s \ {Pick(s)}]]
  <1>5. ASSUME NEW s \in Level(S, m), s # {}
        PROVE  s \ {Pick(s)} \in Level(S, m - 1) /\ s \ {Pick(s)} \in Level(S, m)
    BY <1>0, <1>5 DEF Level
  <1>6. \A s \in Level(S, m - 1) : s \in Level(S, m) /\ g[s] = h[s]
    <2>1. \A s \in Level(S, m - 1) : s \in Level(S, m)
      <3>1. m \in Nat
        OBVIOUS
      <3>2. \A s \in SUBSET S : Cardinality(s) <= m - 1 => Cardinality(s) <= m
        <4>1. SUFFICES ASSUME NEW s \in SUBSET S, Cardinality(s) <= m - 1
                       PROVE  Cardinality(s) <= m
          OBVIOUS
        <4>2. Cardinality(s) \in Nat
          BY <1>0
        <4> HIDE DEF B
        <4> QED
          BY <3>1, <4>1, <4>2
      <3> QED
        BY <3>2 DEF Level
    <2> QED
      BY <2>1, <1>4 DEF IsSum
  <1>7. IsSum(g, f, Level(S, m))
    BY <1>5, <1>6, Zenon DEF IsSum
  <1> QED
    BY <1>2, <1>7, Zenon

\* The sum of a function over a finite set is what its recursive definition says.
LEMMA SumDefined ==
  ASSUME NEW S, IsFiniteSet(S), NEW f
  PROVE  \E g : IsSum(g, f, SUBSET S) /\ SumFunctionOnSet(f, S) = g[S]
  <1>1. Level(S, Cardinality(S)) = SUBSET S
    BY FS_Subset DEF Level
  <1> QED
    <2>1. \E g : IsSum(g, f, Level(S, Cardinality(S)))
      BY FS_CardinalityType, SumLevels
    <2> QED
      BY <1>1, <2>1, SumIsChosen

\* f and e have the same values on T.
Agree(f, e, T) == \A x \in T : f[x] = e[x]

\* Two solutions for functions that agree on T agree on T.
LEMMA SumUnique ==
  ASSUME NEW S, IsFiniteSet(S), NEW f, NEW e, NEW g, NEW h, NEW T,
         T \subseteq S, IsSum(g, f, SUBSET S), IsSum(h, e, SUBSET T), Agree(f, e, T)
  PROVE  g[T] = h[T]
  <1> DEFINE B == {U \in SUBSET T : g[U] # h[U]}
  <1>1. SUFFICES ASSUME B # {} PROVE FALSE
    BY Zenon
  <1>2. IsFiniteSet(T) /\ B \in SUBSET SUBSET T
    BY FS_Subset
  <1>3. PICK U \in B : \A V \in B : V \subseteq U => V = U
    <2> HIDE DEF B
    <2> QED
      BY <1>1, <1>2, SmallestSubset
  <1>4. g[U] = (IF U = {} THEN 0 ELSE f[Pick(U)] + g[U \ {Pick(U)}])
    BY <1>3, Zenon DEF IsSum
  <1>5. h[U] = (IF U = {} THEN 0 ELSE e[Pick(U)] + h[U \ {Pick(U)}])
    BY <1>3, Zenon DEF IsSum
  <1>6. U # {} => Pick(U) \in U /\ g[U \ {Pick(U)}] = h[U \ {Pick(U)}]
    BY <1>3 DEF Pick
  <1> QED
    BY <1>3, <1>4, <1>5, <1>6 DEF Agree

\* Functions that agree on a set have the same sum over it.
LEMMA SumSame ==
  ASSUME NEW S, IsFiniteSet(S), NEW f, NEW e, \A x \in S : f[x] = e[x]
  PROVE  SumFunctionOnSet(f, S) = SumFunctionOnSet(e, S)
  <1>1. PICK g : IsSum(g, f, SUBSET S) /\ SumFunctionOnSet(f, S) = g[S]
    BY SumDefined
  <1>2. PICK h : IsSum(h, e, SUBSET S) /\ SumFunctionOnSet(e, S) = h[S]
    BY SumDefined
  <1>3. g[S] = h[S]
    <2>1. S \subseteq S
      OBVIOUS
    <2> QED
      BY <1>1, <1>2, <2>1, SumUnique DEF Agree
  <1> QED
    BY <1>1, <1>2, <1>3

\* The equations of the definition.
LEMMA SumStep ==
  ASSUME NEW S, IsFiniteSet(S), NEW f
  PROVE  SumFunctionOnSet(f, S) =
           IF S = {} THEN 0 ELSE f[Pick(S)] + SumFunctionOnSet(f, S \ {Pick(S)})
  <1>1. PICK g : IsSum(g, f, SUBSET S) /\ SumFunctionOnSet(f, S) = g[S]
    BY SumDefined
  <1>2. g[S] = (IF S = {} THEN 0 ELSE f[Pick(S)] + g[S \ {Pick(S)}])
    BY <1>1, Zenon DEF IsSum
  <1> DEFINE T == S \ {Pick(S)}
  <1>3. IsFiniteSet(T) /\ T \subseteq S
    BY FS_Subset
  <1>4. PICK h : IsSum(h, f, SUBSET T) /\ SumFunctionOnSet(f, T) = h[T]
    BY <1>3, SumDefined
  <1>5. g[T] = h[T]
    <2> HIDE DEF T
    <2> QED
      BY <1>1, <1>3, <1>4, SumUnique DEF Agree
  <1> QED
    BY <1>1, <1>2, <1>4, <1>5

\* The sum of nothing.
LEMMA SumEmpty ==
  ASSUME NEW f PROVE SumFunctionOnSet(f, {}) = 0
  BY SumStep, FS_EmptySet

\* A sum of natural numbers is one.
LEMMA SumType ==
  ASSUME NEW S, IsFiniteSet(S), NEW f, \A x \in S : f[x] \in Nat
  PROVE  SumFunctionOnSet(f, S) \in Nat
  <1> DEFINE B == {U \in SUBSET S : SumFunctionOnSet(f, U) \notin Nat}
  <1>1. SUFFICES ASSUME B # {} PROVE FALSE
    BY Zenon
  <1>2. B \in SUBSET SUBSET S
    OBVIOUS
  <1>3. PICK U \in B : \A V \in B : V \subseteq U => V = U
    <2> HIDE DEF B
    <2> QED
      BY <1>1, <1>2, SmallestSubset
  <1>4. SumFunctionOnSet(f, U) =
          IF U = {} THEN 0 ELSE f[Pick(U)] + SumFunctionOnSet(f, U \ {Pick(U)})
    BY <1>3, FS_Subset, SumStep
  <1>5. U # {} => Pick(U) \in U /\ SumFunctionOnSet(f, U \ {Pick(U)}) \in Nat
    BY <1>3 DEF Pick
  <1> QED
    BY <1>3, <1>4, <1>5

\* Any member may be taken out of a sum first.
LEMMA SumRemove ==
  ASSUME NEW S, IsFiniteSet(S), NEW f, \A x \in S : f[x] \in Nat, NEW x \in S
  PROVE  SumFunctionOnSet(f, S) = f[x] + SumFunctionOnSet(f, S \ {x})
  <1> DEFINE Good(U) == \A y \in U : SumFunctionOnSet(f, U) = f[y] + SumFunctionOnSet(f, U \ {y})
             B == {U \in SUBSET S : ~Good(U)}
  <1>1. SUFFICES ASSUME B # {} PROVE FALSE
    <2>1. B = {} => Good(S)
      BY Zenon
    <2> QED
      BY <2>1
  <1>2. B \in SUBSET SUBSET S
    OBVIOUS
  <1>3. PICK U \in B : \A V \in B : V \subseteq U => V = U
    <2> HIDE DEF B
    <2> QED
      BY <1>1, <1>2, SmallestSubset
  <1>4. PICK y \in U : SumFunctionOnSet(f, U) # f[y] + SumFunctionOnSet(f, U \ {y})
    BY <1>3, Zenon
  <1> DEFINE z == Pick(U)
             W == (U \ {y}) \ {z}
  <1>5. z \in U
    BY DEF Pick
  <1>6. IsFiniteSet(U)
    BY <1>3, FS_Subset
  <1>7. SumFunctionOnSet(f, U) = f[z] + SumFunctionOnSet(f, U \ {z})
    BY <1>5, <1>6, SumStep
  <1>8. y # z
    BY <1>4, <1>7
  <1>9. Good(U \ {z}) /\ Good(U \ {y})
    <2> HIDE DEF Good
    <2> QED
      BY <1>3, <1>5
  <1>10. SumFunctionOnSet(f, U \ {z}) = f[y] + SumFunctionOnSet(f, W)
    <2>1. (U \ {z}) \ {y} = W
      OBVIOUS
    <2> QED
      BY <1>8, <1>9, <2>1, Zenon
  <1>11. SumFunctionOnSet(f, U \ {y}) = f[z] + SumFunctionOnSet(f, W)
    BY <1>5, <1>8, <1>9, Zenon
  <1>12. IsFiniteSet(W) /\ SumFunctionOnSet(f, W) \in Nat
    <2>1. IsFiniteSet(W)
      BY <1>3, FS_Subset
    <2> QED
      BY <1>3, <2>1, SumType
  <1>13. f[y] \in Nat /\ f[z] \in Nat
    BY <1>3, <1>5
  <1> HIDE DEF z, W, Good, B
  <1> QED
    BY <1>4, <1>7, <1>10, <1>11, <1>12, <1>13

\* A sum is the sum over a part of the set and over the rest.
LEMMA SumSplit ==
  ASSUME NEW S, IsFiniteSet(S), NEW f, \A x \in S : f[x] \in Nat, NEW T \in SUBSET S
  PROVE  SumFunctionOnSet(f, S) = SumFunctionOnSet(f, T) + SumFunctionOnSet(f, S \ T)
  <1> DEFINE R == S \ T
             Good(U) == SumFunctionOnSet(f, T \cup U) = SumFunctionOnSet(f, T) + SumFunctionOnSet(f, U)
             B == {U \in SUBSET R : ~Good(U)}
  <1>0. /\ \A U \in SUBSET R : IsFiniteSet(U) /\ IsFiniteSet(T \cup U) /\ T \cup U \subseteq S
        /\ IsFiniteSet(T) /\ IsFiniteSet(R)
    BY FS_Subset
  <1>1. SUFFICES ASSUME B # {} PROVE FALSE
    <2>1. T \cup R = S
      OBVIOUS
    <2>2. Good(R)
      BY <1>1, Zenon
    <2> QED
      BY <2>1, <2>2
  <1>2. PICK U \in B : \A V \in B : V \subseteq U => V = U
    <2>1. B \in SUBSET SUBSET R
      OBVIOUS
    <2> HIDE DEF B
    <2> QED
      BY <1>0, <1>1, <2>1, SmallestSubset
  <1>3. SumFunctionOnSet(f, T) \in Nat
    BY <1>0, SumType
  <1>4. U # {}
    <2>1. T \cup {} = T
      OBVIOUS
    <2>2. Good({})
      BY <1>3, <2>1, SumEmpty
    <2> QED
      BY <1>2, <2>2
  <1> DEFINE x == Pick(U)
             V == U \ {x}
  <1>5. x \in U /\ x \in R /\ V \in SUBSET R /\ V # U /\ V \subseteq U
    BY <1>2, <1>4 DEF Pick
  <1> HIDE DEF x
  <1>6. Good(V)
    BY <1>2, <1>5
  <1>7. SumFunctionOnSet(f, U) = f[x] + SumFunctionOnSet(f, V)
    BY <1>0, <1>2, <1>5, SumRemove
  <1>8. SumFunctionOnSet(f, T \cup U) = f[x] + SumFunctionOnSet(f, T \cup V)
    <2>1. (T \cup U) \ {x} = T \cup V /\ x \in T \cup U
      BY <1>5
    <2>2. SumFunctionOnSet(f, T \cup U) = f[x] + SumFunctionOnSet(f, (T \cup U) \ {x})
      BY <1>0, <1>2, <2>1, SumRemove
    <2> QED
      BY <2>1, <2>2
  <1>9. f[x] \in Nat /\ SumFunctionOnSet(f, V) \in Nat
    BY <1>0, <1>5, SumType
  <1>10. Good(U)
    BY <1>3, <1>6, <1>7, <1>8, <1>9
  <1> QED
    BY <1>2, <1>10

\* Changing one summand changes the sum by the difference.
LEMMA SumChange ==
  ASSUME NEW S, IsFiniteSet(S), NEW x \in S, NEW f \in [S -> Nat], NEW e \in [S -> Nat],
         \A y \in S \ {x} : f[y] = e[y]
  PROVE  SumFunctionOnSet(e, S) = SumFunctionOnSet(f, S) - f[x] + e[x]
  <1> DEFINE T == S \ {x}
  <1>1. IsFiniteSet(T)
    BY FS_Subset
  <1>2. SumFunctionOnSet(f, S) = f[x] + SumFunctionOnSet(f, T)
    BY SumRemove
  <1>3. SumFunctionOnSet(e, S) = e[x] + SumFunctionOnSet(e, T)
    BY SumRemove
  <1>4. SumFunctionOnSet(f, T) = SumFunctionOnSet(e, T)
    <2> HIDE DEF T
    <2>1. \A y \in T : f[y] = e[y]
      BY DEF T
    <2> QED
      BY <1>1, <2>1, SumSame
  <1>5. SumFunctionOnSet(f, T) \in Nat
    BY <1>1, SumType
  <1> QED
    BY <1>2, <1>3, <1>4, <1>5

-----------------------------------------------------------------------------
(***************************************************************************)
(* Sums of sequences.                                                      *)
(***************************************************************************)

\* The sum of a sequence of numbers is a number.
LEMMA SeqSumType ==
  ASSUME NEW s \in Seq(Nat) PROVE SumFunction(s) \in Nat
  <1>1. IsFiniteSet(DOMAIN s) /\ \A k \in DOMAIN s : s[k] \in Nat
    BY FS_Interval
  <1> QED
    BY <1>1, SumType DEF SumFunction

\* The sum of no numbers.
LEMMA SeqSumEmpty == SumFunction(<<>>) = 0
  <1>1. DOMAIN <<>> = {}
    OBVIOUS
  <1> QED
    BY <1>1, SumEmpty DEF SumFunction

\* One number more.
LEMMA SeqSumAppend ==
  ASSUME NEW s \in Seq(Nat), NEW n \in Nat
  PROVE  SumFunction(Append(s, n)) = SumFunction(s) + n
  <1> DEFINE t == Append(s, n)
             x == Len(s) + 1
             D == DOMAIN t
  <1>1. D = 1 .. x /\ x \in D /\ D \ {x} = DOMAIN s
    <2>1. Len(s) \in Nat /\ DOMAIN s = 1 .. Len(s) /\ D = 1 .. Len(s) + 1
      BY LenProperties, AppendProperties
    <2> QED
      BY <2>1
  <1>2. t[x] = n /\ (\A k \in DOMAIN s : t[k] = s[k]) /\ \A k \in D : t[k] \in Nat
    OBVIOUS
  <1>3. IsFiniteSet(D) /\ IsFiniteSet(DOMAIN s)
    BY <1>1, FS_Interval
  <1> HIDE DEF x, D, t
  <1>4. SumFunctionOnSet(t, D) = n + SumFunctionOnSet(t, DOMAIN s)
    <2>1. SumFunctionOnSet(t, D) = t[x] + SumFunctionOnSet(t, D \ {x})
      BY <1>1, <1>2, <1>3, SumRemove
    <2> QED
      BY <1>1, <1>2, <2>1
  <1>5. SumFunctionOnSet(t, DOMAIN s) = SumFunctionOnSet(s, DOMAIN s)
    BY <1>2, <1>3, SumSame
  <1>6. SumFunctionOnSet(s, DOMAIN s) \in Nat
    BY SeqSumType DEF SumFunction
  <1> QED
    BY <1>4, <1>5, <1>6 DEF SumFunction, t, D

\* Two ways to recognise how a sequence was put together.
LEMMA IsConcat ==
  ASSUME NEW S, NEW p \in Seq(S), NEW q \in Seq(S), NEW r \in Seq(S),
         Len(r) = Len(p) + Len(q),
         \A i \in 1 .. Len(p) : r[i] = p[i],
         \A i \in 1 .. Len(q) : r[Len(p) + i] = q[i]
  PROVE  r = p \o q
  <1>1. Len(p) \in Nat /\ Len(q) \in Nat
    BY LenProperties
  <1>2. /\ p \o q \in Seq(S) /\ Len(p \o q) = Len(p) + Len(q)
        /\ \A i \in 1 .. Len(p) + Len(q) : (p \o q)[i] = IF i <= Len(p) THEN p[i] ELSE q[i - Len(p)]
    BY ConcatProperties
  <1>3. ASSUME NEW i \in 1 .. Len(r) PROVE r[i] = (p \o q)[i]
    <2>1. CASE i <= Len(p)
      BY <1>1, <1>2, <2>1
    <2>2. CASE i > Len(p)
      <3>1. i - Len(p) \in 1 .. Len(q) /\ Len(p) + (i - Len(p)) = i
        BY <1>1, <2>2
      <3>2. r[Len(p) + (i - Len(p))] = q[i - Len(p)]
        BY <3>1
      <3> QED
        BY <1>1, <1>2, <2>2, <3>1, <3>2
    <2> QED
      BY <1>1, <2>1, <2>2
  <1> QED
    BY <1>2, <1>3, SeqEqual

\* A sequence that continues another one by one element.
LEMMA IsAppend ==
  ASSUME NEW S, NEW p \in Seq(S), NEW e \in S, NEW r \in Seq(S),
         Len(r) = Len(p) + 1, \A i \in 1 .. Len(p) : r[i] = p[i], r[Len(p) + 1] = e
  PROVE  r = Append(p, e)
  <1>1. Len(p) \in Nat
    BY LenProperties
  <1>2. /\ Append(p, e) \in Seq(S) /\ Len(Append(p, e)) = Len(p) + 1
        /\ \A i \in 1 .. Len(p) : Append(p, e)[i] = p[i]
        /\ Append(p, e)[Len(p) + 1] = e
    BY AppendProperties
  <1>3. ASSUME NEW i \in 1 .. Len(r) PROVE r[i] = Append(p, e)[i]
    <2>1. i \in 1 .. Len(p) \/ i = Len(p) + 1
      BY <1>1
    <2> QED
      BY <1>2, <2>1
  <1> QED
    BY <1>2, <1>3, SeqEqual

\* Concatenation with one element more.
LEMMA ConcatAppend ==
  ASSUME NEW S, NEW s \in Seq(S), NEW v \in Seq(S), NEW a \in S
  PROVE  s \o v \in Seq(S) /\ s \o Append(v, a) = Append(s \o v, a)
  <1> DEFINE l == s \o Append(v, a)
             r == Append(s \o v, a)
  <1>1. s \o v \in Seq(S) /\ l \in Seq(S) /\ r \in Seq(S)
    BY ConcatProperties, AppendProperties
  <1>2. /\ Len(s) \in Nat /\ Len(v) \in Nat /\ Len(s \o v) = Len(s) + Len(v)
        /\ Len(l) = Len(s) + Len(v) + 1 /\ Len(r) = Len(s) + Len(v) + 1
    BY <1>1, ConcatProperties, AppendProperties, LenProperties
  <1>3. ASSUME NEW i \in 1 .. Len(l) PROVE l[i] = r[i]
    BY <1>1, <1>2, ConcatProperties, AppendProperties
  <1> HIDE DEF l, r
  <1>4. l = r
    BY <1>1, <1>2, <1>3, SeqEqual
  <1> QED
    BY <1>1, <1>4 DEF l, r

\* Numbers behind numbers.
LEMMA SeqSumConcat ==
  ASSUME NEW s \in Seq(Nat), NEW t \in Seq(Nat)
  PROVE  SumFunction(s \o t) = SumFunction(s) + SumFunction(t)
  <1> DEFINE Good(n) == \A u \in Seq(Nat) :
                          Len(u) = n => SumFunction(s \o u) = SumFunction(s) + SumFunction(u)
             B == {n \in Nat : ~Good(n)}
  <1>1. SUFFICES ASSUME B # {} PROVE FALSE
    <2>1. B = {} => Good(Len(t))
      <3> HIDE DEF Good
      <3> QED
        BY LenProperties
    <2> QED
      BY <2>1
  <1>2. PICK n \in B : \A k \in B : n <= k
    <2> HIDE DEF Good
    <2> QED
      BY <1>1, SmallestNumber
  <1>3. PICK u \in Seq(Nat) : Len(u) = n /\ SumFunction(s \o u) # SumFunction(s) + SumFunction(u)
    BY <1>2
  <1>4. u # <<>>
    <2>1. s \o <<>> = s
      BY ConcatEmptySeq
    <2>2. SumFunction(s) \in Nat
      BY SeqSumType
    <2>3. SUFFICES ASSUME u = <<>> PROVE SumFunction(s \o u) = SumFunction(s) + SumFunction(u)
      BY <1>3
    <2> HIDE DEF B, Good
    <2> QED
      BY <2>1, <2>2, <2>3, SeqSumEmpty
  <1> DEFINE v == SubSeq(u, 1, n - 1)
             a == u[n]
  <1>5. v \in Seq(Nat) /\ a \in Nat /\ u = Append(v, a) /\ Len(v) = n - 1
    <2>1. n \in Nat /\ n >= 1
      BY <1>3, <1>4
    <2> HIDE DEF B, Good
    <2> QED
      BY <1>3, <2>1
  <1>6. n - 1 \in Nat /\ Good(n - 1)
    <2>1. n - 1 \in Nat
      BY <1>5
    <2> HIDE DEF Good
    <2> QED
      BY <1>2, <2>1
  <1>7. SumFunction(s \o v) = SumFunction(s) + SumFunction(v)
    BY <1>5, <1>6
  <1>8. s \o u = Append(s \o v, a) /\ s \o v \in Seq(Nat)
    <2> HIDE DEF v, a, B, Good
    <2> QED
      BY <1>5, ConcatAppend
  <1> HIDE DEF v, a, B, Good
  <1>9. SumFunction(s \o u) = SumFunction(s \o v) + a
    BY <1>5, <1>8, SeqSumAppend
  <1>10. SumFunction(u) = SumFunction(v) + a
    BY <1>5, SeqSumAppend
  <1>11. SumFunction(s) \in Nat /\ SumFunction(v) \in Nat
    BY <1>5, SeqSumType
  <1> QED
    BY <1>3, <1>5, <1>7, <1>9, <1>10, <1>11

=============================================================================
