------------------------------ MODULE SumLemmas ------------------------------
(***************************************************************************)
(* What SumFunctionOnSet(f, S) and SumFunction(f), with which the models   *)
(* add up money and kilos, do: the sum of an empty set, of one element     *)
(* more, of equal, smaller or added terms, over the image of a set, and in *)
(* two dimensions.                                                         *)
(*                                                                         *)
(* The fold behind them is defined by recursion on the subsets of S, so    *)
(* the first part proves that this recursion has a solution and only one.  *)
(* Each induction is one on a set of naturals or of finite sets            *)
(* (NatSetInduction, FiniteInduction), both from WFMin.                    *)
(***************************************************************************)
EXTENDS Integers, Functions, FiniteSets, FiniteSetTheorems, WellFoundedInduction, TLAPS

-----------------------------------------------------------------------------
(* Induction on sets                                                       *)

\* A set with 0 and the successor of each of its naturals has all naturals
LEMMA NatSetInduction ==
  ASSUME NEW S, 0 \in S, \A n \in Nat : n \in S => n + 1 \in S
  PROVE  Nat \subseteq S
<1> DEFINE T == Nat \ S
<1>1. IsWellFoundedOn(OpToRel(<, Nat), Nat)
  BY NatLessThanWellFounded
<1>2. SUFFICES ASSUME T # {} PROVE FALSE
  OBVIOUS
<1>3. PICK x \in T : \A y \in T : <<y, x>> \notin OpToRel(<, Nat)
  BY <1>1, <1>2, WFMin, T \subseteq Nat
<1>4. x # 0 /\ x \in Nat
  OBVIOUS
<1>5. x - 1 \in Nat /\ x - 1 < x /\ (x - 1) + 1 = x
  BY <1>4
<1>6. x - 1 \in T
  BY <1>5
<1>7. <<x - 1, x>> \in OpToRel(<, Nat)
  BY <1>4, <1>5 DEF OpToRel
<1> QED BY <1>3, <1>6, <1>7

\* A family with the empty set that one element more never leaves has every finite set
LEMMA FiniteInduction ==
  ASSUME NEW S, IsFiniteSet(S), NEW G, {} \in G,
         \A T \in SUBSET S : \A x \in S \ T : T \in G => T \cup {x} \in G
  PROVE  S \in G
<1> DEFINE N == {n \in Nat : \A T \in SUBSET S : Cardinality(T) = n => T \in G}
<1>1. \A T \in SUBSET S : IsFiniteSet(T) /\ Cardinality(T) \in Nat
  BY FS_Subset, FS_CardinalityType
<1>2. 0 \in N
  BY <1>1, FS_EmptySet
<1>3. ASSUME NEW n \in Nat, n \in N PROVE n + 1 \in N
  <2> SUFFICES ASSUME NEW T \in SUBSET S, Cardinality(T) = n + 1 PROVE T \in G
    OBVIOUS
  <2>1. T # {}
    <3>1. Cardinality({}) = 0
      BY FS_EmptySet
    <3> QED BY <3>1
  <2>2. PICK x \in T : TRUE
    BY <2>1
  <2>3. Cardinality(T \ {x}) = n
    <3>1. IsFiniteSet(T) /\ x \in T
      BY <1>1
    <3>2. Cardinality(T \ {x}) = Cardinality(T) - 1
      BY <3>1, FS_RemoveElement
    <3> QED BY <3>2
  <2>4. T \ {x} \in G
    BY <1>3, <2>3
  <2>5. T = (T \ {x}) \cup {x}
    OBVIOUS
  <2> QED BY <2>4, <2>5
<1>4. Nat \subseteq N
  <2> HIDE DEF N
  <2> QED BY <1>2, <1>3, NatSetInduction
<1> QED BY <1>1, <1>4

-----------------------------------------------------------------------------
(* The recursion                                                           *)

Pick(s) == CHOOSE x \in s : TRUE
Body(f, g, s) == IF s = {} THEN 0 ELSE f[Pick(s)] + g[s \ {Pick(s)}]
Solves(f, g, S) == g = [s \in SUBSET S |-> Body(f, g, s)]

\* The sum is the value at S of a solution of the recursion
LEMMA SumUnfold ==
  ASSUME NEW f, NEW S
  PROVE  SumFunctionOnSet(f, S) = (CHOOSE g : Solves(f, g, S))[S]
  BY DEF SumFunctionOnSet, FoldFunctionOnSet, MapThenFoldSet, Body, Pick, Solves

\* Pick picks
LEMMA PickIn == ASSUME NEW s, s # {} PROVE Pick(s) \in s
  BY DEF Pick

\* There is a solution: it is built up to each cardinality in turn
LEMMA SolutionExists ==
  ASSUME NEW f, NEW S, IsFiniteSet(S)
  PROVE  \E g : Solves(f, g, S)
<1> DEFINE D(n) == {s \in SUBSET S : Cardinality(s) <= n}
           N == {n \in Nat : \E g : g = [s \in D(n) |-> Body(f, g, s)]}
<1>1. \A s \in SUBSET S : IsFiniteSet(s) /\ Cardinality(s) \in Nat
  BY FS_Subset, FS_CardinalityType
<1>2. 0 \in N
  <2>1. \A s \in D(0) : s = {}
    BY <1>1, FS_EmptySet
  <2> DEFINE g == [s \in D(0) |-> 0]
  <2>2. g = [s \in D(0) |-> Body(f, g, s)]
    BY <2>1 DEF Body
  <2> QED BY <2>2
<1>3. ASSUME NEW n \in Nat, n \in N PROVE n + 1 \in N
  <2>1. PICK g : g = [s \in D(n) |-> Body(f, g, s)]
    BY <1>3
  <2> DEFINE h == [s \in D(n + 1) |-> Body(f, g, s)]
  <2>2. ASSUME NEW s \in D(n + 1) PROVE Body(f, g, s) = Body(f, h, s)
    <3>1. CASE s = {}
      BY <3>1 DEF Body
    <3>2. CASE s # {}
      <4> DEFINE t == s \ {Pick(s)}
      <4>1. t \in D(n)
        BY <1>1, <3>2, PickIn, FS_RemoveElement
      <4>2. t \in D(n + 1)
        BY <1>1, <4>1
      <4>3. g[t] = Body(f, g, t) /\ h[t] = Body(f, g, t)
        BY <2>1, <4>1, <4>2
      <4> QED BY <4>3 DEF Body
    <3> QED BY <3>1, <3>2
  <2>3. h = [s \in D(n + 1) |-> Body(f, h, s)]
    BY <2>2
  <2>4. \E k : k = [s \in D(n + 1) |-> Body(f, k, s)]
    <3> HIDE DEF h
    <3> QED BY <2>3
  <2>5. n + 1 \in Nat
    OBVIOUS
  <2> QED
    <3> HIDE DEF D
    <3> QED BY <2>4, <2>5
<1>4. Nat \subseteq N
  <2> HIDE DEF N
  <2> QED BY <1>2, <1>3, NatSetInduction
<1>5. Cardinality(S) \in N
  BY <1>1, <1>4
<1>6. D(Cardinality(S)) = SUBSET S
  BY <1>1, FS_Subset
<1> QED BY <1>5, <1>6 DEF Solves

\* Two solutions agree where both are defined
LEMMA SolutionUnique ==
  ASSUME NEW f, NEW S, IsFiniteSet(S), NEW T \in SUBSET S,
         NEW g, Solves(f, g, S), NEW h, Solves(f, h, T)
  PROVE  g[T] = h[T]
<1> DEFINE N == {n \in Nat : \A s \in SUBSET T : Cardinality(s) = n => g[s] = h[s]}
<1>1. \A s \in SUBSET T : IsFiniteSet(s) /\ Cardinality(s) \in Nat
  BY FS_Subset, FS_CardinalityType
<1>2. \A s \in SUBSET T : g[s] = Body(f, g, s) /\ h[s] = Body(f, h, s)
  BY DEF Solves
<1>3. 0 \in N
  BY <1>1, <1>2, FS_EmptySet DEF Body
<1>4. ASSUME NEW n \in Nat, n \in N PROVE n + 1 \in N
  <2> SUFFICES ASSUME NEW s \in SUBSET T, Cardinality(s) = n + 1 PROVE g[s] = h[s]
    OBVIOUS
  <2>1. s # {}
    BY FS_EmptySet
  <2>2. Cardinality(s \ {Pick(s)}) = n
    BY <1>1, <2>1, PickIn, FS_RemoveElement
  <2>3. g[s \ {Pick(s)}] = h[s \ {Pick(s)}]
    BY <1>4, <2>2
  <2> QED BY <1>2, <2>1, <2>3 DEF Body
<1>5. Nat \subseteq N
  <2> HIDE DEF N
  <2> QED BY <1>3, <1>4, NatSetInduction
<1> QED BY <1>1, <1>5

\* The equation of the sum
LEMMA SumEquation ==
  ASSUME NEW f, NEW S, IsFiniteSet(S)
  PROVE  SumFunctionOnSet(f, S) =
           IF S = {} THEN 0
           ELSE f[Pick(S)] + SumFunctionOnSet(f, S \ {Pick(S)})
<1> DEFINE g == CHOOSE g : Solves(f, g, S)
           T == S \ {Pick(S)}
           h == CHOOSE h : Solves(f, h, T)
<1>1. IsFiniteSet(T)
  BY FS_Subset
<1>2. Solves(f, g, S)
  BY SolutionExists
<1>3. Solves(f, h, T)
  BY <1>1, SolutionExists
<1>4. g[T] = h[T]
  <2> HIDE DEF g, h
  <2> QED BY <1>2, <1>3, SolutionUnique
<1>5. g[S] = Body(f, g, S)
  <2> HIDE DEF g
  <2> QED BY <1>2 DEF Solves
<1>6. SumFunctionOnSet(f, S) = g[S] /\ SumFunctionOnSet(f, T) = h[T]
  BY SumUnfold
<1> QED
  <2> HIDE DEF g, h
  <2> QED BY <1>4, <1>5, <1>6 DEF Body

-----------------------------------------------------------------------------
(* Sums of integers                                                        *)

Ints(f, S) == \A x \in S : f[x] \in Int

\* The sum of nothing
LEMMA SumEmpty ==
  ASSUME NEW f
  PROVE  SumFunctionOnSet(f, {}) = 0
  BY SumEquation, FS_EmptySet

\* A sum of integers is an integer
LEMMA SumType ==
  ASSUME NEW f, NEW S, IsFiniteSet(S), Ints(f, S)
  PROVE  SumFunctionOnSet(f, S) \in Int
<1> DEFINE N == {n \in Nat : \A T \in SUBSET S :
                   Cardinality(T) = n => SumFunctionOnSet(f, T) \in Int}
<1>1. \A T \in SUBSET S : IsFiniteSet(T) /\ Cardinality(T) \in Nat
  BY FS_Subset, FS_CardinalityType
<1>2. 0 \in N
  <2> SUFFICES ASSUME NEW T \in SUBSET S, Cardinality(T) = 0
               PROVE  SumFunctionOnSet(f, T) \in Int
    OBVIOUS
  <2>1. T = {}
    BY <1>1, FS_EmptySet
  <2> QED BY <2>1, SumEmpty
<1>3. ASSUME NEW n \in Nat, n \in N PROVE n + 1 \in N
  <2> SUFFICES ASSUME NEW T \in SUBSET S, Cardinality(T) = n + 1
               PROVE  SumFunctionOnSet(f, T) \in Int
    OBVIOUS
  <2>1. T # {} /\ IsFiniteSet(T)
    <3>1. Cardinality({}) = 0
      BY FS_EmptySet
    <3> QED BY <1>1, <3>1
  <2>2. Pick(T) \in T
    BY <2>1, PickIn
  <2>3. Cardinality(T \ {Pick(T)}) = n
    <3>1. Cardinality(T \ {Pick(T)}) = Cardinality(T) - 1
      BY <2>1, <2>2, FS_RemoveElement
    <3> QED BY <3>1
  <2>4. SumFunctionOnSet(f, T \ {Pick(T)}) \in Int
    BY <1>3, <2>3
  <2>5. SumFunctionOnSet(f, T) = f[Pick(T)] + SumFunctionOnSet(f, T \ {Pick(T)})
    BY <2>1, SumEquation
  <2>6. f[Pick(T)] \in Int
    BY <2>2 DEF Ints
  <2> QED BY <2>4, <2>5, <2>6
<1>4. Nat \subseteq N
  <2> HIDE DEF N
  <2> QED BY <1>2, <1>3, NatSetInduction
<1> QED BY <1>1, <1>4

\* Whichever element is taken out, the rest is the sum of the others
LEMMA SumRemove ==
  ASSUME NEW f, NEW S, IsFiniteSet(S), Ints(f, S), NEW e \in S
  PROVE  SumFunctionOnSet(f, S) = f[e] + SumFunctionOnSet(f, S \ {e})
<1> DEFINE Sum(T) == SumFunctionOnSet(f, T)
           N == {n \in Nat : \A T \in SUBSET S : Cardinality(T) = n =>
                   \A x \in T : Sum(T) = f[x] + Sum(T \ {x})}
<1>1. \A T \in SUBSET S : IsFiniteSet(T) /\ Cardinality(T) \in Nat
  BY FS_Subset, FS_CardinalityType
<1>2. 0 \in N
  BY <1>1, FS_EmptySet
<1>3. ASSUME NEW n \in Nat, n \in N PROVE n + 1 \in N
  <2> SUFFICES ASSUME NEW T \in SUBSET S, Cardinality(T) = n + 1, NEW x \in T
               PROVE  Sum(T) = f[x] + Sum(T \ {x})
    OBVIOUS
  <2> DEFINE c == Pick(T)
             rest == (T \ {c}) \ {x}
  <2>1. c \in T
    BY PickIn
  <2>2. Sum(T) = f[c] + Sum(T \ {c})
    BY <1>1, SumEquation
  <2>3. CASE x = c
    BY <2>2, <2>3
  <2>4. CASE x # c
    <3>1. Cardinality(T \ {c}) = n /\ Cardinality(T \ {x}) = n
      <4>1. /\ Cardinality(T \ {c}) = Cardinality(T) - 1
            /\ Cardinality(T \ {x}) = Cardinality(T) - 1
        BY <1>1, <2>1, FS_RemoveElement
      <4> QED BY <4>1
    <3>2. Sum(T \ {c}) = f[x] + Sum(rest)
      BY <1>3, <2>4, <3>1
    <3>3. (T \ {x}) \ {c} = rest
      OBVIOUS
    <3>4. Sum(T \ {x}) = f[c] + Sum(rest)
      BY <1>3, <2>1, <2>4, <3>1, <3>3
    <3>5. f[c] \in Int /\ f[x] \in Int /\ Sum(rest) \in Int
      BY <1>1, <2>1, SumType DEF Ints
    <3> QED
      <4> HIDE DEF Sum, c, rest
      <4> QED BY <2>2, <3>2, <3>4, <3>5
  <2> QED BY <2>3, <2>4
<1>4. Nat \subseteq N
  <2> HIDE DEF N
  <2> QED BY <1>2, <1>3, NatSetInduction
<1> QED BY <1>1, <1>4

\* One element more
LEMMA SumAdd ==
  ASSUME NEW f, NEW S, IsFiniteSet(S), NEW e, e \notin S, Ints(f, S \cup {e})
  PROVE  SumFunctionOnSet(f, S \cup {e}) = f[e] + SumFunctionOnSet(f, S)
<1>1. IsFiniteSet(S \cup {e}) /\ (S \cup {e}) \ {e} = S /\ e \in S \cup {e}
  BY FS_AddElement
<1> QED BY <1>1, SumRemove

\* Equal terms
LEMMA SumEqual ==
  ASSUME NEW S, IsFiniteSet(S), NEW f, Ints(f, S), NEW g, \A x \in S : f[x] = g[x]
  PROVE  SumFunctionOnSet(f, S) = SumFunctionOnSet(g, S)
<1> DEFINE G == {T \in SUBSET S : SumFunctionOnSet(f, T) = SumFunctionOnSet(g, T)}
<1>1. {} \in G
  BY SumEmpty
<1>2. ASSUME NEW T \in SUBSET S, NEW x \in S \ T, T \in G PROVE T \cup {x} \in G
  <2>1. IsFiniteSet(T) /\ Ints(f, T \cup {x}) /\ Ints(g, T \cup {x}) /\ f[x] = g[x]
    BY FS_Subset DEF Ints
  <2>2. /\ SumFunctionOnSet(f, T \cup {x}) = f[x] + SumFunctionOnSet(f, T)
        /\ SumFunctionOnSet(g, T \cup {x}) = g[x] + SumFunctionOnSet(g, T)
    BY <2>1, SumAdd
  <2> QED BY <1>2, <2>1, <2>2
<1>3. S \in G
  <2> HIDE DEF G
  <2> QED BY <1>1, <1>2, FiniteInduction
<1> QED BY <1>3

\* Smaller terms
LEMMA SumMono ==
  ASSUME NEW S, IsFiniteSet(S), NEW f, Ints(f, S), NEW g, Ints(g, S),
         \A x \in S : f[x] <= g[x]
  PROVE  SumFunctionOnSet(f, S) <= SumFunctionOnSet(g, S)
<1> DEFINE G == {T \in SUBSET S : SumFunctionOnSet(f, T) <= SumFunctionOnSet(g, T)}
<1>1. {} \in G
  BY SumEmpty
<1>2. ASSUME NEW T \in SUBSET S, NEW x \in S \ T, T \in G PROVE T \cup {x} \in G
  <2>1. /\ IsFiniteSet(T) /\ Ints(f, T \cup {x}) /\ Ints(g, T \cup {x})
        /\ Ints(f, T) /\ Ints(g, T)
        /\ f[x] \in Int /\ g[x] \in Int /\ f[x] <= g[x]
    BY FS_Subset DEF Ints
  <2>2. /\ SumFunctionOnSet(f, T \cup {x}) = f[x] + SumFunctionOnSet(f, T)
        /\ SumFunctionOnSet(g, T \cup {x}) = g[x] + SumFunctionOnSet(g, T)
    BY <2>1, SumAdd
  <2>3. SumFunctionOnSet(f, T) \in Int /\ SumFunctionOnSet(g, T) \in Int
    BY <2>1, SumType
  <2> QED BY <1>2, <2>1, <2>2, <2>3
<1>3. S \in G
  <2> HIDE DEF G
  <2> QED BY <1>1, <1>2, FiniteInduction
<1> QED BY <1>3

\* Terms added
LEMMA SumPlus ==
  ASSUME NEW S, IsFiniteSet(S), NEW f, Ints(f, S), NEW g, Ints(g, S),
         NEW h, \A x \in S : h[x] = f[x] + g[x]
  PROVE  SumFunctionOnSet(h, S) = SumFunctionOnSet(f, S) + SumFunctionOnSet(g, S)
<1> DEFINE G == {T \in SUBSET S : SumFunctionOnSet(h, T) =
                   SumFunctionOnSet(f, T) + SumFunctionOnSet(g, T)}
<1>1. {} \in G
  BY SumEmpty
<1>2. ASSUME NEW T \in SUBSET S, NEW x \in S \ T, T \in G PROVE T \cup {x} \in G
  <2>1. /\ IsFiniteSet(T) /\ Ints(f, T \cup {x}) /\ Ints(g, T \cup {x}) /\ Ints(h, T \cup {x})
        /\ Ints(f, T) /\ Ints(g, T)
        /\ f[x] \in Int /\ g[x] \in Int /\ h[x] = f[x] + g[x]
    BY FS_Subset DEF Ints
  <2>2. /\ SumFunctionOnSet(f, T \cup {x}) = f[x] + SumFunctionOnSet(f, T)
        /\ SumFunctionOnSet(g, T \cup {x}) = g[x] + SumFunctionOnSet(g, T)
        /\ SumFunctionOnSet(h, T \cup {x}) = h[x] + SumFunctionOnSet(h, T)
    BY <2>1, SumAdd
  <2>3. SumFunctionOnSet(f, T) \in Int /\ SumFunctionOnSet(g, T) \in Int
    BY <2>1, SumType
  <2> QED BY <1>2, <2>1, <2>2, <2>3
<1>3. S \in G
  <2> HIDE DEF G
  <2> QED BY <1>1, <1>2, FiniteInduction
<1> QED BY <1>3

\* Terms that are all zero
LEMMA SumZero ==
  ASSUME NEW S, IsFiniteSet(S), NEW f, \A x \in S : f[x] = 0
  PROVE  SumFunctionOnSet(f, S) = 0
<1> DEFINE G == {T \in SUBSET S : SumFunctionOnSet(f, T) = 0}
<1>1. {} \in G
  BY SumEmpty
<1>2. ASSUME NEW T \in SUBSET S, NEW x \in S \ T, T \in G PROVE T \cup {x} \in G
  <2>1. IsFiniteSet(T) /\ Ints(f, T \cup {x}) /\ f[x] = 0
    BY FS_Subset DEF Ints
  <2>2. SumFunctionOnSet(f, T \cup {x}) = f[x] + SumFunctionOnSet(f, T)
    BY <2>1, SumAdd
  <2> QED BY <1>2, <2>1, <2>2
<1>3. S \in G
  <2> HIDE DEF G
  <2> QED BY <1>1, <1>2, FiniteInduction
<1> QED BY <1>3

\* A sum of naturals is a natural
LEMMA SumNat ==
  ASSUME NEW S, IsFiniteSet(S), NEW f, \A x \in S : f[x] \in Nat
  PROVE  SumFunctionOnSet(f, S) \in Nat
<1> DEFINE zero == [x \in S |-> 0]
<1>1. Ints(f, S) /\ Ints(zero, S) /\ \A x \in S : zero[x] <= f[x] /\ zero[x] = 0
  BY DEF Ints
<1>2. SumFunctionOnSet(zero, S) <= SumFunctionOnSet(f, S)
  <2> HIDE DEF zero
  <2> QED BY <1>1, SumMono
<1>3. SumFunctionOnSet(zero, S) = 0
  <2> HIDE DEF zero
  <2> QED BY <1>1, SumZero
<1>4. SumFunctionOnSet(f, S) \in Int
  BY <1>1, SumType
<1> QED BY <1>2, <1>3, <1>4

\* A set in two parts
LEMMA SumSplit ==
  ASSUME NEW S, IsFiniteSet(S), NEW f, Ints(f, S), NEW R \in SUBSET S
  PROVE  SumFunctionOnSet(f, S) = SumFunctionOnSet(f, R) + SumFunctionOnSet(f, S \ R)
<1> DEFINE Q == S \ R
           G == {T \in SUBSET Q : SumFunctionOnSet(f, R \cup T) =
                   SumFunctionOnSet(f, R) + SumFunctionOnSet(f, T)}
<1>0. IsFiniteSet(Q) /\ IsFiniteSet(R) /\ Ints(f, R)
  BY FS_Subset DEF Ints
<1>00. SumFunctionOnSet(f, R) \in Int
  BY <1>0, SumType
<1>1. {} \in G
  BY <1>00, SumEmpty, R \cup {} = R
<1>2. ASSUME NEW T \in SUBSET Q, NEW x \in Q \ T, T \in G PROVE T \cup {x} \in G
  <2>1. /\ IsFiniteSet(T) /\ IsFiniteSet(R \cup T) /\ x \notin R \cup T
        /\ Ints(f, T \cup {x}) /\ Ints(f, (R \cup T) \cup {x})
        /\ Ints(f, T) /\ f[x] \in Int
    <3>1. T \in SUBSET S /\ R \cup T \in SUBSET S
      OBVIOUS
    <3> QED BY <3>1, FS_Subset DEF Ints
  <2>2. /\ SumFunctionOnSet(f, T \cup {x}) = f[x] + SumFunctionOnSet(f, T)
        /\ SumFunctionOnSet(f, (R \cup T) \cup {x}) = f[x] + SumFunctionOnSet(f, R \cup T)
    BY <2>1, SumAdd
  <2>3. SumFunctionOnSet(f, T) \in Int
    BY <2>1, SumType
  <2>5. SumFunctionOnSet(f, R \cup T) = SumFunctionOnSet(f, R) + SumFunctionOnSet(f, T)
    BY <1>2
  <2>6. SumFunctionOnSet(f, R \cup (T \cup {x})) =
          SumFunctionOnSet(f, R) + SumFunctionOnSet(f, T \cup {x})
    <3>1. SumFunctionOnSet(f, R \cup (T \cup {x})) = f[x] + SumFunctionOnSet(f, R \cup T)
      <4>1. (R \cup T) \cup {x} = R \cup (T \cup {x})
        OBVIOUS
      <4>2. SumFunctionOnSet(f, (R \cup T) \cup {x}) = f[x] + SumFunctionOnSet(f, R \cup T)
        BY <2>2
      <4> QED BY <4>1, <4>2, Zenon
    <3>2. f[x] \in Int
      BY <2>1
    <3>3. SumFunctionOnSet(f, T \cup {x}) = f[x] + SumFunctionOnSet(f, T)
      BY <2>2
    <3> QED BY <1>00, <2>3, <2>5, <3>1, <3>2, <3>3
  <2> QED BY <2>6
<1>3. Q \in G
  <2> HIDE DEF G, Q
  <2> QED BY <1>0, <1>1, <1>2, FiniteInduction
<1>4. R \cup Q = S
  OBVIOUS
<1> QED BY <1>3, <1>4

\* A part of the terms, when none is negative
LEMMA SumPart ==
  ASSUME NEW S, IsFiniteSet(S), NEW f, \A x \in S : f[x] \in Nat, NEW R \in SUBSET S
  PROVE  SumFunctionOnSet(f, R) <= SumFunctionOnSet(f, S)
<1>1. Ints(f, S) /\ Ints(f, R) /\ IsFiniteSet(S \ R) /\ IsFiniteSet(R)
  BY FS_Subset DEF Ints
<1>2. SumFunctionOnSet(f, S) = SumFunctionOnSet(f, R) + SumFunctionOnSet(f, S \ R)
  BY <1>1, SumSplit
<1>3. SumFunctionOnSet(f, S \ R) \in Nat
  BY <1>1, SumNat
<1>4. SumFunctionOnSet(f, R) \in Int
  BY <1>1, SumType
<1> QED BY <1>2, <1>3, <1>4

\* Terms that are zero outside a part
LEMMA SumOnPart ==
  ASSUME NEW S, IsFiniteSet(S), NEW f, Ints(f, S), NEW R \in SUBSET S,
         \A x \in S \ R : f[x] = 0
  PROVE  SumFunctionOnSet(f, S) = SumFunctionOnSet(f, R)
<1>1. IsFiniteSet(S \ R) /\ IsFiniteSet(R) /\ Ints(f, R)
  BY FS_Subset DEF Ints
<1>2. SumFunctionOnSet(f, S \ R) = 0
  BY <1>1, SumZero
<1>3. SumFunctionOnSet(f, R) \in Int
  BY <1>1, SumType
<1> QED BY <1>2, <1>3, SumSplit

\* A term that alone is not zero
LEMMA SumOnly ==
  ASSUME NEW S, IsFiniteSet(S), NEW f, Ints(f, S), NEW e \in S,
         \A x \in S \ {e} : f[x] = 0
  PROVE  SumFunctionOnSet(f, S) = f[e]
<1>1. IsFiniteSet(S \ {e})
  BY FS_Subset
<1>2. SumFunctionOnSet(f, S \ {e}) = 0
  BY <1>1, SumZero
<1>3. f[e] \in Int
  BY DEF Ints
<1> QED BY <1>2, <1>3, SumRemove

\* The terms of the image of a set under an injection
LEMMA SumImage ==
  ASSUME NEW S, IsFiniteSet(S), NEW R, NEW g \in [S -> R],
         \A x, y \in S : g[x] = g[y] => x = y,
         NEW f, Ints(f, R), NEW h, \A x \in S : h[x] = f[g[x]]
  PROVE  SumFunctionOnSet(h, S) = SumFunctionOnSet(f, {g[x] : x \in S})
<1> DEFINE Img(T) == {g[x] : x \in T}
           G == {T \in SUBSET S : /\ IsFiniteSet(Img(T))
                                  /\ SumFunctionOnSet(h, T) = SumFunctionOnSet(f, Img(T))}
<1>1. {} \in G
  <2>1. Img({}) = {}
    OBVIOUS
  <2> QED BY <2>1, SumEmpty, FS_EmptySet
<1>2. ASSUME NEW T \in SUBSET S, NEW x \in S \ T, T \in G PROVE T \cup {x} \in G
  <2>1. Img(T \cup {x}) = Img(T) \cup {g[x]} /\ g[x] \notin Img(T) /\ IsFiniteSet(Img(T))
    BY <1>2
  <2>2. IsFiniteSet(Img(T \cup {x}))
    BY <2>1, FS_AddElement
  <2>3. IsFiniteSet(T) /\ Ints(h, T \cup {x}) /\ h[x] = f[g[x]]
    BY FS_Subset DEF Ints
  <2>4. Ints(f, Img(T) \cup {g[x]})
    BY DEF Ints
  <2>5. SumFunctionOnSet(h, T \cup {x}) = h[x] + SumFunctionOnSet(h, T)
    BY <2>3, SumAdd
  <2>6. SumFunctionOnSet(f, Img(T) \cup {g[x]}) = f[g[x]] + SumFunctionOnSet(f, Img(T))
    <3> HIDE DEF Img
    <3> QED BY <2>1, <2>4, SumAdd
  <2>7. SumFunctionOnSet(h, T) = SumFunctionOnSet(f, Img(T))
    BY <1>2
  <2> QED
    <3> HIDE DEF Img
    <3> QED BY <2>1, <2>2, <2>3, <2>5, <2>6, <2>7
<1>3. S \in G
  <2> HIDE DEF G
  <2> QED BY <1>1, <1>2, FiniteInduction
<1> QED BY <1>3

\* A table by rows and the same table by columns; the sums of the rows
Transposed(row, col, A, B) ==
  /\ row \in [A -> [B -> Int]] /\ col \in [B -> [A -> Int]]
  /\ \A a \in A, b \in B : row[a][b] = col[b][a]
RowSums(f, row, A, B) == \A a \in A : f[a] = SumFunctionOnSet(row[a], B)

\* Two dimensions: the sum of the rows' sums is the sum of the columns' sums
LEMMA SumSwap ==
  ASSUME NEW A, IsFiniteSet(A), NEW B, IsFiniteSet(B),
         NEW row, NEW col, Transposed(row, col, A, B),
         NEW f, RowSums(f, row, A, B), NEW g, RowSums(g, col, B, A)
  PROVE  SumFunctionOnSet(f, A) = SumFunctionOnSet(g, B)
<1> DEFINE upTo(T) == [b \in B |-> SumFunctionOnSet(col[b], T)]
           G == {T \in SUBSET A : SumFunctionOnSet(f, T) = SumFunctionOnSet(upTo(T), B)}
<1>0. (\A a \in A : Ints(row[a], B)) /\ (\A b \in B : Ints(col[b], A))
  BY DEF Transposed, Ints
<1>1. Ints(f, A)
  BY <1>0, SumType DEF RowSums, Ints
<1>2. {} \in G
  <2>1. \A b \in B : upTo({})[b] = 0
    BY SumEmpty
  <2>2. SumFunctionOnSet(upTo({}), B) = 0
    <3> HIDE DEF upTo
    <3> QED BY <2>1, SumZero
  <2> QED BY <2>2, SumEmpty
<1>3. ASSUME NEW T \in SUBSET A, NEW x \in A \ T, T \in G PROVE T \cup {x} \in G
  <2>1. IsFiniteSet(T) /\ Ints(f, T \cup {x})
    BY <1>1, FS_Subset DEF Ints
  <2>2. ASSUME NEW b \in B
        PROVE  /\ upTo(T \cup {x})[b] = row[x][b] + upTo(T)[b]
               /\ upTo(T)[b] \in Int
    <3>1. Ints(col[b], T \cup {x}) /\ Ints(col[b], T)
      BY <1>0 DEF Ints
    <3>2. SumFunctionOnSet(col[b], T \cup {x}) = col[b][x] + SumFunctionOnSet(col[b], T)
      BY <2>1, <3>1, SumAdd
    <3>3. SumFunctionOnSet(col[b], T) \in Int
      BY <2>1, <3>1, SumType
    <3>4. row[x][b] = col[b][x]
      BY DEF Transposed
    <3> QED BY <3>2, <3>3, <3>4
  <2>3. Ints(row[x], B) /\ Ints(upTo(T), B)
    BY <1>0, <2>2 DEF Ints
  <2>4. SumFunctionOnSet(upTo(T \cup {x}), B) =
          SumFunctionOnSet(row[x], B) + SumFunctionOnSet(upTo(T), B)
    <3>1. PICK r : r = row[x]
      OBVIOUS
    <3>2. \A b \in B : upTo(T \cup {x})[b] = r[b] + upTo(T)[b]
      BY <2>2, <3>1
    <3>3. Ints(r, B)
      BY <2>3, <3>1
    <3>4. SumFunctionOnSet(upTo(T \cup {x}), B) =
            SumFunctionOnSet(r, B) + SumFunctionOnSet(upTo(T), B)
      <4> HIDE DEF upTo
      <4> QED BY <2>3, <3>2, <3>3, SumPlus
    <3> QED BY <3>1, <3>4
  <2>5. SumFunctionOnSet(f, T \cup {x}) = f[x] + SumFunctionOnSet(f, T)
    BY <2>1, SumAdd
  <2>6. SumFunctionOnSet(f, T) = SumFunctionOnSet(upTo(T), B) /\ f[x] = SumFunctionOnSet(row[x], B)
    BY <1>3 DEF RowSums
  <2>7. SumFunctionOnSet(f, T \cup {x}) = SumFunctionOnSet(upTo(T \cup {x}), B)
    <3> HIDE DEF upTo
    <3> QED BY <2>4, <2>5, <2>6
  <2> QED BY <2>7
<1>4. A \in G
  <2> HIDE DEF G
  <2> QED BY <1>2, <1>3, FiniteInduction
<1>5. \A b \in B : upTo(A)[b] = g[b] /\ upTo(A)[b] \in Int
  BY <1>0, SumType DEF RowSums
<1>6. SumFunctionOnSet(upTo(A), B) = SumFunctionOnSet(g, B)
  <2>1. Ints(upTo(A), B)
    BY <1>5 DEF Ints
  <2> HIDE DEF upTo
  <2> QED BY <1>5, <2>1, SumEqual
<1> QED BY <1>4, <1>6

\* A sum of as many equal terms as a part has elements
LEMMA SumConstant ==
  ASSUME NEW S, IsFiniteSet(S), NEW T \in SUBSET S, NEW k \in Nat, NEW f,
         \A x \in S : f[x] = IF x \in T THEN k ELSE 0
  PROVE  SumFunctionOnSet(f, S) = k * Cardinality(T)
<1> DEFINE G == {U \in SUBSET S : SumFunctionOnSet(f, U) = k * Cardinality(U \cap T)}
<1>1. {} \in G
  <2>1. SumFunctionOnSet(f, {}) = 0 BY SumEmpty
  <2>2. {} \cap T = {} /\ Cardinality({}) = 0 BY FS_EmptySet
  <2> QED BY <2>1, <2>2
<1>2. ASSUME NEW U \in SUBSET S, NEW e \in S \ U, U \in G PROVE U \cup {e} \in G
  <2>1. IsFiniteSet(U) /\ IsFiniteSet(U \cap T) /\ Ints(f, U \cup {e}) BY FS_Subset DEF Ints
  <2>2. SumFunctionOnSet(f, U \cup {e}) = f[e] + SumFunctionOnSet(f, U) BY <1>2, <2>1, SumAdd
  <2>3. SumFunctionOnSet(f, U) = k * Cardinality(U \cap T) BY <1>2
  <2>4. Cardinality(U \cap T) \in Nat BY <2>1, FS_CardinalityType
  <2>5. CASE e \in T
    <3>1. (U \cup {e}) \cap T = (U \cap T) \cup {e} BY <2>5
    <3>2. Cardinality((U \cap T) \cup {e}) = Cardinality(U \cap T) + 1
      BY <1>2, <2>1, FS_AddElement
    <3>3. k * (Cardinality(U \cap T) + 1) = k + k * Cardinality(U \cap T) BY <2>4
    <3>4. f[e] = k BY <2>5
    <3> HIDE DEF G
    <3>5. SumFunctionOnSet(f, U \cup {e}) = k * Cardinality((U \cup {e}) \cap T)
      BY <2>2, <2>3, <3>1, <3>2, <3>3, <3>4
    <3> QED BY <3>5 DEF G
  <2>6. CASE e \notin T
    <3>1. (U \cup {e}) \cap T = U \cap T BY <2>6
    <3>2. f[e] = 0 BY <2>6
    <3>3. k * Cardinality(U \cap T) \in Int BY <2>4
    <3>4. f[e] + k * Cardinality(U \cap T) = k * Cardinality(U \cap T) BY <3>2, <3>3
    <3> HIDE DEF G
    <3>5. SumFunctionOnSet(f, U \cup {e}) = k * Cardinality((U \cup {e}) \cap T)
      BY <2>2, <2>3, <3>1, <3>4, Zenon
    <3> QED BY <3>5 DEF G
  <2> QED BY <2>5, <2>6
<1> HIDE DEF G
<1>3. S \in G BY <1>1, <1>2, FiniteInduction
<1>4. S \cap T = T OBVIOUS
<1> QED BY <1>3, <1>4 DEF G

=============================================================================
