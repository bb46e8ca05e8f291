-------------------------- MODULE ZapfLobbyProofs ---------------------------
(***************************************************************************)
(* Facts about the operators of ZapfLobby, for every lobby account: what   *)
(* the instructions make of it, that there is a winner to divide by, and   *)
(* that the split of the pot is exact.  The proofs about the program and   *)
(* about the server rest on them.                                          *)
(*                                                                         *)
(* And facts about SumFunctionOnSet, the sum of the values a function has  *)
(* on a finite set: lamports of all wallets, of all vaults, of all         *)
(* winners.  The community module defines the sum by a recursive function  *)
(* over the subsets, which takes the elements in an order CHOOSE picks.    *)
(* Here it is shown that this function exists and that the order does not  *)
(* matter.                                                                 *)
(***************************************************************************)
EXTENDS ZapfLobby, Functions, FiniteSetTheorems, WellFoundedInduction, TLAPS

-----------------------------------------------------------------------------
(* Least elements and induction over the subsets of a finite set *)

\* A non-empty set of naturals has a least element.
LEMMA LeastNatural ==
  ASSUME NEW S, S \subseteq Nat, S # {}
  PROVE  \E m \in S : \A n \in S : m =< n
<1> DEFINE R == OpToRel(<, Nat)
<1>1. IsWellFoundedOn(R, Nat)
  BY NatLessThanWellFounded
<1>2. PICK m \in S : \A n \in S : ~ (<< n, m >> \in R)
  <2> HIDE DEF R
  <2> QED BY <1>1, WFMin
<1>3. \A n \in S : ~ (n < m)
  BY <1>2 DEF OpToRel
<1> QED BY <1>3

\* A set of subsets that contains a subset as soon as it contains what is left
\* of it without any one of its elements, contains every subset.
LEMMA SubsetInduction ==
  ASSUME NEW S, IsFiniteSet(S), NEW G,
         \A T \in SUBSET S : (\A x \in T : T \ {x} \in G) => T \in G
  PROVE  SUBSET S \subseteq G
<1> DEFINE Bad == { T \in SUBSET S : T \notin G }
           Sizes == { Cardinality(T) : T \in Bad }
<1>1. \A T \in SUBSET S : IsFiniteSet(T) /\ Cardinality(T) \in Nat
  BY FS_Subset, FS_CardinalityType
<1>2. ASSUME Bad # {}
      PROVE  FALSE
  <2>1. Sizes \subseteq Nat /\ Sizes # {}
    BY <1>1, <1>2
  <2>2. PICK m \in Sizes : \A n \in Sizes : m =< n
    <3> HIDE DEF Sizes
    <3> QED BY <2>1, LeastNatural
  <2>3. PICK T \in Bad : Cardinality(T) = m
    OBVIOUS
  <2>4. PICK x \in T : T \ {x} \notin G
    OBVIOUS
  <2>5. Cardinality(T \ {x}) = m - 1
    <3>1. Cardinality(T \ {x}) = IF x \in T THEN Cardinality(T) - 1 ELSE Cardinality(T)
      BY <1>1, FS_RemoveElement
    <3> QED BY <2>3, <3>1
  <2>6. T \ {x} \in Bad
    BY <2>4
  <2>7. Cardinality(T \ {x}) \in Sizes
    BY <2>6
  <2> HIDE DEF Sizes
  <2> QED BY <2>1, <2>2, <2>5, <2>7
<1> QED BY <1>2

-----------------------------------------------------------------------------
(* The recursive function behind the sum *)

\* The element the sum takes first.
Taken(s) == CHOOSE x \in s : TRUE

\* g is the recursive function that sums f over the subsets of S.
Sums(g, f, S) ==
  g = [ s \in SUBSET S |-> IF s = {} THEN 0 ELSE f[Taken(s)] + g[s \ {Taken(s)}] ]

\* The sum is that function's value, if it exists.
LEMMA SumUnfolded ==
  ASSUME NEW f, NEW S
  PROVE  SumFunctionOnSet(f, S) = (CHOOSE g : Sums(g, f, S))[S]
BY Zenon DEF SumFunctionOnSet, FoldFunctionOnSet, MapThenFoldSet, Sums, Taken

\* What the function does on one subset.
LEMMA SumsOn ==
  ASSUME NEW f, NEW S, NEW g, Sums(g, f, S), NEW s \in SUBSET S
  PROVE  /\ s = {} => g[s] = 0
         /\ s # {} => /\ Taken(s) \in s
                      /\ s \ {Taken(s)} \in SUBSET S
                      /\ g[s] = f[Taken(s)] + g[s \ {Taken(s)}]
<1>1. s # {} => Taken(s) \in s
  BY DEF Taken
<1>2. g[s] = IF s = {} THEN 0 ELSE f[Taken(s)] + g[s \ {Taken(s)}]
  BY Zenon DEF Sums
<1> QED BY <1>1, <1>2

\* The function for a set has that for a part as its restriction.
LEMMA SumsAgree ==
  ASSUME NEW f, NEW T, NEW S \in SUBSET T, IsFiniteSet(S),
         NEW g, Sums(g, f, T), NEW h, Sums(h, f, S)
  PROVE  g[S] = h[S]
<1> DEFINE G == { s \in SUBSET S : g[s] = h[s] }
<1>1. ASSUME NEW s \in SUBSET S, \A x \in s : s \ {x} \in G
      PROVE  s \in G
  <2>1. CASE s = {}
    BY <2>1, SumsOn
  <2>2. CASE s # {}
    <3>1. /\ Taken(s) \in s
          /\ g[s] = f[Taken(s)] + g[s \ {Taken(s)}]
          /\ h[s] = f[Taken(s)] + h[s \ {Taken(s)}]
      BY <2>2, SumsOn
    <3> QED BY <1>1, <3>1
  <2> QED BY <2>1, <2>2
<1>2. SUBSET S \subseteq G
  <2> HIDE DEF G
  <2> QED BY <1>1, SubsetInduction
<1> QED BY <1>2

\* The function exists for every finite set: its value on a subset is the sum
\* over what is left of it, plus what was taken.
LEMMA SumsExist ==
  ASSUME NEW f, NEW S, IsFiniteSet(S)
  PROVE  \E g : Sums(g, f, S)
<1> DEFINE Good == { T \in SUBSET S : \A s \in SUBSET T : \E g : Sums(g, f, s) }
           Sum(s) == (CHOOSE g : Sums(g, f, s))[s]
<1>1. ASSUME NEW T \in SUBSET S, \A x \in T : T \ {x} \in Good
      PROVE  T \in Good
  \* Everything smaller has its function.
  <2>1. ASSUME NEW s \in SUBSET T, s # T
        PROVE  Sums(CHOOSE g : Sums(g, f, s), f, s)
    <3>1. PICK x \in T : x \notin s
      BY <2>1
    <3>2. s \in SUBSET (T \ {x}) /\ T \ {x} \in Good
      BY <1>1, <2>1, <3>1
    <3>3. \E g : Sums(g, f, s)
      BY <3>2
    <3> QED BY <3>3, Zenon
  <2>2. ASSUME NEW s \in SUBSET T, s # T
        PROVE  Sum(s) = IF s = {} THEN 0 ELSE f[Taken(s)] + Sum(s \ {Taken(s)})
    <3> DEFINE g == CHOOSE g : Sums(g, f, s)
               r == s \ {Taken(s)}
               h == CHOOSE h : Sums(h, f, r)
    <3>1. Sums(g, f, s)
      BY <2>1, <2>2
    <3>2. CASE s = {}
      <4> HIDE DEF g
      <4>1. g[s] = 0
        BY <3>1, <3>2, SumsOn
      <4> QED BY <3>2, <4>1 DEF g
    <3>3. CASE s # {}
      <4> HIDE DEF g, h
      <4>1. Taken(s) \in s /\ g[s] = f[Taken(s)] + g[r]
        BY <3>1, <3>3, SumsOn
      <4>2. r \in SUBSET T /\ r # T /\ r \in SUBSET s
        BY <2>2, <4>1
      <4>3. Sums(h, f, r)
        <5> HIDE DEF r
        <5> QED BY <2>1, <4>2 DEF h
      <4>4. IsFiniteSet(r)
        BY <1>1, <4>2, FS_Subset
      <4>5. g[r] = h[r]
        <5> HIDE DEF r
        <5> QED BY <3>1, <4>2, <4>3, <4>4, SumsAgree
      <4>6. Sum(s) = g[s] /\ Sum(r) = h[r]
        BY DEF g, h
      <4> HIDE DEF Sum, r
      <4>7. Sum(s) = f[Taken(s)] + Sum(r)
        BY <4>1, <4>5, <4>6
      <4> QED BY <3>3, <4>7 DEF r
    <3> QED BY <3>2, <3>3
  <2>3. \E g : Sums(g, f, T)
    <3> DEFINE whole == [ s \in SUBSET T |->
                            IF s = {} THEN 0 ELSE f[Taken(s)] + Sum(s \ {Taken(s)}) ]
    <3> HIDE DEF Sum
    <3>1. ASSUME NEW s \in SUBSET T, s # {}
          PROVE  whole[s \ {Taken(s)}] = Sum(s \ {Taken(s)})
      <4>1. Taken(s) \in s
        BY <3>1 DEF Taken
      <4>2. s \ {Taken(s)} \in SUBSET T /\ s \ {Taken(s)} # T
        BY <4>1
      <4> QED BY <2>2, <4>2
    <3>2. whole = [ s \in SUBSET T |->
                      IF s = {} THEN 0 ELSE f[Taken(s)] + whole[s \ {Taken(s)}] ]
      BY <3>1
    <3> HIDE DEF whole
    <3> QED BY <3>2 DEF Sums
  <2>4. \A s \in SUBSET T : \E g : Sums(g, f, s)
    BY <2>1, <2>3
  <2> QED BY <2>4
<1>2. SUBSET S \subseteq Good
  <2> HIDE DEF Good
  <2> QED BY <1>1, SubsetInduction
<1> QED BY <1>2

\* The sum over nothing is 0, any other sum is what is taken first and the rest.
LEMMA SumTaken ==
  ASSUME NEW f, NEW S, IsFiniteSet(S)
  PROVE  /\ S = {} => SumFunctionOnSet(f, S) = 0
         /\ S # {} => /\ Taken(S) \in S
                      /\ SumFunctionOnSet(f, S) =
                           f[Taken(S)] + SumFunctionOnSet(f, S \ {Taken(S)})
<1> DEFINE g == CHOOSE g : Sums(g, f, S)
           r == S \ {Taken(S)}
           h == CHOOSE h : Sums(h, f, r)
<1>1. Sums(g, f, S) /\ SumFunctionOnSet(f, S) = g[S]
  BY SumsExist, SumUnfolded, Zenon
<1>2. IsFiniteSet(r)
  BY FS_Subset
<1>3. Sums(h, f, r) /\ SumFunctionOnSet(f, r) = h[r]
  <2> HIDE DEF r
  <2> QED BY <1>2, SumsExist, SumUnfolded, Zenon
<1> HIDE DEF g, h
<1>4. CASE S = {}
  BY <1>1, <1>4, SumsOn
<1>5. CASE S # {}
  <2>1. Taken(S) \in S /\ g[S] = f[Taken(S)] + g[r]
    BY <1>1, <1>5, SumsOn
  <2>2. g[r] = h[r]
    <3>1. r \in SUBSET S
      OBVIOUS
    <3> HIDE DEF r
    <3> QED BY <1>1, <1>2, <1>3, <3>1, SumsAgree
  <2> QED BY <1>1, <1>3, <1>5, <2>1, <2>2
<1> QED BY <1>4, <1>5

-----------------------------------------------------------------------------
(* What a sum is *)

\* A sum of integers is an integer, a sum of naturals a natural.
LEMMA SumTyped ==
  ASSUME NEW f, NEW S, IsFiniteSet(S), \A x \in S : f[x] \in Int
  PROVE  /\ SumFunctionOnSet(f, S) \in Int
         /\ (\A x \in S : f[x] >= 0) => SumFunctionOnSet(f, S) \in Nat
<1> DEFINE G == { s \in SUBSET S : SumFunctionOnSet(f, s) \in Int }
           N == { s \in SUBSET S : SumFunctionOnSet(f, s) \in Nat }
<1>1. ASSUME NEW s \in SUBSET S
      PROVE  /\ s = {} => SumFunctionOnSet(f, s) = 0
             /\ s # {} => /\ Taken(s) \in s
                          /\ SumFunctionOnSet(f, s) =
                               f[Taken(s)] + SumFunctionOnSet(f, s \ {Taken(s)})
  BY FS_Subset, SumTaken
<1>2. SUBSET S \subseteq G
  <2>1. ASSUME NEW s \in SUBSET S, \A x \in s : s \ {x} \in G
        PROVE  s \in G
    <3>1. CASE s = {}
      <4>1. SumFunctionOnSet(f, s) = 0
        BY <1>1, <3>1
      <4> QED BY <4>1
    <3>2. CASE s # {}
      <4>1. f[Taken(s)] \in Int /\ SumFunctionOnSet(f, s \ {Taken(s)}) \in Int
        BY <1>1, <2>1, <3>2
      <4> QED BY <1>1, <3>2, <4>1
    <3> QED BY <3>1, <3>2
  <2> HIDE DEF G
  <2> QED BY <2>1, SubsetInduction
<1>3. ASSUME \A x \in S : f[x] >= 0
      PROVE  SUBSET S \subseteq N
  <2>1. ASSUME NEW s \in SUBSET S, \A x \in s : s \ {x} \in N
        PROVE  s \in N
    <3>1. CASE s = {}
      <4>1. SumFunctionOnSet(f, s) = 0
        BY <1>1, <3>1
      <4> QED BY <4>1
    <3>2. CASE s # {}
      <4>1. f[Taken(s)] \in Nat /\ SumFunctionOnSet(f, s \ {Taken(s)}) \in Nat
        BY <1>1, <1>3, <2>1, <3>2
      <4> QED BY <1>1, <3>2, <4>1
    <3> QED BY <3>1, <3>2
  <2> HIDE DEF N
  <2> QED BY <2>1, SubsetInduction
<1> QED BY <1>2, <1>3

\* The order does not matter: any element can be taken out of the sum.
LEMMA SumPart ==
  ASSUME NEW f, NEW S, IsFiniteSet(S), \A x \in S : f[x] \in Int, NEW x \in S
  PROVE  SumFunctionOnSet(f, S) = f[x] + SumFunctionOnSet(f, S \ {x})
<1> DEFINE Sum(s) == SumFunctionOnSet(f, s)
           G == { s \in SUBSET S : \A y \in s : Sum(s) = f[y] + Sum(s \ {y}) }
<1>1. ASSUME NEW s \in SUBSET S
      PROVE  /\ Sum(s) \in Int
             /\ s # {} => Taken(s) \in s /\ Sum(s) = f[Taken(s)] + Sum(s \ {Taken(s)})
  BY FS_Subset, SumTaken, SumTyped
<1> HIDE DEF Sum
<1>2. ASSUME NEW s \in SUBSET S, \A y \in s : s \ {y} \in G
      PROVE  s \in G
  <2> SUFFICES ASSUME NEW y \in s
               PROVE  Sum(s) = f[y] + Sum(s \ {y})
    OBVIOUS
  <2> DEFINE t == Taken(s)
  <2>1. t \in s /\ Sum(s) = f[t] + Sum(s \ {t})
    BY <1>1
  <2> HIDE DEF t
  <2>2. CASE t = y
    BY <2>1, <2>2
  <2>3. CASE t # y
    <3>1. Sum(s \ {t}) = f[y] + Sum((s \ {t}) \ {y})
      BY <1>2, <2>1, <2>3
    <3>2. Sum(s \ {y}) = f[t] + Sum((s \ {y}) \ {t})
      BY <1>2, <2>1, <2>3
    <3>3. Sum((s \ {t}) \ {y}) = Sum((s \ {y}) \ {t})
      <4>1. (s \ {t}) \ {y} = (s \ {y}) \ {t}
        OBVIOUS
      <4> QED BY <4>1, Zenon
    <3>4. /\ f[t] \in Int /\ f[y] \in Int
          /\ Sum((s \ {y}) \ {t}) \in Int
      BY <1>1, <2>1
    <3> QED BY <2>1, <3>1, <3>2, <3>3, <3>4
  <2> QED BY <2>2, <2>3
<1>3. SUBSET S \subseteq G
  <2> HIDE DEF G
  <2> QED BY <1>2, SubsetInduction
<1> QED BY <1>3 DEF Sum

\* Only the values on the set count.
LEMMA SumSame ==
  ASSUME NEW f, NEW h, NEW S, IsFiniteSet(S), \A x \in S : f[x] = h[x]
  PROVE  SumFunctionOnSet(f, S) = SumFunctionOnSet(h, S)
<1> DEFINE G == { s \in SUBSET S : SumFunctionOnSet(f, s) = SumFunctionOnSet(h, s) }
<1>1. ASSUME NEW s \in SUBSET S
      PROVE  \A g \in {f, h} :
               /\ s = {} => SumFunctionOnSet(g, s) = 0
               /\ s # {} => /\ Taken(s) \in s
                            /\ SumFunctionOnSet(g, s) =
                                 g[Taken(s)] + SumFunctionOnSet(g, s \ {Taken(s)})
  BY FS_Subset, SumTaken
<1>2. ASSUME NEW s \in SUBSET S, \A x \in s : s \ {x} \in G
      PROVE  s \in G
  <2>1. CASE s = {}
    BY <1>1, <2>1
  <2>2. CASE s # {}
    <3>1. /\ SumFunctionOnSet(f, s \ {Taken(s)}) = SumFunctionOnSet(h, s \ {Taken(s)})
          /\ f[Taken(s)] = h[Taken(s)]
      BY <1>1, <1>2, <2>2
    <3> QED BY <1>1, <2>2, <3>1
  <2> QED BY <2>1, <2>2
<1>3. SUBSET S \subseteq G
  <2> HIDE DEF G
  <2> QED BY <1>2, SubsetInduction
<1> QED BY <1>3

\* The sum of sums is the sum of both.
LEMMA SumAdds ==
  ASSUME NEW f, NEW g, NEW h, NEW S, IsFiniteSet(S),
         \A x \in S : f[x] \in Int /\ g[x] \in Int /\ h[x] = f[x] + g[x]
  PROVE  SumFunctionOnSet(h, S) = SumFunctionOnSet(f, S) + SumFunctionOnSet(g, S)
<1> DEFINE G == { s \in SUBSET S :
                    SumFunctionOnSet(h, s) = SumFunctionOnSet(f, s) + SumFunctionOnSet(g, s) }
<1>1. ASSUME NEW s \in SUBSET S
      PROVE  /\ SumFunctionOnSet(f, s) \in Int /\ SumFunctionOnSet(g, s) \in Int
             /\ \A k \in {f, g, h} :
                  /\ s = {} => SumFunctionOnSet(k, s) = 0
                  /\ s # {} => /\ Taken(s) \in s
                               /\ SumFunctionOnSet(k, s) =
                                    k[Taken(s)] + SumFunctionOnSet(k, s \ {Taken(s)})
  BY FS_Subset, SumTaken, SumTyped
<1>2. ASSUME NEW s \in SUBSET S, \A x \in s : s \ {x} \in G
      PROVE  s \in G
  <2>1. CASE s = {}
    <3>1. /\ SumFunctionOnSet(f, s) = 0 /\ SumFunctionOnSet(g, s) = 0
          /\ SumFunctionOnSet(h, s) = 0
      BY <1>1, <2>1
    <3> QED BY <3>1
  <2>2. CASE s # {}
    <3> DEFINE t == Taken(s)
               r == s \ {t}
    <3>1. t \in s /\ r \in SUBSET S /\ r \in G
      BY <1>1, <1>2, <2>2
    <3>2. /\ SumFunctionOnSet(f, s) = f[t] + SumFunctionOnSet(f, r)
          /\ SumFunctionOnSet(g, s) = g[t] + SumFunctionOnSet(g, r)
          /\ SumFunctionOnSet(h, s) = h[t] + SumFunctionOnSet(h, r)
      BY <1>1, <2>2
    <3>3. SumFunctionOnSet(h, r) = SumFunctionOnSet(f, r) + SumFunctionOnSet(g, r)
      BY <3>1
    <3>4. SumFunctionOnSet(f, r) \in Int /\ SumFunctionOnSet(g, r) \in Int
      BY <1>1, <3>1
    <3>5. f[t] \in Int /\ g[t] \in Int /\ h[t] = f[t] + g[t]
      BY <3>1
    <3> HIDE DEF t, r
    <3> QED BY <3>2, <3>3, <3>4, <3>5
  <2> QED BY <2>1, <2>2
<1>3. SUBSET S \subseteq G
  <2> HIDE DEF G
  <2> QED BY <1>2, SubsetInduction
<1> QED BY <1>3

\* What changes on one element changes the sum by as much.
LEMMA SumChanged ==
  ASSUME NEW f, NEW h, NEW S, IsFiniteSet(S), NEW x \in S,
         \A y \in S : f[y] \in Int /\ h[y] \in Int,
         \A y \in S \ {x} : h[y] = f[y]
  PROVE  SumFunctionOnSet(h, S) = SumFunctionOnSet(f, S) - f[x] + h[x]
<1>1. /\ SumFunctionOnSet(f, S) = f[x] + SumFunctionOnSet(f, S \ {x})
      /\ SumFunctionOnSet(h, S) = h[x] + SumFunctionOnSet(h, S \ {x})
  BY SumPart
<1>2. IsFiniteSet(S \ {x})
  BY FS_Subset
<1>3. SumFunctionOnSet(f, S \ {x}) = SumFunctionOnSet(h, S \ {x})
      /\ SumFunctionOnSet(f, S \ {x}) \in Int
  BY <1>2, SumSame, SumTyped
<1> QED BY <1>1, <1>3

\* A set with one element more.
LEMMA SumExtended ==
  ASSUME NEW f, NEW S, IsFiniteSet(S), NEW x, x \notin S, \A y \in S \cup {x} : f[y] \in Int
  PROVE  SumFunctionOnSet(f, S \cup {x}) = SumFunctionOnSet(f, S) + f[x]
<1>1. IsFiniteSet(S \cup {x})
  BY FS_AddElement
<1>2. SumFunctionOnSet(f, S \cup {x}) = f[x] + SumFunctionOnSet(f, (S \cup {x}) \ {x})
  BY <1>1, SumPart
<1>3. SumFunctionOnSet(f, (S \cup {x}) \ {x}) = SumFunctionOnSet(f, S)
  <2>1. (S \cup {x}) \ {x} = S
    OBVIOUS
  <2> QED BY <2>1, Zenon
<1>4. SumFunctionOnSet(f, S) \in Int
  BY SumTyped
<1>5. f[x] \in Int
  OBVIOUS
<1> QED BY <1>2, <1>3, <1>4, <1>5

\* The same amount for each element of a part, and nothing for the others.
LEMMA SumShared ==
  ASSUME NEW f, NEW S, IsFiniteSet(S), NEW A \in SUBSET S, NEW k \in Int,
         \A x \in S : f[x] = IF x \in A THEN k ELSE 0
  PROVE  /\ SumFunctionOnSet(f, S) = k * Cardinality(A)
         /\ SumFunctionOnSet(f, A) = k * Cardinality(A)
<1> DEFINE G == { s \in SUBSET S : SumFunctionOnSet(f, s) = k * Cardinality(s \cap A) }
<1>1. ASSUME NEW s \in SUBSET S, \A x \in s : s \ {x} \in G
      PROVE  s \in G
  <2>1. IsFiniteSet(s) /\ IsFiniteSet(s \cap A) /\ Cardinality(s \cap A) \in Nat
    BY FS_Subset, FS_CardinalityType
  <2>2. CASE s = {}
    <3>1. Cardinality(s \cap A) = 0
      <4>1. s \cap A = {}
        BY <2>2
      <4> QED BY <4>1, FS_EmptySet, Zenon
    <3>2. SumFunctionOnSet(f, s) = 0
      BY <2>1, <2>2, SumTaken
    <3>3. k * 0 = 0
      OBVIOUS
    <3> QED BY <3>1, <3>2, <3>3
  <2>3. CASE s # {}
    <3> DEFINE t == Taken(s)
               r == s \ {t}
    <3>1. t \in s /\ SumFunctionOnSet(f, s) = f[t] + SumFunctionOnSet(f, r)
      BY <2>1, <2>3, SumTaken
    <3>2. SumFunctionOnSet(f, r) = k * Cardinality(r \cap A)
      BY <1>1, <3>1
    <3> HIDE DEF t
    <3>3. CASE t \in A
      <4>1. r \cap A = (s \cap A) \ {t} /\ t \in s \cap A
        BY <3>1, <3>3
      <4>2. Cardinality(r \cap A) = Cardinality(s \cap A) - 1
        <5>1. Cardinality((s \cap A) \ {t}) = Cardinality(s \cap A) - 1
          BY <2>1, <4>1, FS_RemoveElement
        <5>2. Cardinality(r \cap A) = Cardinality((s \cap A) \ {t})
          BY <4>1, Zenon
        <5> HIDE DEF r
        <5> QED BY <5>1, <5>2
      <4>3. f[t] = k
        BY <3>1, <3>3
      <4> DEFINE c == Cardinality(s \cap A)
      <4>4. k * (c - 1) + k = k * c
        <5>1. c \in Nat
          BY <2>1
        <5> HIDE DEF c
        <5> QED BY <5>1
      <4>5. SumFunctionOnSet(f, s) = k + k * (c - 1)
        BY <3>1, <3>2, <4>2, <4>3
      <4>6. SumFunctionOnSet(f, s) = k * c
        <5>1. c \in Nat
          BY <2>1
        <5> HIDE DEF c
        <5> QED BY <4>5, <5>1
      <4> QED BY <4>6
    <3>4. CASE t \notin A
      <4>1. Cardinality(r \cap A) = Cardinality(s \cap A)
        <5>1. r \cap A = s \cap A
          BY <3>4
        <5> QED BY <5>1, Zenon
      <4>2. f[t] = 0
        BY <3>1, <3>4
      <4>3. k * Cardinality(s \cap A) \in Int
        BY <2>1
      <4> QED BY <3>1, <3>2, <4>1, <4>2, <4>3
    <3> QED BY <3>3, <3>4
  <2> QED BY <2>2, <2>3
<1>2. SUBSET S \subseteq G
  <2> HIDE DEF G
  <2> QED BY <1>1, SubsetInduction
<1>3. S \cap A = A /\ A \cap A = A /\ S \in SUBSET S
  OBVIOUS
<1> QED BY <1>2, <1>3

\* Zeros can be left out.
LEMMA SumPositive ==
  ASSUME NEW f, NEW S, IsFiniteSet(S), NEW A \in SUBSET S,
         \A x \in S : f[x] \in Int, \A x \in S \ A : f[x] = 0
  PROVE  SumFunctionOnSet(f, S) = SumFunctionOnSet(f, A)
<1> DEFINE G == { s \in SUBSET S : SumFunctionOnSet(f, s) = SumFunctionOnSet(f, s \cap A) }
<1>1. ASSUME NEW s \in SUBSET S, \A x \in s : s \ {x} \in G
      PROVE  s \in G
  <2>1. /\ IsFiniteSet(s) /\ IsFiniteSet(s \cap A)
        /\ \A x \in s : f[x] \in Int
        /\ \A x \in s \cap A : f[x] \in Int
    BY FS_Subset
  <2>2. CASE s \subseteq A
    <3>1. s \cap A = s
      BY <2>2
    <3> QED BY <3>1
  <2>3. ASSUME NEW x \in s, x \notin A
        PROVE  s \in G
    <3>1. SumFunctionOnSet(f, s) = f[x] + SumFunctionOnSet(f, s \ {x})
      BY <2>1, SumPart
    <3>2. SumFunctionOnSet(f, s \ {x}) = SumFunctionOnSet(f, s \cap A)
      <4>1. s \ {x} \in G
        BY <1>1
      <4>2. (s \ {x}) \cap A = s \cap A
        BY <2>3
      <4> QED BY <4>1, <4>2
    <3>3. f[x] = 0 /\ SumFunctionOnSet(f, s \cap A) \in Int
      BY <2>1, <2>3, SumTyped
    <3> QED BY <3>1, <3>2, <3>3
  <2> QED BY <2>2, <2>3
<1>2. SUBSET S \subseteq G
  <2> HIDE DEF G
  <2> QED BY <1>1, SubsetInduction
<1>3. S \cap A = A
  OBVIOUS
<1> QED BY <1>2, <1>3


-----------------------------------------------------------------------------
(* Arithmetic *)

\* Division with rest, as settle_lobby splits the payout pool.
LEMMA DivisionWithRest ==
  ASSUME NEW a \in Nat, NEW n \in Nat, n > 0
  PROVE  /\ a \div n \in Nat
         /\ a % n \in 0 .. n - 1
         /\ n * (a \div n) + (a % n) = a
OBVIOUS

\* Products of lamports are lamports: pot, fee and payouts are built from them.
LEMMA ProductIsNat == \A a, b \in Nat : a * b \in Nat
OBVIOUS

-----------------------------------------------------------------------------
(* Operators of ZapfLobby *)

\* An occupied seat holds a well-typed entry.
LEMMA EntryTyped ==
  ASSUME NEW l \in Lobby
  PROVE  /\ Len(l.players) \in Nat
         /\ Seats(l) = 1 .. Len(l.players)
         /\ \A i \in Seats(l) : l.players[i] \in PlayerEntry
<1>1. l.players \in Seq(PlayerEntry)
  BY DEF Lobby
<1> QED BY <1>1 DEF Seats

\* The score of a reported result is a number, so the best one exists.
LEMMA ScoreIsNat ==
  ASSUME NEW l \in Lobby, NEW i \in Seats(l)
  PROVE  Score(l, i) \in Nat
<1>1. l.players[i].poured_ml \in Nat
  <2>1. l.players[i] \in PlayerEntry
    BY EntryTyped
  <2> QED BY <2>1, LobbyNumbers DEF PlayerEntry
<1>2. l.target_ml \in Nat
  BY DEF Lobby, TargetLines
<1> QED BY <1>1, <1>2, LobbyNumbers DEF Score

\* settle_lobby always finds a winner in a lobby with a player, so it never
\* divides by zero (settle_lobby.rs:90).
LEMMA WinnersExist ==
  ASSUME NEW l \in Lobby, Len(l.players) > 0
  PROVE  /\ IsFiniteSet(WinnerIndices(l))
         /\ Cardinality(WinnerIndices(l)) \in Nat
         /\ Cardinality(WinnerIndices(l)) > 0
<1> DEFINE W == WinnerIndices(l)
           Scores == { Score(l, i) : i \in Seats(l) }
<1>1. Len(l.players) \in Nat /\ Seats(l) = 1 .. Len(l.players)
  BY EntryTyped
<1>2. Scores \subseteq Nat /\ Scores # {}
  <2>1. \A i \in Seats(l) : Score(l, i) \in Nat
    BY ScoreIsNat
  <2>2. 1 \in Seats(l)
    BY <1>1
  <2> QED BY <2>1, <2>2
<1>3. PICK m \in Scores : \A s \in Scores : m =< s
  <2> HIDE DEF Scores
  <2> QED BY <1>2, LeastNatural
<1>4. W # {}
  BY <1>3 DEF WinnerIndices
<1>5. IsFiniteSet(Seats(l))
  BY <1>1, FS_Interval
<1>6. IsFiniteSet(W)
  <2>1. W \in SUBSET Seats(l)
    BY DEF WinnerIndices
  <2> HIDE DEF W
  <2> QED BY <1>5, <2>1, FS_Subset
<1>7. Cardinality(W) \in Nat /\ Cardinality(W) # 0
  <2> HIDE DEF W
  <2> QED BY <1>4, <1>6, FS_CardinalityType, FS_EmptySet
<1> QED BY <1>6, <1>7

\* Fee, shares and rest of a settlement add up to the pot exactly: the
\* invariant the comment at settle_lobby.rs:105 states.
LEMMA SplitIsExact ==
  ASSUME NEW l \in Lobby, Len(l.players) > 0, NEW f \in 0 .. MAX_FEE_BPS
  PROVE  /\ Pot(l) \in Nat
         /\ FeeOf(l, f) \in 0 .. Pot(l)
         /\ Share(l, f) \in Nat
         /\ Remainder(l, f) \in Nat
         /\ TotalPaid(l, f) = Pot(l)
<1> DEFINE n == Cardinality(WinnerIndices(l))
<1>1. l.entry_fee \in Nat /\ l.size \in Nat
  BY LobbyNumbers DEF Lobby, MIN_LOBBY_SIZE, MAX_LOBBY_SIZE
<1>2. Pot(l) \in Nat
  BY <1>1, ProductIsNat DEF Pot
<1>3. FeeOf(l, f) \in 0 .. Pot(l)
  <2> DEFINE p == Pot(l)
  <2>1. p \in Nat /\ f \in Nat /\ f =< 1000
    BY <1>2 DEF MAX_FEE_BPS
  <2>2. p * f =< p * 1000 /\ p * f \in Nat
    <3> HIDE DEF p
    <3> QED BY <2>1, SMT
  <2>3. (p * f) \div 10000 \in 0 .. p
    <3> DEFINE q == p * f
    <3>1. q \in Nat /\ q =< p * 1000
      BY <2>2
    <3> HIDE DEF q, p
    <3> QED BY <2>1, <3>1 DEF q
  <2> QED BY <2>3 DEF FeeOf, BPS_DENOMINATOR
<1>4. Pool(l, f) \in Nat
  BY <1>2, <1>3 DEF Pool
<1>5. n \in Nat /\ n > 0
  BY WinnersExist
<1>6. /\ Share(l, f) \in Nat
      /\ Remainder(l, f) \in Nat
      /\ n * Share(l, f) + Remainder(l, f) = Pool(l, f)
  <2> HIDE DEF n
  <2>1. /\ Pool(l, f) \div n \in Nat
        /\ Pool(l, f) % n \in 0 .. n - 1
        /\ n * (Pool(l, f) \div n) + (Pool(l, f) % n) = Pool(l, f)
    BY <1>4, <1>5, DivisionWithRest
  <2> QED BY <1>5, <2>1 DEF Share, Remainder, n
<1>7. TotalPaid(l, f) = Pot(l)
  BY <1>2, <1>3, <1>6 DEF TotalPaid, Pool
<1> QED BY <1>2, <1>3, <1>6, <1>7


\* The fee of a settlement is at most a tenth of the pot, the bound MAX_FEE_BPS
\* puts on it.
LEMMA CommissionBounded ==
  ASSUME NEW l \in Lobby, NEW f \in 0 .. MAX_FEE_BPS
  PROVE  10 * FeeOf(l, f) =< Pot(l)
<1>1. Pot(l) \in Nat
  BY LobbyNumbers, ProductIsNat DEF Lobby, Pot, MIN_LOBBY_SIZE, MAX_LOBBY_SIZE
<1>2. \A p \in Nat : \A g \in 0 .. 1000 : p * g \in Nat /\ p * g =< 1000 * p
  OBVIOUS
<1>3. \A q \in Nat, p \in Nat : q =< 1000 * p => 10 * (q \div 10000) =< p
  OBVIOUS
<1>4. Pot(l) * f \in Nat /\ Pot(l) * f =< 1000 * Pot(l)
  BY <1>1, <1>2 DEF MAX_FEE_BPS
<1> QED BY <1>1, <1>3, <1>4 DEF FeeOf, BPS_DENOMINATOR

-----------------------------------------------------------------------------
(* What the instructions make of a lobby account *)

\* Assigning one field of a lobby a value of its type keeps the lobby typed:
\* one lemma per field, the provers match no more than one update at a time.
LEMMA PlayersAssigned ==
  \A l \in Lobby : \A v \in Seq(PlayerEntry) : [ l EXCEPT !.players = v ] \in Lobby
BY DEF Lobby

\* join_lobby writes joined_count: the lobby stays typed.
LEMMA JoinedCountAssigned ==
  \A l \in Lobby : \A v \in Nat : [ l EXCEPT !.joined_count = v ] \in Lobby
BY DEF Lobby

\* submit_result writes played_count: the lobby stays typed.
LEMMA PlayedCountAssigned ==
  \A l \in Lobby : \A v \in Nat : [ l EXCEPT !.played_count = v ] \in Lobby
BY DEF Lobby

\* The callback, settlement and cancellation write the status: the lobby stays
\* typed.
LEMMA StatusAssigned ==
  \A l \in Lobby : \A v \in LobbyStatus : [ l EXCEPT !.status = v ] \in Lobby
BY DEF Lobby

\* fulfill_round writes the randomness: the lobby stays typed.
LEMMA RandomnessAssigned ==
  \A l \in Lobby : \A v \in RandomBytes : [ l EXCEPT !.randomness = v ] \in Lobby
BY DEF Lobby

\* fulfill_round writes the target line: the lobby stays typed.
LEMMA TargetAssigned ==
  \A l \in Lobby : \A v \in TargetLines : [ l EXCEPT !.target_ml = v ] \in Lobby
BY DEF Lobby

\* fulfill_round writes the pressure: the lobby stays typed.
LEMMA PressureAssigned ==
  \A l \in Lobby : \A v \in Nat : [ l EXCEPT !.pressure_milli = v ] \in Lobby
BY DEF Lobby

\* create_lobby initialises an account of type Lobby, for every size it lets
\* through.
LEMMA NewLobbyTyped ==
  ASSUME NEW size \in MIN_LOBBY_SIZE .. MAX_LOBBY_SIZE, NEW fee \in 0 .. U64_MAX, NEW now \in Nat
  PROVE  NewLobby(size, fee, now) \in Lobby
<1>1. NoRandomness \in RandomBytes
  BY DEF NoRandomness, RandomBytes
<1>2. << >> \in Seq(PlayerEntry)
  OBVIOUS
<1> QED BY <1>1, <1>2 DEF NewLobby, Lobby, LobbyStatus, TargetLines

\* The round derived from the oracle's bytes is one of the three target lines
\* with a pressure that fits its field.
LEMMA FulfilledTyped ==
  ASSUME NEW l \in Lobby, NEW bytes \in RandomBytes
  PROVE  Fulfilled(l, bytes) \in Lobby
<1>1. bytes[0] \in Nat /\ bytes[1] \in Nat /\ bytes[2] \in Nat
  BY DEF RandomBytes
<1>2. TargetOf(bytes) \in TargetLines
  <2>1. bytes[0] % 3 \in 0 .. 2
    BY <1>1
  <2> QED BY <2>1 DEF TargetOf, TARGETS_ML, TargetLines
<1>3. PressureOf(bytes) \in Nat
  <2>1. ((bytes[1] + 256 * bytes[2]) * 500) \div 65535 \in Nat
    BY <1>1
  <2> QED BY <2>1 DEF PressureOf, PRESSURE_MIN_MILLI, PRESSURE_SPAN_MILLI
<1>4. PICK l1 : l1 = [ l EXCEPT !.randomness = bytes ]
  OBVIOUS
<1>5. PICK l2 : l2 = [ l1 EXCEPT !.target_ml = TargetOf(bytes) ]
  OBVIOUS
<1>6. PICK l3 : l3 = [ l2 EXCEPT !.pressure_milli = PressureOf(bytes) ]
  OBVIOUS
<1>7. l1 \in Lobby
  BY <1>4, RandomnessAssigned, Zenon
<1>8. l2 \in Lobby
  BY <1>2, <1>5, <1>7, TargetAssigned, Zenon
<1>9. l3 \in Lobby
  BY <1>3, <1>6, <1>8, PressureAssigned, Zenon
<1>10. [ l3 EXCEPT !.status = "Open" ] \in Lobby
  <2>1. "Open" \in LobbyStatus
    BY DEF LobbyStatus
  <2> QED BY <1>9, <2>1, StatusAssigned, Zenon
<1>11. Fulfilled(l, bytes) = [ l3 EXCEPT !.status = "Open" ]
  BY <1>4, <1>5, <1>6, Zenon DEF Fulfilled
<1> QED BY <1>10, <1>11

\* join_lobby keeps the account typed and adds one entry to its players.
LEMMA JoinedTyped ==
  ASSUME NEW l \in Lobby, NEW key \in Accounts
  PROVE  /\ Joined(l, key) \in Lobby
         /\ Len(Joined(l, key).players) = Len(l.players) + 1
         /\ \A i \in Seats(l) : Joined(l, key).players[i] = l.players[i]
         /\ Joined(l, key).players[Len(l.players) + 1] =
              [ player |-> key, poured_ml |-> 0, has_played |-> FALSE, submission_index |-> 0 ]
<1> DEFINE e == [ player |-> key, poured_ml |-> 0, has_played |-> FALSE, submission_index |-> 0 ]
<1>1. e \in PlayerEntry
  BY LobbyNumbers DEF PlayerEntry
<1>2. l.players \in Seq(PlayerEntry) /\ l.joined_count \in Nat
  BY DEF Lobby
<1> HIDE DEF e
<1>3. /\ Append(l.players, e) \in Seq(PlayerEntry)
      /\ Len(Append(l.players, e)) = Len(l.players) + 1
      /\ \A i \in DOMAIN l.players : Append(l.players, e)[i] = l.players[i]
      /\ Append(l.players, e)[Len(l.players) + 1] = e
  BY <1>1, <1>2
<1>4. Joined(l, key) = [ l EXCEPT !.players = Append(l.players, e),
                                  !.joined_count = l.joined_count + 1 ]
  BY DEF Joined, e
<1>5. Joined(l, key) \in Lobby /\ Joined(l, key).players = Append(l.players, e)
  <2>1. PICK ps : ps = Append(l.players, e)
    OBVIOUS
  <2>2. PICK m : m = [ l EXCEPT !.players = ps ]
    OBVIOUS
  <2>3. ps \in Seq(PlayerEntry) /\ l.joined_count + 1 \in Nat
    BY <1>2, <1>3, <2>1
  <2>4. m \in Lobby
    BY <2>2, <2>3, PlayersAssigned, Zenon
  <2>5. m.players = ps
    BY <2>2 DEF Lobby
  <2>6. Joined(l, key) = [ m EXCEPT !.joined_count = l.joined_count + 1 ]
    BY <1>4, <2>1, <2>2, Zenon
  <2>7. [ m EXCEPT !.joined_count = l.joined_count + 1 ] \in Lobby
    BY <2>3, <2>4, JoinedCountAssigned, Zenon
  <2>8. [ m EXCEPT !.joined_count = l.joined_count + 1 ].players = ps
    BY <2>4, <2>5 DEF Lobby
  <2> QED BY <2>1, <2>6, <2>7, <2>8
<1> QED BY <1>3, <1>5 DEF Seats, e

\* submit_result keeps the entry it writes typed and leaves it with its player.
LEMMA ReportedTyped ==
  ASSUME NEW e \in PlayerEntry, NEW ml \in 0 .. OVERFLOW_SENTINEL, NEW k \in Nat
  PROVE  /\ Reported(e, ml, k) \in PlayerEntry
         /\ Reported(e, ml, k).player = e.player
         /\ Reported(e, ml, k).has_played = TRUE
         /\ Reported(e, ml, k).submission_index = k
BY DEF Reported, PlayerEntry

\* submit_result keeps the account typed and the number of its players.
LEMMA SubmittedTyped ==
  ASSUME NEW l \in Lobby, NEW key \in Accounts, NEW ml \in 0 .. OVERFLOW_SENTINEL
  PROVE  /\ Submitted(l, key, ml) \in Lobby
         /\ Len(Submitted(l, key, ml).players) = Len(l.players)
         /\ \A i \in Seats(l) :
              Submitted(l, key, ml).players[i] =
                IF l.players[i].player = key
                THEN Reported(l.players[i], ml, l.played_count)
                ELSE l.players[i]
<1> DEFINE P == [ i \in Seats(l) |->
                    IF l.players[i].player = key
                    THEN Reported(l.players[i], ml, l.played_count)
                    ELSE l.players[i] ]
<1>1. l.played_count \in Nat
  BY DEF Lobby
<1>2. \A i \in Seats(l) : P[i] \in PlayerEntry
  BY <1>1, EntryTyped, ReportedTyped
<1>3. P \in [ 1 .. Len(l.players) -> PlayerEntry ] /\ Len(l.players) \in Nat
  BY <1>2, EntryTyped
<1>4. P \in Seq(PlayerEntry) /\ Len(P) = Len(l.players)
  <2> HIDE DEF P
  <2> QED BY <1>3
<1>5. Submitted(l, key, ml) = [ l EXCEPT !.players = P, !.played_count = l.played_count + 1 ]
  BY DEF Submitted
<1>6. Submitted(l, key, ml) \in Lobby /\ Submitted(l, key, ml).players = P
  <2> HIDE DEF P
  <2>1. PICK m : m = [ l EXCEPT !.players = P ]
    OBVIOUS
  <2>2. l.played_count + 1 \in Nat
    BY <1>1
  <2>3. m \in Lobby
    BY <1>4, <2>1, PlayersAssigned, Zenon
  <2>4. m.players = P
    BY <2>1 DEF Lobby
  <2>5. Submitted(l, key, ml) = [ m EXCEPT !.played_count = l.played_count + 1 ]
    BY <1>5, <2>1, Zenon
  <2>6. [ m EXCEPT !.played_count = l.played_count + 1 ] \in Lobby
    BY <2>2, <2>3, PlayedCountAssigned, Zenon
  <2>7. [ m EXCEPT !.played_count = l.played_count + 1 ].players = P
    BY <2>3, <2>4 DEF Lobby
  <2> QED BY <2>5, <2>6, <2>7
<1> QED BY <1>4, <1>6


\* Settlement and cancellation change the status alone: the account stays typed
\* and its players stay.
LEMMA StatusChanged ==
  ASSUME NEW l \in Lobby, NEW st \in LobbyStatus
  PROVE  /\ [ l EXCEPT !.status = st ] \in Lobby
         /\ [ l EXCEPT !.status = st ].players = l.players
BY StatusAssigned DEF Lobby

\* What one step can make of an existing lobby: nothing, or what one of the
\* five instructions on it makes, under that instruction's conditions on the
\* lobby itself.
Evolves(l, m) ==
  \/ m = l
  \/ \E bytes \in RandomBytes : CanFulfill(l) /\ m = Fulfilled(l, bytes)
  \/ \E key \in Accounts : CanJoin(l, key) /\ m = Joined(l, key)
  \/ \E key \in Accounts, ml \in 0 .. OVERFLOW_SENTINEL :
       CanSubmit(l, key) /\ m = Submitted(l, key, ml)
  \/ l.status = "Open" /\ m = Settled(l)
  \/ Live(l) /\ m = Cancelled(l)

\* The type of a lobby survives every instruction.
LEMMA EvolvedTyped ==
  ASSUME NEW l \in Lobby, NEW m, Evolves(l, m)
  PROVE  m \in Lobby
<1>1. Settled(l) \in Lobby /\ Cancelled(l) \in Lobby
  BY StatusChanged DEF Settled, Cancelled, LobbyStatus
<1>2. ASSUME NEW bytes \in RandomBytes, m = Fulfilled(l, bytes)
      PROVE  m \in Lobby
  BY <1>2, FulfilledTyped
<1>3. ASSUME NEW key \in Accounts, m = Joined(l, key)
      PROVE  m \in Lobby
  BY <1>3, JoinedTyped
<1>4. ASSUME NEW key \in Accounts, NEW ml \in 0 .. OVERFLOW_SENTINEL, m = Submitted(l, key, ml)
      PROVE  m \in Lobby
  BY <1>4, SubmittedTyped
<1> QED BY <1>1, <1>2, <1>3, <1>4 DEF Evolves


\* The fields an instruction does not assign.
LEMMA FieldsKept ==
  ASSUME NEW l \in Lobby
  PROVE  /\ \A bytes : LET m == Fulfilled(l, bytes)
                       IN /\ m.size = l.size /\ m.entry_fee = l.entry_fee
                          /\ m.created_at = l.created_at /\ m.players = l.players
                          /\ m.joined_count = l.joined_count /\ m.played_count = l.played_count
                          /\ m.status = "Open"
         /\ \A key : LET m == Joined(l, key)
                     IN /\ m.size = l.size /\ m.entry_fee = l.entry_fee
                        /\ m.created_at = l.created_at /\ m.status = l.status
                        /\ m.randomness = l.randomness /\ m.target_ml = l.target_ml
                        /\ m.pressure_milli = l.pressure_milli
                        /\ m.joined_count = l.joined_count + 1
                        /\ m.played_count = l.played_count
         /\ \A key, ml : LET m == Submitted(l, key, ml)
                         IN /\ m.size = l.size /\ m.entry_fee = l.entry_fee
                            /\ m.created_at = l.created_at /\ m.status = l.status
                            /\ m.randomness = l.randomness /\ m.target_ml = l.target_ml
                            /\ m.pressure_milli = l.pressure_milli
                            /\ m.joined_count = l.joined_count
                            /\ m.played_count = l.played_count + 1
         /\ \A st : LET m == [ l EXCEPT !.status = st ]
                    IN /\ m.size = l.size /\ m.entry_fee = l.entry_fee
                       /\ m.created_at = l.created_at /\ m.players = l.players
                       /\ m.randomness = l.randomness /\ m.target_ml = l.target_ml
                       /\ m.pressure_milli = l.pressure_milli
                       /\ m.joined_count = l.joined_count /\ m.played_count = l.played_count
                       /\ m.status = st
BY DEF Fulfilled, Joined, Submitted, Lobby


\* An instruction keeps the terms of a lobby with a stake in it, provided no
\* one has a seat before the round is known.
LEMMA EvolvedKeepsTerms ==
  ASSUME NEW l \in Lobby, NEW m, Evolves(l, m), RosterConsistent(l)
  PROVE  TermsKept(l, m)
<1>1. Len(l.players) \in Nat /\ Seats(l) = 1 .. Len(l.players)
  BY EntryTyped
<1>2. ASSUME NEW bytes \in RandomBytes, CanFulfill(l), m = Fulfilled(l, bytes)
      PROVE  TermsKept(l, m)
  <2>1. l.players = << >> /\ Live(l)
    BY <1>2 DEF CanFulfill, RosterConsistent, Live
  <2> QED BY <1>1, <1>2, <2>1, FieldsKept DEF TermsKept
<1>3. ASSUME NEW key \in Accounts, CanJoin(l, key), m = Joined(l, key)
      PROVE  TermsKept(l, m)
  <2>1. Live(l)
    BY <1>3 DEF CanJoin, Live
  <2>2. Len(m.players) >= Len(l.players) /\ \A i \in Seats(l) : m.players[i] = l.players[i]
    <3>1. /\ Len(m.players) = Len(l.players) + 1
          /\ \A i \in Seats(l) : m.players[i] = l.players[i]
      BY <1>3, JoinedTyped, Zenon
    <3> QED BY <1>1, <3>1
  <2> QED BY <1>3, <2>1, <2>2, FieldsKept DEF TermsKept
<1>4. ASSUME NEW key \in Accounts, NEW ml \in 0 .. OVERFLOW_SENTINEL,
             CanSubmit(l, key), m = Submitted(l, key, ml)
      PROVE  TermsKept(l, m)
  <2>1. Live(l)
    BY <1>4 DEF CanSubmit, Live
  <2>2. PICK k \in Seats(l) : l.players[k].player = key /\ ~ l.players[k].has_played
    BY <1>4 DEF CanSubmit
  <2>3. Len(m.players) = Len(l.players)
    BY <1>4, SubmittedTyped
  <2>4. ASSUME NEW i \in Seats(l)
        PROVE  /\ m.players[i].player = l.players[i].player
               /\ l.players[i].has_played => m.players[i] = l.players[i]
    <3>1. m.players[i] = IF l.players[i].player = key
                         THEN Reported(l.players[i], ml, l.played_count)
                         ELSE l.players[i]
      BY <1>4, SubmittedTyped, Zenon
    <3>2. l.players[i] \in PlayerEntry
      BY EntryTyped
    <3>3. l.players[i].player = key => i = k
      BY <2>2 DEF RosterConsistent
    <3>4. Reported(l.players[i], ml, l.played_count).player = l.players[i].player
      BY <3>2, ReportedTyped DEF Lobby
    <3> QED BY <2>2, <3>1, <3>3, <3>4
  <2> QED BY <1>1, <1>4, <2>1, <2>3, <2>4, FieldsKept DEF TermsKept
<1>5. ASSUME Live(l), NEW st, m = [ l EXCEPT !.status = st ]
      PROVE  TermsKept(l, m)
  BY <1>1, <1>5, FieldsKept DEF TermsKept
<1>6. TermsKept(l, l)
  BY <1>1 DEF TermsKept
<1> QED
  BY <1>2, <1>3, <1>4, <1>5, <1>6 DEF Evolves, Settled, Cancelled, Live


\* An instruction keeps the roster consistent.  The interesting case is
\* submit_result: the one seat it marks gets the next free index.
LEMMA EvolvedKeepsRoster ==
  ASSUME NEW l \in Lobby, NEW m, Evolves(l, m), RosterConsistent(l)
  PROVE  RosterConsistent(m)
<1>1. /\ Len(l.players) \in Nat /\ Seats(l) = 1 .. Len(l.players)
      /\ l.joined_count \in Nat /\ l.played_count \in Nat /\ l.size \in Nat
  BY EntryTyped DEF Lobby, MIN_LOBBY_SIZE, MAX_LOBBY_SIZE
<1>2. m \in Lobby /\ Len(m.players) \in Nat /\ Seats(m) = 1 .. Len(m.players)
  BY EvolvedTyped, EntryTyped
<1>3. ASSUME m.players = l.players, m.joined_count = l.joined_count, m.size = l.size,
             m.played_count = l.played_count, m.status # "AwaitingRandomness"
      PROVE  RosterConsistent(m)
  BY <1>3 DEF RosterConsistent, Played, Seats
<1>4. ASSUME NEW bytes \in RandomBytes, CanFulfill(l), m = Fulfilled(l, bytes)
      PROVE  RosterConsistent(m)
  BY <1>3, <1>4, FieldsKept
<1>5. ASSUME NEW st, st # "AwaitingRandomness", m = [ l EXCEPT !.status = st ]
      PROVE  RosterConsistent(m)
  BY <1>3, <1>5, FieldsKept
<1>6. ASSUME NEW key \in Accounts, CanJoin(l, key), m = Joined(l, key)
      PROVE  RosterConsistent(m)
  <2> DEFINE n == Len(l.players) + 1
  <2>1. /\ Len(m.players) = n
        /\ \A i \in Seats(l) : m.players[i] = l.players[i]
        /\ m.players[n] = [ player |-> key, poured_ml |-> 0,
                            has_played |-> FALSE, submission_index |-> 0 ]
    BY <1>6, JoinedTyped, Zenon
  <2>2. m.joined_count = Len(m.players) /\ m.joined_count =< m.size
    BY <1>1, <1>6, <2>1, FieldsKept DEF CanJoin, RosterConsistent
  <2>3. m.status # "AwaitingRandomness"
    BY <1>6, FieldsKept DEF CanJoin
  <2>4. Seats(m) = Seats(l) \cup {n} /\ n \notin Seats(l)
    BY <1>1, <1>2, <2>1
  <2>5. ASSUME NEW i \in Seats(m), NEW k \in Seats(m), m.players[i].player = m.players[k].player
        PROVE  i = k
    <3>1. \A s \in Seats(l) : m.players[s].player # m.players[n].player
      BY <1>6, <2>1 DEF CanJoin, contains_player
    <3> QED BY <2>1, <2>4, <2>5, <3>1 DEF RosterConsistent
  <2>6. Played(m) = Played(l)
    BY <2>1, <2>4 DEF Played
  <2>7. { m.players[i].submission_index : i \in Played(m) } =
          { l.players[i].submission_index : i \in Played(l) }
    BY <2>1, <2>6 DEF Played
  <2>8. m.played_count = l.played_count
    BY <1>6, FieldsKept
  <2> QED BY <2>2, <2>3, <2>5, <2>6, <2>7, <2>8 DEF RosterConsistent
<1>7. ASSUME NEW key \in Accounts, NEW ml \in 0 .. OVERFLOW_SENTINEL,
             CanSubmit(l, key), m = Submitted(l, key, ml)
      PROVE  RosterConsistent(m)
  <2>1. PICK k \in Seats(l) : l.players[k].player = key /\ ~ l.players[k].has_played
    BY <1>7 DEF CanSubmit
  <2>2. /\ Len(m.players) = Len(l.players)
        /\ \A i \in Seats(l) :
             m.players[i] = IF l.players[i].player = key
                            THEN Reported(l.players[i], ml, l.played_count)
                            ELSE l.players[i]
    BY <1>7, SubmittedTyped, Zenon
  <2>3. Seats(m) = Seats(l)
    BY <1>1, <1>2, <2>2
  <2>4. \A i \in Seats(l) : l.players[i].player = key <=> i = k
    BY <2>1 DEF RosterConsistent
  <2>5. /\ m.players[k] = Reported(l.players[k], ml, l.played_count)
        /\ \A i \in Seats(l) \ {k} : m.players[i] = l.players[i]
    BY <2>1, <2>2, <2>4
  <2>6. /\ m.players[k].player = l.players[k].player
        /\ m.players[k].has_played = TRUE
        /\ m.players[k].submission_index = l.played_count
    <3>1. l.players[k] \in PlayerEntry
      BY EntryTyped
    <3> DEFINE r == Reported(l.players[k], ml, l.played_count)
    <3>2. /\ r.player = l.players[k].player
          /\ r.has_played = TRUE
          /\ r.submission_index = l.played_count
      BY <1>1, <3>1, ReportedTyped
    <3> QED BY <2>5, <3>2
  <2>7. Played(m) = Played(l) \cup {k} /\ k \notin Played(l)
    BY <2>1, <2>3, <2>5, <2>6 DEF Played
  <2>8. { m.players[i].submission_index : i \in Played(m) } = 0 .. m.played_count - 1
    <3>1. { m.players[i].submission_index : i \in Played(m) } =
            { l.players[i].submission_index : i \in Played(l) } \cup {l.played_count}
      BY <2>5, <2>6, <2>7 DEF Played
    <3>2. { l.players[i].submission_index : i \in Played(l) } = 0 .. l.played_count - 1
      BY DEF RosterConsistent
    <3>3. m.played_count = l.played_count + 1
      BY <1>7, FieldsKept
    <3>4. (0 .. l.played_count - 1) \cup {l.played_count} = 0 .. (l.played_count + 1) - 1
      BY <1>1
    <3> QED BY <3>1, <3>2, <3>3, <3>4, Zenon
  <2>9. Cardinality(Played(m)) = m.played_count
    <3>1. IsFiniteSet(Seats(l))
      BY <1>1, FS_Interval
    <3>2. IsFiniteSet(Played(l))
      <4>1. Played(l) \in SUBSET Seats(l)
        BY DEF Played
      <4> QED BY <3>1, <4>1, FS_Subset
    <3>3. Cardinality(Played(m)) = Cardinality(Played(l)) + 1
      BY <2>7, <3>2, FS_AddElement
    <3> QED BY <1>7, <3>3, FieldsKept DEF RosterConsistent
  <2>10. /\ m.joined_count = Len(m.players) /\ m.joined_count =< m.size
         /\ m.status # "AwaitingRandomness"
    BY <1>1, <1>7, <2>2, FieldsKept DEF CanSubmit, RosterConsistent
  <2>11. \A i, n \in Seats(m) : m.players[i].player = m.players[n].player => i = n
    <3>1. \A i \in Seats(l) : m.players[i].player = l.players[i].player
      BY <2>5, <2>6
    <3> QED BY <2>3, <3>1 DEF RosterConsistent
  <2> QED BY <2>8, <2>9, <2>10, <2>11 DEF RosterConsistent
<1> QED
  BY <1>4, <1>5, <1>6, <1>7 DEF Evolves, Settled, Cancelled

\* A lobby starts with a consistent, empty roster.
LEMMA NewRosterConsistent ==
  ASSUME NEW size \in MIN_LOBBY_SIZE .. MAX_LOBBY_SIZE, NEW fee, NEW now
  PROVE  RosterConsistent(NewLobby(size, fee, now))
<1> DEFINE l == NewLobby(size, fee, now)
<1>1. /\ l.players = << >> /\ l.joined_count = 0 /\ l.played_count = 0 /\ l.size = size
  BY DEF NewLobby
<1>2. Seats(l) = {} /\ Len(l.players) = 0
  BY <1>1 DEF Seats
<1>3. Played(l) = {} /\ Cardinality(Played(l)) = 0
  BY <1>2, FS_EmptySet DEF Played
<1> HIDE DEF l
<1>4. { l.players[i].submission_index : i \in Played(l) } = 0 .. l.played_count - 1
  BY <1>1, <1>3
<1>5. RosterConsistent(l)
  BY <1>1, <1>2, <1>3, <1>4 DEF RosterConsistent, MIN_LOBBY_SIZE
<1> QED BY <1>5 DEF l

-----------------------------------------------------------------------------
(* Where the lamports of a lobby go *)

\* The accounts that sit in these seats.
KeysOf(l, I) == { l.players[i].player : i \in I }

\* No account sits twice, so there are as many accounts as seats.
LEMMA KeysCounted ==
  ASSUME NEW l \in Lobby, RosterConsistent(l), NEW I \in SUBSET Seats(l)
  PROVE  /\ KeysOf(l, I) \subseteq Accounts
         /\ IsFiniteSet(I)
         /\ IsFiniteSet(KeysOf(l, I))
         /\ Cardinality(KeysOf(l, I)) = Cardinality(I)
<1> DEFINE f == [ i \in I |-> l.players[i].player ]
<1>1. \A i \in Seats(l) : l.players[i].player \in Accounts
  BY EntryTyped DEF PlayerEntry
<1>2. IsFiniteSet(I)
  <2>1. IsFiniteSet(Seats(l))
    BY EntryTyped, FS_Interval
  <2> QED BY <2>1, FS_Subset
<1>3. f \in Surjection(I, KeysOf(l, I))
  <2>1. f \in [ I -> KeysOf(l, I) ]
    BY DEF KeysOf
  <2>2. \A k \in KeysOf(l, I) : \E i \in I : f[i] = k
    BY DEF KeysOf
  <2> HIDE DEF f
  <2> QED BY <2>1, <2>2 DEF Surjection
<1>4. f \in Injection(I, KeysOf(l, I))
  <2>1. \A i, j \in I : f[i] = f[j] => i = j
    BY DEF RosterConsistent
  <2>2. f \in [ I -> KeysOf(l, I) ]
    BY DEF KeysOf
  <2> HIDE DEF f
  <2> QED BY <2>1, <2>2 DEF Injection, IsInjective
<1> HIDE DEF f
<1>5. f \in Bijection(I, KeysOf(l, I))
  BY <1>3, <1>4 DEF Bijection
<1>6. IsFiniteSet(KeysOf(l, I)) /\ Cardinality(KeysOf(l, I)) = Cardinality(I)
  BY <1>2, <1>5, FS_Bijection DEF ExistsBijection
<1> QED BY <1>1, <1>2, <1>6 DEF KeysOf

\* The remainder of a settlement has an owner, one of the winners, and no
\* winner was reported before it.
LEMMA RemainderOwned ==
  ASSUME NEW l \in Lobby, Len(l.players) > 0
  PROVE  /\ RemainderWinner(l) \in WinnerIndices(l)
         /\ \A j \in WinnerIndices(l) :
              l.players[RemainderWinner(l)].submission_index =< l.players[j].submission_index
<1> DEFINE W == WinnerIndices(l)
           Indices == { l.players[i].submission_index : i \in W }
<1>1. \E i \in W : TRUE
  <2>1. W # {}
    <3> HIDE DEF W
    <3>1. IsFiniteSet(W) /\ Cardinality(W) > 0
      BY WinnersExist DEF W
    <3>2. W = {} => Cardinality(W) = 0
      BY FS_EmptySet, Zenon
    <3> QED BY <3>1, <3>2
  <2> QED BY <2>1
<1>2. Indices \subseteq Nat /\ Indices # {}
  BY <1>1, EntryTyped DEF PlayerEntry, WinnerIndices
<1>3. PICK m \in Indices : \A n \in Indices : m =< n
  <2> HIDE DEF Indices
  <2> QED BY <1>2, LeastNatural
<1>4. \E i \in W : \A j \in W : l.players[i].submission_index =< l.players[j].submission_index
  BY <1>3
<1> QED BY <1>4 DEF RemainderWinner

\* What settlement pays the players adds up to the pot less the fee, over all
\* accounts there are: every winner gets a share, one of them the rest.
LEMMA PayoutsAddUp ==
  ASSUME IsFiniteSet(Accounts), NEW l \in Lobby, RosterConsistent(l), Len(l.players) > 0,
         NEW f \in 0 .. MAX_FEE_BPS
  PROVE  SumFunctionOnSet([ a \in Accounts |-> Payout(l, f, a) ], Accounts) = Pot(l) - FeeOf(l, f)
<1> DEFINE W == WinnerIndices(l)
           K == KeysOf(l, W)
           n == Cardinality(W)
           r == l.players[RemainderWinner(l)].player
           pay == [ a \in Accounts |-> Payout(l, f, a) ]
           share == [ a \in Accounts |-> IF a \in K THEN Share(l, f) ELSE 0 ]
           rest == [ a \in Accounts |-> IF a \in {r} THEN Remainder(l, f) ELSE 0 ]
<1>1. /\ Pot(l) \in Nat /\ FeeOf(l, f) \in Nat /\ n \in Nat
      /\ Share(l, f) \in Nat /\ Remainder(l, f) \in Nat
      /\ n * Share(l, f) + Remainder(l, f) + FeeOf(l, f) = Pot(l)
  BY SplitIsExact, WinnersExist DEF TotalPaid
<1>2. W \subseteq Seats(l) /\ RemainderWinner(l) \in W
  BY RemainderOwned DEF WinnerIndices
<1>3. K \subseteq Accounts /\ Cardinality(K) = n /\ r \in K
  BY <1>2, KeysCounted DEF KeysOf
<1>4. ASSUME NEW a \in Accounts
      PROVE  pay[a] = share[a] + rest[a]
  <2>1. a = r <=> RemainderWinner(l) \in { i \in W : l.players[i].player = a }
    BY <1>2
  <2>2. a \in K <=> { i \in W : l.players[i].player = a } # {}
    BY DEF KeysOf
  <2> QED BY <1>1, <1>3, <2>1, <2>2 DEF Payout
<1>5. \A a \in Accounts : share[a] \in Int /\ rest[a] \in Int
  BY <1>1
<1>6. SumFunctionOnSet(pay, Accounts) =
        SumFunctionOnSet(share, Accounts) + SumFunctionOnSet(rest, Accounts)
  <2> HIDE DEF pay, share, rest
  <2> QED BY <1>4, <1>5, SumAdds
<1>7. SumFunctionOnSet(share, Accounts) = Share(l, f) * n
  <2>1. \A a \in Accounts : share[a] = IF a \in K THEN Share(l, f) ELSE 0
    OBVIOUS
  <2>2. SumFunctionOnSet(share, Accounts) = Share(l, f) * Cardinality(K)
    <3>1. K \in SUBSET Accounts /\ Share(l, f) \in Int
      BY <1>1, <1>3
    <3> HIDE DEF share, K
    <3> QED BY <2>1, <3>1, SumShared
  <2> QED BY <1>3, <2>2
<1>8. SumFunctionOnSet(rest, Accounts) = Remainder(l, f)
  <2>1. \A a \in Accounts : rest[a] = IF a \in {r} THEN Remainder(l, f) ELSE 0
    OBVIOUS
  <2>2. SumFunctionOnSet(rest, Accounts) = Remainder(l, f) * Cardinality({r})
    <3> HIDE DEF rest, r, K
    <3> QED BY <1>1, <1>3, <2>1, SumShared
  <2>3. Cardinality({r}) = 1
    BY FS_Singleton
  <2> QED BY <1>1, <2>2, <2>3
<1>9. n * Share(l, f) = Share(l, f) * n
  <2> HIDE DEF n
  <2> QED BY <1>1
<1> HIDE DEF n, share, rest
<1> QED BY <1>1, <1>6, <1>7, <1>8, <1>9

\* What cancellation pays adds up to one entry fee for every seat taken.
LEMMA RefundsAddUp ==
  ASSUME IsFiniteSet(Accounts), NEW l \in Lobby, RosterConsistent(l)
  PROVE  SumFunctionOnSet([ a \in Accounts |-> Refund(l, a) ], Accounts) = l.entry_fee * Len(l.players)
<1> DEFINE K == KeysOf(l, Seats(l))
           back == [ a \in Accounts |-> Refund(l, a) ]
<1>1. l.entry_fee \in Int
  BY LobbyNumbers DEF Lobby
<1>2. K \subseteq Accounts /\ Cardinality(K) = Len(l.players)
  <2>1. Seats(l) = 1 .. Len(l.players) /\ Len(l.players) \in Nat
    BY EntryTyped
  <2>2. Cardinality(1 .. Len(l.players)) = Len(l.players)
    BY <2>1, FS_Interval
  <2>3. K \subseteq Accounts /\ Cardinality(K) = Cardinality(Seats(l))
    BY KeysCounted
  <2> QED BY <2>1, <2>2, <2>3
<1>3. \A a \in Accounts : back[a] = IF a \in K THEN l.entry_fee ELSE 0
  BY DEF Refund, contains_player, KeysOf
<1>4. SumFunctionOnSet(back, Accounts) = l.entry_fee * Cardinality(K)
  <2> HIDE DEF back, K
  <2> QED BY <1>1, <1>2, <1>3, SumShared
<1> QED BY <1>2, <1>4

\* Neither settlement nor cancellation pays an account without a seat.
LEMMA OnlyPlayersPaid ==
  ASSUME NEW l \in Lobby, NEW f, NEW a, ~ contains_player(l, a)
  PROVE  Payout(l, f, a) = 0 /\ Refund(l, a) = 0
<1>1. { i \in WinnerIndices(l) : l.players[i].player = a } = {}
  BY DEF contains_player, WinnerIndices
<1> QED BY <1>1 DEF Payout, Refund

-----------------------------------------------------------------------------
(* Who is rewarded by a settlement, and with what *)

\* Once everybody is reported the submission indices are pairwise different:
\* they number as many seats as there are.
LEMMA IndicesDistinct ==
  ASSUME NEW l \in Lobby, RosterConsistent(l), l.played_count = Len(l.players)
  PROVE  \A i, j \in Seats(l) :
           l.players[i].submission_index = l.players[j].submission_index => i = j
<1> DEFINE n == Len(l.players)
           index == [ i \in Seats(l) |-> l.players[i].submission_index ]
<1>1. n \in Nat /\ Seats(l) = 1 .. n
  BY EntryTyped
<1>2. IsFiniteSet(Seats(l)) /\ Cardinality(Seats(l)) = n
  <2>1. IsFiniteSet(1 .. n) /\ Cardinality(1 .. n) = n
    BY <1>1, FS_Interval
  <2> QED BY <1>1, <2>1
<1>3. Played(l) = Seats(l)
  <2>1. Played(l) \in SUBSET Seats(l) /\ Cardinality(Played(l)) = n
    BY DEF Played, RosterConsistent
  <2> QED BY <1>2, <2>1, FS_Subset
<1>4. index \in Surjection(Seats(l), 0 .. n - 1)
  <2>1. { l.players[i].submission_index : i \in Seats(l) } = 0 .. n - 1
    BY <1>3 DEF RosterConsistent
  <2>2. index \in [ Seats(l) -> 0 .. n - 1 ]
    BY <2>1
  <2>3. \A k \in 0 .. n - 1 : \E i \in Seats(l) : index[i] = k
    BY <2>1
  <2> HIDE DEF index, n
  <2> QED BY <2>2, <2>3 DEF Surjection
<1>5. Cardinality(0 .. n - 1) = n
  BY <1>1, FS_Interval
<1>6. index \in Injection(Seats(l), 0 .. n - 1)
  <2> HIDE DEF index, n
  <2> QED BY <1>2, <1>4, <1>5, FS_Surjection
<1>7. \A i, j \in Seats(l) : index[i] = index[j] => i = j
  <2> HIDE DEF index, n
  <2> QED BY <1>6 DEF Injection, IsInjective
<1> QED BY <1>7

\* The remainder goes to the first reported winner, before every other winner.
LEMMA RemainderToFirst ==
  ASSUME NEW l \in Lobby, RosterConsistent(l), l.played_count = Len(l.players),
         Len(l.players) > 0, NEW j \in WinnerIndices(l), j # RemainderWinner(l)
  PROVE  l.players[RemainderWinner(l)].submission_index < l.players[j].submission_index
<1> DEFINE W == WinnerIndices(l)
           index(i) == l.players[i].submission_index
<1>1. \A i \in Seats(l) : index(i) \in Nat
  BY EntryTyped DEF PlayerEntry
<1>2. W \subseteq Seats(l)
  BY DEF WinnerIndices
<1>3. RemainderWinner(l) \in W /\ index(RemainderWinner(l)) =< index(j)
  BY RemainderOwned
<1>4. index(RemainderWinner(l)) # index(j)
  BY <1>2, <1>3, IndicesDistinct
<1> QED BY <1>1, <1>2, <1>3, <1>4

\* In a full lobby whose stakes are more than one lamport there is a share for
\* every winner, even if all of them win and the fee is at its bound.
LEMMA ShareWorth ==
  ASSUME NEW l \in Lobby, NEW f \in 0 .. MAX_FEE_BPS,
         Len(l.players) = l.size, l.entry_fee > 1
  PROVE  Share(l, f) > 0
<1> DEFINE n == Cardinality(WinnerIndices(l))
           pool == Pool(l, f)
<1>1. /\ l.entry_fee \in Nat /\ l.size \in Nat /\ l.size > 0
      /\ Seats(l) = 1 .. l.size
  BY EntryTyped, LobbyNumbers DEF Lobby, MIN_LOBBY_SIZE, MAX_LOBBY_SIZE
<1>2. n \in Nat /\ n > 0 /\ n =< l.size
  <2>1. IsFiniteSet(Seats(l)) /\ Cardinality(Seats(l)) = l.size
    BY <1>1, FS_Interval
  <2>2. WinnerIndices(l) \in SUBSET Seats(l)
    BY DEF WinnerIndices
  <2>3. n =< l.size
    BY <2>1, <2>2, FS_Subset
  <2> QED BY <1>1, <2>3, WinnersExist
<1>3. Pot(l) \in Nat /\ Pot(l) >= 2 * l.size
  <2>1. \A e \in Nat, s \in Nat : e > 1 => e * s \in Nat /\ e * s >= 2 * s
    OBVIOUS
  <2> QED BY <1>1, <2>1 DEF Pot
<1>4. FeeOf(l, f) \in Nat /\ 10 * FeeOf(l, f) =< Pot(l)
  BY <1>1, SplitIsExact, CommissionBounded
<1>5. pool \in Nat /\ pool >= n
  BY <1>1, <1>2, <1>3, <1>4 DEF Pool
<1>6. pool \div n > 0
  <2> HIDE DEF pool, n
  <2>1. \A a \in Nat, b \in Nat : b > 0 /\ a >= b => a \div b > 0
    <3> SUFFICES ASSUME NEW a \in Nat, NEW b \in Nat, b > 0, a >= b
                 PROVE  a \div b > 0
      OBVIOUS
    <3>1. a \div b \in Nat /\ a % b \in 0 .. b - 1 /\ b * (a \div b) + (a % b) = a
      BY DivisionWithRest
    <3>2. a \div b # 0
      BY <3>1
    <3> QED BY <3>1, <3>2
  <2> QED BY <1>2, <1>5, <2>1
<1> QED BY <1>6 DEF Share

\* What the player of a seat is paid.
LEMMA SeatPaid ==
  ASSUME NEW l \in Lobby, RosterConsistent(l), NEW f, NEW i \in Seats(l)
  PROVE  Payout(l, f, l.players[i].player) =
           IF i \in WinnerIndices(l)
           THEN Share(l, f) + (IF i = RemainderWinner(l) THEN Remainder(l, f) ELSE 0)
           ELSE 0
<1>1. { j \in WinnerIndices(l) : l.players[j].player = l.players[i].player } =
        IF i \in WinnerIndices(l) THEN {i} ELSE {}
  BY DEF RosterConsistent, WinnerIndices
<1> QED BY <1>1 DEF Payout
=============================================================================
