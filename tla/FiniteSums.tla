----------------------------- MODULE FiniteSums -----------------------------
(***************************************************************************)
(* Sums over finite sets, as lemmas to cite: MapThenSumSet adds its terms   *)
(* in whatever order CHOOSE finds them, and the order does not matter.      *)
(*                                                                          *)
(* The induction is by a smallest counterexample: the provers instantiate   *)
(* no theorem with an operator parameter, but they can be given a set of    *)
(* counterexamples.                                                         *)
(***************************************************************************)
EXTENDS Integers, FiniteSetTheorems, WellFoundedInduction, TLAPS

\* A set of subsets of a finite set has a smallest element.
LEMMA Smallest ==
  ASSUME NEW S, IsFiniteSet(S), NEW B \in SUBSET SUBSET S, B # {}
  PROVE  \E U \in B : \A V \in B : V \subseteq U => V = U
<1> DEFINE R == StrictSubsetOrdering(S)
<1>1. IsWellFoundedOn(R, SUBSET S)
  BY FS_StrictSubsetOrderingWellFounded, FS_FiniteSubsetsOfFinite
<1>2. \E U \in B : \A V \in B : << V, U >> \notin R
  <2> HIDE DEF R
  <2> QED
    BY <1>1, WFMin
<1> QED
  BY <1>2 DEF StrictSubsetOrdering

Chosen(T) == CHOOSE x \in T : TRUE

LEMMA ChosenIsIn == \A T : T # {} => Chosen(T) \in T
BY DEF Chosen

\* h sums g over every subset of S, as MapThenSumSet does.
IsSum(h, g, S) ==
  h = [T \in SUBSET S |-> IF T = {} THEN 0 ELSE g[Chosen(T)] + h[T \ {Chosen(T)}]]

Sum(g, S) == (CHOOSE h : IsSum(h, g, S))[S]

LEMMA SumsAgree ==
  ASSUME NEW S, IsFiniteSet(S), NEW U \in SUBSET S, NEW g, NEW h, NEW k,
         IsSum(h, g, S), IsSum(k, g, U)
  PROVE  h[U] = k[U]
<1> DEFINE Bad == {T \in SUBSET U : h[T] # k[T]}
<1>1. /\ \A T \in SUBSET S :
           h[T] = IF T = {} THEN 0 ELSE g[Chosen(T)] + h[T \ {Chosen(T)}]
      /\ \A T \in SUBSET U :
           k[T] = IF T = {} THEN 0 ELSE g[Chosen(T)] + k[T \ {Chosen(T)}]
  BY DEF IsSum
<1>2. ASSUME Bad # {} PROVE FALSE
  <2>1. Bad \in SUBSET SUBSET U /\ IsFiniteSet(U)
    BY FS_Subset
  <2>2. PICK T \in Bad : \A V \in Bad : V \subseteq T => V = T
    <3> HIDE DEF Bad
    <3> QED
      BY <1>2, <2>1, Smallest
  <2>3. T # {} /\ Chosen(T) \in T /\ T \in SUBSET U /\ T \in SUBSET S
    BY <1>1, ChosenIsIn
  <2>4. T \ {Chosen(T)} \notin Bad
    BY <2>2, <2>3
  <2>5. h[T \ {Chosen(T)}] = k[T \ {Chosen(T)}]
    BY <2>3, <2>4
  <2> QED
    BY <1>1, <2>3, <2>5
<1> QED
  BY <1>2

LEMMA SumExists ==
  ASSUME NEW S, IsFiniteSet(S), NEW g
  PROVE  \E h : IsSum(h, g, S)
<1> DEFINE Bad == {T \in SUBSET S : ~\E h : IsSum(h, g, T)}
<1>1. ASSUME Bad # {} PROVE FALSE
  <2>1. PICK U \in Bad : \A V \in Bad : V \subseteq U => V = U
    <3>1. Bad \in SUBSET SUBSET S
      OBVIOUS
    <3> HIDE DEF Bad
    <3> QED
      BY <1>1, <3>1, Smallest
  <2>2. U \in SUBSET S /\ ~\E h : IsSum(h, g, U)
    OBVIOUS
  <2>3. \A V \in SUBSET U : V # U => \E h : IsSum(h, g, V)
    BY <2>1, <2>2
  <2> HIDE DEF Bad
  <2> DEFINE part(V) == CHOOSE h : IsSum(h, g, V)
             rest(T) == T \ {Chosen(T)}
             k == [T \in SUBSET U |->
                     IF T = {} THEN 0 ELSE g[Chosen(T)] + part(rest(T))[rest(T)]]
  <2>4. \A V \in SUBSET U : V # U => IsSum(part(V), g, V)
    BY <2>3
  <2>5. \A T \in SUBSET U : T # {} => rest(T) \in SUBSET U /\ rest(T) # U /\ Chosen(T) \in T
    BY ChosenIsIn
  <2>6. ASSUME NEW V \in SUBSET U, V # U PROVE k[V] = part(V)[V]
    <3>1. IsSum(part(V), g, V)
      BY <2>4, <2>6
    <3>2. part(V)[V] = IF V = {} THEN 0 ELSE g[Chosen(V)] + part(V)[rest(V)]
      <4> HIDE DEF part
      <4> QED
        BY <3>1 DEF IsSum
    <3>3. CASE V = {}
      <4> HIDE DEF part
      <4> QED
        BY <3>2, <3>3
    <3>4. CASE V # {}
      <4>1. rest(V) \in SUBSET V /\ IsSum(part(rest(V)), g, rest(V)) /\ IsFiniteSet(V)
        BY <2>2, <2>4, <2>5, <3>4, FS_Subset
      <4>2. part(V)[rest(V)] = part(rest(V))[rest(V)]
        <5> HIDE DEF part, rest
        <5> QED
          BY <3>1, <4>1, SumsAgree
      <4>3. k[V] = g[Chosen(V)] + part(rest(V))[rest(V)]
        <5> HIDE DEF part, rest
        <5> QED
          BY <3>4
      <4> HIDE DEF part, rest, k
      <4> QED
        BY <3>2, <3>4, <4>2, <4>3
    <3> QED
      BY <3>3, <3>4
  <2>7. ASSUME NEW T \in SUBSET U, T # {} PROVE part(rest(T))[rest(T)] = k[rest(T)]
    <3>1. rest(T) \in SUBSET U /\ rest(T) # U
      BY <2>5, <2>7
    <3> HIDE DEF part, rest, k
    <3> QED
      BY <2>6, <3>1
  <2>8. IsSum(k, g, U)
    <3>1. k = [T \in SUBSET U |-> IF T = {} THEN 0 ELSE g[Chosen(T)] + k[rest(T)]]
      <4> DEFINE l == [T \in SUBSET U |-> IF T = {} THEN 0 ELSE g[Chosen(T)] + k[rest(T)]]
      <4>1. \A T \in SUBSET U : k[T] = l[T]
        <5> HIDE DEF part
        <5> SUFFICES ASSUME NEW T \in SUBSET U PROVE k[T] = l[T]
          OBVIOUS
        <5>1. CASE T = {}
          BY <5>1
        <5>2. CASE T # {}
          <6>1. part(rest(T))[rest(T)] = k[rest(T)]
            BY <2>7, <5>2
          <6>2. k[T] = g[Chosen(T)] + part(rest(T))[rest(T)]
            BY <5>2
          <6>3. l[T] = g[Chosen(T)] + k[rest(T)]
            <7> HIDE DEF k
            <7> QED
              BY <5>2
          <6> HIDE DEF k, l, rest
          <6> QED
            BY <6>1, <6>2, <6>3
        <5> QED
          BY <5>1, <5>2
      <4>2. k = [T \in SUBSET U |-> k[T]]
        <5> HIDE DEF part, rest
        <5> QED
          OBVIOUS
      <4>3. l = [T \in SUBSET U |-> l[T]]
        <5> HIDE DEF k, rest
        <5> QED
          OBVIOUS
      <4>4. k = l
        <5> HIDE DEF k, l
        <5> QED
          BY <4>1, <4>2, <4>3
      <4> QED
        BY <4>4
    <3> QED
      BY <3>1 DEF IsSum
  <2> QED
    BY <2>2, <2>8
<1>2. S \notin Bad
  BY <1>1
<1> QED
  BY <1>2

LEMMA SumIsSum ==
  ASSUME NEW S, IsFiniteSet(S), NEW g, NEW h, IsSum(h, g, S)
  PROVE  Sum(g, S) = h[S]
<1>1. IsSum(CHOOSE k : IsSum(k, g, S), g, S)
  BY SumExists
<1> QED
  BY <1>1, SumsAgree DEF Sum

\* The sum of a set is its chosen element's and the sum of the rest.
LEMMA SumUnfolds ==
  ASSUME NEW S, IsFiniteSet(S), NEW g
  PROVE  Sum(g, S) = IF S = {} THEN 0 ELSE g[Chosen(S)] + Sum(g, S \ {Chosen(S)})
<1>1. PICK h : IsSum(h, g, S)
  BY SumExists
<1>2. h[S] = IF S = {} THEN 0 ELSE g[Chosen(S)] + h[S \ {Chosen(S)}]
  BY <1>1 DEF IsSum
<1>3. Sum(g, S) = h[S]
  BY <1>1, SumIsSum
<1>4. CASE S # {}
  <2> DEFINE R == S \ {Chosen(S)}
  <2>1. R \in SUBSET S /\ IsFiniteSet(R)
    BY FS_Subset
  <2>2. PICK k : IsSum(k, g, R)
    BY <2>1, SumExists
  <2>3. h[R] = k[R] /\ Sum(g, R) = k[R]
    <3> HIDE DEF R
    <3> QED
      BY <1>1, <2>1, <2>2, SumsAgree, SumIsSum
  <2> QED
    BY <1>2, <1>3, <1>4, <2>3
<1> QED
  BY <1>2, <1>3, <1>4

LEMMA SumOfNone == ASSUME NEW g PROVE Sum(g, {}) = 0
BY SumUnfolds, FS_EmptySet

LEMMA SumType ==
  ASSUME NEW S, IsFiniteSet(S), NEW g, NEW N \in {Nat, Int}, \A x \in S : g[x] \in N
  PROVE  Sum(g, S) \in N
<1> DEFINE Bad == {T \in SUBSET S : Sum(g, T) \notin N}
<1>1. ASSUME Bad # {} PROVE FALSE
  <2>1. PICK U \in Bad : \A V \in Bad : V \subseteq U => V = U
    <3>1. Bad \in SUBSET SUBSET S
      OBVIOUS
    <3> HIDE DEF Bad
    <3> QED
      BY <1>1, <3>1, Smallest
  <2>2. U # {} /\ Chosen(U) \in U /\ IsFiniteSet(U)
    <3>1. U \in SUBSET S /\ Sum(g, U) \notin N /\ 0 \in N
      OBVIOUS
    <3>2. U # {}
      BY <3>1, SumOfNone
    <3> HIDE DEF Bad
    <3> QED
      BY <3>1, <3>2, ChosenIsIn, FS_Subset
  <2>3. Sum(g, U \ {Chosen(U)}) \in N
    BY <2>1, <2>2
  <2>4. g[Chosen(U)] \in N /\ Sum(g, U) \notin N
    BY <2>2
  <2> QED
    BY <2>2, <2>3, <2>4, SumUnfolds
<1> QED
  BY <1>1

\* Any element may be taken out first.
LEMMA SumWithout ==
  ASSUME NEW S, IsFiniteSet(S), NEW g, \A x \in S : g[x] \in Int, NEW x \in S
  PROVE  Sum(g, S) = g[x] + Sum(g, S \ {x})
<1> DEFINE Bad == {T \in SUBSET S : \E y \in T : Sum(g, T) # g[y] + Sum(g, T \ {y})}
<1>1. ASSUME Bad # {} PROVE FALSE
  <2>1. PICK U \in Bad : \A V \in Bad : V \subseteq U => V = U
    <3>1. Bad \in SUBSET SUBSET S
      OBVIOUS
    <3> HIDE DEF Bad
    <3> QED
      BY <1>1, <3>1, Smallest
  <2>2. PICK y \in U : Sum(g, U) # g[y] + Sum(g, U \ {y})
    OBVIOUS
  <2> PICK c : c = Chosen(U)
    OBVIOUS
  <2>3. U \subseteq S /\ c \in U /\ IsFiniteSet(U)
    BY <2>2, ChosenIsIn, FS_Subset
  <2>4. Sum(g, U) = g[c] + Sum(g, U \ {c})
    BY <2>2, <2>3, SumUnfolds
  <2>5. c # y
    BY <2>2, <2>4
  <2>6. U \ {c} \notin Bad /\ U \ {y} \notin Bad
    BY <2>1, <2>3
  <2>7. /\ Sum(g, U \ {c}) = g[y] + Sum(g, (U \ {c}) \ {y})
        /\ Sum(g, U \ {y}) = g[c] + Sum(g, (U \ {y}) \ {c})
    BY <2>3, <2>5, <2>6
  <2>8. (U \ {c}) \ {y} = (U \ {y}) \ {c}
    OBVIOUS
  <2>9. g[c] \in Int /\ g[y] \in Int /\ Sum(g, (U \ {c}) \ {y}) \in Int
    <3>1. IsFiniteSet((U \ {c}) \ {y}) /\ \A z \in (U \ {c}) \ {y} : g[z] \in Int
      BY <2>3, FS_Subset
    <3> HIDE DEF Bad
    <3> QED
      BY <2>3, <3>1, SumType
  <2> HIDE DEF Bad
  <2> PICK rest : rest = Sum(g, (U \ {c}) \ {y})
    OBVIOUS
  <2>10. /\ g[c] \in Int /\ g[y] \in Int /\ rest \in Int
         /\ Sum(g, U) = g[c] + (g[y] + rest)
         /\ Sum(g, U \ {y}) = g[c] + rest
    BY <2>4, <2>7, <2>8, <2>9
  <2> QED
    BY <2>2, <2>10
<1> QED
  BY <1>1

LEMMA SumWith ==
  ASSUME NEW S, IsFiniteSet(S), NEW g, NEW x, x \notin S, \A y \in S \cup {x} : g[y] \in Int
  PROVE  Sum(g, S \cup {x}) = g[x] + Sum(g, S)
<1>1. IsFiniteSet(S \cup {x}) /\ (S \cup {x}) \ {x} = S
  BY FS_AddElement
<1> QED
  BY <1>1, SumWithout

\* Only what g is on the set matters.
LEMMA SumOfSame ==
  ASSUME NEW S, IsFiniteSet(S), NEW g, NEW k, \A x \in S : g[x] = k[x]
  PROVE  Sum(g, S) = Sum(k, S)
<1>1. PICK h : IsSum(h, g, S)
  BY SumExists
<1>2. IsSum(h, k, S)
  <2>1. \A T \in SUBSET S : T # {} => g[Chosen(T)] = k[Chosen(T)]
    BY ChosenIsIn
  <2>2. [T \in SUBSET S |-> IF T = {} THEN 0 ELSE g[Chosen(T)] + h[T \ {Chosen(T)}]]
          = [T \in SUBSET S |-> IF T = {} THEN 0 ELSE k[Chosen(T)] + h[T \ {Chosen(T)}]]
    BY <2>1
  <2> QED
    BY <1>1, <2>2 DEF IsSum
<1> QED
  BY <1>1, <1>2, SumIsSum

LEMMA SumOfZeroes ==
  ASSUME NEW S, IsFiniteSet(S), NEW g, \A x \in S : g[x] = 0
  PROVE  Sum(g, S) = 0
<1> DEFINE Bad == {T \in SUBSET S : Sum(g, T) # 0}
<1>1. ASSUME Bad # {} PROVE FALSE
  <2>1. PICK U \in Bad : \A V \in Bad : V \subseteq U => V = U
    <3>1. Bad \in SUBSET SUBSET S
      OBVIOUS
    <3> HIDE DEF Bad
    <3> QED
      BY <1>1, <3>1, Smallest
  <2>2. U \in SUBSET S /\ Sum(g, U) # 0
    OBVIOUS
  <2>3. U # {} /\ Chosen(U) \in U /\ IsFiniteSet(U)
    BY <2>2, SumOfNone, ChosenIsIn, FS_Subset
  <2>4. Sum(g, U \ {Chosen(U)}) = 0
    BY <2>1, <2>3
  <2> HIDE DEF Bad
  <2> QED
    BY <2>2, <2>3, <2>4, SumUnfolds
<1> QED
  BY <1>1

LEMMA SumOfOnes ==
  ASSUME NEW S, IsFiniteSet(S), NEW g, \A x \in S : g[x] = 1
  PROVE  Sum(g, S) = Cardinality(S)
<1> DEFINE Bad == {T \in SUBSET S : Sum(g, T) # Cardinality(T)}
<1>1. ASSUME Bad # {} PROVE FALSE
  <2>1. PICK U \in Bad : \A V \in Bad : V \subseteq U => V = U
    <3>1. Bad \in SUBSET SUBSET S
      OBVIOUS
    <3> HIDE DEF Bad
    <3> QED
      BY <1>1, <3>1, Smallest
  <2>2. U \in SUBSET S /\ Sum(g, U) # Cardinality(U) /\ IsFiniteSet(U)
    BY FS_Subset
  <2>3. U # {}
    BY <2>2, SumOfNone, FS_EmptySet
  <2>4. PICK c \in U : c = Chosen(U)
    BY <2>3, ChosenIsIn
  <2>5. U \ {c} \in SUBSET S /\ U \ {c} # U
    BY <2>2
  <2>6. Sum(g, U \ {c}) = Cardinality(U \ {c})
    BY <2>1, <2>5
  <2>7. Sum(g, U) = 1 + Sum(g, U \ {c})
    BY <2>2, <2>3, <2>4, SumUnfolds
  <2>8. Cardinality(U \ {c}) = Cardinality(U) - 1 /\ Cardinality(U) \in Nat
    BY <2>2, FS_RemoveElement, FS_CardinalityType
  <2> HIDE DEF Bad
  <2> QED
    BY <2>2, <2>6, <2>7, <2>8
<1> QED
  BY <1>1

\* Two sets apart add their sums.
LEMMA SumOfUnion ==
  ASSUME NEW S, NEW T, IsFiniteSet(S), IsFiniteSet(T), S \cap T = {},
         NEW g, \A x \in S \cup T : g[x] \in Int
  PROVE  Sum(g, S \cup T) = Sum(g, S) + Sum(g, T)
<1> DEFINE Bad == {U \in SUBSET T : Sum(g, S \cup U) # Sum(g, S) + Sum(g, U)}
<1>0. \A U \in SUBSET T : /\ IsFiniteSet(U) /\ IsFiniteSet(S \cup U)
                          /\ Sum(g, U) \in Int
  <2> SUFFICES ASSUME NEW U \in SUBSET T
               PROVE  IsFiniteSet(U) /\ IsFiniteSet(S \cup U) /\ Sum(g, U) \in Int
    OBVIOUS
  <2>1. IsFiniteSet(U) /\ IsFiniteSet(S \cup U)
    BY FS_Subset, FS_Union
  <2>2. \A x \in U : g[x] \in Int
    OBVIOUS
  <2> QED
    BY <2>1, <2>2, SumType
<1>1. ASSUME Bad # {} PROVE FALSE
  <2>1. PICK U \in Bad : \A V \in Bad : V \subseteq U => V = U
    <3>1. Bad \in SUBSET SUBSET T
      OBVIOUS
    <3> HIDE DEF Bad
    <3> QED
      BY <1>1, <3>1, Smallest
  <2>2. U \in SUBSET T /\ Sum(g, S \cup U) # Sum(g, S) + Sum(g, U)
    OBVIOUS
  <2>3. Sum(g, S) \in Int
    BY SumType
  <2>4. U # {}
    <3>1. ASSUME U = {} PROVE FALSE
      <4>1. S \cup U = S
        BY <3>1
      <4>2. Sum(g, U) = 0 /\ Sum(g, S \cup U) = Sum(g, S)
        BY <3>1, <4>1, SumOfNone
      <4> HIDE DEF Bad
      <4> QED
        BY <2>2, <2>3, <4>2
    <3> QED
      BY <3>1
  <2>5. PICK c \in U : TRUE
    BY <2>4
  <2> PICK V : V = U \ {c}
    OBVIOUS
  <2>6. V \in SUBSET T /\ V # U /\ V \subseteq U
    BY <2>2
  <2>7. Sum(g, S \cup V) = Sum(g, S) + Sum(g, V)
    BY <2>1, <2>6
  <2>8. Sum(g, U) = g[c] + Sum(g, V)
    <3>1. \A x \in U : g[x] \in Int
      BY <2>2
    <3> QED
      BY <1>0, <2>2, <3>1, SumWithout
  <2>9. Sum(g, S \cup U) = g[c] + Sum(g, S \cup V)
    <3> PICK W : W = S \cup U
      OBVIOUS
    <3>1. W \ {c} = S \cup V /\ c \in W /\ \A x \in W : g[x] \in Int
      BY <2>2
    <3>2. IsFiniteSet(W)
      BY <1>0, <2>2
    <3>3. Sum(g, W) = g[c] + Sum(g, W \ {c})
      BY <3>1, <3>2, SumWithout
    <3> QED
      BY <3>1, <3>3
  <2>10. g[c] \in Int /\ Sum(g, V) \in Int
    BY <1>0, <2>2, <2>6
  <2> HIDE DEF Bad
  <2> QED
    BY <2>2, <2>3, <2>7, <2>8, <2>9, <2>10
<1>2. T \notin Bad
  BY <1>1
<1> QED
  BY <1>2

\* GROUP BY: the sums of the groups add up to the sum of the whole.
LEMMA SumByKey ==
  ASSUME NEW X, IsFiniteSet(X), NEW g, \A x \in X : g[x] \in Int,
         NEW M, IsFiniteSet(M), NEW key, NEW h,
         \A m \in M : h[m] = Sum(g, {x \in X : key[x] = m})
  PROVE  Sum(h, M) = Sum(g, {x \in X : key[x] \in M})
<1> DEFINE Of(T) == {x \in X : key[x] \in T}
           Bad == {T \in SUBSET M : Sum(h, T) # Sum(g, Of(T))}
<1>0. \A T : IsFiniteSet(Of(T)) /\ \A x \in Of(T) : g[x] \in Int
  BY FS_Subset
<1>1. ASSUME Bad # {} PROVE FALSE
  <2>1. PICK U \in Bad : \A V \in Bad : V \subseteq U => V = U
    <3>1. Bad \in SUBSET SUBSET M
      OBVIOUS
    <3> HIDE DEF Bad
    <3> QED
      BY <1>1, <3>1, Smallest
  <2>2. U \in SUBSET M /\ Sum(h, U) # Sum(g, Of(U)) /\ IsFiniteSet(U)
    BY FS_Subset
  <2>3. U # {}
    <3>1. U = {} => Of(U) = {}
      OBVIOUS
    <3> HIDE DEF Of
    <3> QED
      BY <2>2, <3>1, SumOfNone
  <2>4. PICK c \in U : c = Chosen(U)
    BY <2>3, ChosenIsIn
  <2> PICK V : V = U \ {c}
    OBVIOUS
  <2>5. V \in SUBSET M /\ V # U /\ V \subseteq U
    BY <2>2
  <2>6. Sum(h, V) = Sum(g, Of(V))
    BY <2>1, <2>5
  <2>7. Sum(h, U) = h[c] + Sum(h, V)
    BY <2>2, <2>3, <2>4, SumUnfolds
  <2>8. h[c] = Sum(g, Of({c}))
    <3>1. Of({c}) = {x \in X : key[x] = c}
      OBVIOUS
    <3> QED
      BY <2>2, <2>4, <3>1
  <2>9. Of(U) = Of({c}) \cup Of(V) /\ Of({c}) \cap Of(V) = {}
    BY <2>4
  <2> HIDE DEF Bad, Of
  <2>10. Sum(g, Of(U)) = Sum(g, Of({c})) + Sum(g, Of(V))
    <3> PICK A, B : A = Of({c}) /\ B = Of(V)
      OBVIOUS
    <3>1. /\ IsFiniteSet(A) /\ IsFiniteSet(B) /\ A \cap B = {}
          /\ \A x \in A \cup B : g[x] \in Int
      BY <1>0, <2>9
    <3>2. Sum(g, A \cup B) = Sum(g, A) + Sum(g, B)
      BY ONLY <3>1, SumOfUnion, Zenon
    <3> QED
      BY <2>9, <3>2
  <2> QED
    BY <2>2, <2>6, <2>7, <2>8, <2>10
<1>2. M \notin Bad
  BY <1>1
<1> QED
  BY <1>2

\* GROUP BY: the rows of one group, and the whole as the sum of its groups.
Group(X, key, m) == {x \in X : key[x] = m}

LEMMA GroupsAddUp ==
  ASSUME NEW X, NEW M, NEW key, NEW g, NEW h, IsFiniteSet(X), IsFiniteSet(M),
         \A x \in X : g[x] \in Int /\ key[x] \in M,
         \A m \in M : h[m] = Sum(g, Group(X, key, m))
  PROVE  Sum(h, M) = Sum(g, X)
<1>1. \A m \in M : h[m] = Sum(g, {x \in X : key[x] = m})
  BY DEF Group
<1>2. X = {x \in X : key[x] \in M}
  OBVIOUS
<1>3. Sum(h, M) = Sum(g, {x \in X : key[x] \in M})
  BY <1>1, SumByKey
<1> QED
  BY <1>2, <1>3

\* Two sets apart add their sizes.
LEMMA CountOfTwo ==
  ASSUME NEW S, NEW T, IsFiniteSet(S), IsFiniteSet(T), S \cap T = {}
  PROVE  /\ IsFiniteSet(S \cup T)
         /\ Cardinality(S) \in Nat /\ Cardinality(T) \in Nat
         /\ Cardinality(S \cup T) = Cardinality(S) + Cardinality(T)
<1>1. Cardinality(S \cap T) = 0
  BY FS_EmptySet
<1>2. Cardinality(S) \in Nat /\ Cardinality(T) \in Nat
  BY FS_CardinalityType
<1>3. /\ IsFiniteSet(S \cup T)
      /\ Cardinality(S \cup T) = Cardinality(S) + Cardinality(T) - Cardinality(S \cap T)
  BY ONLY IsFiniteSet(S), IsFiniteSet(T), FS_Union
<1> QED
  BY <1>1, <1>2, <1>3
=============================================================================
