----------------------------- MODULE FoldLemmas -----------------------------
(***************************************************************************)
(* What the proofs of this project need to know of the folds in the        *)
(* models: the sum of a function over a finite set (SumFunctionOnSet), the *)
(* total of the weights of a sequence (SumFunction), the concatenation of  *)
(* a sequence of sequences (FlattenSeq) and a step repeated along a        *)
(* sequence (FoldLeft).  Each is defined by recursion; the lemmas show     *)
(* that the recursion has a solution, give its equations, and prove by     *)
(* induction what follows from them.                                       *)
(***************************************************************************)
EXTENDS Integers, FiniteSets, Sequences, SequencesExt, FiniteSetTheorems,
        WellFoundedInduction, SequenceTheorems, TLAPS

\* Induction on the natural numbers, for a set in place of a predicate: the
\* theorem of the library takes an operator, which no prover can instantiate.
LEMMA Induction ==
    ASSUME NEW S, 0 \in S, \A n \in Nat : n \in S => n + 1 \in S
    PROVE  Nat \subseteq S
<1> DEFINE T == Nat \ S
<1>1. SUFFICES ASSUME T # {} PROVE FALSE
  OBVIOUS
<1>2. IsWellFoundedOn(OpToRel(<, Nat), Nat)
  BY NatLessThanWellFounded
<1>3. PICK x \in T : \A y \in T : ~ (<<y, x>> \in OpToRel(<, Nat))
  <2> HIDE DEF T
  <2>1. T \subseteq Nat
    BY DEF T
  <2> QED BY <1>1, <1>2, <2>1, WFMin
<1>4. x # 0 /\ x \in Nat
  OBVIOUS
<1>5. x - 1 \in Nat
  BY <1>4
<1>6. <<x - 1, x>> \in OpToRel(<, Nat)
  BY <1>4, <1>5 DEF OpToRel
<1>7. x - 1 \in S
  BY <1>3, <1>5, <1>6
<1>8. (x - 1) + 1 \in S
  BY <1>5, <1>7
<1>9. (x - 1) + 1 = x
  BY <1>4
<1> QED BY <1>8, <1>9
-----------------------------------------------------------------------------
\* Sums over finite sets.
Pick(T) == CHOOSE x \in T : TRUE

\* The recursion that MapThenFoldSet solves for a sum of f.
Adds(g, f, S) ==
    g = [T \in SUBSET S |-> IF T = {} THEN 0 ELSE f[Pick(T)] + g[T \ {Pick(T)}]]

\* CHOOSE finds an element where there is one.
LEMMA PickIsIn == ASSUME NEW T, T # {} PROVE Pick(T) \in T
BY DEF Pick

\* A set has one element less without an element of it.
LEMMA SmallerSet ==
    ASSUME NEW T, IsFiniteSet(T), NEW x \in T
    PROVE  /\ IsFiniteSet(T \ {x}) /\ Cardinality(T) \in Nat
           /\ Cardinality(T \ {x}) \in Nat
           /\ Cardinality(T \ {x}) = Cardinality(T) - 1
           /\ Cardinality(T) # 0
BY FS_RemoveElement, FS_CardinalityType, FS_EmptySet

\* The sum of the library is a recursive function over the subsets.
LEMMA SumUnfolds ==
    ASSUME NEW f, NEW S
    PROVE  SumFunctionOnSet(f, S) = (CHOOSE g : Adds(g, f, S))[S]
BY DEF SumFunctionOnSet, FoldFunctionOnSet, MapThenFoldSet, Adds, Pick

\* The subsets of S that have at most n elements.
Small(S, n) == {T \in SUBSET S : Cardinality(T) <= n}

\* That function exists: on the sets of at most n elements, for every n.
LEMMA SumExists ==
    ASSUME NEW S, IsFiniteSet(S), NEW f, \A x \in S : f[x] \in Nat
    PROVE  \E g \in [SUBSET S -> Nat] : Adds(g, f, S)
<1> DEFINE Def(T, g) == IF T = {} THEN 0 ELSE f[Pick(T)] + g[T \ {Pick(T)}]
           Done == {n \in Nat : \E g \in [Small(S, n) -> Nat] :
                                   \A T \in Small(S, n) : g[T] = Def(T, g)}
<1>1. \A T \in SUBSET S : IsFiniteSet(T) /\ Cardinality(T) \in Nat
  BY FS_Subset, FS_CardinalityType
<1>2. 0 \in Done
  <2> DEFINE g == [T \in Small(S, 0) |-> 0]
  <2>1. \A T \in Small(S, 0) : T = {}
    BY <1>1, FS_EmptySet DEF Small
  <2>2. g \in [Small(S, 0) -> Nat]
    OBVIOUS
  <2>3. \A T \in Small(S, 0) : g[T] = Def(T, g)
    BY <2>1
  <2> QED BY <2>2, <2>3
<1>3. ASSUME NEW n \in Nat, n \in Done PROVE n + 1 \in Done
  <2>1. PICK g \in [Small(S, n) -> Nat] : \A T \in Small(S, n) : g[T] = Def(T, g)
    BY <1>3
  <2> DEFINE h == [T \in Small(S, n + 1) |-> Def(T, g)]
  <2>2. \A T \in Small(S, n + 1) : T # {} => /\ Pick(T) \in S
                                            /\ T \ {Pick(T)} \in Small(S, n)
    <3> TAKE T \in Small(S, n + 1)
    <3> HAVE T # {}
    <3>1. T \in SUBSET S /\ Cardinality(T) <= n + 1 /\ Pick(T) \in T
      BY PickIsIn DEF Small
    <3>2. /\ Cardinality(T) \in Nat
          /\ Cardinality(T \ {Pick(T)}) = Cardinality(T) - 1
      BY <1>1, <3>1, SmallerSet
    <3> QED BY <3>1, <3>2 DEF Small
  <2>3. \A T \in Small(S, n + 1) : Def(T, g) \in Nat
    BY <2>2
  <2>4. h \in [Small(S, n + 1) -> Nat]
    BY <2>3
  <2>5. \A T \in Small(S, n) : T \in Small(S, n + 1) /\ h[T] = g[T]
    <3>1. \A T \in Small(S, n) : T \in Small(S, n + 1)
      BY <1>1 DEF Small
    <3> QED BY <2>1, <3>1
  <2>6. \A T \in Small(S, n + 1) : h[T] = Def(T, h)
    BY <2>2, <2>5
  <2> HIDE DEF h, Def
  <2> QED BY <2>4, <2>6 DEF Done
<1>4. Nat \subseteq Done
  <2> HIDE DEF Done
  <2> QED BY <1>2, <1>3, Induction
<1>5. Cardinality(S) \in Done
  BY <1>4, FS_CardinalityType
<1>6. Small(S, Cardinality(S)) = SUBSET S
  BY FS_Subset DEF Small
<1>7. PICK g \in [SUBSET S -> Nat] : \A T \in SUBSET S : g[T] = Def(T, g)
  BY <1>5, <1>6
<1>8. g = [T \in SUBSET S |-> Def(T, g)]
  BY <1>7
<1> QED BY <1>7, <1>8 DEF Adds

\* Two sums agree on every set that both are defined for.
LEMMA SumIsUnique ==
    ASSUME NEW S, NEW R, NEW f, NEW h, NEW k, IsFiniteSet(S),
           S \subseteq R, Adds(h, f, S), Adds(k, f, R)
    PROVE  h[S] = k[S]
<1> DEFINE Same == {n \in Nat : \A T \in Small(S, n) : h[T] = k[T]}
<1>1. \A T \in SUBSET S : IsFiniteSet(T) /\ Cardinality(T) \in Nat
  BY FS_Subset, FS_CardinalityType
<1>2. \A T \in SUBSET S :
         /\ h[T] = IF T = {} THEN 0 ELSE f[Pick(T)] + h[T \ {Pick(T)}]
         /\ k[T] = IF T = {} THEN 0 ELSE f[Pick(T)] + k[T \ {Pick(T)}]
  BY DEF Adds
<1>3. 0 \in Same
  <2>1. \A T \in Small(S, 0) : T = {}
    BY <1>1, FS_EmptySet DEF Small
  <2> QED BY <1>2, <2>1
<1>4. ASSUME NEW n \in Nat, n \in Same PROVE n + 1 \in Same
  <2>1. SUFFICES ASSUME NEW T \in Small(S, n + 1), T # {} PROVE h[T] = k[T]
    BY <1>2 DEF Small
  <2>2. T \in SUBSET S /\ Cardinality(T) <= n + 1 /\ Pick(T) \in T
    BY <2>1, PickIsIn DEF Small
  <2>3. T \ {Pick(T)} \in Small(S, n)
    <3>1. /\ Cardinality(T) \in Nat
          /\ Cardinality(T \ {Pick(T)}) = Cardinality(T) - 1
      BY <1>1, <2>2, SmallerSet
    <3> QED BY <2>2, <3>1 DEF Small
  <2>4. h[T \ {Pick(T)}] = k[T \ {Pick(T)}]
    BY <1>4, <2>3
  <2> QED BY <1>2, <2>1, <2>2, <2>4
<1>5. Nat \subseteq Same
  <2> HIDE DEF Same
  <2> QED BY <1>3, <1>4, Induction
<1>6. Cardinality(S) \in Same /\ S \in Small(S, Cardinality(S))
  BY <1>1, <1>5, FS_CardinalityType DEF Small
<1> QED BY <1>6

\* A sum is a natural number; that of a set with an element is the chosen
\* element's value and the sum of the others.
LEMMA SumStep ==
    ASSUME NEW S, IsFiniteSet(S), NEW f, \A x \in S : f[x] \in Nat
    PROVE  /\ SumFunctionOnSet(f, S) \in Nat
           /\ S = {} => SumFunctionOnSet(f, S) = 0
           /\ S # {} => SumFunctionOnSet(f, S)
                          = f[Pick(S)] + SumFunctionOnSet(f, S \ {Pick(S)})
<1> DEFINE g == CHOOSE h : Adds(h, f, S)
<1>1. PICK h \in [SUBSET S -> Nat] : Adds(h, f, S)
  BY SumExists
<1>2. Adds(g, f, S)
  BY <1>1
<1>3. S \in SUBSET S /\ g[S] = h[S]
  BY <1>1, <1>2, SumIsUnique
<1>4. SumFunctionOnSet(f, S) = h[S]
  BY <1>3, SumUnfolds
<1>5. h[S] = IF S = {} THEN 0 ELSE f[Pick(S)] + h[S \ {Pick(S)}]
  BY <1>1, <1>3 DEF Adds
<1>6. ASSUME S # {} PROVE SumFunctionOnSet(f, S \ {Pick(S)}) = h[S \ {Pick(S)}]
  <2> DEFINE R == S \ {Pick(S)}
  <2>1. IsFiniteSet(R) /\ R \subseteq S /\ \A x \in R : f[x] \in Nat
    BY FS_RemoveElement
  <2>2. PICK k : Adds(k, f, R)
    BY <2>1, SumExists
  <2>3. Adds(CHOOSE j : Adds(j, f, R), f, R)
    BY <2>2
  <2> HIDE DEF R
  <2>4. (CHOOSE j : Adds(j, f, R))[R] = h[R]
    BY <1>1, <2>1, <2>3, SumIsUnique
  <2>5. SumFunctionOnSet(f, R) = h[R]
    BY <2>4, SumUnfolds
  <2> QED BY <2>5 DEF R
<1> QED BY <1>1, <1>3, <1>4, <1>5, <1>6

\* The order in which CHOOSE takes the elements does not matter: any element can
\* be the one that is added last.
LEMMA SumRemoves ==
    ASSUME NEW S, IsFiniteSet(S), NEW f, \A x \in S : f[x] \in Nat, NEW x \in S
    PROVE  SumFunctionOnSet(f, S) = f[x] + SumFunctionOnSet(f, S \ {x})
<1> DEFINE Sum(T) == SumFunctionOnSet(f, T)
           AnyFirst == {n \in Nat : \A T \in Small(S, n) : \A y \in T :
                                   Sum(T) = f[y] + Sum(T \ {y})}
<1> HIDE DEF Sum
<1>1. \A T \in SUBSET S : IsFiniteSet(T) /\ Cardinality(T) \in Nat
  BY FS_Subset, FS_CardinalityType
<1>2. \A T \in SUBSET S : /\ Sum(T) \in Nat
                          /\ T # {} => Sum(T) = f[Pick(T)] + Sum(T \ {Pick(T)})
  <2> TAKE T \in SUBSET S
  <2>1. IsFiniteSet(T) /\ \A y \in T : f[y] \in Nat
    BY <1>1
  <2> QED BY <2>1, SumStep DEF Sum
<1>3. 0 \in AnyFirst
  <2>1. \A T \in Small(S, 0) : T = {}
    BY <1>1, FS_EmptySet DEF Small
  <2> QED BY <2>1
<1>4. ASSUME NEW n \in Nat, n \in AnyFirst PROVE n + 1 \in AnyFirst
  <2>1. SUFFICES ASSUME NEW T \in Small(S, n + 1), NEW y \in T
                 PROVE  Sum(T) = f[y] + Sum(T \ {y})
    OBVIOUS
  <2> DEFINE p == Pick(T)
  <2>2. T \in SUBSET S /\ Cardinality(T) <= n + 1 /\ p \in T
    BY <2>1, PickIsIn DEF Small
  <2>3. Sum(T) = f[p] + Sum(T \ {p})
    BY <1>2, <2>2
  <2>4. \A z \in T : T \ {z} \in Small(S, n)
    <3> TAKE z \in T
    <3>1. /\ Cardinality(T) \in Nat
          /\ Cardinality(T \ {z}) = Cardinality(T) - 1
      BY <1>1, <2>2, SmallerSet
    <3> QED BY <2>2, <3>1 DEF Small
  <2> HIDE DEF p
  <2>5. CASE y = p
    BY <2>3, <2>5
  <2>6. CASE y # p
    <3>1. Sum(T \ {p}) = f[y] + Sum((T \ {p}) \ {y})
      BY <1>4, <2>2, <2>4, <2>6
    <3>2. Sum(T \ {y}) = f[p] + Sum((T \ {y}) \ {p})
      BY <1>4, <2>2, <2>4, <2>6
    <3>3. (T \ {p}) \ {y} = (T \ {y}) \ {p}
      OBVIOUS
    <3>4. Sum((T \ {y}) \ {p}) \in Nat /\ f[y] \in Nat /\ f[p] \in Nat
      BY <1>2, <2>2
    <3> QED BY <2>3, <3>1, <3>2, <3>3, <3>4
  <2> QED BY <2>5, <2>6
<1>5. Nat \subseteq AnyFirst
  <2> HIDE DEF AnyFirst
  <2> QED BY <1>3, <1>4, Induction
<1>6. Cardinality(S) \in AnyFirst /\ S \in Small(S, Cardinality(S))
  BY <1>1, <1>5, FS_CardinalityType DEF Small
<1>7. Sum(S) = f[x] + Sum(S \ {x})
  BY <1>6
<1> QED BY <1>7 DEF Sum

\* A sum grows by the value of an element that joins the set.
LEMMA SumAdds ==
    ASSUME NEW S, IsFiniteSet(S), NEW x, x \notin S,
           NEW f, \A y \in S \cup {x} : f[y] \in Nat
    PROVE  SumFunctionOnSet(f, S \cup {x}) = f[x] + SumFunctionOnSet(f, S)
<1>1. IsFiniteSet(S \cup {x}) /\ (S \cup {x}) \ {x} = S
  BY FS_AddElement
<1>2. SumFunctionOnSet(f, S \cup {x}) = f[x] + SumFunctionOnSet(f, (S \cup {x}) \ {x})
  <2> DEFINE R == S \cup {x}
  <2>1. IsFiniteSet(R) /\ x \in R /\ \A y \in R : f[y] \in Nat
    BY <1>1
  <2> HIDE DEF R
  <2>2. SumFunctionOnSet(f, R) = f[x] + SumFunctionOnSet(f, R \ {x})
    BY <2>1, SumRemoves
  <2> QED BY <2>2 DEF R
<1> QED BY <1>1, <1>2

\* A sum depends on the values of the set's elements only.
LEMMA SumSame ==
    ASSUME NEW S, IsFiniteSet(S), NEW f, NEW h,
           \A x \in S : f[x] \in Nat /\ h[x] = f[x]
    PROVE  SumFunctionOnSet(h, S) = SumFunctionOnSet(f, S)
<1> DEFINE Same == {n \in Nat : \A T \in Small(S, n) :
                                   SumFunctionOnSet(h, T) = SumFunctionOnSet(f, T)}
<1>1. \A T \in SUBSET S : IsFiniteSet(T) /\ Cardinality(T) \in Nat
  BY FS_Subset, FS_CardinalityType
<1>2. ASSUME NEW T \in SUBSET S
      PROVE  /\ T = {} => SumFunctionOnSet(h, T) = 0 /\ SumFunctionOnSet(f, T) = 0
             /\ T # {} =>
                  /\ SumFunctionOnSet(h, T) = h[Pick(T)] + SumFunctionOnSet(h, T \ {Pick(T)})
                  /\ SumFunctionOnSet(f, T) = f[Pick(T)] + SumFunctionOnSet(f, T \ {Pick(T)})
  <2>1. IsFiniteSet(T) /\ (\A x \in T : f[x] \in Nat) /\ (\A x \in T : h[x] \in Nat)
    BY <1>1
  <2> QED BY <2>1, SumStep
<1>3. 0 \in Same
  <2>1. \A T \in Small(S, 0) : T = {}
    BY <1>1, FS_EmptySet DEF Small
  <2> QED BY <1>2, <2>1
<1>4. ASSUME NEW n \in Nat, n \in Same PROVE n + 1 \in Same
  <2>1. SUFFICES ASSUME NEW T \in Small(S, n + 1), T # {}
                 PROVE  SumFunctionOnSet(h, T) = SumFunctionOnSet(f, T)
    BY <1>2 DEF Small
  <2>2. T \in SUBSET S /\ Cardinality(T) <= n + 1 /\ Pick(T) \in T
    BY <2>1, PickIsIn DEF Small
  <2>3. T \ {Pick(T)} \in Small(S, n)
    <3>1. /\ Cardinality(T) \in Nat
          /\ Cardinality(T \ {Pick(T)}) = Cardinality(T) - 1
      BY <1>1, <2>2, SmallerSet
    <3> QED BY <2>2, <3>1 DEF Small
  <2>4. SumFunctionOnSet(h, T \ {Pick(T)}) = SumFunctionOnSet(f, T \ {Pick(T)})
    BY <1>4, <2>3
  <2>5. h[Pick(T)] = f[Pick(T)]
    BY <2>2
  <2> QED BY <1>2, <2>1, <2>2, <2>4, <2>5
<1>5. Nat \subseteq Same
  <2> HIDE DEF Same
  <2> QED BY <1>3, <1>4, Induction
<1>6. Cardinality(S) \in Same /\ S \in Small(S, Cardinality(S))
  BY <1>1, <1>5, FS_CardinalityType DEF Small
<1> QED BY <1>6

\* A sum of natural numbers is at least the sum over a part of the set.
LEMMA SumOfPart ==
    ASSUME NEW S, IsFiniteSet(S), NEW f, \A x \in S : f[x] \in Nat, NEW R, R \subseteq S
    PROVE  /\ SumFunctionOnSet(f, R) \in Nat /\ SumFunctionOnSet(f, S) \in Nat
           /\ SumFunctionOnSet(f, R) <= SumFunctionOnSet(f, S)
<1> DEFINE Sum(T) == SumFunctionOnSet(f, T)
           Less == {n \in Nat : \A T \in Small(S, n) : \A P \in SUBSET T : Sum(P) <= Sum(T)}
<1> HIDE DEF Sum
<1>1. \A T \in SUBSET S : IsFiniteSet(T) /\ Cardinality(T) \in Nat
  BY FS_Subset, FS_CardinalityType
<1>2. \A T \in SUBSET S : Sum(T) \in Nat
  <2> TAKE T \in SUBSET S
  <2>1. IsFiniteSet(T) /\ \A y \in T : f[y] \in Nat
    BY <1>1
  <2> QED BY <2>1, SumStep DEF Sum
<1>3. 0 \in Less
  <2>1. ASSUME NEW T \in Small(S, 0), NEW P \in SUBSET T PROVE Sum(P) <= Sum(T)
    <3>1. T = {} /\ P = T /\ T \in SUBSET S
      BY <1>1, FS_EmptySet DEF Small
    <3> QED BY <1>2, <3>1
  <2> QED BY <2>1
<1>4. ASSUME NEW n \in Nat, n \in Less PROVE n + 1 \in Less
  <2>1. ASSUME NEW T \in Small(S, n + 1), NEW P \in SUBSET T PROVE Sum(P) <= Sum(T)
    <3>1. T \in SUBSET S /\ Cardinality(T) <= n + 1 /\ P \in SUBSET S
      BY DEF Small
    <3>2. CASE P = T
      BY <1>2, <3>1, <3>2
    <3>3. CASE P # T
      <4>1. PICK x \in T : x \notin P
        BY <3>3
      <4>2. /\ IsFiniteSet(T) /\ Cardinality(T) \in Nat
            /\ Cardinality(T \ {x}) = Cardinality(T) - 1
        BY <1>1, <3>1, SmallerSet
      <4>3. T \ {x} \in Small(S, n) /\ P \in SUBSET (T \ {x})
        BY <3>1, <4>1, <4>2 DEF Small
      <4>4. Sum(P) <= Sum(T \ {x})
        BY <1>4, <4>3
      <4>5. Sum(T) = f[x] + Sum(T \ {x}) /\ f[x] \in Nat
        <5>1. \A y \in T : f[y] \in Nat
          BY <3>1
        <5> QED BY <4>2, <5>1, SumRemoves DEF Sum
      <4>6. Sum(P) \in Nat /\ Sum(T \ {x}) \in Nat
        BY <1>2, <3>1
      <4> QED BY <4>4, <4>5, <4>6
    <3> QED BY <3>2, <3>3
  <2> QED BY <2>1
<1>5. Nat \subseteq Less
  <2> HIDE DEF Less
  <2> QED BY <1>3, <1>4, Induction
<1>6. Cardinality(S) \in Less /\ S \in Small(S, Cardinality(S))
  BY <1>1, <1>5, FS_CardinalityType DEF Small
<1> QED BY <1>2, <1>6 DEF Sum

-----------------------------------------------------------------------------
\* Induction on sequences by Append.
LEMMA SequenceInduction ==
    ASSUME NEW X, NEW P, <<>> \in P,
           \A s \in Seq(X), e \in X : s \in P => Append(s, e) \in P
    PROVE  Seq(X) \subseteq P
<1> DEFINE Long == {n \in Nat : \A s \in Seq(X) : Len(s) = n => s \in P}
<1>1. 0 \in Long
  BY EmptySeq
<1>2. ASSUME NEW n \in Nat, n \in Long PROVE n + 1 \in Long
  <2>1. SUFFICES ASSUME NEW s \in Seq(X), Len(s) = n + 1 PROVE s \in P
    OBVIOUS
  <2>2. s # <<>>
    BY <2>1
  <2>3. PICK r \in Seq(X), e \in X : s = Append(r, e)
    BY <2>2, SequenceEmptyOrAppend
  <2>4. Len(r) = n
    BY <2>1, <2>3, AppendProperties, LenProperties
  <2> QED BY <1>2, <2>3, <2>4
<1>3. Nat \subseteq Long
  <2> HIDE DEF Long
  <2> QED BY <1>1, <1>2, Induction
<1>4. \A s \in Seq(X) : Len(s) \in Long
  BY <1>3, LenProperties
<1> QED BY <1>4

\* The recursion of FlattenSeq.
Joins(g, s) == g = [i \in 1 .. Len(s) |-> IF i = 1 THEN s[i] ELSE g[i - 1] \o s[i]]

\* FlattenSeq is a recursive function over the positions.
LEMMA FlattenUnfolds ==
    ASSUME NEW s, Len(s) # 0
    PROVE  FlattenSeq(s) = (CHOOSE g : Joins(g, s))[Len(s)]
BY DEF FlattenSeq, Joins

\* That function exists for every sequence of sequences.
LEMMA JoinsExist ==
    ASSUME NEW X, NEW s \in Seq(Seq(X))
    PROVE  \E g \in [1 .. Len(s) -> Seq(X)] : Joins(g, s)
<1> DEFINE P == {r \in Seq(Seq(X)) : \E g \in [1 .. Len(r) -> Seq(X)] : Joins(g, r)}
<1>1. <<>> \in P
  <2> DEFINE g == [i \in 1 .. 0 |-> <<>>]
  <2>1. Len(<<>>) = 0 /\ <<>> \in Seq(Seq(X))
    BY EmptySeq
  <2>2. g \in [1 .. Len(<<>>) -> Seq(X)]
    BY <2>1
  <2>3. Joins(g, <<>>)
    BY <2>1 DEF Joins
  <2> QED BY <2>1, <2>2, <2>3
<1>2. ASSUME NEW r \in Seq(Seq(X)), NEW e \in Seq(X), r \in P PROVE Append(r, e) \in P
  <2> DEFINE t == Append(r, e)
  <2>1. PICK g \in [1 .. Len(r) -> Seq(X)] : Joins(g, r)
    BY <1>2
  <2>2. /\ t \in Seq(Seq(X)) /\ Len(t) = Len(r) + 1 /\ Len(r) \in Nat
        /\ \A i \in 1 .. Len(r) : t[i] = r[i] /\ r[i] \in Seq(X)
        /\ t[Len(r) + 1] = e
    BY AppendProperties, LenProperties, ElementOfSeq
  <2> HIDE DEF t
  <2> DEFINE h == [i \in 1 .. Len(t) |-> IF i <= Len(r) THEN g[i]
                                         ELSE IF i = 1 THEN e ELSE g[Len(r)] \o e]
  <2>3. h \in [1 .. Len(t) -> Seq(X)]
    <3> SUFFICES ASSUME NEW i \in 1 .. Len(t) PROVE h[i] \in Seq(X)
      OBVIOUS
    <3>1. CASE i <= Len(r)
      <4>1. i \in 1 .. Len(r) /\ h[i] = g[i]
        BY <2>2, <3>1
      <4>2. g[i] \in Seq(X)
        BY <4>1, Zenon
      <4> QED BY <4>1, <4>2
    <3>2. CASE i > Len(r)
      <4>1. i = Len(r) + 1
        BY <2>2, <3>2
      <4>2. i # 1 => g[Len(r)] \in Seq(X)
        <5>1. i # 1 => Len(r) \in 1 .. Len(r)
          BY <2>2, <4>1
        <5> QED BY <5>1, Zenon
      <4>3. i # 1 => g[Len(r)] \o e \in Seq(X)
        BY <4>2, ConcatProperties
      <4> QED BY <2>2, <3>2, <4>3
    <3> QED BY <2>2, <3>1, <3>2
  <2>4. \A i \in 1 .. Len(t) : h[i] = IF i = 1 THEN t[i] ELSE h[i - 1] \o t[i]
    <3> TAKE i \in 1 .. Len(t)
    <3>1. CASE i <= Len(r)
      <4>0. i \in 1 .. Len(r)
        BY <2>2, <3>1
      <4>1. g[i] = IF i = 1 THEN r[i] ELSE g[i - 1] \o r[i]
        BY <2>1, <4>0, Zenon DEF Joins
      <4>2. h[i] = g[i] /\ t[i] = r[i]
        BY SMTT(30), ZenonT(30), <2>2, <3>1
      <4>3. i # 1 => h[i - 1] = g[i - 1]
        BY <2>2, <3>1
      <4> HIDE DEF h
      <4> QED BY <4>1, <4>2, <4>3
    <3>2. CASE i > Len(r)
      <4>1. i = Len(r) + 1
        BY <2>2, <3>2
      <4>2. h[i] = IF i = 1 THEN e ELSE g[Len(r)] \o e
        BY <2>2, <4>1
      <4>3. i # 1 => h[i - 1] = g[Len(r)]
        BY <2>2, <4>1
      <4> HIDE DEF h
      <4> QED BY <2>2, <4>1, <4>2, <4>3
    <3> QED BY <2>2, <3>1, <3>2
  <2>5. Joins(h, t)
    <3>1. h = [i \in 1 .. Len(t) |-> h[i]]
      BY <2>3
    <3> HIDE DEF h
    <3> QED BY <2>4, <3>1 DEF Joins
  <2> HIDE DEF h
  <2>6. t \in P
    BY <2>2, <2>3, <2>5
  <2> QED BY <2>6 DEF t
<1>3. Seq(Seq(X)) \subseteq P
  <2> HIDE DEF P
  <2> QED BY <1>1, <1>2, SequenceInduction
<1> QED BY <1>3

\* The sequence s is the beginning of t.
Begins(s, t) ==
    /\ Len(s) \in Nat /\ Len(t) \in Nat /\ Len(s) <= Len(t)
    /\ \A i \in 1 .. Len(s) : s[i] = t[i]

\* Concatenations of sequences that agree so far agree so far.
LEMMA JoinsAgree ==
    ASSUME NEW s, NEW t, NEW g, NEW h, Joins(g, s), Joins(h, t), Begins(s, t)
    PROVE  \A i \in 1 .. Len(s) : g[i] = h[i]
<1> DEFINE Same == {n \in Nat : n < Len(s) => g[n + 1] = h[n + 1]}
<1>1. /\ Len(s) \in Nat /\ Len(t) \in Nat /\ Len(s) <= Len(t)
      /\ \A i \in 1 .. Len(s) : s[i] = t[i]
  BY DEF Begins
<1>2. ASSUME NEW i \in 1 .. Len(s)
      PROVE  /\ g[i] = IF i = 1 THEN s[i] ELSE g[i - 1] \o s[i]
             /\ h[i] = IF i = 1 THEN s[i] ELSE h[i - 1] \o s[i]
  <2>1. i \in 1 .. Len(t) /\ s[i] = t[i]
    BY <1>1
  <2>2. g[i] = IF i = 1 THEN s[i] ELSE g[i - 1] \o s[i]
    BY Zenon DEF Joins
  <2>3. h[i] = IF i = 1 THEN t[i] ELSE h[i - 1] \o t[i]
    BY <2>1, Zenon DEF Joins
  <2> QED BY <2>1, <2>2, <2>3
<1>3. 0 \in Same
  <2>1. SUFFICES ASSUME 0 < Len(s) PROVE g[0 + 1] = h[0 + 1]
    OBVIOUS
  <2>2. 0 + 1 = 1 /\ 1 \in 1 .. Len(s)
    BY <1>1, <2>1
  <2> QED BY <1>2, <2>2
<1>4. ASSUME NEW n \in Nat, n \in Same PROVE n + 1 \in Same
  <2>1. SUFFICES ASSUME n + 1 < Len(s) PROVE g[n + 2] = h[n + 2]
    OBVIOUS
  <2>2. n + 2 \in 1 .. Len(s) /\ n + 2 # 1 /\ (n + 2) - 1 = n + 1 /\ n < Len(s)
    BY <1>1, <2>1
  <2>3. g[n + 1] = h[n + 1]
    BY <1>4, <2>2
  <2>4. g[n + 2] = g[n + 1] \o s[n + 2] /\ h[n + 2] = h[n + 1] \o s[n + 2]
    BY <1>2, <2>2
  <2> QED BY <2>3, <2>4
<1>5. Nat \subseteq Same
  <2> HIDE DEF Same
  <2> QED BY <1>3, <1>4, Induction
<1> TAKE i \in 1 .. Len(s)
<1>6. i - 1 \in Nat /\ i - 1 < Len(s) /\ (i - 1) + 1 = i
  BY <1>1
<1>7. i - 1 \in Same
  <2> HIDE DEF Same
  <2> QED BY <1>5, <1>6
<1> QED BY <1>6, <1>7

\* FlattenSeq is the last value of any function that satisfies the recursion.
LEMMA FlattenIsLast ==
    ASSUME NEW X, NEW s \in Seq(Seq(X)), s # <<>>, NEW g, Joins(g, s)
    PROVE  FlattenSeq(s) = g[Len(s)]
<1>1. Len(s) \in 1 .. Len(s) /\ Len(s) # 0
  BY EmptySeq
<1>2. Joins(CHOOSE h : Joins(h, s), s)
  BY Zenon
<1>3. (CHOOSE h : Joins(h, s))[Len(s)] = g[Len(s)]
  <2>1. Begins(s, s)
    BY LenProperties DEF Begins
  <2> QED BY <1>1, <1>2, <2>1, JoinsAgree
<1> QED BY <1>1, <1>3, FlattenUnfolds

\* FlattenSeq is a sequence; one more sequence comes at its end.
LEMMA FlattenAppends ==
    ASSUME NEW X, NEW s \in Seq(Seq(X)), NEW e \in Seq(X)
    PROVE  /\ FlattenSeq(<<>>) = <<>>
           /\ FlattenSeq(s) \in Seq(X)
           /\ FlattenSeq(Append(s, e)) = FlattenSeq(s) \o e
<1>0. FlattenSeq(<<>>) = <<>>
  BY EmptySeq DEF FlattenSeq
<1>1. FlattenSeq(s) \in Seq(X)
  <2>1. CASE s = <<>>
    BY <1>0, <2>1, EmptySeq
  <2>2. CASE s # <<>>
    <3>1. PICK g \in [1 .. Len(s) -> Seq(X)] : Joins(g, s)
      BY JoinsExist
    <3>2. Len(s) \in 1 .. Len(s)
      BY <2>2, EmptySeq
    <3>3. FlattenSeq(s) = g[Len(s)]
      BY <2>2, <3>1, FlattenIsLast
    <3>4. g[Len(s)] \in Seq(X)
      BY <3>2, Zenon
    <3> QED BY <3>3, <3>4
  <2> QED BY <2>1, <2>2
<1> DEFINE t == Append(s, e)
<1>2. /\ t \in Seq(Seq(X)) /\ t # <<>> /\ Len(t) = Len(s) + 1 /\ Len(s) \in Nat
      /\ \A i \in 1 .. Len(s) : t[i] = s[i]
      /\ t[Len(s) + 1] = e
  BY AppendProperties, LenProperties
<1> HIDE DEF t
<1>3. PICK h \in [1 .. Len(t) -> Seq(X)] : Joins(h, t)
  BY <1>2, JoinsExist
<1>4. FlattenSeq(t) = h[Len(t)]
  BY <1>2, <1>3, FlattenIsLast
<1>5. h[Len(t)] = IF Len(t) = 1 THEN t[Len(t)] ELSE h[Len(t) - 1] \o t[Len(t)]
  <2>1. Len(t) \in 1 .. Len(t)
    BY <1>2
  <2> QED BY <1>3, <2>1, Zenon DEF Joins
<1>6. CASE s = <<>>
  <2>1. Len(t) = 1 /\ Len(s) = 0
    BY <1>2, <1>6, EmptySeq
  <2>2. FlattenSeq(t) = e
    BY <1>2, <1>4, <1>5, <2>1
  <2>3. <<>> \o e = e
    BY ConcatEmptySeq
  <2> QED BY <1>0, <1>1, <1>6, <2>2, <2>3 DEF t
<1>7. CASE s # <<>>
  <2>1. PICK g \in [1 .. Len(s) -> Seq(X)] : Joins(g, s)
    BY JoinsExist
  <2>2. FlattenSeq(s) = g[Len(s)]
    BY <1>7, <2>1, FlattenIsLast
  <2>3. Len(s) \in 1 .. Len(s) /\ Len(s) <= Len(t)
    BY <1>2, <1>7, EmptySeq
  <2>4. \A i \in 1 .. Len(s) : g[i] = h[i]
    <3>1. Begins(s, t)
      BY <1>2, <2>3 DEF Begins
    <3> QED BY SMTT(30), ZenonT(30), <1>3, <2>1, <3>1, JoinsAgree
  <2>5. Len(t) # 1 /\ Len(t) - 1 = Len(s) /\ t[Len(t)] = e
    BY <1>2, <2>3
  <2>6. FlattenSeq(t) = FlattenSeq(s) \o e
    BY <1>4, <1>5, <2>2, <2>3, <2>4, <2>5
  <2> QED BY <1>0, <1>1, <2>6 DEF t
<1> QED BY <1>6, <1>7

\* The first sequence comes at its beginning.
LEMMA FlattenHead ==
    ASSUME NEW X
    PROVE  \A s \in Seq(Seq(X)) :
              s # <<>> => FlattenSeq(s) = Head(s) \o FlattenSeq(Tail(s))
<1> DEFINE P == {r \in Seq(Seq(X)) : r # <<>> => FlattenSeq(r) = Head(r) \o FlattenSeq(Tail(r))}
<1>1. <<>> \in P
  BY EmptySeq
<1>2. ASSUME NEW r \in Seq(Seq(X)), NEW e \in Seq(X), r \in P PROVE Append(r, e) \in P
  <2>1. Append(r, e) \in Seq(Seq(X)) /\ FlattenSeq(Append(r, e)) = FlattenSeq(r) \o e
    BY AppendProperties, FlattenAppends
  <2>2. CASE r = <<>>
    <3>1. Head(Append(r, e)) = e /\ Tail(Append(r, e)) = <<>>
      BY <2>2, HeadTailAppend
    <3>2. <<>> \o e = e /\ e \o <<>> = e
      BY ConcatEmptySeq
    <3>3. FlattenSeq(<<>>) = <<>>
      BY FlattenAppends
    <3> QED BY <2>1, <2>2, <3>1, <3>2, <3>3
  <2>3. CASE r # <<>>
    <3>1. Head(Append(r, e)) = Head(r) /\ Tail(Append(r, e)) = Append(Tail(r), e)
      BY <2>3, HeadTailAppend
    <3>2. Head(r) \in Seq(X) /\ Tail(r) \in Seq(Seq(X))
      BY <2>3, HeadTailProperties
    <3>3. /\ FlattenSeq(Tail(r)) \in Seq(X)
          /\ FlattenSeq(Append(Tail(r), e)) = FlattenSeq(Tail(r)) \o e
      BY <3>2, FlattenAppends
    <3>4. FlattenSeq(r) = Head(r) \o FlattenSeq(Tail(r))
      BY <1>2, <2>3
    <3> HIDE DEF P
    <3>5. FlattenSeq(r) \o e = Head(r) \o (FlattenSeq(Tail(r)) \o e)
      <4>1. PICK h \in Seq(X), t \in Seq(X) : h = Head(r) /\ t = FlattenSeq(Tail(r))
        BY <3>2, <3>3
      <4>2. (h \o t) \o e = h \o (t \o e)
        BY SMTT(30), ZenonT(30), ConcatAssociative
      <4> QED BY <3>4, <4>1, <4>2
    <3>6. FlattenSeq(Append(r, e)) = Head(Append(r, e)) \o FlattenSeq(Tail(Append(r, e)))
      BY <2>1, <3>1, <3>3, <3>5
    <3> QED BY <2>1, <3>6 DEF P
  <2> QED BY <2>2, <2>3
<1>3. Seq(Seq(X)) \subseteq P
  <2> HIDE DEF P
  <2> QED BY <1>1, <1>2, SequenceInduction
<1> QED BY <1>3
-----------------------------------------------------------------------------
\* The weights w of the elements of a sequence.
Total(w, s) == SumFunction([k \in DOMAIN s |-> w[s[k]]])

\* A total is a natural number, that of no elements is 0.
LEMMA TotalIsNat ==
    ASSUME NEW X, NEW w \in [X -> Nat], NEW s \in Seq(X)
    PROVE  Total(w, <<>>) = 0 /\ Total(w, s) \in Nat
<1> DEFINE f(t) == [k \in DOMAIN t |-> w[t[k]]]
           all(t) == \A k \in DOMAIN t : f(t)[k] \in Nat
<1>1. ASSUME NEW t \in Seq(X)
      PROVE  /\ DOMAIN t = 1 .. Len(t) /\ Len(t) \in Nat /\ IsFiniteSet(DOMAIN t) /\ all(t)
             /\ Total(w, t) = SumFunctionOnSet(f(t), DOMAIN t)
  <2>1. DOMAIN t = 1 .. Len(t) /\ Len(t) \in Nat
    BY LenProperties
  <2>2. IsFiniteSet(1 .. Len(t))
    BY <2>1, FS_Interval
  <2>3. \A k \in 1 .. Len(t) : t[k] \in X
    BY ElementOfSeq
  <2>4. DOMAIN f(t) = DOMAIN t
    OBVIOUS
  <2> QED BY <2>1, <2>2, <2>3, <2>4 DEF Total, SumFunction
<1>2. Total(w, <<>>) = 0
  <2>1. <<>> \in Seq(X) /\ Len(<<>>) = 0
    BY EmptySeq
  <2>2. DOMAIN <<>> = {} /\ IsFiniteSet({})
    BY <1>1, <2>1, FS_EmptySet
  <2>3. Total(w, <<>>) = SumFunctionOnSet(f(<<>>), {})
    BY <1>1, <2>1, <2>2
  <2> HIDE DEF f
  <2> QED BY <2>2, <2>3, SumStep
<1>3. Total(w, s) \in Nat
  <2>1. /\ IsFiniteSet(DOMAIN s) /\ \A k \in DOMAIN s : f(s)[k] \in Nat
        /\ Total(w, s) = SumFunctionOnSet(f(s), DOMAIN s)
    BY <1>1
  <2> HIDE DEF f
  <2> QED BY <2>1, SumStep
<1> QED BY <1>2, <1>3

\* One more element adds its weight.
LEMMA TotalAppends ==
    ASSUME NEW X, NEW w \in [X -> Nat], NEW s \in Seq(X), NEW e \in X
    PROVE  Total(w, Append(s, e)) = Total(w, s) + w[e]
<1> DEFINE f(t) == [k \in DOMAIN t |-> w[t[k]]]
           all(t) == \A k \in DOMAIN t : f(t)[k] \in Nat
<1>1. ASSUME NEW t \in Seq(X)
      PROVE  /\ DOMAIN t = 1 .. Len(t) /\ Len(t) \in Nat /\ IsFiniteSet(DOMAIN t) /\ all(t)
             /\ Total(w, t) = SumFunctionOnSet(f(t), DOMAIN t)
  <2>1. DOMAIN t = 1 .. Len(t) /\ Len(t) \in Nat
    BY LenProperties
  <2>2. IsFiniteSet(1 .. Len(t))
    BY <2>1, FS_Interval
  <2>3. \A k \in 1 .. Len(t) : t[k] \in X
    BY ElementOfSeq
  <2>4. DOMAIN f(t) = DOMAIN t
    OBVIOUS
  <2> QED BY <2>1, <2>2, <2>3, <2>4 DEF Total, SumFunction
<1> DEFINE a == Append(s, e)
           n == Len(s) + 1
<1>4. a \in Seq(X) /\ Len(a) = n /\ a[n] = e /\ \A k \in 1 .. Len(s) : a[k] = s[k]
  BY AppendProperties
<1> HIDE DEF a
<1>5. DOMAIN a = DOMAIN s \cup {n} /\ n \notin DOMAIN s
  BY <1>1, <1>4
<1>6. Total(w, a) = SumFunctionOnSet(f(a), DOMAIN s \cup {n})
  BY <1>1, <1>4, <1>5
<1>7. SumFunctionOnSet(f(a), DOMAIN s \cup {n}) = f(a)[n] + SumFunctionOnSet(f(a), DOMAIN s)
  <2>1. IsFiniteSet(DOMAIN s) /\ \A k \in DOMAIN s \cup {n} : f(a)[k] \in Nat
    BY <1>1, <1>4, <1>5
  <2> HIDE DEF f
  <2> QED BY SMTT(30), ZenonT(30), <1>5, <2>1, SumAdds
<1>8. SumFunctionOnSet(f(a), DOMAIN s) = SumFunctionOnSet(f(s), DOMAIN s)
  <2>1. IsFiniteSet(DOMAIN s) /\ \A k \in DOMAIN s : f(s)[k] \in Nat /\ f(a)[k] = f(s)[k]
    BY <1>1, <1>4, <1>5
  <2> HIDE DEF f
  <2> QED BY <2>1, SumSame
<1>9. f(a)[n] = w[e] /\ w[e] \in Nat
  BY <1>4, <1>5
<1>10. Total(w, a) = Total(w, s) + w[e]
  BY <1>1, <1>6, <1>7, <1>8, <1>9, TotalIsNat
<1> QED BY <1>10 DEF a

\* Appending to the second part appends to the whole.
LEMMA AppendToBoth ==
    ASSUME NEW X, NEW s \in Seq(X), NEW r \in Seq(X), NEW e \in X
    PROVE  s \o Append(r, e) = Append(s \o r, e) /\ Append(s \o r, e) \in Seq(X)
<1> DEFINE last == <<e>>
<1>1. last \in Seq(X) /\ s \o r \in Seq(X)
  BY ConcatProperties
<1>2. Append(r, e) = r \o last /\ Append(s \o r, e) = (s \o r) \o last
  BY <1>1, AppendIsConcat
<1>3. Append(s \o r, e) \in Seq(X)
  BY <1>1, AppendProperties
<1> HIDE DEF last
<1>4. (s \o r) \o last = s \o (r \o last)
  BY SMTT(30), ZenonT(30), <1>1, ConcatAssociative
<1> QED BY <1>2, <1>3, <1>4

\* The total of a concatenation is the sum of the totals.
LEMMA TotalOfBoth ==
    ASSUME NEW X, NEW w \in [X -> Nat], NEW s \in Seq(X), NEW t \in Seq(X)
    PROVE  Total(w, s \o t) = Total(w, s) + Total(w, t)
<1> DEFINE P == {r \in Seq(X) : /\ s \o r \in Seq(X)
                               /\ Total(w, s \o r) = Total(w, s) + Total(w, r)}
<1>1. <<>> \in P
  <2>1. s \o <<>> = s /\ <<>> \in Seq(X)
    BY ConcatEmptySeq, EmptySeq
  <2>2. Total(w, <<>>) = 0 /\ Total(w, s) \in Nat
    BY TotalIsNat
  <2> QED BY <2>1, <2>2
<1>2. ASSUME NEW r \in Seq(X), NEW e \in X, r \in P PROVE Append(r, e) \in P
  <2>1. /\ Append(r, e) \in Seq(X) /\ s \o r \in Seq(X)
        /\ Total(w, s \o r) = Total(w, s) + Total(w, r)
    BY <1>2, AppendProperties
  <2>2. s \o Append(r, e) = Append(s \o r, e) /\ Append(s \o r, e) \in Seq(X)
    BY AppendToBoth
  <2>3. /\ Total(w, Append(s \o r, e)) = Total(w, s \o r) + w[e]
        /\ Total(w, Append(r, e)) = Total(w, r) + w[e]
    BY SMTT(30), ZenonT(30), <2>1, TotalAppends
  <2>4. Total(w, s) \in Nat /\ Total(w, r) \in Nat /\ w[e] \in Nat
    BY TotalIsNat
  <2>5. Total(w, s \o Append(r, e)) = Total(w, s) + Total(w, Append(r, e))
    BY <2>1, <2>2, <2>3, <2>4
  <2> QED BY <2>1, <2>2, <2>5
<1>3. Seq(X) \subseteq P
  <2> HIDE DEF P
  <2> QED BY <1>1, <1>2, SequenceInduction
<1> QED BY <1>3
-----------------------------------------------------------------------------
\* The recursion that FoldLeft solves, for a step given as a function of the
\* position and of what has been folded so far.
Largest(T) == CHOOSE k \in T : \A j \in T : k >= j

Runs(g, step, base, n) ==
    \A T \in SUBSET (1 .. n) : g[T] = IF T = {} THEN base ELSE step[Largest(T)][g[T \ {Largest(T)}]]

\* The largest of the first positions is the last of them.
LEMMA LargestIsLast ==
    ASSUME NEW k \in Nat
    PROVE  /\ Largest(1 .. k + 1) = k + 1
           /\ (1 .. k + 1) \ {k + 1} = 1 .. k
           /\ 1 .. k + 1 # {} /\ 1 .. 0 = {}
<1>1. k + 1 \in 1 .. k + 1 /\ \A j \in 1 .. k + 1 : k + 1 >= j
  OBVIOUS
<1>2. ASSUME NEW m \in 1 .. k + 1, \A j \in 1 .. k + 1 : m >= j PROVE m = k + 1
  BY <1>1, <1>2
<1>3. Largest(1 .. k + 1) = k + 1
  BY <1>1, <1>2 DEF Largest
<1> QED BY <1>1, <1>3

\* Positions have a largest one.
LEMMA LargestIsIn ==
    ASSUME NEW n \in Nat, NEW T \in SUBSET (1 .. n), T # {}
    PROVE  Largest(T) \in T
<1> DEFINE Bound == {m \in Nat : m <= n => \A S \in SUBSET (1 .. m) :
                                              S # {} => \E k \in S : \A j \in S : k >= j}
<1>1. 0 \in Bound
  <2>1. \A S \in SUBSET (1 .. 0) : S = {}
    OBVIOUS
  <2> QED BY <2>1
<1>2. ASSUME NEW m \in Nat, m \in Bound PROVE m + 1 \in Bound
  <2>1. SUFFICES ASSUME m + 1 <= n, NEW S \in SUBSET (1 .. m + 1), S # {}
                 PROVE  \E k \in S : \A j \in S : k >= j
    OBVIOUS
  <2>2. CASE m + 1 \in S
    BY <2>2
  <2>3. CASE m + 1 \notin S
    <3>1. S \in SUBSET (1 .. m)
      BY <2>3
    <3> QED BY <1>2, <2>1, <3>1
  <2> QED BY <2>2, <2>3
<1>3. Nat \subseteq Bound
  <2> HIDE DEF Bound
  <2> QED BY <1>1, <1>2, Induction
<1>4. \E k \in T : \A j \in T : k >= j
  BY SMTT(30), ZenonT(30), <1>3
<1> QED BY <1>4 DEF Largest

\* It has a solution, whatever the step.
LEMMA RunsExist ==
    ASSUME NEW X, NEW base \in X, NEW n \in Nat, NEW step \in [1 .. n -> [X -> X]]
    PROVE  \E g \in [SUBSET (1 .. n) -> X] : Runs(g, step, base, n)
<1> DEFINE Def(T, g) == IF T = {} THEN base ELSE step[Largest(T)][g[T \ {Largest(T)}]]
           D == 1 .. n
           Done == {m \in Nat : \E g \in [Small(D, m) -> X] :
                                   \A T \in Small(D, m) : g[T] = Def(T, g)}
<1>1. IsFiniteSet(D)
  BY FS_Interval
<1> HIDE DEF D
<1>2. \A T \in SUBSET D : IsFiniteSet(T) /\ Cardinality(T) \in Nat
  BY <1>1, FS_Subset, FS_CardinalityType
<1>3. 0 \in Done
  <2> DEFINE g == [T \in Small(D, 0) |-> base]
  <2>1. \A T \in Small(D, 0) : T = {}
    BY <1>2, FS_EmptySet DEF Small
  <2>2. g \in [Small(D, 0) -> X]
    OBVIOUS
  <2>3. \A T \in Small(D, 0) : g[T] = Def(T, g)
    BY <2>1
  <2> QED BY <2>2, <2>3
<1>4. ASSUME NEW m \in Nat, m \in Done PROVE m + 1 \in Done
  <2>1. PICK g \in [Small(D, m) -> X] : \A T \in Small(D, m) : g[T] = Def(T, g)
    BY <1>4
  <2> DEFINE h == [T \in Small(D, m + 1) |-> Def(T, g)]
  <2>2. \A T \in Small(D, m + 1) : T # {} => /\ Largest(T) \in D
                                            /\ T \ {Largest(T)} \in Small(D, m)
    <3> TAKE T \in Small(D, m + 1)
    <3> HAVE T # {}
    <3>1. T \in SUBSET D /\ Cardinality(T) <= m + 1
      BY DEF Small
    <3>2. Largest(T) \in T
      BY <3>1, LargestIsIn DEF D
    <3>3. /\ Cardinality(T) \in Nat
          /\ Cardinality(T \ {Largest(T)}) = Cardinality(T) - 1
      BY <1>2, <3>1, <3>2, SmallerSet
    <3> QED BY <3>1, <3>2, <3>3 DEF Small
  <2>3. \A T \in Small(D, m + 1) : Def(T, g) \in X
    BY <2>2 DEF D
  <2>4. h \in [Small(D, m + 1) -> X]
    BY <2>3
  <2>5. \A T \in Small(D, m) : T \in Small(D, m + 1) /\ h[T] = g[T]
    <3>1. \A T \in Small(D, m) : T \in Small(D, m + 1)
      BY <1>2 DEF Small
    <3> QED BY <2>1, <3>1
  <2>6. \A T \in Small(D, m + 1) : h[T] = Def(T, h)
    BY <2>2, <2>5
  <2> HIDE DEF h, Def
  <2> QED BY <2>4, <2>6 DEF Done
<1>5. Nat \subseteq Done
  <2> HIDE DEF Done
  <2> QED BY <1>3, <1>4, Induction
<1>6. Cardinality(D) \in Done
  BY <1>1, <1>5, FS_CardinalityType
<1>7. Small(D, Cardinality(D)) = SUBSET D
  BY <1>1, <1>2, FS_Subset DEF Small
<1>8. PICK g \in [SUBSET D -> X] : \A T \in SUBSET D : g[T] = Def(T, g)
  BY <1>6, <1>7
<1> QED BY <1>8 DEF Runs, D
=============================================================================
