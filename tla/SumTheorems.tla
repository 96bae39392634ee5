------------------------------ MODULE SumTheorems ------------------------------
(***************************************************************************)
(* Facts about SumFunctionOnSet(f, S), the sum of f[x] over the x in a     *)
(* finite set S, which the double-entry arithmetic is built from.          *)
(*                                                                         *)
(* The operator is a fold, that is, a recursive function over the subsets  *)
(* of S.  Induction is used in the form of sets: a set of numbers that     *)
(* contains 0 and is closed under successor is Nat, and a set of subsets   *)
(* that contains T whenever it contains all proper subsets of T is full.   *)
(***************************************************************************)
EXTENDS Integers, Functions, FiniteSets, FiniteSetTheorems, TLAPS

(* Induction over the numbers, for a set of them.                           *)
LEMMA NumbersInduction ==
    ASSUME NEW S \in SUBSET Nat, 0 \in S, \A n \in S : n + 1 \in S
    PROVE  S = Nat
<1> DEFINE R == {ss \in Nat \X Nat : ss[1] < ss[2]}
           T == Nat \ S
<1>1. IsWellFoundedOn(R, Nat)
  BY NatLessThanWellFounded DEF OpToRel
<1>2. SUFFICES ASSUME T # {}
               PROVE  FALSE
  OBVIOUS
<1>3. T \subseteq Nat
  OBVIOUS
<1>4. PICK x \in T : \A y \in T : <<y, x>> \notin R
  <2> HIDE DEF R, T
  <2>1. QED
    BY <1>1, <1>2, <1>3, WFMin
<1>5. x - 1 \in Nat /\ x - 1 < x
  OBVIOUS
<1>6. <<x - 1, x>> \in R
  BY <1>5
<1>7. x - 1 \in S
  BY <1>4, <1>5, <1>6
<1>8. QED
  BY <1>7

(* Induction over the subsets of a finite set, for a set of them.           *)
LEMMA SubsetsInduction ==
    ASSUME NEW S, IsFiniteSet(S), NEW Good \in SUBSET SUBSET S,
           \A T \in SUBSET S : (\A U \in SUBSET T : U # T => U \in Good) => T \in Good
    PROVE  Good = SUBSET S
<1> DEFINE R == StrictSubsetOrdering(S)
           Bad == (SUBSET S) \ Good
<1>1. IsWellFoundedOn(R, SUBSET S)
  BY FS_StrictSubsetOrderingWellFounded, FS_FiniteSubsetsOfFinite
<1>2. SUFFICES ASSUME Bad # {}
               PROVE  FALSE
  OBVIOUS
<1>3. Bad \subseteq SUBSET S
  OBVIOUS
<1>4. PICK T \in Bad : \A U \in Bad : <<U, T>> \notin R
  <2> HIDE DEF R, Bad
  <2>1. QED
    BY <1>1, <1>2, <1>3, WFMin
<1>5. ASSUME NEW U \in SUBSET T, U # T
      PROVE  U \in Good
  <2>1. <<U, T>> \in R
    BY <1>5 DEF StrictSubsetOrdering
  <2>2. QED
    BY <1>4, <2>1
<1>6. QED
  BY <1>5

-------------------------------------------------------------------------------
(* The recursion.                                                           *)

Chosen(s) == CHOOSE x \in s : TRUE
Unfold(f, g, s) == IF s = {} THEN 0 ELSE f[Chosen(s)] + g[s \ {Chosen(s)}]
Solves(f, S, g) == \A s \in SUBSET S : g[s] = Unfold(f, g, s)

(* The recursion has a solution on the subsets of a finite set: one on the
   subsets of at most n elements gives one on those of at most n + 1.       *)
LEMMA SolutionExists ==
    ASSUME NEW f, NEW S, IsFiniteSet(S)
    PROVE  \E g : g = [s \in SUBSET S |-> Unfold(f, g, s)]
<1> DEFINE UpTo(n, g) == \A s \in SUBSET S : Cardinality(s) <= n => g[s] = Unfold(f, g, s)
           Good == {n \in Nat : \E g : UpTo(n, g)}
<1>1. \A s \in SUBSET S : IsFiniteSet(s) /\ Cardinality(s) \in 0..Cardinality(S)
  BY FS_Subset, FS_CardinalityType
<1>2. 0 \in Good
  <2> DEFINE z == [s \in SUBSET S |-> 0]
  <2>1. ASSUME NEW s \in SUBSET S, Cardinality(s) <= 0
        PROVE  z[s] = Unfold(f, z, s)
    <3>1. s = {}
      BY <1>1, <2>1, FS_EmptySet
    <3>2. QED
      BY <3>1 DEF Unfold
  <2>2. QED
    BY <2>1
<1>3. ASSUME NEW n \in Good
      PROVE  n + 1 \in Good
  <2>1. PICK g : UpTo(n, g)
    BY <1>3
  <2> DEFINE h == [s \in SUBSET S |-> Unfold(f, g, s)]
  <2>2. ASSUME NEW s \in SUBSET S, Cardinality(s) <= n + 1
        PROVE  h[s] = Unfold(f, h, s)
    <3>1. CASE s = {}
      BY <3>1 DEF Unfold
    <3>2. CASE s # {}
      <4> DEFINE r == s \ {Chosen(s)}
      <4>1. Chosen(s) \in s
        BY <3>2 DEF Chosen
      <4>2. r \in SUBSET S /\ Cardinality(r) <= n
        BY <1>1, <2>2, <4>1, FS_RemoveElement
      <4>3. h[r] = g[r]
        BY <2>1, <4>2
      <4>4. QED
        BY <3>2, <4>3 DEF Unfold
    <3>3. QED
      BY <3>1, <3>2
  <2>3. UpTo(n + 1, h)
    BY <2>2
  <2>4. QED
    <3> HIDE DEF UpTo, h
    <3>1. QED
      BY <2>3
<1>4. Good = Nat
  <2> HIDE DEF Good
  <2>1. Good \in SUBSET Nat
    BY DEF Good
  <2>2. QED
    BY <1>2, <1>3, <2>1, NumbersInduction
<1>5. PICK g : UpTo(Cardinality(S), g)
  BY <1>1, <1>4, FS_CardinalityType
<1> DEFINE h == [s \in SUBSET S |-> g[s]]
<1>6. ASSUME NEW s \in SUBSET S
      PROVE  g[s] = Unfold(f, h, s)
  <2>1. g[s] = Unfold(f, g, s)
    BY <1>1, <1>5
  <2>2. s # {} => s \ {Chosen(s)} \in SUBSET S
    OBVIOUS
  <2>3. QED
    BY <2>1, <2>2 DEF Unfold
<1>7. h = [s \in SUBSET S |-> Unfold(f, h, s)]
  BY <1>6
<1>8. QED
  <2> HIDE DEF h
  <2>1. QED
    BY <1>7

(* The sum is the value of a solution at the whole set.                     *)
LEMMA SumSolves ==
    ASSUME NEW f, NEW S, IsFiniteSet(S)
    PROVE  \E g : Solves(f, S, g) /\ SumFunctionOnSet(f, S) = g[S]
<1> DEFINE g == CHOOSE g : g = [s \in SUBSET S |-> Unfold(f, g, s)]
<1>1. g = [s \in SUBSET S |-> Unfold(f, g, s)]
  BY SolutionExists
<1>2. SumFunctionOnSet(f, S) = g[S]
  BY DEF SumFunctionOnSet, FoldFunctionOnSet, MapThenFoldSet, Unfold, Chosen
<1>3. QED
  <2> HIDE DEF g
  <2>1. Solves(f, S, g)
    BY <1>1 DEF Solves
  <2>2. QED
    BY <1>2, <2>1

(* Solutions agree where the functions do, whatever set they were built for. *)
LEMMA SolutionsAgree ==
    ASSUME NEW S, IsFiniteSet(S), NEW T, S \subseteq T, NEW e, NEW f,
           \A x \in S : e[x] = f[x], NEW g, Solves(e, S, g), NEW h, Solves(f, T, h)
    PROVE  g[S] = h[S]
<1> DEFINE Good == {s \in SUBSET S : g[s] = h[s]}
<1>1. ASSUME NEW s \in SUBSET S, \A r \in SUBSET s : r # s => r \in Good
      PROVE  s \in Good
  <2>1. g[s] = Unfold(e, g, s) /\ h[s] = Unfold(f, h, s)
    BY DEF Solves
  <2>2. CASE s = {}
    BY <2>1, <2>2 DEF Unfold
  <2>3. CASE s # {}
    <3>1. Chosen(s) \in s
      BY <2>3 DEF Chosen
    <3>2. s \ {Chosen(s)} \in Good
      BY <1>1, <3>1
    <3>3. e[Chosen(s)] = f[Chosen(s)]
      BY <3>1
    <3>4. QED
      BY <2>1, <2>3, <3>2, <3>3 DEF Unfold
  <2>4. QED
    BY <2>2, <2>3
<1>2. Good = SUBSET S
  <2> HIDE DEF Good
  <2>1. Good \in SUBSET SUBSET S
    BY DEF Good
  <2>2. QED
    BY <1>1, <2>1, SubsetsInduction
<1>3. QED
  BY <1>2

-------------------------------------------------------------------------------
(* What the sum is.                                                         *)

(* The sum depends on the values in the set only.                           *)
THEOREM SumCongruent ==
    ASSUME NEW S, IsFiniteSet(S), NEW e, NEW f, \A x \in S : e[x] = f[x]
    PROVE  SumFunctionOnSet(e, S) = SumFunctionOnSet(f, S)
BY SumSolves, SolutionsAgree

(* The sum over the empty set is 0.                                         *)
THEOREM SumEmpty ==
    ASSUME NEW f
    PROVE  SumFunctionOnSet(f, {}) = 0
<1>1. PICK g : Solves(f, {}, g) /\ SumFunctionOnSet(f, {}) = g[{}]
  BY SumSolves, FS_EmptySet
<1>2. QED
  BY <1>1 DEF Solves, Unfold

(* The first step of the fold.                                              *)
LEMMA SumUnfolds ==
    ASSUME NEW S, IsFiniteSet(S), S # {}, NEW f
    PROVE  /\ Chosen(S) \in S
           /\ SumFunctionOnSet(f, S) =
                f[Chosen(S)] + SumFunctionOnSet(f, S \ {Chosen(S)})
<1> DEFINE c == Chosen(S)
           R == S \ {c}
<1>1. c \in S
  BY DEF Chosen
<1>2. IsFiniteSet(R)
  BY FS_RemoveElement
<1>3. PICK g : Solves(f, S, g) /\ SumFunctionOnSet(f, S) = g[S]
  BY SumSolves
<1>4. PICK h : Solves(f, R, h) /\ SumFunctionOnSet(f, R) = h[R]
  BY <1>2, SumSolves
<1>5. h[R] = g[R]
  <2> HIDE DEF c
  <2>1. R \subseteq S
    OBVIOUS
  <2> HIDE DEF R
  <2>2. QED
    BY <1>2, <1>3, <1>4, <2>1, SolutionsAgree
<1>6. g[S] = f[c] + g[R]
  BY <1>3 DEF Solves, Unfold
<1>7. QED
  BY <1>1, <1>3, <1>4, <1>5, <1>6

(* A sum of integers is an integer.                                         *)
THEOREM SumInt ==
    ASSUME NEW S, IsFiniteSet(S), NEW f, \A x \in S : f[x] \in Int
    PROVE  SumFunctionOnSet(f, S) \in Int
<1> DEFINE Good == {s \in SUBSET S : SumFunctionOnSet(f, s) \in Int}
<1>1. ASSUME NEW s \in SUBSET S, \A r \in SUBSET s : r # s => r \in Good
      PROVE  s \in Good
  <2>1. CASE s = {}
    BY <2>1, SumEmpty
  <2>2. CASE s # {}
    <3>1. IsFiniteSet(s)
      BY FS_Subset
    <3>2. Chosen(s) \in s /\ SumFunctionOnSet(f, s) =
            f[Chosen(s)] + SumFunctionOnSet(f, s \ {Chosen(s)})
      BY <2>2, <3>1, SumUnfolds
    <3>3. s \ {Chosen(s)} \in Good
      BY <1>1, <3>2
    <3>4. QED
      BY <3>2, <3>3
  <2>3. QED
    BY <2>1, <2>2
<1>2. Good = SUBSET S
  <2> HIDE DEF Good
  <2>1. Good \in SUBSET SUBSET S
    BY DEF Good
  <2>2. QED
    BY <1>1, <2>1, SubsetsInduction
<1>3. QED
  BY <1>2

(* Any element can be taken out of the sum.                                 *)
THEOREM SumRemove ==
    ASSUME NEW S, IsFiniteSet(S), NEW f, \A x \in S : f[x] \in Int, NEW x \in S
    PROVE  SumFunctionOnSet(f, S) = f[x] + SumFunctionOnSet(f, S \ {x})
<1> DEFINE Split(s, y) ==
             SumFunctionOnSet(f, s) = f[y] + SumFunctionOnSet(f, s \ {y})
           Good == {s \in SUBSET S : \A y \in s : Split(s, y)}
<1>1. ASSUME NEW s \in SUBSET S, \A r \in SUBSET s : r # s => r \in Good, NEW y \in s
      PROVE  Split(s, y)
  <2> DEFINE c == Chosen(s)
  <2>1. IsFiniteSet(s)
    BY FS_Subset
  <2>2. c \in s /\ Split(s, c)
    BY <2>1, SumUnfolds
  <2>3. CASE y = c
    BY <2>2, <2>3
  <2>4. CASE y # c
    <3> HIDE DEF c
    <3>1. Split(s \ {c}, y) /\ Split(s \ {y}, c)
      BY <1>1, <2>2, <2>4
    <3>2. (s \ {c}) \ {y} = (s \ {y}) \ {c}
      OBVIOUS
    <3> DEFINE rest == SumFunctionOnSet(f, (s \ {y}) \ {c})
    <3>3. rest \in Int /\ f[c] \in Int /\ f[y] \in Int
      <4>1. (s \ {y}) \ {c} \subseteq S /\ IsFiniteSet((s \ {y}) \ {c})
        BY FS_Subset
      <4>2. QED
        BY <2>2, <4>1, SumInt
    <3>4. /\ SumFunctionOnSet(f, s) = f[c] + (f[y] + rest)
          /\ SumFunctionOnSet(f, s \ {y}) = f[c] + rest
      BY <2>2, <3>1, <3>2
    <3> HIDE DEF rest
    <3>5. QED
      BY <3>3, <3>4
  <2>5. QED
    BY <2>3, <2>4
<1>2. Good = SUBSET S
  <2>1. \A s \in SUBSET S : (\A r \in SUBSET s : r # s => r \in Good) => s \in Good
    BY <1>1
  <2>2. Good \in SUBSET SUBSET S
    OBVIOUS
  <2> HIDE DEF Good
  <2>3. QED
    BY <2>1, <2>2, SubsetsInduction
<1>3. QED
  BY <1>2

(* The sum over two disjoint sets.                                          *)
THEOREM SumUnion ==
    ASSUME NEW S, IsFiniteSet(S), NEW T, IsFiniteSet(T), S \cap T = {},
           NEW f, \A x \in S \cup T : f[x] \in Int
    PROVE  SumFunctionOnSet(f, S \cup T) =
             SumFunctionOnSet(f, S) + SumFunctionOnSet(f, T)
<1> DEFINE Adds(t) == SumFunctionOnSet(f, S \cup t) =
                        SumFunctionOnSet(f, S) + SumFunctionOnSet(f, t)
           Good == {t \in SUBSET T : Adds(t)}
<1>1. ASSUME NEW t \in SUBSET T, \A r \in SUBSET t : r # t => r \in Good
      PROVE  Adds(t)
  <2>1. IsFiniteSet(t) /\ IsFiniteSet(S \cup t)
    BY FS_Subset, FS_Union
  <2>2. SumFunctionOnSet(f, S) \in Int
    BY SumInt
  <2>3. CASE t = {}
    <3>1. S \cup t = S
      BY <2>3
    <3>2. QED
      BY <2>2, <2>3, <3>1, SumEmpty
  <2>4. CASE t # {}
    <3>1. PICK x \in t : TRUE
      BY <2>4
    <3>2. Adds(t \ {x})
      BY <1>1
    <3>3. (S \cup t) \ {x} = S \cup (t \ {x})
      OBVIOUS
    <3>4. /\ SumFunctionOnSet(f, S \cup t) =
               f[x] + SumFunctionOnSet(f, S \cup (t \ {x}))
          /\ SumFunctionOnSet(f, t) = f[x] + SumFunctionOnSet(f, t \ {x})
      BY <2>1, <3>3, SumRemove
    <3>5. f[x] \in Int /\ SumFunctionOnSet(f, t \ {x}) \in Int
      BY <2>1, FS_RemoveElement, SumInt
    <3>6. QED
      BY <2>2, <3>2, <3>4, <3>5
  <2>5. QED
    BY <2>3, <2>4
<1>2. Good = SUBSET T
  <2>1. \A t \in SUBSET T : (\A r \in SUBSET t : r # t => r \in Good) => t \in Good
    BY <1>1
  <2>2. Good \in SUBSET SUBSET T
    OBVIOUS
  <2> HIDE DEF Good
  <2>3. QED
    BY <2>1, <2>2, SubsetsInduction
<1>3. QED
  BY <1>2

(* The sum over numbers that are moved by n, with the values they had.      *)
THEOREM SumShift ==
    ASSUME NEW S \in SUBSET Int, IsFiniteSet(S), NEW n \in Int,
           NEW f, NEW g, \A i \in S : f[i] \in Int /\ g[i + n] = f[i]
    PROVE  /\ IsFiniteSet({i + n : i \in S})
           /\ SumFunctionOnSet(g, {i + n : i \in S}) = SumFunctionOnSet(f, S)
<1> DEFINE Moved(s) == {i + n : i \in s}
           Same(s) == /\ IsFiniteSet(Moved(s))
                      /\ SumFunctionOnSet(g, Moved(s)) = SumFunctionOnSet(f, s)
           Good == {s \in SUBSET S : Same(s)}
<1>1. ASSUME NEW s \in SUBSET S, \A r \in SUBSET s : r # s => r \in Good
      PROVE  Same(s)
  <2>1. CASE s = {}
    <3>1. Moved(s) = {}
      BY <2>1
    <3>2. QED
      BY <2>1, <3>1, SumEmpty, FS_EmptySet
  <2>2. CASE s # {}
    <3>1. PICK x \in s : TRUE
      BY <2>2
    <3>2. Same(s \ {x}) /\ IsFiniteSet(s)
      BY <1>1, FS_Subset
    <3>3. /\ Moved(s) = Moved(s \ {x}) \cup {x + n}
          /\ Moved(s) \ {x + n} = Moved(s \ {x})
      OBVIOUS
    <3>4. IsFiniteSet(Moved(s))
      <4> HIDE DEF Moved
      <4>1. IsFiniteSet(Moved(s \ {x}) \cup {x + n})
        BY <3>2, FS_AddElement
      <4>2. QED
        BY <3>3, <4>1
    <3>5. x + n \in Moved(s) /\ \A y \in Moved(s) : g[y] \in Int
      OBVIOUS
    <3>6. SumFunctionOnSet(g, Moved(s)) =
            g[x + n] + SumFunctionOnSet(g, Moved(s) \ {x + n})
      <4> HIDE DEF Moved
      <4>1. QED
        BY <3>4, <3>5, SumRemove
    <3>7. SumFunctionOnSet(f, s) = f[x] + SumFunctionOnSet(f, s \ {x})
      BY <3>2, SumRemove
    <3>8. g[x + n] = f[x]
      OBVIOUS
    <3>9. QED
      BY <3>2, <3>3, <3>4, <3>6, <3>7, <3>8
  <2>3. QED
    BY <2>1, <2>2
<1>2. Good = SUBSET S
  <2>1. \A s \in SUBSET S : (\A r \in SUBSET s : r # s => r \in Good) => s \in Good
    BY <1>1
  <2>2. Good \in SUBSET SUBSET S
    OBVIOUS
  <2> HIDE DEF Good
  <2>3. QED
    BY <2>1, <2>2, SubsetsInduction
<1>3. QED
  BY <1>2

(* A sum of positive numbers is positive, unless there are none.            *)
THEOREM SumPositive ==
    ASSUME NEW S, IsFiniteSet(S), NEW f, \A x \in S : f[x] \in Nat \ {0}
    PROVE  /\ SumFunctionOnSet(f, S) \in Nat
           /\ SumFunctionOnSet(f, S) = 0 => S = {}
<1> DEFINE Positive(s) == /\ SumFunctionOnSet(f, s) \in Nat
                          /\ SumFunctionOnSet(f, s) = 0 => s = {}
           Good == {s \in SUBSET S : Positive(s)}
<1>1. ASSUME NEW s \in SUBSET S, \A r \in SUBSET s : r # s => r \in Good
      PROVE  Positive(s)
  <2>1. CASE s = {}
    BY <2>1, SumEmpty
  <2>2. CASE s # {}
    <3>1. PICK x \in s : TRUE
      BY <2>2
    <3>2. Positive(s \ {x}) /\ IsFiniteSet(s)
      BY <1>1, FS_Subset
    <3>3. SumFunctionOnSet(f, s) = f[x] + SumFunctionOnSet(f, s \ {x})
      BY <3>2, SumRemove
    <3>4. QED
      BY <3>2, <3>3
  <2>3. QED
    BY <2>1, <2>2
<1>2. Good = SUBSET S
  <2>1. \A s \in SUBSET S : (\A r \in SUBSET s : r # s => r \in Good) => s \in Good
    BY <1>1
  <2>2. Good \in SUBSET SUBSET S
    OBVIOUS
  <2> HIDE DEF Good
  <2>3. QED
    BY <2>1, <2>2, SubsetsInduction
<1>3. QED
  BY <1>2
===============================================================================
