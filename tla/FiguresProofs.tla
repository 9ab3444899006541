----------------------------- MODULE FiguresProofs -----------------------------
(***************************************************************************)
(* The figures read back add up, whatever the number of sales, lines,      *)
(* pairs, sellers, entries and pages (SaleLines, FinanceBook).             *)
(*                                                                         *)
(* Figures are sums over finite sets (SumFunctionOnSet).  Where one would  *)
(* use induction over the elements, a smallest set that goes wrong is      *)
(* shown not to be one: Gathering is that argument, and Summing says what  *)
(* a sum is and that its elements may be taken in any order.               *)
(***************************************************************************)
EXTENDS SaleLines, FinanceBook, FiniteSetTheorems, SequenceTheorems, WellFoundedInduction, TLAPS

-----------------------------------------------------------------------------
(* Sums.                                                                    *)

\* A set of numbers has a least one.
LEMMA LeastOf ==
  ASSUME NEW H \in SUBSET Nat, H # {}
  PROVE  \E h \in H : \A x \in H : h <= x
<1>1. PICK h \in H : \A x \in H : <<x, h>> \notin OpToRel(<, Nat)
  BY NatLessThanWellFounded, WFMin, Zenon
<1>2. ASSUME NEW x \in H PROVE ~(x < h)
  <2>1. x \in Nat /\ h \in Nat
    OBVIOUS
  <2> QED
    BY <1>1, <2>1, Zenon DEF OpToRel
<1> QED
  BY <1>2

\* Of bad subsets of a finite set, some one is good without any of its elements.
LEMMA SmallestOf ==
  ASSUME NEW S, IsFiniteSet(S), NEW Bad \in SUBSET (SUBSET S), Bad # {}
  PROVE  \E T \in Bad : \A x \in T : T \ {x} \notin Bad
<1> DEFINE H == {Cardinality(T) : T \in Bad}
<1>1. \A T \in SUBSET S : IsFiniteSet(T) /\ Cardinality(T) \in Nat
  BY FS_Subset, FS_CardinalityType
<1>2. H \in SUBSET Nat /\ H # {}
  BY <1>1
<1>3. PICK T \in Bad : \A U \in Bad : Cardinality(T) <= Cardinality(U)
  <2> HIDE DEF H
  <2>1. PICK h \in H : \A x \in H : h <= x
    BY <1>2, LeastOf
  <2> QED
    BY <2>1 DEF H
<1>4. ASSUME NEW x \in T PROVE T \ {x} \notin Bad
  <2>1. Cardinality(T \ {x}) = Cardinality(T) - 1 /\ Cardinality(T) \in Nat
    BY <1>1, FS_RemoveElement
  <2> QED
    BY <1>3, <2>1
<1> QED
  BY <1>3, <1>4

\* Induction over the subsets of a finite set, for a set of good subsets.
LEMMA Gathering ==
  ASSUME NEW S, IsFiniteSet(S), NEW Good, {} \in Good,
         \A T \in SUBSET S : \A x \in S \ T : T \in Good => T \cup {x} \in Good
  PROVE  S \in Good
<1> DEFINE Bad == {T \in SUBSET S : T \notin Good}
<1> SUFFICES ASSUME S \notin Good PROVE FALSE
  OBVIOUS
<1>1. PICK T \in Bad : \A x \in T : T \ {x} \notin Bad
  <2>1. Bad \in SUBSET (SUBSET S) /\ Bad # {}
    OBVIOUS
  <2> HIDE DEF Bad
  <2> QED
    BY <2>1, SmallestOf
<1>2. PICK x \in T : TRUE
  BY <1>1
<1>3. T = (T \ {x}) \cup {x} /\ T \ {x} \in SUBSET S /\ x \in S \ (T \ {x})
  BY <1>1, <1>2
<1> QED
  BY <1>1, <1>3

-----------------------------------------------------------------------------
\* Any element of a set: the one that sums take first.
Some(T) == CHOOSE x \in T : TRUE

Adds(f, S, g) ==
  \A T \in SUBSET S : g[T] = IF T = {} THEN 0 ELSE f[Some(T)] + g[T \ {Some(T)}]

\* Adding up the subsets of a finite set, one element at a time, is a function.
LEMMA AddingExists ==
  ASSUME NEW S, IsFiniteSet(S), NEW f, \A x \in S : f[x] \in Int
  PROVE  \E g \in [SUBSET S -> Int] : Adds(f, S, g)
<1> DEFINE Small(n) == {T \in SUBSET S : Cardinality(T) <= n}
           Rec(g, n) == \A T \in Small(n) :
                          g[T] = IF T = {} THEN 0 ELSE f[Some(T)] + g[T \ {Some(T)}]
           N == Cardinality(S)
           Bad == {n \in Nat : ~\E g \in [Small(n) -> Int] : Rec(g, n)}
<1>1. \A T \in SUBSET S : IsFiniteSet(T) /\ Cardinality(T) \in Nat /\ Cardinality(T) <= N
  BY FS_Subset, FS_CardinalityType
<1>2. \A T \in SUBSET S : T # {} =>
        /\ Some(T) \in T /\ T \ {Some(T)} \in SUBSET S
        /\ Cardinality(T \ {Some(T)}) = Cardinality(T) - 1
  BY <1>1, FS_RemoveElement DEF Some
<1>3. Bad = {}
  <2> SUFFICES ASSUME Bad # {} PROVE FALSE
    OBVIOUS
  <2>1. PICK n \in Bad : \A m \in Bad : n <= m
    <3>1. Bad \in SUBSET Nat
      OBVIOUS
    <3> HIDE DEF Bad
    <3> QED
      BY <3>1, LeastOf
  <2>2. CASE n = 0
    <3> DEFINE g == [T \in Small(0) |-> 0]
    <3>1. \A T \in Small(0) : T = {}
      BY <1>1, FS_EmptySet
    <3>2. g \in [Small(0) -> Int] /\ Rec(g, 0)
      BY <3>1
    <3> HIDE DEF g, Rec, Small
    <3> QED
      BY <2>1, <2>2, <3>2
  <2>3. CASE n # 0
    <3>1. n \in Nat /\ n - 1 \in Nat /\ n - 1 \notin Bad
      <4>1. n \in Nat
        OBVIOUS
      <4> HIDE DEF Bad
      <4> QED
        BY <2>1, <2>3, <4>1
    <3>2. PICK g \in [Small(n - 1) -> Int] : Rec(g, n - 1)
      BY <3>1
    <3> DEFINE h == [T \in Small(n) |-> IF T = {} THEN 0 ELSE f[Some(T)] + g[T \ {Some(T)}]]
    <3>3. ASSUME NEW T \in Small(n), T # {}
          PROVE  T \ {Some(T)} \in Small(n - 1) /\ f[Some(T)] \in Int
      BY <1>1, <1>2, <3>1, <3>3
    <3>4. h \in [Small(n) -> Int]
      <4>1. ASSUME NEW T \in Small(n) PROVE h[T] \in Int
        BY <3>3
      <4> QED
        BY <4>1
    <3>5. \A T \in Small(n - 1) : T \in Small(n) /\ h[T] = g[T]
      <4>1. \A T \in Small(n - 1) : T \in Small(n)
        BY <1>1, <3>1
      <4> QED
        BY <3>2, <4>1
    <3>6. Rec(h, n)
      BY <3>3, <3>5
    <3> HIDE DEF h, Rec, Small
    <3> QED
      BY <2>1, <3>4, <3>6
  <2> QED
    BY <2>2, <2>3
<1>4. PICK g \in [Small(N) -> Int] : Rec(g, N)
  <2>1. N \in Nat
    BY <1>1
  <2> QED
    BY <1>3, <2>1
<1>5. Small(N) = SUBSET S
  BY <1>1
<1> QED
  BY <1>4, <1>5 DEF Adds

\* SumFunctionOnSet is that function.
LEMMA SumIsAdded ==
  ASSUME NEW S, IsFiniteSet(S), NEW f, \A x \in S : f[x] \in Int,
         NEW g \in [SUBSET S -> Int], Adds(f, S, g)
  PROVE  \A T \in SUBSET S : SumFunctionOnSet(f, T) = g[T]
<1> SUFFICES ASSUME NEW T \in SUBSET S PROVE SumFunctionOnSet(f, T) = g[T]
  OBVIOUS
<1> DEFINE Taken(h) == [s \in SUBSET T |-> IF s = {} THEN 0 ELSE f[Some(s)] + h[s \ {Some(s)}]]
           iter == CHOOSE h : h = Taken(h)
<1>1. SumFunctionOnSet(f, T) = iter[T]
  BY DEF SumFunctionOnSet, FoldFunctionOnSet, MapThenFoldSet, Some
<1>2. iter = Taken(iter)
  <2> DEFINE h == [s \in SUBSET T |-> g[s]]
  <2>1. \A s \in SUBSET T : s # {} => s \ {Some(s)} \in SUBSET T
    OBVIOUS
  <2>2. h = Taken(h)
    BY <2>1 DEF Adds
  <2> HIDE DEF h, Taken
  <2> QED
    BY <2>2
<1>3. \A U \in SUBSET T : iter[U] = IF U = {} THEN 0 ELSE f[Some(U)] + iter[U \ {Some(U)}]
  BY <1>2
<1> HIDE DEF iter
<1> DEFINE Bad == {U \in SUBSET T : iter[U] # g[U]}
<1>4. IsFiniteSet(T)
  BY FS_Subset
<1>5. ASSUME Bad # {} PROVE FALSE
  <2>1. PICK U \in Bad : \A x \in U : U \ {x} \notin Bad
    <3>1. Bad \in SUBSET (SUBSET T)
      OBVIOUS
    <3> HIDE DEF Bad
    <3> QED
      BY <1>4, <1>5, <3>1, SmallestOf
  <2>2. CASE U = {}
    BY <1>3, <2>1, <2>2 DEF Adds
  <2>3. CASE U # {}
    <3>1. Some(U) \in U
      BY <2>3 DEF Some
    <3>2. iter[U \ {Some(U)}] = g[U \ {Some(U)}]
      BY <2>1, <3>1
    <3> QED
      BY <1>3, <2>1, <2>3, <3>2 DEF Adds
  <2> QED
    BY <2>2, <2>3
<1>6. T \in SUBSET T
  OBVIOUS
<1> QED
  BY <1>1, <1>5, <1>6

\* What a sum over a finite set is, and that any of its elements may come first.
LEMMA Summing ==
  ASSUME NEW S, IsFiniteSet(S), NEW f, \A x \in S : f[x] \in Int
  PROVE  /\ SumFunctionOnSet(f, S) \in Int
         /\ SumFunctionOnSet(f, {}) = 0
         /\ \A x \in S : SumFunctionOnSet(f, S) = f[x] + SumFunctionOnSet(f, S \ {x})
<1>1. PICK g \in [SUBSET S -> Int] : Adds(f, S, g)
  BY AddingExists
<1>2. \A T \in SUBSET S : SumFunctionOnSet(f, T) = g[T]
  BY <1>1, SumIsAdded
<1> DEFINE Bad == {T \in SUBSET S : \E x \in T : g[T] # f[x] + g[T \ {x}]}
<1>3. ASSUME Bad # {} PROVE FALSE
  <2>1. PICK T \in Bad : \A x \in T : T \ {x} \notin Bad
    <3>1. Bad \in SUBSET (SUBSET S)
      OBVIOUS
    <3> HIDE DEF Bad
    <3> QED
      BY <1>3, <3>1, SmallestOf
  <2>2. PICK x \in T : g[T] # f[x] + g[T \ {x}]
    BY <2>1
  <2> DEFINE c == Some(T)
  <2>3. c \in T /\ g[T] = f[c] + g[T \ {c}] /\ c # x
    BY <1>1, <2>2 DEF Adds, Some
  <2> HIDE DEF c
  <2>4. g[T \ {c}] = f[x] + g[(T \ {c}) \ {x}] /\ g[T \ {x}] = f[c] + g[(T \ {x}) \ {c}]
    BY <2>1, <2>2, <2>3
  <2> DEFINE R == (T \ {c}) \ {x}
  <2>5. R = (T \ {x}) \ {c} /\ R \in SUBSET S
    BY <2>1
  <2>6. f[x] \in Int /\ f[c] \in Int /\ g[R] \in Int
    BY <2>1, <2>2, <2>3, <2>5
  <2>7. g[T \ {c}] = f[x] + g[R] /\ g[T \ {x}] = f[c] + g[R]
    BY <2>4, <2>5
  <2> HIDE DEF Bad, R
  <2>8. g[T] = f[c] + (f[x] + g[R])
    BY <2>3, <2>7
  <2>9. f[x] + g[T \ {x}] = f[x] + (f[c] + g[R])
    BY <2>7
  <2> QED
    BY <2>2, <2>6, <2>8, <2>9
<1>4. g[{}] = 0 /\ g[S] \in Int
  BY <1>1 DEF Adds
<1>5. \A x \in S : S \ {x} \in SUBSET S /\ g[S] = f[x] + g[S \ {x}]
  BY <1>3
<1> HIDE DEF Bad
<1> QED
  BY <1>2, <1>4, <1>5

\* One element more.
LEMMA SummingIn ==
  ASSUME NEW S, IsFiniteSet(S), NEW f, \A x \in S : f[x] \in Int,
         NEW T \in SUBSET S, NEW x \in S \ T
  PROVE  /\ SumFunctionOnSet(f, T) \in Int
         /\ SumFunctionOnSet(f, T \cup {x}) = f[x] + SumFunctionOnSet(f, T)
<1>1. IsFiniteSet(T) /\ IsFiniteSet(T \cup {x}) /\ (T \cup {x}) \ {x} = T /\ T \cup {x} \in SUBSET S
  BY FS_Subset
<1>2. /\ \A y \in T : f[y] \in Int
      /\ \A y \in T \cup {x} : f[y] \in Int
  OBVIOUS
<1>3. SumFunctionOnSet(f, T) \in Int
  BY <1>1, <1>2, Summing
<1>4. SumFunctionOnSet(f, T \cup {x}) = f[x] + SumFunctionOnSet(f, (T \cup {x}) \ {x})
  BY <1>1, <1>2, Summing
<1> QED
  BY <1>1, <1>3, <1>4

\* Sums of natural numbers are natural.
LEMMA SumNatural ==
  ASSUME NEW S, IsFiniteSet(S), NEW f, \A x \in S : f[x] \in Nat
  PROVE  SumFunctionOnSet(f, S) \in Nat
<1> DEFINE Good == {T \in SUBSET S : SumFunctionOnSet(f, T) \in Nat}
<1>1. \A x \in S : f[x] \in Int
  OBVIOUS
<1>2. {} \in Good
  BY <1>1, Summing
<1>3. ASSUME NEW T \in SUBSET S, NEW x \in S \ T, T \in Good PROVE T \cup {x} \in Good
  <2>1. SumFunctionOnSet(f, T \cup {x}) = f[x] + SumFunctionOnSet(f, T)
    BY <1>1, SummingIn
  <2> QED
    BY <1>3, <2>1
<1> HIDE DEF Good
<1>4. S \in Good
  BY <1>2, <1>3, Gathering
<1> QED
  BY <1>4 DEF Good

\* Sums of functions that agree.
LEMMA SumAgree ==
  ASSUME NEW S, IsFiniteSet(S), NEW f, NEW g, \A x \in S : f[x] \in Int /\ g[x] = f[x]
  PROVE  SumFunctionOnSet(f, S) = SumFunctionOnSet(g, S)
<1> DEFINE Good == {T \in SUBSET S : SumFunctionOnSet(f, T) = SumFunctionOnSet(g, T)}
<1>1. \A x \in S : f[x] \in Int /\ g[x] \in Int
  OBVIOUS
<1>2. {} \in Good
  BY <1>1, Summing
<1>3. ASSUME NEW T \in SUBSET S, NEW x \in S \ T, T \in Good PROVE T \cup {x} \in Good
  <2>1. /\ SumFunctionOnSet(f, T \cup {x}) = f[x] + SumFunctionOnSet(f, T)
        /\ SumFunctionOnSet(g, T \cup {x}) = g[x] + SumFunctionOnSet(g, T)
    BY <1>1, SummingIn
  <2> QED
    BY <1>3, <2>1
<1> HIDE DEF Good
<1>4. S \in Good
  BY <1>2, <1>3, Gathering
<1> QED
  BY <1>4 DEF Good

\* Sums of two functions, added one by one.
LEMMA SumPlus ==
  ASSUME NEW S, IsFiniteSet(S), NEW f, NEW g, NEW h,
         \A x \in S : f[x] \in Int, \A x \in S : g[x] \in Int,
         \A x \in S : h[x] = f[x] + g[x]
  PROVE  SumFunctionOnSet(h, S) = SumFunctionOnSet(f, S) + SumFunctionOnSet(g, S)
<1> DEFINE F(u, T) == SumFunctionOnSet(u, T)
           Additive(u) == /\ F(u, {}) = 0
                          /\ \A T \in SUBSET S : \A x \in S \ T :
                               F(u, T) \in Int /\ F(u, T \cup {x}) = u[x] + F(u, T)
<1>1. ASSUME NEW u, \A x \in S : u[x] \in Int PROVE Additive(u)
  BY <1>1, SummingIn, Summing
<1>2. Additive(f) /\ Additive(g) /\ Additive(h)
  <2>1. \A x \in S : h[x] \in Int
    OBVIOUS
  <2> HIDE DEF Additive
  <2> QED
    BY <1>1, <2>1
<1> DEFINE Good == {T \in SUBSET S : F(h, T) = F(f, T) + F(g, T)}
<1> HIDE DEF F
<1>3. {} \in Good
  BY <1>2
<1>4. ASSUME NEW T \in SUBSET S, NEW x \in S \ T, T \in Good PROVE T \cup {x} \in Good
  BY <1>2, <1>4
<1> HIDE DEF Good
<1>5. S \in Good
  BY <1>3, <1>4, Gathering
<1> QED
  BY <1>5 DEF Good, F

\* Of two sets that share nothing.
LEMMA SumUnion ==
  ASSUME NEW S, IsFiniteSet(S), NEW R, IsFiniteSet(R), S \cap R = {},
         NEW f, \A x \in S \cup R : f[x] \in Int
  PROVE  SumFunctionOnSet(f, S \cup R) = SumFunctionOnSet(f, S) + SumFunctionOnSet(f, R)
<1> DEFINE Good == {T \in SUBSET R : SumFunctionOnSet(f, S \cup T) =
                      SumFunctionOnSet(f, S) + SumFunctionOnSet(f, T)}
<1>0. IsFiniteSet(S \cup R)
  BY FS_Union
<1>1. SumFunctionOnSet(f, S) \in Int /\ SumFunctionOnSet(f, {}) = 0
  BY Summing
<1>2. {} \in Good
  <2>1. S \cup {} = S
    OBVIOUS
  <2> QED
    BY <1>1, <2>1
<1>3. ASSUME NEW T \in SUBSET R, NEW x \in R \ T, T \in Good PROVE T \cup {x} \in Good
  <2>1. /\ SumFunctionOnSet(f, T \cup {x}) = f[x] + SumFunctionOnSet(f, T)
        /\ SumFunctionOnSet(f, T) \in Int
    BY SummingIn
  <2>2. SumFunctionOnSet(f, (S \cup T) \cup {x}) = f[x] + SumFunctionOnSet(f, S \cup T)
    <3>1. S \cup T \in SUBSET (S \cup R) /\ x \in (S \cup R) \ (S \cup T)
      OBVIOUS
    <3> QED
      BY <1>0, <3>1, SummingIn
  <2>3. S \cup (T \cup {x}) = (S \cup T) \cup {x}
    OBVIOUS
  <2>4. f[x] \in Int
    OBVIOUS
  <2>5. SumFunctionOnSet(f, S \cup T) = SumFunctionOnSet(f, S) + SumFunctionOnSet(f, T)
    BY <1>3
  <2>6. SumFunctionOnSet(f, S \cup (T \cup {x})) = f[x] + SumFunctionOnSet(f, S \cup T)
    BY <2>2, <2>3
  <2>7. f[x] + (SumFunctionOnSet(f, S) + SumFunctionOnSet(f, T))
          = SumFunctionOnSet(f, S) + (f[x] + SumFunctionOnSet(f, T))
    BY <1>1, <2>1, <2>4
  <2>8. T \cup {x} \in SUBSET R
    OBVIOUS
  <2> QED
    BY <2>1, <2>5, <2>6, <2>7, <2>8
<1> HIDE DEF Good
<1>4. R \in Good
  BY <1>2, <1>3, Gathering
<1> QED
  BY <1>4 DEF Good
LEMMA SumNothing ==
  ASSUME NEW S, IsFiniteSet(S), NEW f, \A x \in S : f[x] = 0
  PROVE  SumFunctionOnSet(f, S) = 0
<1> DEFINE Good == {T \in SUBSET S : SumFunctionOnSet(f, T) = 0}
<1>1. \A x \in S : f[x] \in Int
  OBVIOUS
<1>2. {} \in Good
  BY <1>1, Summing
<1>3. ASSUME NEW T \in SUBSET S, NEW x \in S \ T, T \in Good PROVE T \cup {x} \in Good
  <2>1. SumFunctionOnSet(f, T \cup {x}) = f[x] + SumFunctionOnSet(f, T)
    BY <1>1, SummingIn
  <2> QED
    BY <1>3, <2>1
<1> HIDE DEF Good
<1>4. S \in Good
  BY <1>2, <1>3, Gathering
<1> QED
  BY <1>4 DEF Good

\* Only one element counts.
LEMMA SumOne ==
  ASSUME NEW S, IsFiniteSet(S), NEW f, NEW y \in S, f[y] \in Int, \A x \in S \ {y} : f[x] = 0
  PROVE  SumFunctionOnSet(f, S) = f[y]
<1>1. \A x \in S : f[x] \in Int
  OBVIOUS
<1>2. SumFunctionOnSet(f, S) = f[y] + SumFunctionOnSet(f, S \ {y})
  BY <1>1, Summing
<1>3. SumFunctionOnSet(f, S \ {y}) = 0
  <2>1. IsFiniteSet(S \ {y})
    BY FS_Subset
  <2> QED
    BY <2>1, SumNothing
<1> QED
  BY <1>2, <1>3

\* A sum is the sum of its parts, one part for each value of a key.
LEMMA SumParts ==
  ASSUME NEW S, IsFiniteSet(S), NEW f, \A x \in S : f[x] \in Int,
         NEW P, IsFiniteSet(P), NEW key, \A x \in S : key[x] \in P,
         NEW of, \A p \in P : of[p] = {x \in S : key[x] = p},
         NEW g, \A p \in P : g[p] = SumFunctionOnSet(f, of[p])
  PROVE  SumFunctionOnSet(g, P) = SumFunctionOnSet(f, S)
<1> DEFINE Part(Q) == {x \in S : key[x] \in Q}
           Good == {Q \in SUBSET P : SumFunctionOnSet(g, Q) = SumFunctionOnSet(f, Part(Q))}
<1>1. ASSUME NEW R \in SUBSET S
      PROVE  IsFiniteSet(R) /\ SumFunctionOnSet(f, R) \in Int
  <2>1. IsFiniteSet(R)
    BY FS_Subset
  <2>2. \A x \in R : f[x] \in Int
    OBVIOUS
  <2> QED
    BY <2>1, <2>2, Summing
<1>2. \A p \in P : g[p] \in Int
  <2>1. \A p \in P : of[p] \in SUBSET S
    OBVIOUS
  <2> QED
    BY <1>1, <2>1
<1>3. {} \in Good
  <2>1. Part({}) = {}
    OBVIOUS
  <2>2. SumFunctionOnSet(f, {}) = 0
    BY Summing
  <2>3. SumFunctionOnSet(g, {}) = 0
    BY <1>2, Summing
  <2> HIDE DEF Part
  <2> QED
    BY <2>1, <2>2, <2>3
<1>4. ASSUME NEW Q \in SUBSET P, NEW p \in P \ Q, Q \in Good PROVE Q \cup {p} \in Good
  <2> DEFINE R == of[p]
  <2>1. Part(Q \cup {p}) = Part(Q) \cup R /\ Part(Q) \cap R = {}
    OBVIOUS
  <2>2. Part(Q) \in SUBSET S /\ R \in SUBSET S /\ g[p] = SumFunctionOnSet(f, R)
    OBVIOUS
  <2>3. SumFunctionOnSet(g, Q \cup {p}) = g[p] + SumFunctionOnSet(g, Q)
    BY <1>2, SummingIn
  <2>4. SumFunctionOnSet(g, Q) = SumFunctionOnSet(f, Part(Q))
    BY <1>4
  <2> HIDE DEF Part, R, Good
  <2>5. SumFunctionOnSet(f, Part(Q) \cup R)
          = SumFunctionOnSet(f, Part(Q)) + SumFunctionOnSet(f, R)
    <3>1. IsFiniteSet(Part(Q)) /\ IsFiniteSet(R)
      BY <1>1, <2>2
    <3>2. \A x \in Part(Q) \cup R : f[x] \in Int
      BY <2>2
    <3> QED
      BY <2>1, <3>1, <3>2, SumUnion
  <2>6. SumFunctionOnSet(f, Part(Q)) \in Int /\ SumFunctionOnSet(f, R) \in Int
    BY <1>1, <2>2
  <2>7. SumFunctionOnSet(g, Q \cup {p}) = SumFunctionOnSet(f, Part(Q \cup {p}))
    <3>1. SumFunctionOnSet(f, Part(Q \cup {p}))
            = SumFunctionOnSet(f, Part(Q)) + SumFunctionOnSet(f, R)
      BY <2>1, <2>5
    <3>2. SumFunctionOnSet(g, Q \cup {p})
            = SumFunctionOnSet(f, R) + SumFunctionOnSet(f, Part(Q))
      BY <2>2, <2>3, <2>4
    <3> QED
      BY <2>6, <3>1, <3>2
  <2> QED
    BY <2>7 DEF Good
<1> HIDE DEF Good, Part
<1>5. P \in Good
  BY <1>3, <1>4, Gathering
<1>6. Part(P) = S
  BY DEF Part
<1> QED
  BY <1>5, <1>6 DEF Good

\* Rows and columns of a table have one total.
LEMMA SumSwap ==
  ASSUME NEW P, IsFiniteSet(P), NEW S, IsFiniteSet(S),
         NEW F, \A s \in S : \A p \in P : F[s][p] \in Int,
         NEW g, \A s \in S : g[s] = SumFunctionOnSet(F[s], P),
         NEW G, \A p \in P : \A s \in S : G[p][s] = F[s][p],
         NEW h, \A p \in P : h[p] = SumFunctionOnSet(G[p], S)
  PROVE  SumFunctionOnSet(g, S) = SumFunctionOnSet(h, P)
<1> DEFINE Upto(Q) == [s \in S |-> SumFunctionOnSet(F[s], Q)]
           Column(p) == G[p]
           Good == {Q \in SUBSET P :
                      SumFunctionOnSet(Upto(Q), S) = SumFunctionOnSet(h, Q)}
<1>1. ASSUME NEW s \in S
      PROVE  /\ SumFunctionOnSet(F[s], {}) = 0
             /\ \A Q \in SUBSET P : SumFunctionOnSet(F[s], Q) \in Int
             /\ \A Q \in SUBSET P : \A p \in P \ Q :
                  SumFunctionOnSet(F[s], Q \cup {p}) = F[s][p] + SumFunctionOnSet(F[s], Q)
  <2> DEFINE r == F[s]
  <2>1. \A p \in P : r[p] \in Int
    OBVIOUS
  <2> HIDE DEF r
  <2>2. SumFunctionOnSet(r, {}) = 0
    BY <2>1, Summing
  <2>3. ASSUME NEW Q \in SUBSET P PROVE SumFunctionOnSet(r, Q) \in Int
    <3>1. IsFiniteSet(Q) /\ \A p \in Q : r[p] \in Int
      BY <2>1, FS_Subset
    <3> QED
      BY <3>1, Summing
  <2>4. ASSUME NEW Q \in SUBSET P, NEW p \in P \ Q
        PROVE  SumFunctionOnSet(r, Q \cup {p}) = r[p] + SumFunctionOnSet(r, Q)
    BY <2>1, SummingIn
  <2> QED
    BY <2>2, <2>3, <2>4 DEF r
<1>2. ASSUME NEW p \in P PROVE h[p] \in Int /\ h[p] = SumFunctionOnSet(Column(p), S)
  <2>1. \A s \in S : Column(p)[s] \in Int
    OBVIOUS
  <2>2. h[p] = SumFunctionOnSet(Column(p), S)
    OBVIOUS
  <2> HIDE DEF Column
  <2> QED
    BY <2>1, <2>2, Summing
<1>3. {} \in Good
  <2>1. \A s \in S : Upto({})[s] = 0
    BY <1>1
  <2>2. SumFunctionOnSet(h, {}) = 0
    BY <1>2, Summing
  <2> HIDE DEF Upto
  <2>3. SumFunctionOnSet(Upto({}), S) = 0
    BY <2>1, SumNothing
  <2> QED
    BY <2>2, <2>3
<1>4. ASSUME NEW Q \in SUBSET P, NEW p \in P \ Q, Q \in Good PROVE Q \cup {p} \in Good
  <2>1. SumFunctionOnSet(h, Q \cup {p}) = h[p] + SumFunctionOnSet(h, Q)
    <3>1. \A x \in P : h[x] \in Int
      BY <1>2
    <3> HIDE DEF Good, Upto, Column
    <3> QED
      BY <3>1, SummingIn
  <2>2. \A s \in S : Column(p)[s] \in Int /\ Upto(Q)[s] \in Int
    BY <1>1
  <2>3. \A s \in S : Upto(Q \cup {p})[s] = Column(p)[s] + Upto(Q)[s]
    <3>1. ASSUME NEW s \in S
          PROVE  /\ Column(p)[s] = F[s][p] /\ Upto(Q)[s] = SumFunctionOnSet(F[s], Q)
                 /\ Upto(Q \cup {p})[s] = SumFunctionOnSet(F[s], Q \cup {p})
      OBVIOUS
    <3> HIDE DEF Upto, Column
    <3>2. ASSUME NEW s \in S
          PROVE  Upto(Q \cup {p})[s] = Column(p)[s] + Upto(Q)[s]
      BY <1>1, <3>1
    <3> QED
      BY <3>2
  <2>4. SumFunctionOnSet(Upto(Q), S) = SumFunctionOnSet(h, Q)
    BY <1>4
  <2> HIDE DEF Upto, Column, Good
  <2>5. SumFunctionOnSet(Upto(Q \cup {p}), S)
          = SumFunctionOnSet(Column(p), S) + SumFunctionOnSet(Upto(Q), S)
    <3> DEFINE a == Column(p)
               b == Upto(Q)
               c == Upto(Q \cup {p})
    <3>1. /\ \A s \in S : a[s] \in Int
          /\ \A s \in S : b[s] \in Int
          /\ \A s \in S : c[s] = a[s] + b[s]
      BY <2>2, <2>3
    <3>2. SumFunctionOnSet(c, S) = SumFunctionOnSet(a, S) + SumFunctionOnSet(b, S)
      <4> HIDE DEF a, b, c
      <4> QED
        BY <3>1, SumPlus
    <3> QED
      BY <3>2
  <2>6. SumFunctionOnSet(Upto(Q \cup {p}), S) = SumFunctionOnSet(h, Q \cup {p})
    BY <1>2, <2>1, <2>4, <2>5
  <2> QED
    BY <2>6 DEF Good
<1> HIDE DEF Good
<1>5. P \in Good
  BY <1>3, <1>4, Gathering
<1>6. SumFunctionOnSet(Upto(P), S) = SumFunctionOnSet(h, P)
  BY <1>5 DEF Good
<1>7. \A s \in S : Upto(P)[s] \in Int /\ g[s] = Upto(P)[s]
  BY <1>1
<1> HIDE DEF Upto
<1> QED
  BY <1>6, <1>7, SumAgree

\* The whole is no less than a part.
LEMMA SumPartLeast ==
  ASSUME NEW S, IsFiniteSet(S), NEW f, \A x \in S : f[x] \in Nat, NEW T \in SUBSET S
  PROVE  /\ SumFunctionOnSet(f, T) \in Nat
         /\ SumFunctionOnSet(f, S) \in Nat
         /\ SumFunctionOnSet(f, T) <= SumFunctionOnSet(f, S)
<1>1. IsFiniteSet(T) /\ IsFiniteSet(S \ T) /\ T \cap (S \ T) = {} /\ T \cup (S \ T) = S
  BY FS_Subset
<1>2. /\ \A x \in T : f[x] \in Nat
      /\ \A x \in S \ T : f[x] \in Nat
      /\ \A x \in T \cup (S \ T) : f[x] \in Int
  OBVIOUS
<1>3. SumFunctionOnSet(f, T) \in Nat
  BY <1>1, <1>2, SumNatural
<1>4. SumFunctionOnSet(f, S \ T) \in Nat
  BY <1>1, <1>2, SumNatural
<1>5. SumFunctionOnSet(f, T \cup (S \ T))
        = SumFunctionOnSet(f, T) + SumFunctionOnSet(f, S \ T)
  BY <1>1, <1>2, SumUnion
<1>6. SumFunctionOnSet(f, S) = SumFunctionOnSet(f, T) + SumFunctionOnSet(f, S \ T)
  BY <1>1, <1>5
<1> QED
  BY <1>3, <1>4, <1>6

LEMMA SumToTheNext ==
  ASSUME NEW n \in Nat, NEW f, \A i \in 1 .. n : f[i] \in Int, NEW k \in 1 .. n
  PROVE  SumFunctionOnSet(f, 1 .. k) = f[k] + SumFunctionOnSet(f, 1 .. (k - 1))
<1>1. IsFiniteSet(1 .. k)
  BY FS_Interval
<1>2. \A i \in 1 .. k : f[i] \in Int
  OBVIOUS
<1>3. (1 .. k) \ {k} = 1 .. (k - 1) /\ k \in 1 .. k
  OBVIOUS
<1> QED
  BY <1>1, <1>2, <1>3, Summing

\* Floors and one unit more for the first ones: the whole is shared.
LEMMA SharesAreTheWhole ==
  ASSUME NEW n \in Nat \ {0}, NEW whole \in Nat, NEW f,
         \A i \in 1 .. n : f[i] = whole \div n + (IF i <= whole % n THEN 1 ELSE 0)
  PROVE  SumFunctionOnSet(f, 1 .. n) = whole
<1> DEFINE q == whole \div n
           r == whole % n
           Bad == {k \in 0 .. n :
                     SumFunctionOnSet(f, 1 .. k) # k * q + (IF k <= r THEN k ELSE r)}
<1>1. q \in Nat /\ r \in 0 .. (n - 1) /\ whole = n * q + r
  OBVIOUS
<1>2. \A i \in 1 .. n : f[i] = q + (IF i <= r THEN 1 ELSE 0)
  OBVIOUS
<1> HIDE DEF q, r
<1>3. \A i \in 1 .. n : f[i] \in Int
  BY <1>1, <1>2
<1>4. ASSUME Bad # {} PROVE FALSE
  <2>1. PICK k \in Bad : \A m \in Bad : k <= m
    <3>1. Bad \in SUBSET Nat
      OBVIOUS
    <3> HIDE DEF Bad
    <3> QED
      BY <1>4, <3>1, LeastOf
  <2>2. CASE k = 0
    <3>1. 1 .. 0 = {}
      OBVIOUS
    <3>2. SumFunctionOnSet(f, {}) = 0
      BY <1>3, Summing, FS_Interval
    <3> QED
      BY <1>1, <2>1, <2>2, <3>1, <3>2
  <2>3. CASE k # 0
    <3>1. k \in 1 .. n /\ k - 1 \in 0 .. n /\ k - 1 \notin Bad
      BY <2>1, <2>3
    <3>2. SumFunctionOnSet(f, 1 .. (k - 1)) = (k - 1) * q + (IF k - 1 <= r THEN k - 1 ELSE r)
      BY <3>1
    <3>3. SumFunctionOnSet(f, 1 .. k) = f[k] + SumFunctionOnSet(f, 1 .. (k - 1))
      BY <1>3, <3>1, SumToTheNext
    <3>4. k * q = (k - 1) * q + q
      BY <1>1, <3>1
    <3>5. (k - 1) * q \in Int
      BY <1>1, <3>1
    <3>6. SumFunctionOnSet(f, 1 .. k) = k * q + (IF k <= r THEN k ELSE r)
      BY <1>1, <1>2, <3>1, <3>2, <3>3, <3>4, <3>5
    <3> QED
      BY <2>1, <3>6
  <2> QED
    BY <2>2, <2>3
<1>5. SumFunctionOnSet(f, 1 .. n) = n * q + r
  BY <1>1, <1>4
<1> QED
  BY <1>1, <1>5

-----------------------------------------------------------------------------
(* The book.                                                                *)

EntryRow == [key : EntryKey, payload : Payload, created : Instant]

Working ==
  {Idle} \cup [stage : {"begun", "locked", "inserted"}, key : EntryKey, payload : Payload]

Locked(r) == work[r].stage \in {"locked", "inserted"}

\* Requests under way, each key locked by one of them.
WorkKept ==
  /\ work \in [Posting -> Working]
  /\ \A r, q \in Posting : Locked(r) /\ Locked(q) /\ work[r].key = work[q].key => r = q
  /\ \A r \in Posting : At(r, "inserted") => Posted(work[r].key) = {}

\* One entry per key, rows that can be ordered.
RowsKept ==
  /\ IsFiniteSet(entries)
  /\ entries \subseteq EntryRow
  /\ \A e, f \in entries : e.key = f.key => e = f
  /\ \A s \in SoldSale : sales[s].created \in Nat
  /\ sales = [s \in SoldSale |-> sales[s]]

\* What has been read of a query, of the book as it is.
ReadingKept ==
  /\ shown = [query |-> shown.query, pages |-> shown.pages, totals |-> shown.totals]
  /\ shown.pages \in Seq(Seq(BookLine))
  /\ shown # Unread =>
       LET found == Matching(shown.query)
       IN  /\ shown.query \in Query
           /\ \A k \in 1 .. Len(shown.pages) :
                \E o \in Orders(found) : shown.pages[k] = Slice(o, k)
           /\ shown.totals # <<>> =>
                shown.totals = <<AmountOf(found, "INCOME"), AmountOf(found, "EXPENSE")>>

BookInv == WorkKept /\ RowsKept /\ ReadingKept /\ RetriesAnswered

LEMMA ImageFinite ==
  ASSUME NEW S, IsFiniteSet(S), NEW f, f = [x \in S |-> f[x]]
  PROVE  IsFiniteSet({f[x] : x \in S})
<1>1. f \in Surjection(S, {f[x] : x \in S})
  BY DEF Surjection
<1> QED
  BY <1>1, FS_Surjection

\* The book is a finite set of lines, told apart by what orders them.
LEMMA LinesOfBook ==
  ASSUME RowsKept
  PROVE  /\ IsFiniteSet(BookLine)
         /\ \A l \in BookLine : /\ l.id \in DOMAIN Rank
                                /\ l.date \in Nat /\ l.created \in Nat /\ Rank[l.id] \in Nat
         /\ \A l, m \in BookLine : Rank[l.id] = Rank[m.id] => l = m
<1> DEFINE OfEntry(e) == [id |-> <<"entry", e.key>>, source |-> "MANUAL", type |-> e.payload.type,
                          date |-> e.payload.date, amount |-> e.payload.amount,
                          created |-> e.created]
           OfSale(s) == [id |-> <<"sale", s>>, source |-> "SALE", type |-> "INCOME",
                         date |-> SaleFacts[s].date, amount |-> SaleFacts[s].amount,
                         created |-> sales[s].created]
           Done == {t \in SoldSale : sales[t].status = "COMPLETED"}
           Manual == {OfEntry(e) : e \in entries}
           Sold == {OfSale(s) : s \in Done}
<1>1. BookLine = Manual \cup Sold
  BY DEF BookLine
<1>2. IsFiniteSet(Manual)
  <2> DEFINE f == [e \in entries |-> OfEntry(e)]
  <2>1. IsFiniteSet({f[x] : x \in entries})
    <3>1. f = [x \in entries |-> f[x]]
      OBVIOUS
    <3>2. IsFiniteSet(entries)
      BY DEF RowsKept
    <3> HIDE DEF f
    <3> QED
      BY <3>1, <3>2, ImageFinite
  <2>2. {f[x] : x \in entries} = Manual
    OBVIOUS
  <2> QED
    BY <2>1, <2>2
<1>3. IsFiniteSet(Sold)
  <2> DEFINE f == [s \in Done |-> OfSale(s)]
  <2>1. IsFiniteSet({f[x] : x \in Done})
    <3>1. f = [x \in Done |-> f[x]]
      OBVIOUS
    <3>2. IsFiniteSet(Done)
      BY FS_Subset, BookAssumption
    <3> HIDE DEF f, Done
    <3> QED
      BY <3>1, <3>2, ImageFinite
  <2>2. {f[x] : x \in Done} = Sold
    OBVIOUS
  <2> QED
    BY <2>1, <2>2
<1>4. IsFiniteSet(BookLine)
  BY <1>1, <1>2, <1>3, FS_Union
<1>5. ASSUME NEW e \in entries
      PROVE  /\ OfEntry(e).id \in DOMAIN Rank
             /\ OfEntry(e).date \in Nat /\ OfEntry(e).created \in Nat
  BY BookAssumption DEF RowsKept, EntryRow
<1>6. ASSUME NEW s \in Done
      PROVE  /\ OfSale(s).id \in DOMAIN Rank
             /\ OfSale(s).date \in Nat /\ OfSale(s).created \in Nat
  BY BookAssumption DEF RowsKept
<1>7. ASSUME NEW l \in BookLine
      PROVE  l.id \in DOMAIN Rank /\ l.date \in Nat /\ l.created \in Nat /\ Rank[l.id] \in Nat
  <2>1. l.id \in DOMAIN Rank /\ l.date \in Nat /\ l.created \in Nat
    BY <1>1, <1>5, <1>6
  <2> QED
    BY <2>1, BookAssumption
<1>8. ASSUME NEW l \in BookLine, NEW m \in BookLine, Rank[l.id] = Rank[m.id]
      PROVE  l = m
  <2>1. l.id = m.id
    BY <1>7, <1>8, BookAssumption DEF IsInjective
  <2>2. CASE l \in Manual /\ m \in Manual
    <3>1. PICK e \in entries : l = OfEntry(e)
      BY <2>2
    <3>2. PICK f \in entries : m = OfEntry(f)
      BY <2>2
    <3>3. e.key = f.key
      BY <2>1, <3>1, <3>2
    <3> QED
      BY <3>1, <3>2, <3>3 DEF RowsKept
  <2>3. CASE l \in Sold /\ m \in Sold
    <3>1. PICK s \in Done : l = OfSale(s)
      BY <2>3
    <3>2. PICK t \in Done : m = OfSale(t)
      BY <2>3
    <3> QED
      BY <2>1, <3>1, <3>2
  <2>4. \A e \in entries, s \in Done : OfEntry(e).id # OfSale(s).id
    OBVIOUS
  <2> QED
    BY <1>1, <2>1, <2>2, <2>3, <2>4
<1> QED
  BY <1>4, <1>7, <1>8

\* Of two lines of the book one comes before the other.
LEMMA BookOrdered ==
  ASSUME RowsKept, NEW l \in BookLine, NEW m \in BookLine, ~Before(l, m), ~Before(m, l)
  PROVE  l = m
<1>1. /\ l.date \in Nat /\ l.created \in Nat /\ Rank[l.id] \in Nat
      /\ m.date \in Nat /\ m.created \in Nat /\ Rank[m.id] \in Nat
  BY LinesOfBook
<1>2. Rank[l.id] = Rank[m.id]
  BY <1>1 DEF Before
<1> QED
  BY <1>2, LinesOfBook

\* An order names every line.
LEMMA OrderComplete ==
  ASSUME RowsKept, NEW L \in SUBSET BookLine, NEW o \in Orders(L)
  PROVE  /\ Cardinality(L) \in Nat
         /\ o \in [1 .. Cardinality(L) -> L]
         /\ \A i, j \in 1 .. Cardinality(L) : o[i] = o[j] => i = j
         /\ \A l \in L : \E i \in 1 .. Cardinality(L) : o[i] = l
         /\ \A i, j \in 1 .. Cardinality(L) : i < j => ~Before(o[j], o[i])
<1> DEFINE n == Cardinality(L)
<1>1. IsFiniteSet(L) /\ n \in Nat
  BY LinesOfBook, FS_Subset, FS_CardinalityType
<1>2. /\ o \in [1 .. n -> L] /\ IsInjective(o)
      /\ \A i, j \in DOMAIN o : i < j => ~Before(o[j], o[i])
  BY DEF Orders
<1>3. IsFiniteSet(1 .. n) /\ Cardinality(1 .. n) = n
  <2>1. Cardinality(1 .. n) = IF 1 > n THEN 0 ELSE n - 1 + 1
    BY <1>1, FS_Interval
  <2> QED
    BY <1>1, <2>1, FS_Interval
<1>4. o \in Surjection(1 .. n, L)
  <2>1. o \in Injection(1 .. n, L)
    BY <1>2 DEF Injection
  <2> HIDE DEF n
  <2> QED
    BY <1>1, <1>3, <2>1, FS_Injection DEF n
<1>5. \A l \in L : \E i \in 1 .. n : o[i] = l
  BY <1>4 DEF Surjection
<1>6. DOMAIN o = 1 .. n
  BY <1>2
<1> QED
  BY <1>1, <1>2, <1>5, <1>6 DEF IsInjective

\* PostgreSQL has no choice: the lines of the book have one order.
LEMMA OneOrder ==
  ASSUME RowsKept, NEW L \in SUBSET BookLine, NEW o \in Orders(L), NEW u \in Orders(L)
  PROVE  o = u
<1> DEFINE n == Cardinality(L)
           Bad == {i \in 1 .. n : o[i] # u[i]}
<1>1. /\ n \in Nat /\ o \in [1 .. n -> L] /\ u \in [1 .. n -> L]
      /\ \A i, j \in 1 .. n : o[i] = o[j] => i = j
      /\ \A i, j \in 1 .. n : u[i] = u[j] => i = j
      /\ \A l \in L : \E i \in 1 .. n : o[i] = l
      /\ \A l \in L : \E i \in 1 .. n : u[i] = l
      /\ \A i, j \in 1 .. n : i < j => ~Before(o[j], o[i])
      /\ \A i, j \in 1 .. n : i < j => ~Before(u[j], u[i])
  BY OrderComplete
<1> HIDE DEF n
<1>2. ASSUME Bad # {} PROVE FALSE
  <2>1. PICK i \in Bad : \A x \in Bad : i <= x
    <3>1. Bad \in SUBSET Nat
      BY <1>1
    <3> HIDE DEF Bad
    <3> QED
      BY <1>2, <3>1, LeastOf
  <2>2. PICK j \in 1 .. n : u[j] = o[i]
    BY <1>1
  <2>3. PICK k \in 1 .. n : o[k] = u[i]
    BY <1>1
  <2>4. i < j
    <3>1. i # j
      BY <2>1, <2>2
    <3>2. CASE j < i
      <4>1. j \notin Bad
        BY <1>1, <2>1, <3>2
      <4>2. o[j] = o[i]
        BY <2>2, <4>1
      <4> QED
        BY <1>1, <3>1, <4>2
    <3> QED
      BY <1>1, <3>1, <3>2
  <2>5. i < k
    <3>1. i # k
      BY <2>1, <2>3
    <3>2. CASE k < i
      <4>1. k \notin Bad
        BY <1>1, <2>1, <3>2
      <4>2. u[k] = u[i]
        BY <2>3, <4>1
      <4> QED
        BY <1>1, <3>1, <4>2
    <3> QED
      BY <1>1, <3>1, <3>2
  <2>6. ~Before(o[i], u[i]) /\ ~Before(u[i], o[i])
    BY <1>1, <2>2, <2>3, <2>4, <2>5
  <2>7. o[i] = u[i]
    BY <1>1, <2>6, BookOrdered
  <2> QED
    BY <2>1, <2>7
<1>3. \A i \in 1 .. n : o[i] = u[i]
  BY <1>2
<1>4. o = [i \in 1 .. n |-> o[i]] /\ u = [i \in 1 .. n |-> u[i]]
  BY <1>1
<1> QED
  BY <1>3, <1>4

\* A place in the whole is a place on one page.
LEMMA PageOfPlace ==
  ASSUME NEW p \in Nat \ {0}, NEW n \in Nat, NEW i \in 1 .. n
  PROVE  LET k == ((i - 1) \div p) + 1
             j == ((i - 1) % p) + 1
         IN  /\ k \in Nat \ {0} /\ j \in 1 .. p /\ i = (k - 1) * p + j
             /\ (k - 1) * p < n /\ k <= (n + p - 1) \div p
<1> DEFINE q == (i - 1) \div p
           r == (i - 1) % p
           m == (n + p - 1) \div p
           s == (n + p - 1) % p
<1>1. q \in Nat /\ r \in 0 .. p - 1 /\ i - 1 = p * q + r
  OBVIOUS
<1>2. m \in Nat /\ s \in 0 .. p - 1 /\ n + p - 1 = p * m + s
  OBVIOUS
<1> HIDE DEF q, r, m, s
<1>3. p * q <= n - 1
  BY <1>1
<1>4. p * m >= n
  BY <1>2
<1>5. q < m
  <2>1. CASE m <= q
    <3>1. p * m <= p * q
      BY <1>1, <1>2, <2>1
    <3> QED
      BY <1>1, <1>2, <1>3, <1>4, <3>1
  <2> QED
    BY <1>1, <1>2, <2>1
<1>6. (q + 1 - 1) * p = p * q
  BY <1>1
<1>7. /\ q + 1 \in Nat \ {0} /\ r + 1 \in 1 .. p /\ i = (q + 1 - 1) * p + (r + 1)
      /\ (q + 1 - 1) * p < n /\ q + 1 <= m
  <2>1. p * q \in Nat
    BY <1>1
  <2> QED
    BY <1>1, <1>2, <1>3, <1>5, <1>6, <2>1
<1> QED
  BY <1>7 DEF q, r, m

\* Two places on pages are one when they stand for the same place in the whole.
LEMMA PlaceOnce ==
  ASSUME NEW p \in Nat \ {0}, NEW a \in Nat, NEW b \in Nat, NEW i \in 1 .. p, NEW j \in 1 .. p,
         a * p + i = b * p + j
  PROVE  a = b /\ i = j
<1>1. ASSUME NEW x \in Nat, NEW y \in Nat, NEW u \in 1 .. p, NEW v \in 1 .. p,
             x * p + u = y * p + v
      PROVE  ~(x < y)
  <2>1. ASSUME x < y PROVE FALSE
    <3>1. (x + 1) * p <= y * p
      BY <2>1
    <3>2. (x + 1) * p = x * p + p
      OBVIOUS
    <3>3. x * p \in Nat /\ y * p \in Nat
      OBVIOUS
    <3> QED
      BY <1>1, <3>1, <3>2, <3>3
  <2> QED
    BY <2>1
<1>2. a = b
  BY <1>1
<1>3. a * p \in Nat
  OBVIOUS
<1> QED
  BY <1>2, <1>3

\* A page is a run of the order that starts where the one before it ended.
LEMMA PageIs ==
  ASSUME RowsKept, NEW q, NEW o \in Orders(Matching(q)), NEW k \in 1 .. PagesOf(q)
  PROVE  /\ Slice(o, k) = [j \in 1 .. Len(Slice(o, k)) |-> o[(k - 1) * PageSize + j]]
         /\ \A j \in Nat : j \in 1 .. Len(Slice(o, k)) <=>
              j \in 1 .. PageSize /\ (k - 1) * PageSize + j <= Cardinality(Matching(q))
         /\ Len(Slice(o, k)) \in 1 .. PageSize
<1> DEFINE n == Cardinality(Matching(q))
           p == PageSize
           m == PagesOf(q)
           from == (k - 1) * p
           to == IF k * p < n THEN k * p ELSE n
<1>1. Matching(q) \in SUBSET BookLine
  BY DEF Matching
<1>2. n \in Nat /\ o \in [1 .. n -> Matching(q)]
  BY <1>1, OrderComplete
<1>3. p \in Nat \ {0}
  BY BookAssumption
<1>4. m \in Nat /\ p * m <= n + p - 1
  <2> DEFINE s == (n + p - 1) % p
  <2>1. m = (n + p - 1) \div p
    BY DEF PagesOf
  <2> HIDE DEF n, m, p
  <2>2. m \in Nat /\ s \in 0 .. p - 1 /\ n + p - 1 = p * m + s
    BY <1>2, <1>3, <2>1
  <2> QED
    BY <1>2, <1>3, <2>2
<1>5. Len(o) = n /\ o \in Seq(Matching(q))
  <2> HIDE DEF n
  <2> QED
    BY <1>2
<1>6. Slice(o, k) = SubSeq(o, from + 1, to)
  BY <1>5 DEF Slice
<1> HIDE DEF n, m, p
<1>7. k \in Nat \ {0} /\ k <= m
  BY <1>4 DEF m
<1>8. from \in Nat /\ k * p = from + p
  BY <1>3, <1>7
<1>9. from < n
  <2>1. k * p <= m * p
    BY <1>3, <1>4, <1>7
  <2>2. m * p = p * m
    BY <1>3, <1>4
  <2> HIDE DEF from
  <2>3. k * p \in Nat /\ m * p \in Nat
    BY <1>3, <1>4, <1>7
  <2> QED
    BY <1>2, <1>3, <1>4, <1>8, <2>1, <2>2, <2>3
<1> HIDE DEF from
<1>10. to \in Nat /\ from < to /\ to <= n /\ to - from <= p
       /\ \A j \in Nat : j <= to - from <=> j <= p /\ from + j <= n
  BY <1>2, <1>3, <1>8, <1>9
<1> HIDE DEF to
<1>11. /\ Slice(o, k) \in Seq(Matching(q))
       /\ Len(Slice(o, k)) = to - from
       /\ \A j \in 1 .. to - from : Slice(o, k)[j] = o[from + j]
  <2>1. \A j \in 1 .. to - from : from + 1 + j - 1 = from + j
    BY <1>8, <1>10
  <2>2. \A i \in from + 1 .. to : o[i] \in Matching(q)
    BY <1>2, <1>8, <1>10
  <2>3. from + 1 \in 1 .. n /\ to \in 1 .. n /\ Len(o) = n /\ to - (from + 1) + 1 = to - from
    BY <1>2, <1>5, <1>8, <1>10
  <2> QED
    BY <1>5, <1>6, <1>8, <1>10, <2>1, <2>2, <2>3, SubSeqProperties
<1>12. DOMAIN Slice(o, k) = 1 .. to - from
  BY <1>11
<1>13. Slice(o, k) = [j \in 1 .. to - from |-> Slice(o, k)[j]]
  BY <1>11, <1>12
<1>14. /\ Slice(o, k) = [j \in 1 .. Len(Slice(o, k)) |-> o[from + j]]
       /\ \A j \in Nat : j \in 1 .. Len(Slice(o, k)) <=> j \in 1 .. p /\ from + j <= n
       /\ Len(Slice(o, k)) \in 1 .. p
  BY <1>3, <1>8, <1>10, <1>11, <1>13
<1> QED
  BY <1>14 DEF from, n, p

\* The pages of a query that did not change are the query.
LEMMA PagesRead ==
  ASSUME RowsKept, ReadingKept
  PROVE  PagesAddUp
<1> DEFINE q == shown.query
           L == Matching(q)
           n == Cardinality(L)
           p == PageSize
           pages == shown.pages
           m == PagesOf(q)
           places == {x \in (1 .. Len(pages)) \X (1 .. p) : x[2] <= Len(pages[x[1]])}
           seen == [x \in places |-> pages[x[1]][x[2]]]
           at(x) == (x[1] - 1) * p + x[2]
<1> SUFFICES ASSUME shown # Unread, Len(pages) = m
             PROVE  Range(seen) = L /\ IsInjective(seen)
  BY DEF PagesAddUp, ReadingKept
<1>1. L \in SUBSET BookLine /\ IsFiniteSet(L) /\ n \in Nat
  <2>1. L \in SUBSET BookLine
    BY DEF Matching
  <2> HIDE DEF L
  <2> QED
    BY <2>1, LinesOfBook, FS_Subset, FS_CardinalityType
<1>2. p \in Nat \ {0}
  BY BookAssumption
<1>3. m = (n + p - 1) \div p /\ m \in Nat
  BY <1>1, <1>2 DEF PagesOf
<1>4. \A k \in 1 .. m : \E o \in Orders(L) : pages[k] = Slice(o, k)
  BY DEF ReadingKept
<1>5. CASE L = {}
  <2>1. n = 0
    BY <1>5, FS_EmptySet
  <2>2. m = 0
    <3> HIDE DEF n, m, p
    <3>1. (p - 1) \div p = 0
      BY <1>2
    <3> QED
      BY <1>2, <1>3, <2>1, <3>1
  <2>3. places = {}
    BY <2>2
  <2> QED
    BY <1>5, <2>3 DEF Range, IsInjective
<1>6. CASE L # {}
  <2>1. n # 0
    BY <1>1, <1>6, FS_EmptySet
  <2>2. 1 \in 1 .. m
    <3>1. 1 <= (n + p - 1) \div p
      <4> HIDE DEF n, p
      <4> QED
        BY <1>1, <1>2, <2>1, PageOfPlace
    <3> QED
      BY <1>3, <3>1
  <2>3. PICK o \in Orders(L) : pages[1] = Slice(o, 1)
    BY <1>4, <2>2
  <2>4. ASSUME NEW k \in 1 .. m PROVE pages[k] = Slice(o, k)
    BY <1>1, <1>4, OneOrder
  <2>5. /\ o \in [1 .. n -> L]
        /\ \A i, j \in 1 .. n : o[i] = o[j] => i = j
        /\ \A l \in L : \E i \in 1 .. n : o[i] = l
    BY <1>1, OrderComplete
  <2>6. ASSUME NEW k \in 1 .. m
        PROVE  \A j \in 1 .. p : /\ j <= Len(pages[k]) <=> (k - 1) * p + j <= n
                                 /\ j <= Len(pages[k]) => pages[k][j] = o[(k - 1) * p + j]
    <3>1. /\ Slice(o, k) = [j \in 1 .. Len(Slice(o, k)) |-> o[(k - 1) * p + j]]
          /\ \A j \in Nat : j \in 1 .. Len(Slice(o, k)) <=>
               j \in 1 .. p /\ (k - 1) * p + j <= n
          /\ Len(Slice(o, k)) \in 1 .. p
      BY PageIs
    <3>2. pages[k] = Slice(o, k)
      BY <2>4
    <3> HIDE DEF n, pages, p
    <3> QED
      BY <1>2, <3>1, <3>2
  <2> HIDE DEF L, n, p, pages, m
  <2>7. \A x \in places : /\ x[1] \in 1 .. m /\ x[2] \in 1 .. p /\ x = <<x[1], x[2]>>
                          /\ at(x) \in 1 .. n /\ seen[x] = o[at(x)]
    <3>1. ASSUME NEW x \in places
          PROVE  /\ x[1] \in 1 .. m /\ x[2] \in 1 .. p /\ x = <<x[1], x[2]>>
                 /\ x[2] <= Len(pages[x[1]]) /\ seen[x] = pages[x[1]][x[2]]
      OBVIOUS
    <3>2. ASSUME NEW x \in places
          PROVE  at(x) <= n /\ seen[x] = o[at(x)]
      BY <2>6, <3>1
    <3>3. ASSUME NEW k \in 1 .. m, NEW j \in 1 .. p PROVE (k - 1) * p + j \in Nat \ {0}
      BY <1>2, <1>3
    <3> QED
      BY <1>1, <3>1, <3>2, <3>3
  <2>8. ASSUME NEW l \in L PROVE l \in Range(seen)
    <3>1. PICK i \in 1 .. n : o[i] = l
      BY <2>5
    <3> DEFINE k == ((i - 1) \div p) + 1
               j == ((i - 1) % p) + 1
    <3>2. /\ k \in Nat \ {0} /\ j \in 1 .. p /\ i = (k - 1) * p + j
          /\ k <= m
      BY <1>1, <1>2, <1>3, PageOfPlace
    <3> HIDE DEF k, j
    <3>3. k \in 1 .. m
      BY <1>3, <3>2
    <3>4. <<k, j>> \in places /\ seen[<<k, j>>] = l
      BY <2>6, <3>1, <3>2, <3>3, <1>1
    <3> HIDE DEF seen, places
    <3>5. DOMAIN seen = places
      BY DEF seen
    <3> QED
      BY <3>4, <3>5 DEF Range
  <2>9. ASSUME NEW x \in places, NEW y \in places, seen[x] = seen[y] PROVE x = y
    <3>1. at(x) = at(y)
      BY <2>5, <2>7, <2>9
    <3>2. /\ x[1] \in 1 .. m /\ x[2] \in 1 .. p /\ x = <<x[1], x[2]>>
          /\ y[1] \in 1 .. m /\ y[2] \in 1 .. p /\ y = <<y[1], y[2]>>
      BY <2>7
    <3>3. x[1] - 1 \in Nat /\ y[1] - 1 \in Nat
      BY <1>3, <3>2
    <3>4. x[1] - 1 = y[1] - 1 /\ x[2] = y[2]
      <4> DEFINE a == x[1] - 1
                 b == y[1] - 1
                 i == x[2]
                 j == y[2]
      <4>1. a \in Nat /\ b \in Nat /\ i \in 1 .. p /\ j \in 1 .. p /\ a * p + i = b * p + j
        BY <3>1, <3>2, <3>3
      <4> HIDE DEF a, b, i, j
      <4>2. a = b /\ i = j
        BY <1>2, <4>1, PlaceOnce
      <4> QED
        BY <4>2 DEF a, b, i, j
    <3>5. x[1] = y[1]
      BY <1>3, <3>2, <3>4
    <3> QED
      BY <3>2, <3>4, <3>5
  <2>10. \A x \in places : seen[x] \in L
    BY <2>5, <2>7
  <2> QED
    BY <2>8, <2>9, <2>10 DEF Range, IsInjective
<1> QED
  BY <1>5, <1>6

-----------------------------------------------------------------------------
\* The book opens kept.
LEMMA BookStarts == BookInit => BookInv
<1> SUFFICES ASSUME BookInit PROVE BookInv
  OBVIOUS
<1>1. WorkKept
  <2>1. \A r \in Posting : work[r] = Idle
    BY DEF BookInit
  <2>2. work \in [Posting -> Working]
    BY DEF BookInit, Working
  <2> QED
    BY <2>1, <2>2 DEF WorkKept, Locked, At, Idle
<1>2. RowsKept
  BY FS_EmptySet DEF BookInit, RowsKept
<1>3. ReadingKept /\ RetriesAnswered
  BY DEF BookInit, ReadingKept, RetriesAnswered, Unread
<1> QED
  BY <1>1, <1>2, <1>3 DEF BookInv

\* A request under way has a key and something to post.
LEMMA UnderWay ==
  ASSUME WorkKept, NEW r \in Posting, ~At(r, "idle")
  PROVE  /\ work[r].stage \in {"begun", "locked", "inserted"}
         /\ work[r].key \in EntryKey /\ work[r].payload \in Payload
         /\ work[r] = [stage |-> work[r].stage, key |-> work[r].key, payload |-> work[r].payload]
<1>1. work[r] \in Working /\ work[r] # Idle
  BY DEF WorkKept, Idle, At
<1> QED
  BY <1>1 DEF Working

LEMMA WorkMoves ==
  ASSUME WorkKept, NEW r \in Posting, NEW w \in Working, work' = [work EXCEPT ![r] = w],
         w.stage \in {"locked", "inserted"} =>
           \A q \in Posting \ {r} : Locked(q) => work[q].key # w.key,
         w.stage = "inserted" => \A e \in entries' : e.key # w.key,
         \A q \in Posting \ {r} : At(q, "inserted") =>
           \A e \in entries' \ entries : e.key # work[q].key
  PROVE  WorkKept'
<1>1. /\ work' \in [Posting -> Working]
      /\ work'[r] = w /\ \A q \in Posting \ {r} : work'[q] = work[q]
  BY DEF WorkKept
<1>2. ASSUME NEW a \in Posting, NEW b \in Posting, Locked(a)', Locked(b)',
             work'[a].key = work'[b].key
      PROVE  a = b
  BY <1>1, <1>2 DEF WorkKept, Locked
<1>3. ASSUME NEW a \in Posting, At(a, "inserted")'
      PROVE  Posted(work[a].key)' = {}
  BY <1>1, <1>3 DEF WorkKept, At, Posted
<1> QED
  BY <1>1, <1>2, <1>3 DEF WorkKept

LEMMA PostingKept ==
  ASSUME BookInv, NEW r \in Posting,
         \/ \E k \in EntryKey, p \in Payload : Begin(r, k, p)
         \/ Lock(r) \/ Replay(r) \/ Insert(r) \/ Refuse(r) \/ Commit(r) \/ Abort(r)
  PROVE  WorkKept' /\ RowsKept' /\ RetriesAnswered'
<1> USE DEF BookInv
<1>1. Idle \in Working /\ Idle.stage = "idle"
  BY DEF Working, Idle
<1>2. ASSUME UNCHANGED entries PROVE \A e \in entries' \ entries : FALSE
  BY <1>2
<1>3. ASSUME UNCHANGED <<entries, sales>> PROVE RowsKept'
  BY <1>3 DEF RowsKept
<1>4. ASSUME UNCHANGED <<entries, answered>> PROVE RetriesAnswered'
  BY <1>4 DEF RetriesAnswered, Posted
<1>5. ASSUME NEW k \in EntryKey, NEW p \in Payload, Begin(r, k, p)
      PROVE  WorkKept' /\ RowsKept' /\ RetriesAnswered'
  <2> DEFINE w == [stage |-> "begun", key |-> k, payload |-> p]
  <2>1. w \in Working /\ work' = [work EXCEPT ![r] = w] /\ w.stage = "begun"
    BY <1>5 DEF Begin, Working
  <2>2. UNCHANGED <<entries, sales, answered>>
    BY <1>5 DEF Begin, book
  <2> HIDE DEF w
  <2>3. WorkKept'
    BY <1>2, <2>1, <2>2, WorkMoves
  <2> QED
    BY <1>3, <1>4, <2>2, <2>3
<1>6. ASSUME NEW stage \in {"locked", "inserted"}, ~At(r, "idle"), Moves(r, stage),
             UNCHANGED <<entries, sales, answered>>,
             \A q \in Posting \ {r} : Locked(q) => work[q].key # work[r].key,
             stage = "inserted" => Posted(work[r].key) = {}
      PROVE  WorkKept' /\ RowsKept' /\ RetriesAnswered'
  <2> DEFINE w == [stage |-> stage, key |-> work[r].key, payload |-> work[r].payload]
  <2>1. w \in Working
    BY <1>6, UnderWay DEF Working
  <2>2. work' = [work EXCEPT ![r] = w]
    <3>1. work[r] = [stage |-> work[r].stage, key |-> work[r].key, payload |-> work[r].payload]
      BY <1>6, UnderWay
    <3>2. [work[r] EXCEPT !.stage = stage] = w
      BY <3>1
    <3> QED
      BY <1>6, <3>2 DEF Moves
  <2>3. w.stage = stage /\ w.key = work[r].key
    OBVIOUS
  <2> HIDE DEF w
  <2>4. WorkKept'
    BY <1>2, <1>6, <2>1, <2>2, <2>3, WorkMoves DEF Posted
  <2> QED
    BY <1>3, <1>4, <1>6, <2>4
<1>7. CASE Lock(r)
  <2>1. /\ At(r, "begun") /\ Moves(r, "locked")
        /\ UNCHANGED <<entries, sales, answered>>
        /\ \A q \in Posting : ~Holds(q, work[r].key)
    BY <1>7 DEF Lock, book
  <2>2. \A q \in Posting \ {r} : Locked(q) => work[q].key # work[r].key
    BY <2>1 DEF Locked, Holds, At
  <2>3. ~At(r, "idle")
    BY <2>1 DEF At
  <2> QED
    BY <1>6, <2>1, <2>2, <2>3
<1>8. ASSUME At(r, "locked") \/ At(r, "inserted")
      PROVE  \A q \in Posting \ {r} : Locked(q) => work[q].key # work[r].key
  BY <1>8 DEF WorkKept, Locked, At
<1>9. CASE Insert(r)
  <2>1. /\ At(r, "locked") /\ Moves(r, "inserted") /\ Posted(work[r].key) = {}
        /\ UNCHANGED <<entries, sales, answered>>
    BY <1>9 DEF Insert, book
  <2>2. ~At(r, "idle")
    BY <2>1 DEF At
  <2> QED
    BY <1>6, <1>8, <2>1, <2>2
<1>10. ASSUME work' = [work EXCEPT ![r] = Idle], UNCHANGED entries
       PROVE  WorkKept'
  BY <1>1, <1>2, <1>10, WorkMoves
<1>11. CASE Replay(r)
  <2>1. PICK e \in Posted(work[r].key) :
          Answers(r, IF e.payload = work[r].payload THEN "answered" ELSE "conflict")
    BY <1>11 DEF Replay
  <2>2. UNCHANGED <<entries, sales>> /\ work' = [work EXCEPT ![r] = Idle]
    BY <1>11, <2>1 DEF Replay, book, Answers
  <2>3. ASSUME answered'.outcome = "conflict"
        PROVE  (\E f \in Posted(answered.key) : f.payload # answered.payload)'
    <3>1. e.payload # work[r].payload /\ answered'.key = work[r].key
          /\ answered'.payload = work[r].payload
      BY <2>1, <2>3 DEF Answers
    <3> QED
      BY <2>1, <2>2, <3>1 DEF Posted
  <2> QED
    BY <1>3, <1>10, <2>2, <2>3 DEF RetriesAnswered
<1>12. CASE Refuse(r)
  <2>1. UNCHANGED <<entries, sales>> /\ work' = [work EXCEPT ![r] = Idle]
        /\ answered'.outcome = "refused"
    BY <1>12 DEF Refuse, book, Answers
  <2> QED
    BY <1>3, <1>10, <2>1 DEF RetriesAnswered
<1>13. CASE Abort(r)
  BY <1>3, <1>4, <1>10, <1>13 DEF Abort, book
<1>14. CASE Commit(r)
  <2>1. At(r, "inserted") /\ Posted(work[r].key) = {} /\ UNCHANGED sales
    BY <1>14 DEF Commit, WorkKept
  <2>2. PICK now \in Instant :
          entries' = entries \cup
            {[key |-> work[r].key, payload |-> work[r].payload, created |-> now]}
    BY <1>14, <2>1 DEF Commit
  <2>3. Answers(r, "answered")
    BY <1>14, <2>1 DEF Commit
  <2> DEFINE e == [key |-> work[r].key, payload |-> work[r].payload, created |-> now]
  <2>4. e \in EntryRow /\ e.key = work[r].key
    <3>1. ~At(r, "idle")
      BY <2>1 DEF At
    <3> QED
      BY <3>1, UnderWay DEF EntryRow
  <2>5. entries' = entries \cup {e}
    BY <2>2
  <2> HIDE DEF e
  <2>6. WorkKept'
    <3>1. \A q \in Posting \ {r} : At(q, "inserted") => e.key # work[q].key
      BY <1>8, <2>1, <2>4 DEF Locked, At
    <3>2. work' = [work EXCEPT ![r] = Idle]
      BY <2>3 DEF Answers
    <3> QED
      BY <1>1, <2>5, <3>1, <3>2, WorkMoves
  <2>7. RowsKept'
    <3>1. IsFiniteSet(entries')
      BY <2>5, FS_AddElement DEF RowsKept
    <3>2. \A f \in entries : f.key # e.key
      BY <2>1, <2>4 DEF Posted
    <3> QED
      BY <2>1, <2>4, <2>5, <3>1, <3>2 DEF RowsKept
  <2>8. RetriesAnswered'
    BY <2>3 DEF Answers, RetriesAnswered
  <2> QED
    BY <2>6, <2>7, <2>8
<1> QED
  BY <1>5, <1>7, <1>9, <1>11, <1>12, <1>13, <1>14

LEMMA ReadingStays ==
  ASSUME ReadingKept, \/ UNCHANGED <<entries, sales, shown>>
                      \/ shown' = Unread
  PROVE  ReadingKept'
<1>1. CASE UNCHANGED <<entries, sales, shown>>
  <2>1. BookLine' = BookLine
    BY <1>1 DEF BookLine
  <2>2. Matching(shown.query)' = Matching(shown.query)
    BY <1>1, <2>1 DEF Matching
  <2> QED
    BY <1>1, <2>1, <2>2 DEF ReadingKept, Orders, Before, Slice, AmountOf, Unread
<1>2. CASE shown' = Unread
  <2>1. <<>> \in Seq(Seq(BookLine'))
    OBVIOUS
  <2> QED
    BY <1>2, <2>1 DEF ReadingKept, Unread
<1> QED
  BY <1>1, <1>2

LEMMA PageKept ==
  ASSUME BookInv, NEW q \in Query, ReadPage(q)
  PROVE  ReadingKept'
<1> DEFINE k == Len(Reading(q).pages) + 1
           pages == Reading(q).pages
<1>1. UNCHANGED <<entries, sales>> /\ (shown = Unread \/ shown.query = q) /\ k <= PagesOf(q)
  BY DEF ReadPage, book
<1>2. PICK o \in Orders(Matching(q)) :
        shown' = [Reading(q) EXCEPT !.pages = Append(@, Slice(o, k))]
  BY DEF ReadPage
<1>3. Reading(q) = [query |-> q, pages |-> shown.pages, totals |-> shown.totals]
  BY DEF BookInv, ReadingKept, Reading
<1>4. /\ pages = shown.pages /\ pages \in Seq(Seq(BookLine))
      /\ \A i \in 1 .. Len(pages) : \E u \in Orders(Matching(q)) : pages[i] = Slice(u, i)
      /\ shown.totals # <<>> =>
           shown.totals = <<AmountOf(Matching(q), "INCOME"), AmountOf(Matching(q), "EXPENSE")>>
  <2>1. pages = shown.pages
    BY <1>3
  <2>2. CASE shown = Unread
    <3>1. shown.pages = <<>> /\ shown.totals = <<>>
      BY <2>2 DEF Unread
    <3> HIDE DEF pages
    <3> QED
      BY <2>1, <3>1
  <2>3. CASE shown # Unread
    <3>1. shown.query = q
      BY <1>1, <2>3
    <3> HIDE DEF pages
    <3> QED
      BY <2>1, <2>3, <3>1 DEF BookInv, ReadingKept
  <2> QED
    BY <2>2, <2>3
<1>5. Len(pages) \in Nat /\ k \in Nat \ {0}
  BY <1>4
<1>6. Slice(o, k) \in Seq(BookLine)
  <2> DEFINE n == Cardinality(Matching(q))
  <2>1. Matching(q) \in SUBSET BookLine /\ RowsKept
    BY DEF Matching, BookInv
  <2>2. n \in Nat /\ o \in [1 .. n -> Matching(q)]
    BY <2>1, OrderComplete
  <2>3. PagesOf(q) \in Nat
    <3>1. PagesOf(q) = (n + PageSize - 1) \div PageSize /\ PageSize \in Nat \ {0}
      BY BookAssumption DEF PagesOf
    <3> HIDE DEF n
    <3> QED
      BY <2>2, <3>1
  <2>4. k \in 1 .. PagesOf(q)
    BY <1>1, <1>5, <2>3
  <2> HIDE DEF k
  <2>5. /\ Slice(o, k) = [j \in 1 .. Len(Slice(o, k)) |-> o[(k - 1) * PageSize + j]]
        /\ \A j \in Nat : j \in 1 .. Len(Slice(o, k)) <=>
             j \in 1 .. PageSize /\ (k - 1) * PageSize + j <= n
        /\ Len(Slice(o, k)) \in 1 .. PageSize
    BY <2>1, <2>4, PageIs
  <2> DEFINE s == Slice(o, k)
             from == (k - 1) * PageSize
  <2>6. from \in Nat /\ PageSize \in Nat
    BY <1>5, BookAssumption DEF k
  <2>7. /\ s = [j \in 1 .. Len(s) |-> o[from + j]]
        /\ \A j \in Nat : j \in 1 .. Len(s) => from + j <= n
        /\ Len(s) \in Nat
    BY <2>5, <2>6
  <2> HIDE DEF s, from, n
  <2>8. \A j \in 1 .. Len(s) : o[from + j] \in BookLine
    BY <2>1, <2>2, <2>6, <2>7
  <2> QED
    BY <2>7, <2>8 DEF s
<1>7. shown' = [query |-> q, pages |-> Append(pages, Slice(o, k)), totals |-> shown.totals]
  <2> DEFINE rest == Reading(q)
  <2>1. rest = [query |-> q, pages |-> pages, totals |-> shown.totals]
    BY <1>3, <1>4
  <2>2. shown' = [rest EXCEPT !.pages = Append(@, Slice(o, k))]
    BY <1>2
  <2> HIDE DEF rest, pages, k
  <2> QED
    BY <2>1, <2>2
<1> HIDE DEF pages
<1>8. /\ shown'.query = q /\ shown'.pages = Append(pages, Slice(o, k))
      /\ shown'.totals = shown.totals
      /\ shown' = [query |-> shown'.query, pages |-> shown'.pages, totals |-> shown'.totals]
  BY <1>7
<1>9. BookLine' = BookLine /\ Matching(q)' = Matching(q)
  BY <1>1 DEF BookLine, Matching
<1>10. /\ shown'.pages \in Seq(Seq(BookLine)) /\ Len(shown'.pages) = k
       /\ \A i \in 1 .. k : \E u \in Orders(Matching(q)) : shown'.pages[i] = Slice(u, i)
  <2>1. k = Len(pages) + 1
    BY DEF pages
  <2> HIDE DEF k
  <2>2. /\ shown'.pages \in Seq(Seq(BookLine)) /\ Len(shown'.pages) = k
        /\ \A i \in 1 .. Len(pages) : shown'.pages[i] = pages[i]
        /\ shown'.pages[k] = Slice(o, k)
    BY <1>4, <1>5, <1>6, <1>8, <2>1
  <2>3. ASSUME NEW i \in 1 .. k
        PROVE  \E u \in Orders(Matching(q)) : shown'.pages[i] = Slice(u, i)
    <3>1. i \in 1 .. Len(pages) \/ i = k
      BY <1>5, <2>1
    <3> QED
      BY <1>4, <2>2, <3>1
  <2> QED
    BY <2>2, <2>3
<1> HIDE DEF k
<1> QED
  BY <1>4, <1>8, <1>9, <1>10 DEF ReadingKept, Orders, Before, Slice, AmountOf, Unread

LEMMA TotalsKept ==
  ASSUME BookInv, NEW q \in Query, ReadTotals(q)
  PROVE  ReadingKept'
<1>1. /\ UNCHANGED <<entries, sales>> /\ (shown = Unread \/ shown.query = q)
      /\ shown' = [Reading(q) EXCEPT !.totals =
           <<AmountOf(Matching(q), "INCOME"), AmountOf(Matching(q), "EXPENSE")>>]
  BY DEF ReadTotals, book
<1>2. Reading(q) = [query |-> q, pages |-> shown.pages, totals |-> shown.totals]
  BY DEF BookInv, ReadingKept, Reading
<1>3. /\ shown.pages \in Seq(Seq(BookLine))
      /\ \A i \in 1 .. Len(shown.pages) :
           \E u \in Orders(Matching(q)) : shown.pages[i] = Slice(u, i)
  BY <1>1 DEF BookInv, ReadingKept, Unread
<1>4. shown' = [query |-> q, pages |-> shown.pages,
                totals |-> <<AmountOf(Matching(q), "INCOME"), AmountOf(Matching(q), "EXPENSE")>>]
  BY <1>1, <1>2
<1>5. BookLine' = BookLine /\ Matching(q)' = Matching(q)
  BY <1>1 DEF BookLine, Matching
<1> QED
  BY <1>3, <1>4, <1>5 DEF ReadingKept, Orders, Before, Slice, AmountOf, Unread

LEMMA BookStays ==
  ASSUME BookInv, [BookNext]_bookVars
  PROVE  BookInv'
<1> USE DEF BookInv
<1>1. ASSUME UNCHANGED <<entries, work>> PROVE WorkKept'
  BY <1>1 DEF WorkKept, Locked, At, Posted
<1>2. ASSUME UNCHANGED <<entries, sales>> PROVE RowsKept'
  BY <1>2 DEF RowsKept
<1>3. ASSUME UNCHANGED <<entries, answered>> PROVE RetriesAnswered'
  BY <1>3 DEF RetriesAnswered, Posted
<1>4. ASSUME NEW r \in Posting,
             \/ \E k \in EntryKey, p \in Payload : Begin(r, k, p)
             \/ Lock(r) \/ Replay(r) \/ Insert(r) \/ Refuse(r) \/ Commit(r) \/ Abort(r)
      PROVE  BookInv'
  <2>1. WorkKept' /\ RowsKept' /\ RetriesAnswered'
    BY <1>4, PostingKept
  <2>2. UNCHANGED <<entries, sales, shown>> \/ shown' = Unread
    BY <1>4 DEF Begin, Lock, Replay, Insert, Refuse, Commit, Abort, book
  <2> QED
    BY <2>1, <2>2, ReadingStays
<1>5. CASE Prepare \/ \E c \in DOMAIN Catalog : Withdraw(c)
  <2>1. UNCHANGED <<entries, sales, work, answered, shown>>
    BY <1>5 DEF Prepare, Withdraw
  <2> QED
    BY <1>1, <1>2, <1>3, <2>1, ReadingStays
<1>6. ASSUME NEW s \in SoldSale, SaleMoves(s) PROVE BookInv'
  <2>1. UNCHANGED <<entries, work, answered>> /\ shown' = Unread
    BY <1>6 DEF SaleMoves
  <2>2. PICK status \in Following[sales[s].status], now \in Instant :
          sales' = [sales EXCEPT ![s] =
            [status |-> status,
             created |-> IF sales[s].status = "none" THEN now ELSE sales[s].created]]
    BY <1>6 DEF SaleMoves
  <2>3. /\ sales' = [t \in SoldSale |-> sales'[t]]
        /\ \A t \in SoldSale : sales'[t].created \in Nat
    BY <2>2, BookAssumption DEF RowsKept
  <2>4. RowsKept'
    BY <2>1, <2>3 DEF RowsKept
  <2> QED
    BY <1>1, <1>3, <2>1, <2>4, ReadingStays
<1>7. ASSUME NEW q \in Query, ReadPage(q) \/ ReadTotals(q) PROVE BookInv'
  <2>1. UNCHANGED <<entries, sales, work, answered>>
    BY <1>7 DEF ReadPage, ReadTotals, book
  <2> QED
    BY <1>1, <1>2, <1>3, <1>7, <2>1, PageKept, TotalsKept
<1>8. CASE UNCHANGED bookVars
  BY <1>1, <1>2, <1>3, <1>8, ReadingStays DEF bookVars, book
<1> QED
  BY <1>4, <1>5, <1>6, <1>7, <1>8 DEF BookNext

\* A retry is a conflict only when it says something else, and whoever leafs
\* through the finance book as it stands reads each line once, and lines that
\* add up to the totals.
THEOREM BookAlwaysKept == BookSpec => []BookKept
<1>1. BookInv => BookKept
  BY PagesRead DEF BookInv, BookKept
<1> QED
  BY <1>1, BookStarts, BookStays, PTL DEF BookSpec

-----------------------------------------------------------------------------
(* Sales.                                                                   *)

ItemsSound(items) ==
  /\ Len(items) \in Nat \ {0}
  /\ items = [i \in 1 .. Len(items) |-> items[i]]
  /\ \A i \in 1 .. Len(items) :
       items[i].pair \in Place /\ items[i].quantity \in Nat /\ items[i].subtotal \in Nat

\* What a row of sales and its items say adds up.
RowSound(x) ==
  /\ x = [items |-> x.items, subtotal |-> x.subtotal, shipping |-> x.shipping, total |-> x.total,
          status |-> x.status, paid |-> x.paid, seller |-> x.seller]
  /\ ItemsSound(x.items)
  /\ x.shipping \in Nat /\ x.seller \in Seller
  /\ \A i \in 1 .. Len(x.items) : x.items[i].share = Share(x.shipping, Len(x.items), i)
  /\ x.subtotal = SubtotalOf(x.items) /\ x.total = x.subtotal + x.shipping

SalesKept ==
  /\ DOMAIN priced = PricedSale
  /\ \A s \in PricedSale : priced[s] # Null => RowSound(priced[s])

Covers(parts, total) ==
  /\ parts \in [DOMAIN Method -> Nat]
  /\ SumFunctionOnSet(parts, DOMAIN Method) = total

\* A receipt covers its sale, and the one that takes it over.
ReceiptsKept ==
  /\ DOMAIN receipts = PricedSale /\ DOMAIN movedTo = PricedSale
  /\ \A s \in PricedSale : receipts[s] # Null =>
       priced[s] # Null /\ Covers(receipts[s], priced[s].total)
  /\ \A s \in PricedSale : movedTo[s] # Null =>
       /\ movedTo[s] \in PricedSale /\ priced[movedTo[s]] # Null
       /\ receipts[s] # Null /\ priced[s].total = priced[movedTo[s]].total
       /\ priced[s].status = "CANCELLED"

StockKept ==
  /\ movements \in Seq([pair : Place, after : Int, before : Int, sale : PricedSale])
  /\ DOMAIN onHand = Place /\ \A p \in Place : onHand[p] \in Nat
  /\ MovementsChain

SalesInv == SalesKept /\ ReceiptsKept /\ StockKept

LEMMA ItemsPriced ==
  ASSUME NEW n \in 1 .. MaxLines, NEW lines \in [1 .. n -> Line], NEW shipping \in Shipping,
         Priced(lines)
  PROVE  LET items == Items(lines, shipping)
         IN  /\ ItemsSound(items) /\ Len(items) = n
             /\ \A i \in 1 .. n : items[i].share = Share(shipping, n, i)
<1> DEFINE items == Items(lines, shipping)
<1>1. n \in Nat \ {0} /\ Len(lines) = n
  OBVIOUS
<1>2. /\ items = [i \in 1 .. n |->
           [pair |-> lines[i].pair,
            quantity |-> lines[i].quantity,
            subtotal |-> Subtotal(lines[i].quantity, PriceOf(lines[i])),
            share |-> Share(shipping, n, i),
            cost |-> Row[lines[i].pair].cost]]
  BY <1>1 DEF Items
<1>3. ASSUME NEW i \in 1 .. n
      PROVE  /\ lines[i].pair \in Place /\ lines[i].quantity \in Nat
             /\ Subtotal(lines[i].quantity, PriceOf(lines[i])) \in Nat
  <2>1. /\ lines[i].pair \in Place /\ lines[i].quantity \in Nat
        /\ lines[i].price \in Nat \cup {NoPrice}
    BY LinesAssumption
  <2>2. PriceOf(lines[i]) \in Nat
    <3>1. PriceOf(lines[i]) # NoPrice
      BY <1>1 DEF Priced
    <3>2. Row[lines[i].pair].price \in Nat \cup {NoPrice}
      BY <2>1, LinesAssumption
    <3> QED
      BY <2>1, <3>1, <3>2 DEF PriceOf
  <2>3. ASSUME NEW q \in Nat, NEW p \in Nat PROVE Subtotal(q, p) \in Nat
    <3> DEFINE half == QuantityFactor \div 2
    <3>1. QuantityFactor \in Nat \ {0} /\ half \in Nat
      BY LinesAssumption
    <3>2. q * p \in Nat
      OBVIOUS
    <3>3. (q * p + half) \in Nat
      BY <3>1, <3>2
    <3> DEFINE a == q * p + half
    <3> HIDE DEF half, a
    <3>4. a \div QuantityFactor \in Nat
      BY <3>1, <3>3 DEF a
    <3> QED
      BY <3>4 DEF a, half, Subtotal
  <2> QED
    BY <2>1, <2>2, <2>3
<1> HIDE DEF items
<1>4. Len(items) = n
  BY <1>1, <1>2
<1>5. ItemsSound(items)
  BY <1>1, <1>2, <1>3, <1>4 DEF ItemsSound
<1>6. \A i \in 1 .. n : items[i].share = Share(shipping, n, i)
  BY <1>2
<1> QED
  BY <1>4, <1>5, <1>6 DEF items

\* What the lines of p take, and any of them, is not negative.
LEMMA LinesTake ==
  ASSUME NEW items, ItemsSound(items), NEW p, NEW T \in SUBSET LinesOf(items, p)
  PROVE  /\ IsFiniteSet(T) /\ SumFunctionOnSet(Quantities(items), T) \in Nat
         /\ Wanted(items, p) \in Nat
         /\ SumFunctionOnSet(Quantities(items), T) <= Wanted(items, p)
<1> DEFINE f == Quantities(items)
           L == LinesOf(items, p)
<1>1. \A i \in L : f[i] \in Nat
  BY DEF ItemsSound, Quantities, LinesOf
<1>2. IsFiniteSet(L)
  <2>1. L \in SUBSET (1 .. Len(items))
    BY DEF LinesOf
  <2>2. IsFiniteSet(1 .. Len(items))
    BY FS_Interval DEF ItemsSound
  <2> QED
    BY <2>1, <2>2, FS_Subset
<1>3. IsFiniteSet(T)
  BY <1>2, FS_Subset
<1> HIDE DEF f, L
<1>4. T \in SUBSET L
  BY DEF L
<1>5. /\ SumFunctionOnSet(f, T) \in Nat /\ SumFunctionOnSet(f, L) \in Nat
      /\ SumFunctionOnSet(f, T) <= SumFunctionOnSet(f, L)
  BY <1>1, <1>2, <1>4, SumPartLeast
<1> QED
  BY <1>3, <1>5 DEF f, L, Wanted

\* A line moves its quantity more than the lines before it of its pair.
LEMMA LineMoves ==
  ASSUME NEW items, ItemsSound(items), NEW i \in 1 .. Len(items)
  PROVE  LET p == items[i].pair
         IN  /\ SumFunctionOnSet(Quantities(items), {j \in LinesOf(items, p) : j <= i})
                  = items[i].quantity + MovedBefore(items, i)
             /\ MovedBefore(items, i) \in Nat
<1> DEFINE p == items[i].pair
           f == Quantities(items)
           L == LinesOf(items, p)
           U == {j \in L : j < i}
           V == {j \in L : j <= i}
<1>1. Len(items) \in Nat /\ i \in Nat
  BY DEF ItemsSound
<1>2. V = U \cup {i} /\ i \in L /\ i \notin U /\ U \in SUBSET L
  BY <1>1 DEF LinesOf
<1>3. \A j \in L : f[j] \in Int
  BY DEF LinesOf, ItemsSound, Quantities
<1>4. IsFiniteSet(L) /\ SumFunctionOnSet(f, U) \in Nat
  BY <1>2, LinesTake
<1>5. f[i] = items[i].quantity
  BY DEF Quantities
<1>6. MovedBefore(items, i) = SumFunctionOnSet(f, U)
  BY DEF MovedBefore
<1> HIDE DEF p, f, L, U, V
<1>7. ASSUME NEW x \in L \ U
      PROVE  SumFunctionOnSet(f, U \cup {x}) = f[x] + SumFunctionOnSet(f, U)
  <2>1. U \in SUBSET L /\ IsFiniteSet(L)
    BY <1>2, <1>4
  <2> QED
    BY <1>3, <2>1, SummingIn
<1>8. SumFunctionOnSet(f, V) = items[i].quantity + MovedBefore(items, i)
  BY <1>2, <1>5, <1>6, <1>7
<1> QED
  BY <1>4, <1>6, <1>8 DEF f, V, L, p

LEMMA GreatestOf ==
  ASSUME NEW b \in Nat, NEW H \in SUBSET (1 .. b), H # {}
  PROVE  \E h \in H : \A x \in H : x <= h
<1> DEFINE D == {b - x : x \in H}
<1>1. D \in SUBSET Nat /\ D # {}
  OBVIOUS
<1>2. PICK d \in D : \A y \in D : d <= y
  <2> HIDE DEF D
  <2> QED
    BY <1>1, LeastOf
<1>3. PICK h \in H : d = b - h
  BY <1>2
<1>4. ASSUME NEW x \in H PROVE x <= h
  <2>1. b - h <= b - x
    BY <1>2, <1>3
  <2> QED
    BY <2>1
<1> QED
  BY <1>4

\* The balance of p after the first n of some movements.
BalanceIn(moves, p, n) ==
  LET own == {m \in 1 .. n : moves[m].pair = p}
  IN  IF own = {} THEN Row[p].quantity
      ELSE moves[CHOOSE m \in own : \A k \in own : k <= m].after

LEMMA BalanceOfLast ==
  ASSUME NEW moves, NEW p, NEW n \in Nat, NEW m \in 1 .. n, moves[m].pair = p,
         \A k \in 1 .. n : moves[k].pair = p => k <= m
  PROVE  BalanceIn(moves, p, n) = moves[m].after
<1> DEFINE own == {k \in 1 .. n : moves[k].pair = p}
           last == CHOOSE i \in own : \A k \in own : k <= i
<1>1. m \in own /\ \A k \in own : k <= m
  OBVIOUS
<1>2. last \in own /\ \A k \in own : k <= last
  BY <1>1
<1>3. last = m
  <2>1. last \in Nat /\ m \in Nat /\ last <= m /\ m <= last
    BY <1>1, <1>2
  <2> HIDE DEF last
  <2> QED
    BY <2>1
<1>4. own # {}
  BY <1>1
<1>5. BalanceIn(moves, p, n) = IF own = {} THEN Row[p].quantity ELSE moves[last].after
  BY DEF BalanceIn
<1> QED
  BY <1>3, <1>4, <1>5

\* Movements of other pairs do not count, nor those that come later.
LEMMA BalanceSame ==
  ASSUME NEW moves, NEW more, NEW p, NEW n \in Nat, NEW k \in Nat, n <= k,
         \A i \in 1 .. n : more[i] = moves[i],
         \A i \in n + 1 .. k : more[i].pair # p
  PROVE  BalanceIn(more, p, k) = BalanceIn(moves, p, n)
<1> DEFINE own == {m \in 1 .. n : moves[m].pair = p}
           all == {m \in 1 .. k : more[m].pair = p}
           lastOf(set) == CHOOSE i \in set : \A j \in set : j <= i
           last == lastOf(own)
<1>1. all = own
  <2>1. ASSUME NEW m \in all PROVE m \in own
    <3>1. m \in 1 .. n \/ m \in n + 1 .. k
      OBVIOUS
    <3> QED
      BY <3>1
  <2>2. ASSUME NEW m \in own PROVE m \in all
    OBVIOUS
  <2> QED
    BY <2>1, <2>2
<1>2. BalanceIn(moves, p, n) = IF own = {} THEN Row[p].quantity ELSE moves[last].after
  BY DEF BalanceIn
<1>3. BalanceIn(more, p, k) = IF own = {} THEN Row[p].quantity ELSE more[last].after
  <2>1. BalanceIn(more, p, k) = IF all = {} THEN Row[p].quantity ELSE more[lastOf(all)].after
    BY DEF BalanceIn
  <2> HIDE DEF all, own, lastOf
  <2> QED
    BY <1>1, <2>1
<1>4. CASE own = {}
  BY <1>2, <1>3, <1>4
<1>5. CASE own # {}
  <2>1. own \in SUBSET (1 .. n)
    OBVIOUS
  <2>2. \E i \in own : \A j \in own : j <= i
    <3> HIDE DEF own
    <3> QED
      BY <1>5, <2>1, GreatestOf
  <2>3. last \in own
    BY <2>2
  <2>4. more[last] = moves[last]
    BY <2>1, <2>3
  <2> QED
    BY <1>2, <1>3, <2>4
<1> QED
  BY <1>4, <1>5

\* The movements of a sale in their order, each from where the one before left.
LEMMA PostKept ==
  ASSUME StockKept, NEW s \in PricedSale, NEW items, ItemsSound(items), NEW sign \in {-1, 1},
         sign = -1 => \A p \in Place : Wanted(items, p) <= onHand[p],
         PostItems(s, items, sign)
  PROVE  StockKept'
<1> DEFINE N == Len(movements)
           K == Len(items)
           f == Quantities(items)
           Upto(p, k) == {j \in LinesOf(items, p) : j <= k}
           new == [i \in 1 .. K |-> ItemMovement(s, items, sign, i)]
           Moving == [pair : Place, after : Int, before : Int, sale : PricedSale]
<1>1. movements \in Seq(Moving) /\ N \in Nat /\ K \in Nat
  BY DEF StockKept, ItemsSound
<1>2. ASSUME NEW p, NEW k \in Nat
      PROVE  /\ Upto(p, k) \in SUBSET LinesOf(items, p)
             /\ SumFunctionOnSet(f, Upto(p, k)) \in Nat
             /\ Wanted(items, p) \in Nat
             /\ SumFunctionOnSet(f, Upto(p, k)) <= Wanted(items, p)
  <2>1. Upto(p, k) \in SUBSET LinesOf(items, p)
    OBVIOUS
  <2> HIDE DEF Upto
  <2> QED
    BY <2>1, LinesTake
<1>3. ASSUME NEW i \in 1 .. K
      PROVE  LET p == items[i].pair
             IN  /\ new[i].pair = p /\ p \in Place /\ new[i] \in Moving
                 /\ new[i].before = onHand[p] + sign * SumFunctionOnSet(f, Upto(p, i - 1))
                 /\ new[i].after = onHand[p] + sign * SumFunctionOnSet(f, Upto(p, i))
  <2> DEFINE p == items[i].pair
             q == items[i].quantity
             a == SumFunctionOnSet(f, Upto(p, i - 1))
  <2>1. i \in 1 .. Len(items) /\ i - 1 \in Nat
    BY <1>1
  <2>2. p \in Place /\ q \in Nat /\ f[i] = q
    BY <2>1 DEF ItemsSound, Quantities
  <2>3. {j \in LinesOf(items, p) : j < i} = Upto(p, i - 1)
    BY <2>1 DEF LinesOf
  <2>4. MovedBefore(items, i) = a
    BY <2>3 DEF MovedBefore
  <2>5. new[i] = [sale |-> s, pair |-> p, before |-> onHand[p] + sign * a,
                  after |-> onHand[p] + sign * a + sign * q]
    BY <2>4 DEF ItemMovement
  <2>6. SumFunctionOnSet(f, Upto(p, i)) = q + a /\ a \in Int
    <3>1. {j \in LinesOf(items, p) : j <= i} = Upto(p, i)
      OBVIOUS
    <3>2. /\ SumFunctionOnSet(f, Upto(p, i)) = q + MovedBefore(items, i)
          /\ MovedBefore(items, i) \in Nat
      BY <2>1, <3>1, LineMoves
    <3> QED
      BY <2>4, <3>2
  <2>7. onHand[p] \in Nat
    BY <2>2 DEF StockKept
  <2> HIDE DEF p, q, a, new, f, Upto
  <2>8. onHand[p] + sign * a + sign * q = onHand[p] + sign * (q + a)
    <3>1. CASE sign = 1
      BY <2>2, <2>6, <2>7, <3>1
    <3>2. CASE sign = -1
      BY <2>2, <2>6, <2>7, <3>2
    <3> QED
      BY <3>1, <3>2
  <2>9. onHand[p] + sign * a \in Int /\ onHand[p] + sign * a + sign * q \in Int
    BY <2>2, <2>6, <2>7
  <2> QED
    BY <2>2, <2>5, <2>6, <2>8, <2>9 DEF a, p
<1>4. /\ new \in Seq(Moving) /\ Len(new) = K
      /\ movements' = movements \o new
  <2>1. new \in [1 .. K -> Moving]
    BY <1>3
  <2>2. new \in Seq(Moving) /\ Len(new) = K
    <3> HIDE DEF new, K, Moving
    <3> QED
      BY <1>1, <2>1
  <2> QED
    BY <2>2 DEF PostItems
<1>5. ASSUME NEW p \in Place
      PROVE  onHand[p] \in Nat /\ onHand'[p] = onHand[p] + sign * Wanted(items, p)
  BY DEF PostItems, StockKept
<1>6. DOMAIN onHand' = Place
  BY DEF PostItems
<1>7. MovementsChain
  BY DEF StockKept
<1> HIDE DEF N, K, new, f, Upto, Moving
<1>8. /\ movements' \in Seq(Moving) /\ Len(movements') = N + K
      /\ \A n \in 1 .. N : movements'[n] = movements[n]
      /\ \A i \in 1 .. K : movements'[N + i] = new[i]
  <2>1. /\ movements' \in Seq(Moving) /\ Len(movements') = Len(movements) + Len(new)
        /\ \A i \in 1 .. Len(movements) + Len(new) :
             movements'[i] = IF i <= Len(movements) THEN movements[i]
                             ELSE new[i - Len(movements)]
    BY <1>1, <1>4, ConcatProperties
  <2>2. \A i \in 1 .. K : N + i - N = i /\ N + i \in 1 .. N + K /\ ~(N + i <= N)
    BY <1>1
  <2>3. \A i \in 1 .. N : i \in 1 .. N + K /\ i <= N
    BY <1>1
  <2> QED
    BY <1>4, <2>1, <2>2, <2>3 DEF N
<1>9. ASSUME NEW p \in Place, NEW k \in 0 .. K
      PROVE  BalanceIn(movements', p, N + k)
               = onHand[p] + sign * SumFunctionOnSet(f, Upto(p, k))
  <2>1. k \in Nat /\ \A i \in Upto(p, k) : i \in 1 .. k /\ i \in 1 .. K /\ items[i].pair = p
    BY <1>1 DEF Upto, LinesOf, K
  <2>2. \A i \in 1 .. k : items[i].pair = p => i \in Upto(p, k)
    BY <1>1 DEF Upto, LinesOf, K
  <2>3. CASE Upto(p, k) = {}
    <3>1. \A i \in N + 1 .. N + k : movements'[i].pair # p
      <4>1. ASSUME NEW i \in N + 1 .. N + k PROVE movements'[i].pair # p
        <5>1. i - N \in 1 .. k /\ i - N \in 1 .. K /\ N + (i - N) = i
          BY <1>1
        <5>2. movements'[i] = new[i - N] /\ new[i - N].pair = items[i - N].pair
          BY <1>3, <1>8, <5>1
        <5> QED
          BY <2>2, <2>3, <5>1, <5>2
      <4> QED
        BY <4>1
    <3>2. BalanceIn(movements', p, N + k) = BalanceIn(movements, p, N)
      <4>1. N <= N + k /\ N + k \in Nat
        BY <1>1, <2>1
      <4> QED
        <5>1. \A i \in 1 .. N : movements'[i] = movements[i]
          BY <1>8
        <5> DEFINE more == movements'
                   last == N + k
        <5>2. /\ N \in Nat /\ last \in Nat /\ N <= last
              /\ \A i \in 1 .. N : more[i] = movements[i]
              /\ \A i \in N + 1 .. last : more[i].pair # p
          BY <1>1, <3>1, <4>1, <5>1
        <5> HIDE DEF more, last
        <5>3. BalanceIn(more, p, last) = BalanceIn(movements, p, N)
          BY <5>2, BalanceSame
        <5> QED
          BY <5>3 DEF more, last
    <3>3. BalanceIn(movements, p, N) = onHand[p]
      BY <1>7 DEF MovementsChain, BalanceAfter, BalanceIn, N
    <3>4. SumFunctionOnSet(f, Upto(p, k)) = 0
      BY <2>3, SumNothing, FS_EmptySet
    <3> QED
      BY <1>5, <3>2, <3>3, <3>4
  <2>4. CASE Upto(p, k) # {}
    <3>1. PICK i \in Upto(p, k) : \A j \in Upto(p, k) : j <= i
      <4>1. Upto(p, k) \in SUBSET (1 .. k)
        BY <2>1
      <4> QED
        BY <2>1, <2>4, <4>1, GreatestOf
    <3>2. i \in 1 .. k /\ i \in 1 .. K /\ items[i].pair = p
      BY <2>1
    <3>3. Upto(p, i) = Upto(p, k)
      BY <1>1, <3>1, <3>2 DEF Upto, LinesOf
    <3>4. movements'[N + i] = new[i] /\ new[i].pair = p
          /\ new[i].after = onHand[p] + sign * SumFunctionOnSet(f, Upto(p, k))
      BY <1>3, <1>8, <3>2, <3>3
    <3>5. ASSUME NEW j \in 1 .. N + k, movements'[j].pair = p PROVE j <= N + i
      <4>1. CASE j <= N
        BY <1>1, <3>2, <4>1
      <4>2. CASE ~(j <= N)
        <5>1. j - N \in 1 .. k /\ j - N \in 1 .. K /\ N + (j - N) = j
          BY <1>1, <4>2
        <5>2. items[j - N].pair = p
          BY <1>3, <1>8, <3>5, <5>1
        <5>3. j - N <= i
          BY <2>2, <3>1, <5>1, <5>2
        <5> QED
          BY <1>1, <3>2, <5>3
      <4> QED
        BY <4>1, <4>2
    <3>6. N + i \in 1 .. N + k /\ N + k \in Nat
      BY <1>1, <2>1, <3>2
    <3>7. BalanceIn(movements', p, N + k) = movements'[N + i].after
      BY <3>4, <3>5, <3>6, BalanceOfLast
    <3> QED
      BY <3>4, <3>7
  <2> QED
    BY <2>3, <2>4
<1>10. ASSUME NEW p \in Place, NEW k \in Nat
       PROVE  onHand[p] + sign * SumFunctionOnSet(f, Upto(p, k)) \in Nat
  <2> DEFINE a == SumFunctionOnSet(f, Upto(p, k))
             w == Wanted(items, p)
  <2>1. a \in Nat /\ w \in Nat /\ a <= w /\ onHand[p] \in Nat
    BY <1>2, <1>5
  <2>2. sign = -1 => w <= onHand[p]
    OBVIOUS
  <2> HIDE DEF a, w
  <2>3. onHand[p] + sign * a \in Nat
    <3>1. CASE sign = 1
      BY <2>1, <3>1
    <3>2. CASE sign = -1
      BY <2>1, <2>2, <3>2
    <3> QED
      BY <3>1, <3>2
  <2> QED
    BY <2>3 DEF a
<1>11. ASSUME NEW n \in 1 .. N + K
       PROVE  /\ movements'[n].before = BalanceIn(movements', movements'[n].pair, n - 1)
              /\ movements'[n].after >= 0
  <2>1. CASE n \in 1 .. N
    <3>1. movements'[n] = movements[n] /\ n - 1 \in Nat
      BY <1>1, <1>8, <2>1
    <3>2. /\ movements[n].before = BalanceIn(movements, movements[n].pair, n - 1)
          /\ movements[n].after >= 0
      BY <1>7, <2>1 DEF MovementsChain, BalanceAfter, BalanceIn, N
    <3>3. BalanceIn(movements', movements[n].pair, n - 1)
            = BalanceIn(movements, movements[n].pair, n - 1)
      <4>1. n - 1 <= n - 1
        BY <3>1
      <4>2. \A i \in 1 .. n - 1 : movements'[i] = movements[i]
        BY <1>1, <1>8, <2>1
      <4>3. \A i \in n - 1 + 1 .. n - 1 : FALSE
        BY <3>1
      <4> QED
        BY <3>1, <4>1, <4>2, <4>3, BalanceSame
    <3> QED
      BY <3>1, <3>2, <3>3
  <2>2. CASE n \notin 1 .. N
    <3> DEFINE i == n - N
               p == items[i].pair
    <3>1. i \in 1 .. K /\ i - 1 \in 0 .. K /\ i \in Nat /\ n = N + i /\ n - 1 = N + (i - 1)
      BY <1>1, <2>2
    <3> HIDE DEF i
    <3>2. /\ movements'[n] = new[i] /\ new[i].pair = p /\ p \in Place
          /\ new[i].before = onHand[p] + sign * SumFunctionOnSet(f, Upto(p, i - 1))
          /\ new[i].after = onHand[p] + sign * SumFunctionOnSet(f, Upto(p, i))
      BY <1>3, <1>8, <3>1
    <3> HIDE DEF p
    <3>3. new[i].after \in Nat
      BY <1>10, <3>1, <3>2
    <3>4. BalanceIn(movements', p, n - 1) = new[i].before
      BY <1>9, <3>1, <3>2
    <3> QED
      BY <3>2, <3>3, <3>4
  <2> QED
    BY <2>1, <2>2
<1>12. ASSUME NEW p \in Place
       PROVE  onHand'[p] = BalanceIn(movements', p, N + K) /\ onHand'[p] \in Nat
  <2>1. Upto(p, K) = LinesOf(items, p)
    BY <1>1 DEF Upto, LinesOf, K
  <2>2. SumFunctionOnSet(f, Upto(p, K)) = Wanted(items, p)
    BY <2>1 DEF f, Wanted
  <2>3. K \in 0 .. K
    BY <1>1
  <2> QED
    BY <1>1, <1>5, <1>9, <1>10, <2>2, <2>3
<1>13. MovementsChain'
  <2>1. \A p, n : BalanceAfter(p, n)' = BalanceIn(movements', p, n)
    BY DEF BalanceAfter, BalanceIn
  <2> QED
    BY <1>8, <1>11, <1>12, <2>1 DEF MovementsChain
<1> QED
  BY <1>6, <1>8, <1>12, <1>13 DEF StockKept, Moving

\* The amounts of a row, and its shares, are its total.
LEMMA SaleAdds ==
  ASSUME NEW x, RowSound(x)
  PROVE  /\ x.subtotal \in Nat /\ x.total \in Nat
         /\ SumFunctionOnSet(Subtotals(x.items), 1 .. Len(x.items)) = x.subtotal
         /\ SumFunction([i \in 1 .. Len(x.items) |-> x.items[i].subtotal + x.items[i].share])
              = x.total
         /\ \A i, j \in 1 .. Len(x.items) : x.items[i].share - x.items[j].share \in -1 .. 1
<1> DEFINE n == Len(x.items)
           f == Subtotals(x.items)
           g == [i \in 1 .. n |-> x.items[i].share]
           h == [i \in 1 .. n |-> x.items[i].subtotal + x.items[i].share]
           q == x.shipping \div n
           r == x.shipping % n
<1>1. /\ n \in Nat \ {0} /\ x.shipping \in Nat
      /\ \A i \in 1 .. n : x.items[i].subtotal \in Nat /\ x.items[i].share = Share(x.shipping, n, i)
  BY DEF RowSound, ItemsSound
<1>2. q \in Int /\ r \in Int
  BY <1>1
<1>3. \A i \in 1 .. n : x.items[i].share = q + (IF i <= r THEN 1 ELSE 0)
  BY <1>1 DEF Share
<1>4. /\ \A i \in 1 .. n : f[i] = x.items[i].subtotal /\ g[i] = x.items[i].share
      /\ \A i \in 1 .. n : h[i] = x.items[i].subtotal + x.items[i].share
      /\ DOMAIN f = 1 .. n /\ DOMAIN h = 1 .. n
  BY DEF Subtotals
<1>5. SumFunctionOnSet(f, 1 .. n) = x.subtotal
  <2>1. SumFunctionOnSet(f, DOMAIN f) = x.subtotal
    BY DEF RowSound, SubtotalOf, SumFunction
  <2> QED
    BY <1>4, <2>1
<1> HIDE DEF f, g, h, n
<1>6. IsFiniteSet(1 .. n)
  BY <1>1, FS_Interval
<1>7. /\ \A i \in 1 .. n : f[i] \in Nat
      /\ \A i \in 1 .. n : f[i] \in Int
      /\ \A i \in 1 .. n : g[i] \in Int
      /\ \A i \in 1 .. n : g[i] = q + (IF i <= r THEN 1 ELSE 0)
      /\ \A i \in 1 .. n : h[i] = f[i] + g[i]
  <2> HIDE DEF q, r
  <2>1. ASSUME NEW i \in 1 .. n
        PROVE  f[i] \in Nat /\ g[i] \in Int /\ g[i] = q + (IF i <= r THEN 1 ELSE 0)
               /\ h[i] = f[i] + g[i]
    <3>1. f[i] = x.items[i].subtotal /\ g[i] = x.items[i].share /\ f[i] \in Nat
      BY <1>1, <1>4
    <3>2. h[i] = f[i] + g[i]
      BY <1>4, <3>1
    <3>3. g[i] = q + (IF i <= r THEN 1 ELSE 0)
      BY <1>3, <3>1
    <3> QED
      BY <1>2, <3>1, <3>2, <3>3
  <2> QED
    BY <2>1
<1>8. SumFunctionOnSet(f, 1 .. n) \in Nat
  BY <1>6, <1>7, SumNatural
<1>9. SumFunctionOnSet(g, 1 .. n) = x.shipping
  BY <1>1, <1>7, SharesAreTheWhole
<1>10. SumFunctionOnSet(h, 1 .. n) = SumFunctionOnSet(f, 1 .. n) + SumFunctionOnSet(g, 1 .. n)
  BY <1>6, <1>7, SumPlus
<1>11. x.total = x.subtotal + x.shipping
  BY DEF RowSound
<1>12. x.subtotal \in Nat /\ x.total \in Nat
  BY <1>1, <1>5, <1>8, <1>11
<1>13. SumFunction(h) = x.total
  BY <1>4, <1>5, <1>9, <1>10, <1>11 DEF SumFunction
<1>14. \A i, j \in 1 .. n : x.items[i].share - x.items[j].share \in -1 .. 1
  <2> HIDE DEF q, r
  <2> QED
    BY <1>1, <1>2, <1>3
<1> QED
  BY <1>5, <1>12, <1>13, <1>14 DEF f, h, n

LEMMA Completed ==
  ASSUME SalesKept
  PROVE  /\ IsFiniteSet(CompletedSales) /\ CompletedSales \in SUBSET PricedSale
         /\ \A s \in CompletedSales :
              RowSound(priced[s]) /\ priced[s].seller \in Seller /\ priced[s].shipping \in Nat
<1>1. CompletedSales \in SUBSET PricedSale
  BY DEF CompletedSales
<1>2. IsFiniteSet(CompletedSales)
  BY <1>1, LinesAssumption, FS_Subset
<1>3. \A s \in CompletedSales : RowSound(priced[s])
  BY DEF SalesKept, CompletedSales
<1> QED
  BY <1>1, <1>2, <1>3 DEF RowSound

\* The lines of the products are the lines of the sale.
LEMMA ProductsOfSale ==
  ASSUME NEW x, RowSound(x), NEW g,
         \A p \in Place : g[p] = SumFunctionOnSet(Subtotals(x.items), LinesOf(x.items, p))
  PROVE  /\ SumFunctionOnSet(g, Place) = x.subtotal
         /\ \A p \in Place : g[p] \in Int
<1> DEFINE n == Len(x.items)
           f == Subtotals(x.items)
           key == [i \in 1 .. n |-> x.items[i].pair]
           of == [p \in Place |-> LinesOf(x.items, p)]
<1>1. n \in Nat \ {0} /\ \A i \in 1 .. n : x.items[i].subtotal \in Nat /\ x.items[i].pair \in Place
  BY DEF RowSound, ItemsSound
<1>2. /\ \A i \in 1 .. n : f[i] \in Int
      /\ \A i \in 1 .. n : key[i] \in Place
      /\ \A p \in Place : LinesOf(x.items, p) = {i \in 1 .. n : key[i] = p}
  BY <1>1 DEF Subtotals, LinesOf
<1>3. SumFunctionOnSet(f, 1 .. n) = x.subtotal
  BY SaleAdds
<1> DEFINE S == 1 .. n
<1>4. IsFiniteSet(S) /\ IsFiniteSet(Place)
  <2>1. n \in Int
    BY <1>1
  <2> HIDE DEF n
  <2>2. IsFiniteSet(S)
    BY <2>1, FS_Interval
  <2> QED
    BY <2>2, LinesAssumption
<1>5. /\ \A p \in Place : of[p] = {i \in S : key[i] = p}
      /\ \A p \in Place : g[p] = SumFunctionOnSet(f, of[p])
  BY <1>2
<1> HIDE DEF n, f, key, of
<1>6. SumFunctionOnSet(g, Place) = SumFunctionOnSet(f, 1 .. n)
  <2>1. /\ \A i \in S : f[i] \in Int
        /\ \A i \in S : key[i] \in Place
    BY <1>2
  <2> HIDE DEF S
  <2>2. SumFunctionOnSet(g, Place) = SumFunctionOnSet(f, S)
    BY <1>4, <1>5, <2>1, SumParts
  <2> QED
    BY <2>2 DEF S
<1>7. ASSUME NEW p \in Place PROVE g[p] \in Int
  <2> DEFINE T == of[p]
  <2>1. T \in SUBSET (1 .. n)
    BY <1>5
  <2>2. IsFiniteSet(T) /\ \A i \in T : f[i] \in Int
    BY <1>2, <1>4, <2>1, FS_Subset
  <2>3. g[p] = SumFunctionOnSet(f, T)
    BY <1>5
  <2> HIDE DEF T
  <2>4. SumFunctionOnSet(f, T) \in Int
    BY <2>2, Summing
  <2> QED
    BY <2>3, <2>4
<1> QED
  BY <1>3, <1>6, <1>7

\* What the products brought, with the shipping, is what the day was charged.
LEMMA ProductsAdd ==
  ASSUME SalesKept
  PROVE  LinesAddUp
<1> DEFINE C == CompletedSales
           F == [s \in C |-> [p \in Place |->
                   SumFunctionOnSet(Subtotals(priced[s].items), LinesOf(priced[s].items, p))]]
           g == [s \in C |-> priced[s].subtotal]
           h == [p \in Place |-> Revenue(p)]
           G == [p \in Place |-> [s \in C |-> F[s][p]]]
           u == [s \in C |-> priced[s].shipping]
           v == [s \in C |-> priced[s].total]
<1>1. /\ IsFiniteSet(C) /\ IsFiniteSet(Place)
      /\ \A s \in C : RowSound(priced[s]) /\ priced[s].shipping \in Nat
  BY Completed, LinesAssumption
<1>2. ASSUME NEW s \in C
      PROVE  /\ g[s] = SumFunctionOnSet(F[s], Place) /\ \A p \in Place : F[s][p] \in Int
             /\ g[s] \in Int /\ u[s] \in Int /\ v[s] = g[s] + u[s]
  <2>1. RowSound(priced[s])
    BY <1>1
  <2> DEFINE row == F[s]
  <2>2. \A p \in Place : row[p] =
          SumFunctionOnSet(Subtotals(priced[s].items), LinesOf(priced[s].items, p))
    OBVIOUS
  <2>3. g[s] = priced[s].subtotal /\ u[s] = priced[s].shipping /\ v[s] = priced[s].total
    OBVIOUS
  <2> HIDE DEF F, g, u, v
  <2>4. /\ SumFunctionOnSet(row, Place) = priced[s].subtotal
        /\ \A p \in Place : row[p] \in Int
    <3> HIDE DEF row
    <3> QED
      BY <2>1, <2>2, ProductsOfSale
  <2>5. priced[s].subtotal \in Nat /\ priced[s].total = priced[s].subtotal + priced[s].shipping
        /\ priced[s].shipping \in Nat
    BY <2>1, SaleAdds DEF RowSound
  <2> QED
    BY <2>3, <2>4, <2>5
<1>3. ASSUME NEW p \in Place
      PROVE  h[p] = SumFunctionOnSet(G[p], C) /\ \A s \in C : G[p][s] = F[s][p]
  <2>1. [s \in C |-> F[s][p]] = [s \in C |->
          SumFunctionOnSet(Subtotals(priced[s].items), LinesOf(priced[s].items, p))]
    OBVIOUS
  <2>2. DOMAIN [s \in C |-> F[s][p]] = C
    OBVIOUS
  <2>3. h[p] = SumFunction([s \in C |-> F[s][p]])
    BY <2>1 DEF Revenue
  <2>4. G[p] = [s \in C |-> F[s][p]]
    OBVIOUS
  <2> HIDE DEF h, G
  <2>5. h[p] = SumFunctionOnSet(G[p], C)
    BY <2>2, <2>3, <2>4 DEF SumFunction
  <2> QED
    BY <2>4, <2>5
<1>4. /\ SumFunction(h) = SumFunctionOnSet(h, Place)
      /\ SumFunction(u) = SumFunctionOnSet(u, C)
      /\ SystemSales = SumFunctionOnSet(v, C)
  <2>1. DOMAIN h = Place /\ DOMAIN u = C /\ DOMAIN v = C
    OBVIOUS
  <2>2. SystemSales = SumFunction(v)
    BY DEF SystemSales
  <2> HIDE DEF h, u, v, C
  <2> QED
    BY <2>1, <2>2 DEF SumFunction
<1> HIDE DEF C, F, G, g, h, u, v
<1>5. SumFunctionOnSet(g, C) = SumFunctionOnSet(h, Place)
  <2>1. /\ \A s \in C : \A p \in Place : F[s][p] \in Int
        /\ \A s \in C : g[s] = SumFunctionOnSet(F[s], Place)
    BY <1>2
  <2>2. /\ \A p \in Place : h[p] = SumFunctionOnSet(G[p], C)
        /\ \A p \in Place : \A s \in C : G[p][s] = F[s][p]
    BY <1>3
  <2>3. IsFiniteSet(C) /\ IsFiniteSet(Place)
    BY <1>1
  <2> QED
    BY <2>1, <2>2, <2>3, SumSwap, SMTT(60)
<1>6. SumFunctionOnSet(v, C) = SumFunctionOnSet(g, C) + SumFunctionOnSet(u, C)
  <2>1. /\ \A s \in C : g[s] \in Int
        /\ \A s \in C : u[s] \in Int
        /\ \A s \in C : v[s] = g[s] + u[s]
    BY <1>2
  <2> QED
    BY <1>1, <2>1, SumPlus
<1>7. SumFunction(h) + SumFunction(u) = SystemSales
  BY <1>4, <1>5, <1>6
<1>8. ASSUME NEW s \in PricedSale, priced[s] # Null
      PROVE  LET items == priced[s].items
                 amounts == [i \in 1 .. Len(items) |-> items[i].subtotal + items[i].share]
             IN  /\ SumFunction(amounts) = priced[s].total
                 /\ \A i, j \in 1 .. Len(items) : items[i].share - items[j].share \in -1 .. 1
  BY <1>8, SaleAdds DEF SalesKept
<1> QED
  BY <1>7, <1>8 DEF LinesAddUp, h, u, C

Bucket == {"cash", "digital", "unspecified"}

\* A sum of three, and of parts that cover a whole.
LEMMA BucketsFinite == IsFiniteSet(Bucket)
<1> DEFINE a == "cash"
           b == "digital"
           c == "unspecified"
<1>1. IsFiniteSet({a}) /\ IsFiniteSet({b}) /\ IsFiniteSet({c})
  BY FS_Singleton
<1>2. IsFiniteSet({a} \cup {b})
  BY <1>1, FS_Union
<1>3. IsFiniteSet(({a} \cup {b}) \cup {c})
  BY <1>1, <1>2, FS_Union
<1>4. Bucket = ({a} \cup {b}) \cup {c}
  BY DEF Bucket
<1> QED
  BY <1>3, <1>4

LEMMA SumOfBuckets ==
  ASSUME NEW g, \A b \in Bucket : g[b] \in Int
  PROVE  SumFunctionOnSet(g, Bucket) = g["cash"] + g["digital"] + g["unspecified"]
<1> DEFINE a == "cash"
           b == "digital"
           c == "unspecified"
<1>1. IsFiniteSet(Bucket)
  BY BucketsFinite
<1>2. ASSUME NEW T \in SUBSET Bucket, NEW x \in Bucket \ T
      PROVE  SumFunctionOnSet(g, T \cup {x}) = g[x] + SumFunctionOnSet(g, T)
  BY <1>1, SummingIn
<1>3. SumFunctionOnSet(g, {}) = 0
  BY <1>1, Summing
<1>4. a \in Bucket /\ b \in Bucket /\ c \in Bucket /\ a # b /\ a # c /\ b # c
      /\ Bucket = {a, b, c}
  BY DEF Bucket
<1>5. g["cash"] = g[a] /\ g["digital"] = g[b] /\ g["unspecified"] = g[c]
  OBVIOUS
<1> HIDE DEF a, b, c
<1>6. SumFunctionOnSet(g, {} \cup {c}) = g[c] + SumFunctionOnSet(g, {})
  BY <1>2, <1>4
<1>7. SumFunctionOnSet(g, {c} \cup {b}) = g[b] + SumFunctionOnSet(g, {c})
  BY <1>2, <1>4
<1>8. SumFunctionOnSet(g, {c, b} \cup {a}) = g[a] + SumFunctionOnSet(g, {c, b})
  BY <1>2, <1>4
<1>9. {} \cup {c} = {c} /\ {c} \cup {b} = {c, b} /\ {c, b} \cup {a} = Bucket
  BY <1>4
<1>10. g[a] \in Int /\ g[b] \in Int /\ g[c] \in Int
  BY <1>4
<1>11. SumFunctionOnSet(g, Bucket) = g[a] + g[b] + g[c]
  <2>1. SumFunctionOnSet(g, {c}) = g[c]
    BY <1>3, <1>6, <1>9, <1>10
  <2>2. SumFunctionOnSet(g, {c, b}) = g[b] + g[c]
    BY <1>7, <1>9, <2>1
  <2>3. SumFunctionOnSet(g, Bucket) = g[a] + (g[b] + g[c])
    BY <1>8, <1>9, <2>2
  <2> QED
    BY <1>10, <2>3
<1> QED
  BY <1>5, <1>11

\* However a completed sale was paid, the buckets share its total.
LEMMA BucketsOfSale ==
  ASSUME SalesInv, NEW s \in CompletedSales
  PROVE  /\ \A b \in Bucket : InBucket(s, b) \in Int
         /\ InBucket(s, "cash") + InBucket(s, "digital") + InBucket(s, "unspecified")
              = priced[s].total
<1>1. RowSound(priced[s]) /\ s \in PricedSale /\ priced[s] # Null
  BY Completed DEF SalesInv, CompletedSales
<1>2. priced[s].total \in Nat
  BY <1>1, SaleAdds
<1>3. CASE Receipt(s) = Null
  <2>1. \A b \in Bucket : InBucket(s, b) = IF b = "unspecified" THEN priced[s].total ELSE 0
    BY <1>3 DEF InBucket
  <2> QED
    BY <1>2, <2>1 DEF Bucket
<1>4. CASE Receipt(s) # Null
  <2> DEFINE f == Receipt(s)
             D == DOMAIN Method
             g == [b \in Bucket |-> InBucket(s, b)]
             of == [b \in Bucket |-> {m \in D : Method[m] = b}]
  <2>1. Covers(f, priced[s].total)
    <3> DEFINE from == {x \in PricedSale : movedTo[x] = s}
               giver == CHOOSE x \in from : TRUE
    <3>1. CASE receipts[s] = Null /\ from # {}
      <4>1. f = receipts[giver]
        BY <3>1 DEF Receipt
      <4>2. giver \in from
        BY <3>1
      <4>3. giver \in PricedSale /\ movedTo[giver] = s
        BY <4>2
      <4> HIDE DEF giver, f, from
      <4>4. movedTo[giver] # Null
        BY <1>1, <4>3, LinesAssumption
      <4>5. receipts[giver] # Null /\ priced[giver].total = priced[s].total
        BY <4>3, <4>4 DEF SalesInv, ReceiptsKept
      <4> QED
        BY <4>1, <4>3, <4>5 DEF SalesInv, ReceiptsKept
    <3>2. CASE ~(receipts[s] = Null /\ from # {})
      <4>1. f = receipts[s]
        BY <3>2 DEF Receipt
      <4> QED
        BY <1>1, <1>4, <4>1 DEF SalesInv, ReceiptsKept
    <3> QED
      BY <3>1, <3>2
  <2>2. \A b \in Bucket : g[b] = SumFunctionOnSet(f, of[b])
    BY <1>4 DEF InBucket
  <2>3. /\ IsFiniteSet(D) /\ \A m \in D : f[m] \in Int
        /\ \A m \in D : Method[m] \in Bucket
        /\ SumFunctionOnSet(f, D) = priced[s].total
    BY <2>1, LinesAssumption DEF Covers, Bucket
  <2>4. IsFiniteSet(Bucket)
    BY BucketsFinite
  <2>5. \A b \in Bucket : of[b] = {m \in D : Method[m] = b}
    OBVIOUS
  <2>6. \A b \in Bucket : g[b] = InBucket(s, b)
    OBVIOUS
  <2> HIDE DEF f, D, g, of
  <2>7. SumFunctionOnSet(g, Bucket) = SumFunctionOnSet(f, D)
    BY <2>2, <2>3, <2>4, <2>5, SumParts, SMTT(60)
  <2>8. \A b \in Bucket : g[b] \in Int
    <3>1. ASSUME NEW b \in Bucket PROVE g[b] \in Int
      <4>1. of[b] \in SUBSET D
        BY <2>5
      <4>2. IsFiniteSet(of[b]) /\ \A m \in of[b] : f[m] \in Int
        BY <2>3, <4>1, FS_Subset
      <4>3. SumFunctionOnSet(f, of[b]) \in Int
        BY <4>2, Summing
      <4> QED
        BY <2>2, <4>3
    <3> QED
      BY <3>1
  <2>9. g["cash"] + g["digital"] + g["unspecified"] = priced[s].total
    BY <2>3, <2>7, <2>8, SumOfBuckets
  <2> QED
    BY <2>6, <2>8, <2>9 DEF Bucket
<1> QED
  BY <1>3, <1>4

\* What the sellers brought, bucket by bucket, is what the day was charged.
LEMMA SellersShare ==
  ASSUME SalesInv
  PROVE  SellersAddUp
<1> DEFINE C == CompletedSales
           c == [s \in C |-> InBucket(s, "cash")]
           d == [s \in C |-> InBucket(s, "digital")]
           u == [s \in C |-> InBucket(s, "unspecified")]
           cd == [s \in C |-> c[s] + d[s]]
           v == [s \in C |-> priced[s].total]
           seller == [s \in C |-> priced[s].seller]
           of == [x \in Seller |-> {s \in C : seller[s] = x}]
           g == [x \in Seller |->
                   BySeller(x, "cash") + BySeller(x, "digital") + BySeller(x, "unspecified")]
<1>1. IsFiniteSet(C) /\ IsFiniteSet(Seller)
  BY Completed, LinesAssumption DEF SalesInv
<1>2. \A s \in C : seller[s] \in Seller
  BY Completed DEF SalesInv
<1>3. ASSUME NEW s \in C
      PROVE  c[s] \in Int /\ d[s] \in Int /\ u[s] \in Int /\ cd[s] = c[s] + d[s] /\ cd[s] \in Int
             /\ v[s] = cd[s] + u[s] /\ v[s] \in Int
  <2>1. /\ InBucket(s, "cash") \in Int /\ InBucket(s, "digital") \in Int
        /\ InBucket(s, "unspecified") \in Int
        /\ InBucket(s, "cash") + InBucket(s, "digital") + InBucket(s, "unspecified")
             = priced[s].total
    BY BucketsOfSale DEF Bucket
  <2>2. /\ c[s] = InBucket(s, "cash") /\ d[s] = InBucket(s, "digital")
        /\ u[s] = InBucket(s, "unspecified") /\ v[s] = priced[s].total /\ cd[s] = c[s] + d[s]
    OBVIOUS
  <2> HIDE DEF c, d, u, cd, v
  <2> QED
    BY <2>1, <2>2
<1>4. \A x \in Seller : of[x] = {s \in C : seller[s] = x}
  OBVIOUS
<1>5. ASSUME NEW x \in Seller
      PROVE  g[x] = SumFunctionOnSet(c, of[x]) + SumFunctionOnSet(d, of[x])
                      + SumFunctionOnSet(u, of[x])
  <2>1. {s \in C : priced[s].seller = x} = of[x]
    OBVIOUS
  <2>2. /\ BySeller(x, "cash") = SumFunctionOnSet(c, of[x])
        /\ BySeller(x, "digital") = SumFunctionOnSet(d, of[x])
        /\ BySeller(x, "unspecified") = SumFunctionOnSet(u, of[x])
    BY <2>1 DEF BySeller
  <2> QED
    BY <2>2
<1>6. SumFunction(g) = SumFunctionOnSet(g, Seller) /\ SystemSales = SumFunctionOnSet(v, C)
  <2>1. DOMAIN g = Seller /\ DOMAIN v = C /\ SystemSales = SumFunction(v)
    BY DEF SystemSales
  <2> HIDE DEF g, v, C
  <2> QED
    BY <2>1 DEF SumFunction
<1>7. SellersAddUp <=> SumFunction(g) = SystemSales
  BY DEF SellersAddUp
<1> HIDE DEF C, c, d, u, cd, v, seller, of, g
<1>8. ASSUME NEW x \in Seller
      PROVE  g[x] = SumFunctionOnSet(v, of[x])
  <2> DEFINE T == of[x]
  <2>1. T \in SUBSET C
    BY <1>4
  <2>2. IsFiniteSet(T)
    BY <1>1, <2>1, FS_Subset
  <2>3. /\ \A s \in T : c[s] \in Int
        /\ \A s \in T : d[s] \in Int
        /\ \A s \in T : u[s] \in Int
        /\ \A s \in T : cd[s] \in Int
        /\ \A s \in T : cd[s] = c[s] + d[s]
        /\ \A s \in T : v[s] = cd[s] + u[s]
    BY <1>3, <2>1
  <2> HIDE DEF T
  <2>4. SumFunctionOnSet(cd, T) = SumFunctionOnSet(c, T) + SumFunctionOnSet(d, T)
    BY <2>2, <2>3, SumPlus, SMTT(60)
  <2>5. SumFunctionOnSet(v, T) = SumFunctionOnSet(cd, T) + SumFunctionOnSet(u, T)
    BY <2>2, <2>3, SumPlus, SMTT(60)
  <2> QED
    BY <1>5, <2>4, <2>5 DEF T
<1>9. SumFunctionOnSet(g, Seller) = SumFunctionOnSet(v, C)
  <2>1. /\ \A s \in C : v[s] \in Int
        /\ \A x \in Seller : g[x] = SumFunctionOnSet(v, of[x])
    BY <1>3, <1>8
  <2> QED
    BY <1>1, <1>2, <1>4, <2>1, SumParts, SMTT(60)
<1> QED
  BY <1>6, <1>7, <1>9

-----------------------------------------------------------------------------
LEMMA SalesStart == LinesInit => SalesInv
<1> SUFFICES ASSUME LinesInit PROVE SalesInv
  OBVIOUS
<1>1. SalesKept
  BY DEF LinesInit, SalesKept
<1>2. ReceiptsKept
  BY DEF LinesInit, ReceiptsKept
<1>3. StockKept
  <2>1. movements = <<>> /\ Len(movements) = 0
    BY DEF LinesInit
  <2>2. \A p \in Place : onHand[p] = Row[p].quantity /\ onHand[p] \in Nat
    BY LinesAssumption DEF LinesInit
  <2>3. \A p \in Place : BalanceAfter(p, 0) = Row[p].quantity
    BY DEF BalanceAfter
  <2>4. MovementsChain
    BY <2>1, <2>2, <2>3 DEF MovementsChain
  <2>5. movements \in Seq([pair : Place, after : Int, before : Int, sale : PricedSale])
    BY <2>1
  <2>6. DOMAIN onHand = Place
    BY DEF LinesInit
  <2> QED
    BY <2>2, <2>4, <2>5, <2>6 DEF StockKept
<1> QED
  BY <1>1, <1>2, <1>3 DEF SalesInv

\* A row only changes its status and whether it is paid.
LEMMA RowMoves ==
  ASSUME NEW x, RowSound(x), NEW status, NEW paid
  PROVE  LET y == [x EXCEPT !.status = status]
             z == [x EXCEPT !.paid = paid]
         IN  /\ x # Null
             /\ RowSound(y) /\ y # Null /\ y.total = x.total
             /\ RowSound(z) /\ z # Null /\ z.total = x.total
<1>1. ASSUME NEW y, RowSound(y) PROVE y # Null
  <2>1. "items" \in DOMAIN y
    BY <1>1 DEF RowSound
  <2>2. "items" \notin DOMAIN Null
    BY DEF Null
  <2> QED
    BY <2>1, <2>2
<1>2. ASSUME NEW s, NEW p
      PROVE  LET y == [items |-> x.items, subtotal |-> x.subtotal, shipping |-> x.shipping,
                       total |-> x.total, status |-> s, paid |-> p, seller |-> x.seller]
             IN  RowSound(y) /\ y.total = x.total
  <2> DEFINE y == [items |-> x.items, subtotal |-> x.subtotal, shipping |-> x.shipping,
                   total |-> x.total, status |-> s, paid |-> p, seller |-> x.seller]
  <2>1. /\ y.items = x.items /\ y.subtotal = x.subtotal /\ y.shipping = x.shipping
        /\ y.total = x.total /\ y.seller = x.seller
        /\ y = [items |-> y.items, subtotal |-> y.subtotal, shipping |-> y.shipping,
                total |-> y.total, status |-> y.status, paid |-> y.paid, seller |-> y.seller]
    OBVIOUS
  <2> HIDE DEF y
  <2>2. RowSound(y)
    BY <2>1 DEF RowSound
  <2> QED
    BY <2>1, <2>2 DEF y
<1>3. /\ [x EXCEPT !.status = status] =
           [items |-> x.items, subtotal |-> x.subtotal, shipping |-> x.shipping,
            total |-> x.total, status |-> status, paid |-> x.paid, seller |-> x.seller]
      /\ [x EXCEPT !.paid = paid] =
           [items |-> x.items, subtotal |-> x.subtotal, shipping |-> x.shipping,
            total |-> x.total, status |-> x.status, paid |-> paid, seller |-> x.seller]
  BY DEF RowSound
<1> QED
  BY <1>1, <1>2, <1>3

LEMMA SalesStay ==
  ASSUME DOMAIN priced' = PricedSale,
         \A x \in PricedSale : priced'[x] # Null => RowSound(priced'[x])
  PROVE  SalesKept'
  BY DEF SalesKept, RowSound, ItemsSound, Share, SubtotalOf

\* Sales keep their totals, cancelled ones everything.
TotalsStay ==
  \A x \in PricedSale : priced[x] # Null =>
    /\ priced'[x] # Null /\ priced'[x].total = priced[x].total
    /\ priced[x].status = "CANCELLED" => priced'[x].status = "CANCELLED"

LEMMA ReceiptsStay ==
  ASSUME ReceiptsKept, TotalsStay, UNCHANGED <<receipts, movedTo>>
  PROVE  ReceiptsKept'
<1>1. ASSUME NEW s \in PricedSale, receipts[s] # Null
      PROVE  priced'[s] # Null /\ Covers(receipts[s], priced'[s].total)
  BY <1>1 DEF ReceiptsKept, TotalsStay
<1>2. ASSUME NEW s \in PricedSale, movedTo[s] # Null
      PROVE  /\ movedTo[s] \in PricedSale /\ priced'[movedTo[s]] # Null
             /\ receipts[s] # Null /\ priced'[s].total = priced'[movedTo[s]].total
             /\ priced'[s].status = "CANCELLED"
  <2>1. /\ movedTo[s] \in PricedSale /\ priced[movedTo[s]] # Null /\ receipts[s] # Null
        /\ priced[s] # Null
        /\ priced[s].total = priced[movedTo[s]].total /\ priced[s].status = "CANCELLED"
    BY <1>2 DEF ReceiptsKept
  <2> QED
    BY <2>1 DEF TotalsStay
<1>3. \A parts, total : Covers(parts, total)' <=> Covers(parts, total)
  BY DEF Covers
<1> QED
  BY <1>1, <1>2, <1>3 DEF ReceiptsKept, Covers

LEMMA StockStays ==
  ASSUME StockKept, UNCHANGED <<onHand, movements>>
  PROVE  StockKept'
<1>1. \A p, n : BalanceAfter(p, n)' = BalanceAfter(p, n)
  BY DEF BalanceAfter
<1> QED
  BY <1>1 DEF StockKept, MovementsChain

LEMMA CreateKept ==
  ASSUME SalesInv, NEW s \in PricedSale, NEW lines \in Requests, NEW shipping \in Shipping,
         NEW status, NEW seller \in Seller, CreateSale(s, lines, shipping, status, seller)
  PROVE  SalesInv'
<1> DEFINE items == Items(lines, shipping)
           row == [items |-> items, subtotal |-> SubtotalOf(items), shipping |-> shipping,
                   total |-> SubtotalOf(items) + shipping, status |-> status,
                   paid |-> "PENDING", seller |-> seller]
<1>1. /\ priced[s] = Null /\ Priced(lines)
      /\ \A p \in Place : Wanted(items, p) <= onHand[p]
      /\ priced' = [priced EXCEPT ![s] = row]
      /\ PostItems(s, items, -1) /\ UNCHANGED <<receipts, movedTo>>
  BY DEF CreateSale
<1>2. PICK n \in 1 .. MaxLines : lines \in [1 .. n -> Line]
  BY DEF Requests
<1>3. /\ ItemsSound(items) /\ Len(items) = n
      /\ \A i \in 1 .. n : items[i].share = Share(shipping, n, i)
  BY <1>1, <1>2, ItemsPriced
<1>4. RowSound(row)
  <2>1. shipping \in Nat
    BY LinesAssumption
  <2> HIDE DEF items
  <2>2. /\ row.items = items /\ row.shipping = shipping /\ row.seller = seller
        /\ row.subtotal = SubtotalOf(items) /\ row.total = SubtotalOf(items) + shipping
        /\ row = [items |-> row.items, subtotal |-> row.subtotal, shipping |-> row.shipping,
                  total |-> row.total, status |-> row.status, paid |-> row.paid,
                  seller |-> row.seller]
    OBVIOUS
  <2> HIDE DEF row
  <2> QED
    BY <1>3, <2>1, <2>2 DEF RowSound
<1> HIDE DEF row, items
<1>5. /\ DOMAIN priced' = PricedSale /\ priced'[s] = row
      /\ \A x \in PricedSale \ {s} : priced'[x] = priced[x]
  BY <1>1 DEF SalesInv, SalesKept
<1>6. SalesKept'
  <2>1. \A x \in PricedSale : priced'[x] # Null => RowSound(priced'[x])
    BY <1>4, <1>5 DEF SalesInv, SalesKept
  <2> QED
    BY <1>5, <2>1, SalesStay
<1>7. TotalsStay
  BY <1>1, <1>5 DEF TotalsStay
<1>8. ReceiptsKept'
  BY <1>1, <1>7, ReceiptsStay DEF SalesInv
<1>9. StockKept'
  BY <1>1, <1>3, PostKept DEF SalesInv
<1> QED
  BY <1>6, <1>8, <1>9 DEF SalesInv

\* A sale confirmed or cancelled.
LEMMA StatusKept ==
  ASSUME SalesInv, NEW s \in PricedSale, ConfirmSale(s) \/ CancelSale(s)
  PROVE  SalesInv'
<1>1. PICK status : priced' = [priced EXCEPT ![s].status = status]
  BY DEF ConfirmSale, CancelSale
<1>2. /\ priced[s] # Null /\ priced[s].status = "IN_TRANSIT"
      /\ UNCHANGED <<receipts, movedTo>>
  BY DEF ConfirmSale, CancelSale, Is
<1>3. /\ DOMAIN priced' = PricedSale /\ priced'[s] = [priced[s] EXCEPT !.status = status]
      /\ \A x \in PricedSale \ {s} : priced'[x] = priced[x]
  BY <1>1 DEF SalesInv, SalesKept
<1>4. /\ RowSound(priced'[s]) /\ priced'[s] # Null /\ priced'[s].total = priced[s].total
  <2>1. RowSound(priced[s])
    BY <1>2 DEF SalesInv, SalesKept
  <2> DEFINE x == priced[s]
  <2> HIDE DEF x
  <2>2. RowSound(x)
    BY <2>1 DEF x
  <2>3. /\ RowSound([x EXCEPT !.status = status]) /\ [x EXCEPT !.status = status] # Null
        /\ [x EXCEPT !.status = status].total = x.total
    BY <2>2, RowMoves
  <2> QED
    BY <1>3, <2>3 DEF x
<1>5. SalesKept'
  <2>1. \A x \in PricedSale : priced'[x] # Null => RowSound(priced'[x])
    BY <1>3, <1>4 DEF SalesInv, SalesKept
  <2> QED
    BY <1>3, <2>1, SalesStay
<1>6. TotalsStay
  BY <1>2, <1>3, <1>4 DEF TotalsStay
<1>7. ReceiptsKept'
  BY <1>2, <1>6, ReceiptsStay DEF SalesInv
<1>8. StockKept'
  <2>1. CASE ConfirmSale(s)
    BY <2>1, StockStays DEF ConfirmSale, SalesInv
  <2>2. CASE CancelSale(s)
    <3>1. PostItems(s, priced[s].items, 1)
      BY <2>2 DEF CancelSale
    <3>2. ItemsSound(priced[s].items)
      BY <1>2 DEF SalesInv, SalesKept, RowSound
    <3> QED
      BY <3>1, <3>2, PostKept DEF SalesInv
  <2> QED
    BY <2>1, <2>2
<1> QED
  BY <1>5, <1>7, <1>8 DEF SalesInv

LEMMA MoveKept ==
  ASSUME SalesInv, NEW s \in PricedSale, NEW t \in PricedSale, MoveReceipt(s, t)
  PROVE  SalesInv'
<1>1. /\ priced[s] # Null /\ priced[s].status = "COMPLETED"
      /\ priced[t] # Null /\ priced[t].status = "COMPLETED"
      /\ receipts[s] # Null /\ s # t /\ priced[s].total = priced[t].total
      /\ movedTo' = [movedTo EXCEPT ![s] = t] /\ UNCHANGED receipts
      /\ priced' = [priced EXCEPT ![s].status = "CANCELLED", ![t].paid = "PAID"]
      /\ PostItems(s, priced[s].items, 1)
  BY DEF MoveReceipt, Is, SameSale
<1>2. RowSound(priced[s]) /\ RowSound(priced[t])
  BY <1>1 DEF SalesInv, SalesKept
<1>3. /\ DOMAIN priced' = PricedSale /\ priced'[s] = [priced[s] EXCEPT !.status = "CANCELLED"]
      /\ priced'[t] = [priced[t] EXCEPT !.paid = "PAID"]
      /\ \A x \in PricedSale \ {s, t} : priced'[x] = priced[x]
  BY <1>1 DEF SalesInv, SalesKept
<1>4. /\ RowSound(priced'[s]) /\ priced'[s] # Null /\ priced'[s].total = priced[s].total
      /\ priced'[s].status = "CANCELLED"
      /\ RowSound(priced'[t]) /\ priced'[t] # Null /\ priced'[t].total = priced[t].total
  <2>1. priced'[s].status = "CANCELLED"
    BY <1>2, <1>3 DEF RowSound
  <2> DEFINE x == priced[s]
             y == priced[t]
  <2> HIDE DEF x, y
  <2>2. RowSound(x) /\ RowSound(y)
    BY <1>2 DEF x, y
  <2>3. /\ RowSound([x EXCEPT !.status = "CANCELLED"]) /\ [x EXCEPT !.status = "CANCELLED"] # Null
        /\ [x EXCEPT !.status = "CANCELLED"].total = x.total
    BY <2>2, RowMoves
  <2>4. /\ RowSound([y EXCEPT !.paid = "PAID"]) /\ [y EXCEPT !.paid = "PAID"] # Null
        /\ [y EXCEPT !.paid = "PAID"].total = y.total
    BY <2>2, RowMoves
  <2> QED
    BY <1>3, <2>1, <2>3, <2>4 DEF x, y
<1>5. SalesKept'
  <2>1. \A x \in PricedSale : priced'[x] # Null => RowSound(priced'[x])
    BY <1>3, <1>4 DEF SalesInv, SalesKept
  <2> QED
    BY <1>3, <2>1, SalesStay
<1>6. TotalsStay
  BY <1>1, <1>3, <1>4 DEF TotalsStay
<1>7. ASSUME NEW x \in PricedSale, receipts[x] # Null
      PROVE  priced'[x] # Null /\ Covers(receipts[x], priced'[x].total)
  BY <1>6, <1>7 DEF SalesInv, ReceiptsKept, TotalsStay
<1>8. /\ DOMAIN movedTo' = PricedSale /\ movedTo'[s] = t
      /\ \A x \in PricedSale \ {s} : movedTo'[x] = movedTo[x]
  BY <1>1 DEF SalesInv, ReceiptsKept
<1>9. ASSUME NEW x \in PricedSale, movedTo'[x] # Null
      PROVE  /\ movedTo'[x] \in PricedSale /\ priced'[movedTo'[x]] # Null
             /\ receipts[x] # Null /\ priced'[x].total = priced'[movedTo'[x]].total
             /\ priced'[x].status = "CANCELLED"
  <2>1. CASE x = s
    BY <1>1, <1>4, <1>8, <2>1
  <2>2. CASE x # s
    <3>1. movedTo'[x] = movedTo[x] /\ movedTo[x] # Null
      BY <1>8, <1>9, <2>2
    <3>2. /\ movedTo[x] \in PricedSale /\ priced[movedTo[x]] # Null /\ receipts[x] # Null
          /\ priced[x] # Null
          /\ priced[x].total = priced[movedTo[x]].total /\ priced[x].status = "CANCELLED"
      BY <3>1 DEF SalesInv, ReceiptsKept
    <3> QED
      BY <1>6, <3>1, <3>2 DEF TotalsStay
  <2> QED
    BY <2>1, <2>2
<1>10. ReceiptsKept'
  BY <1>1, <1>7, <1>8, <1>9 DEF SalesInv, ReceiptsKept, Covers
<1>11. StockKept'
  BY <1>1, <1>2, PostKept DEF SalesInv, RowSound
<1> QED
  BY <1>5, <1>10, <1>11 DEF SalesInv

\* One method or several, the parts of a receipt are its total.
LEMMA PartsCover ==
  ASSUME NEW total \in Nat, NEW parts,
         \/ \E m \in DOMAIN Method : parts = Single(total, m)
         \/ parts \in Split(total)
  PROVE  Covers(parts, total)
<1> DEFINE D == DOMAIN Method
<1>1. IsFiniteSet(D)
  BY LinesAssumption
<1>2. ASSUME NEW m \in D, parts = Single(total, m)
      PROVE  Covers(parts, total)
  <2>1. /\ parts \in [D -> Nat] /\ parts[m] = total /\ total \in Int
        /\ \A x \in D \ {m} : parts[x] = 0
    BY <1>2 DEF Single
  <2> HIDE DEF D
  <2>2. SumFunctionOnSet(parts, D) = total
    <3>1. /\ parts[m] \in Int /\ \A x \in D \ {m} : parts[x] = 0
      BY <2>1
    <3>2. SumFunctionOnSet(parts, D) = parts[m]
      BY <1>1, <3>1, SumOne
    <3> QED
      BY <2>1, <3>2
  <2> QED
    BY <2>1, <2>2 DEF Covers, D
<1>3. ASSUME parts \in Split(total)
      PROVE  Covers(parts, total)
  <2>1. parts \in [D -> 0 .. total] /\ SumFunction(parts) = total
    BY <1>3 DEF Split
  <2>2. DOMAIN parts = D /\ parts \in [D -> Nat]
    BY <2>1
  <2> HIDE DEF D
  <2>3. SumFunctionOnSet(parts, D) = total
    BY <2>1, <2>2 DEF SumFunction
  <2> QED
    BY <2>2, <2>3 DEF Covers, D
<1> QED
  BY <1>2, <1>3

LEMMA PayKept ==
  ASSUME SalesInv, NEW s \in PricedSale, NEW parts, PaySale(s, parts),
         \/ \E m \in DOMAIN Method : parts = Single(priced[s].total, m)
         \/ parts \in Split(priced[s].total)
  PROVE  SalesInv'
<1>1. /\ priced[s] # Null /\ priced[s].status = "COMPLETED"
      /\ receipts' = [receipts EXCEPT ![s] = parts]
      /\ priced' = [priced EXCEPT ![s].paid = "PAID"]
      /\ UNCHANGED <<onHand, movements, movedTo>>
  BY DEF PaySale, Is
<1>2. RowSound(priced[s]) /\ priced[s].total \in Nat
  BY <1>1, SaleAdds DEF SalesInv, SalesKept
<1>3. /\ DOMAIN priced' = PricedSale /\ priced'[s] = [priced[s] EXCEPT !.paid = "PAID"]
      /\ \A x \in PricedSale \ {s} : priced'[x] = priced[x]
  BY <1>1 DEF SalesInv, SalesKept
<1>4. /\ RowSound(priced'[s]) /\ priced'[s] # Null /\ priced'[s].total = priced[s].total
  <2> DEFINE x == priced[s]
  <2> HIDE DEF x
  <2>1. RowSound(x)
    BY <1>2 DEF x
  <2>2. /\ RowSound([x EXCEPT !.paid = "PAID"]) /\ [x EXCEPT !.paid = "PAID"] # Null
        /\ [x EXCEPT !.paid = "PAID"].total = x.total
    BY <2>1, RowMoves
  <2> QED
    BY <1>3, <2>2 DEF x
<1>5. SalesKept'
  <2>1. \A x \in PricedSale : priced'[x] # Null => RowSound(priced'[x])
    BY <1>3, <1>4 DEF SalesInv, SalesKept
  <2> QED
    BY <1>3, <2>1, SalesStay
<1>6. TotalsStay
  BY <1>1, <1>3, <1>4 DEF TotalsStay
<1>7. /\ DOMAIN receipts' = PricedSale /\ receipts'[s] = parts
      /\ \A x \in PricedSale \ {s} : receipts'[x] = receipts[x]
  BY <1>1 DEF SalesInv, ReceiptsKept
<1>8. ASSUME NEW x \in PricedSale, receipts'[x] # Null
      PROVE  priced'[x] # Null /\ Covers(receipts'[x], priced'[x].total)
  <2>1. CASE x = s
    <3>1. Covers(parts, priced[s].total)
      BY <1>2, PartsCover
    <3> QED
      BY <1>4, <1>7, <2>1, <3>1
  <2>2. CASE x # s
    BY <1>3, <1>7, <1>8, <2>2 DEF SalesInv, ReceiptsKept
  <2> QED
    BY <2>1, <2>2
<1>9. ASSUME NEW x \in PricedSale, movedTo[x] # Null
      PROVE  /\ movedTo[x] \in PricedSale /\ priced'[movedTo[x]] # Null
             /\ receipts'[x] # Null /\ priced'[x].total = priced'[movedTo[x]].total
             /\ priced'[x].status = "CANCELLED"
  <2>1. /\ movedTo[x] \in PricedSale /\ priced[movedTo[x]] # Null /\ receipts[x] # Null
        /\ priced[x] # Null
        /\ priced[x].total = priced[movedTo[x]].total /\ priced[x].status = "CANCELLED"
    BY <1>9 DEF SalesInv, ReceiptsKept
  <2>2. receipts'[x] = receipts[x]
    BY <1>1, <1>7, <2>1
  <2> QED
    BY <1>6, <2>1, <2>2 DEF TotalsStay
<1>10. ReceiptsKept'
  <2>1. DOMAIN movedTo' = PricedSale /\ movedTo' = movedTo
    BY <1>1 DEF SalesInv, ReceiptsKept
  <2> QED
    BY <1>7, <1>8, <1>9, <2>1 DEF ReceiptsKept, Covers
<1>11. StockKept'
  BY <1>1, StockStays DEF SalesInv
<1> QED
  BY <1>5, <1>10, <1>11 DEF SalesInv

LEMMA SalesSame ==
  ASSUME SalesInv, UNCHANGED <<onHand, movements, priced, receipts, movedTo>>
  PROVE  SalesInv'
<1>1. DOMAIN priced' = PricedSale /\ \A x \in PricedSale : priced'[x] # Null => RowSound(priced'[x])
  BY DEF SalesInv, SalesKept
<1>2. SalesKept'
  BY <1>1, SalesStay
<1>3. TotalsStay
  BY DEF TotalsStay
<1>4. ReceiptsKept' /\ StockKept'
  BY <1>3, ReceiptsStay, StockStays DEF SalesInv
<1> QED
  BY <1>2, <1>4 DEF SalesInv

LEMMA SalesStep ==
  ASSUME SalesInv, [LinesNext]_lineVars
  PROVE  SalesInv'
<1>1. ASSUME NEW s \in PricedSale, NEW lines \in Requests, NEW shipping \in Shipping,
             NEW status \in {"IN_TRANSIT", "COMPLETED"}, NEW seller \in Seller,
             CreateSale(s, lines, shipping, status, seller)
      PROVE  SalesInv'
  BY <1>1, CreateKept
<1>2. ASSUME NEW s \in PricedSale, ConfirmSale(s) \/ CancelSale(s) PROVE SalesInv'
  BY <1>2, StatusKept
<1>3. ASSUME NEW s \in PricedSale, NEW m \in DOMAIN Method, PaySale(s, Single(priced[s].total, m))
      PROVE  SalesInv'
  BY <1>3, PayKept
<1>4. ASSUME NEW s \in PricedSale, NEW parts \in Split(priced[s].total), PaySale(s, parts)
      PROVE  SalesInv'
  BY <1>4, PayKept
<1>5. ASSUME NEW s \in PricedSale, NEW t \in PricedSale, MoveReceipt(s, t) PROVE SalesInv'
  BY <1>5, MoveKept
<1>6. CASE Preview
  BY <1>6, SalesSame DEF Preview
<1>7. CASE CloseDay(preview)
  BY <1>7, SalesSame DEF CloseDay
<1>8. CASE UNCHANGED lineVars
  BY <1>8, SalesSame DEF lineVars
<1> QED
  BY <1>1, <1>2, <1>3, <1>4, <1>5, <1>6, <1>7, <1>8 DEF LinesNext

\* Whatever is sold, on however many lines and however it is paid, corrected or
\* given back, the money of the lines, the movements of the stock and the shares
\* of the sellers add up.
THEOREM SalesAlwaysAddUp == LinesSpec => []SalesAddUp
<1>1. SalesInv => SalesAddUp
  BY ProductsAdd, SellersShare DEF SalesInv, StockKept, SalesAddUp
<1> QED
  BY <1>1, SalesStart, SalesStep, PTL DEF LinesSpec
================================================================================
