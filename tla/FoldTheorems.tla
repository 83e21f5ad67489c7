---------------------------- MODULE FoldTheorems ----------------------------
(***************************************************************************)
(* What the folds of the community modules compute over finite sets.  The  *)
(* models price a text (redact) and balance a ledger against its callers   *)
(* with MapThenSumSet, a recursive function over the subsets of a set.     *)
(***************************************************************************)
EXTENDS Integers, FiniteSets, FiniteSetsExt, FiniteSetTheorems, WellFoundedInduction, TLAPS

-----------------------------------------------------------------------------
(* Induction over the subsets of a finite set                              *)

\* A nonempty family of subsets of a finite set has a minimal member.
LEMMA MinimalSubset ==
    ASSUME NEW S, IsFiniteSet(S), NEW B \in SUBSET (SUBSET S), B # {}
    PROVE  \E X \in B : \A Y \in B : Y \subseteq X => Y = X
<1> DEFINE R == StrictSubsetOrdering(S)
<1>1. IsWellFoundedOn(R, SUBSET S)
  BY FS_StrictSubsetOrderingWellFounded, FS_FiniteSubsetsOfFinite
<1> HIDE DEF R
<1>2. PICK X \in B : \A Y \in B : ~(<<Y, X>> \in R)
  BY <1>1, WFMin
<1>3. ASSUME NEW Y \in B, Y \subseteq X, Y # X PROVE FALSE
  <2>1. Y \in SUBSET S /\ X \in SUBSET S
    OBVIOUS
  <2>2. <<Y, X>> \in R
    BY <1>3, <2>1 DEF R, StrictSubsetOrdering
  <2> QED BY <1>2, <2>2
<1> QED BY <1>3

\* A nonempty finite set of integers has a greatest element, which Max is.
LEMMA MaxIsGreatest ==
    ASSUME NEW S, \A x \in S : x \in Int, IsFiniteSet(S), S # {}
    PROVE  Max(S) \in S /\ \A q \in S : q <= Max(S)
<1> DEFINE Above(s) == {q \in S : q > s}
           B == {Above(s) : s \in S}
<1>1. B \in SUBSET (SUBSET S)
  OBVIOUS
<1>2. PICK X \in B : \A Y \in B : Y \subseteq X => Y = X
  <2>1. B # {}
    OBVIOUS
  <2>2. ASSUME NEW C \in SUBSET (SUBSET S), C # {}
        PROVE  \E X \in C : \A Y \in C : Y \subseteq X => Y = X
    BY <2>2, MinimalSubset
  <2> HIDE DEF B
  <2> QED BY <1>1, <2>1, <2>2
<1>3. PICK s \in S : X = Above(s)
  BY <1>2
<1>4. ASSUME NEW q \in S, q > s PROVE FALSE
  <2>0. q \in Int /\ s \in Int /\ \A z \in S : z \in Int
    OBVIOUS
  <2>1. Above(q) \in B /\ q \in Above(s) /\ q \notin Above(q)
    BY <1>4, <2>0
  <2>2. \A z \in Above(q) : z \in Above(s)
    BY <1>4, <2>0
  <2> HIDE DEF Above, B
  <2> QED BY <1>2, <1>3, <2>1, <2>2
<1>5. \A q \in S : q <= s
  BY <1>4
<1>6. \A y \in S : s >= y
  BY <1>5
<1>7. Max(S) \in S /\ \A y \in S : Max(S) >= y
  BY <1>6 DEF Max
<1> QED BY <1>7

-----------------------------------------------------------------------------
(* Recursion over the subsets of a finite set                              *)

\* f computes the recursion on the subsets of S: c takes one element out, g combines it
\* with the value of the rest.
Computes(f, S, base, c, g) ==
    f = [s \in SUBSET S |-> IF s = {} THEN base ELSE g[<<c[s], f[s \ {c[s]}]>>]]

\* c chooses an element of every nonempty subset of T, g yields values of A.
Recursion(T, A, base, c, g) ==
    /\ base \in A /\ g \in [T \X A -> A]
    /\ \A s \in SUBSET T : s # {} => c[s] \in s

\* The recursion has one solution at most.
LEMMA FoldUnique ==
    ASSUME NEW S, IsFiniteSet(S), NEW base, NEW c, NEW g, NEW e, NEW f,
           \A s \in SUBSET S : s # {} => c[s] \in s,
           Computes(e, S, base, c, g), Computes(f, S, base, c, g)
    PROVE  e = f
<1> DEFINE B == {s \in SUBSET S : e[s] # f[s]}
<1>1. \A s \in SUBSET S : /\ e[s] = IF s = {} THEN base ELSE g[<<c[s], e[s \ {c[s]}]>>]
                          /\ f[s] = IF s = {} THEN base ELSE g[<<c[s], f[s \ {c[s]}]>>]
  BY DEF Computes
<1>2. B = {}
  <2> SUFFICES ASSUME B # {} PROVE FALSE
    OBVIOUS
  <2>0. B \in SUBSET (SUBSET S)
    OBVIOUS
  <2>1. PICK X \in B : \A Y \in B : Y \subseteq X => Y = X
    <3> HIDE DEF B
    <3> QED BY <2>0, MinimalSubset
  <2>2. X # {} /\ c[X] \in X /\ X \in SUBSET S
    <3>1. X \in SUBSET S /\ e[X] # f[X]
      BY <2>1
    <3>2. X # {}
      BY <1>1, <3>1
    <3> QED BY <3>1, <3>2
  <2>3. X \ {c[X]} \notin B
    BY <2>1, <2>2
  <2>4. e[X \ {c[X]}] = f[X \ {c[X]}]
    BY <2>2, <2>3
  <2> QED BY <1>1, <2>1, <2>2, <2>4
<1>3. e = [s \in SUBSET S |-> e[s]] /\ f = [s \in SUBSET S |-> f[s]]
  BY DEF Computes
<1>4. \A s \in SUBSET S : e[s] = f[s]
  BY <1>2
<1> HIDE DEF B
<1> QED BY <1>3, <1>4

\* A solution on S is one on each of its subsets.
LEMMA FoldRestrict ==
    ASSUME NEW S, NEW X \in SUBSET S, NEW base, NEW c, NEW g, NEW f, NEW h,
           \A s \in SUBSET S : s # {} => c[s] \in s,
           Computes(f, S, base, c, g), h = [s \in SUBSET X |-> f[s]]
    PROVE  Computes(h, X, base, c, g)
<1>1. ASSUME NEW s \in SUBSET X
      PROVE  h[s] = IF s = {} THEN base ELSE g[<<c[s], h[s \ {c[s]}]>>]
  <2>1. s \in SUBSET S /\ s \ {c[s]} \in SUBSET X
    OBVIOUS
  <2>2. f[s] = IF s = {} THEN base ELSE g[<<c[s], f[s \ {c[s]}]>>]
    BY <2>1 DEF Computes
  <2>3. h[s \ {c[s]}] = f[s \ {c[s]}] /\ h[s] = f[s]
    BY <2>1
  <2> QED BY <2>2, <2>3
<1>2. h = [s \in SUBSET X |-> h[s]]
  OBVIOUS
<1> QED BY <1>1, <1>2 DEF Computes

\* The recursion has a solution on every subset of T, with values in A.
LEMMA FoldExists ==
    ASSUME NEW T, IsFiniteSet(T), NEW A, NEW base, NEW c, NEW g,
           Recursion(T, A, base, c, g)
    PROVE  \E f \in [SUBSET T -> A] : Computes(f, T, base, c, g)
<1> DEFINE Good(X) == \E f \in [SUBSET X -> A] : Computes(f, X, base, c, g)
           Sol(X) == CHOOSE f \in [SUBSET X -> A] : Computes(f, X, base, c, g)
           V(X) == Sol(X)[X]
           B == {X \in SUBSET T : ~Good(X)}
<1>c. \A s \in SUBSET T : s # {} => c[s] \in s
  BY DEF Recursion
<1>1. ASSUME NEW X \in SUBSET T, Good(X)
      PROVE  /\ Sol(X) \in [SUBSET X -> A] /\ Computes(Sol(X), X, base, c, g)
             /\ V(X) \in A
  <2>1. Sol(X) \in [SUBSET X -> A] /\ Computes(Sol(X), X, base, c, g)
    BY <1>1
  <2> QED BY <2>1
<1> HIDE DEF Sol
\* The value at a good set comes from the value at the set without its chosen element.
<1>2. ASSUME NEW X \in SUBSET T, Good(X), NEW Y \in SUBSET X
      PROVE  Good(Y) /\ V(Y) = Sol(X)[Y]
  <2>0. PICK f : f = Sol(X)
    OBVIOUS
  <2> DEFINE h == [s \in SUBSET Y |-> f[s]]
  <2>1. f \in [SUBSET X -> A] /\ Computes(f, X, base, c, g)
    BY <1>1, <1>2, <2>0
  <2>2. Computes(h, Y, base, c, g)
    <3>1. \A s \in SUBSET X : s # {} => c[s] \in s
      BY <1>c
    <3>2. Computes(f, X, base, c, g)
      BY <2>1
    <3>3. Y \in SUBSET X
      OBVIOUS
    <3>4. h = [s \in SUBSET Y |-> f[s]]
      OBVIOUS
    <3> HIDE DEF Good, V, B, h
    <3> QED BY <3>1, <3>2, <3>3, <3>4, FoldRestrict
  <2>3. h \in [SUBSET Y -> A]
    BY <2>1
  <2>4. Good(Y)
    BY <2>2, <2>3
  <2>5. Computes(Sol(Y), Y, base, c, g)
    BY <1>1, <2>4
  <2>6. IsFiniteSet(Y) /\ \A s \in SUBSET Y : s # {} => c[s] \in s
    BY <1>c, FS_Subset
  <2>7. h[Y] = f[Y]
    OBVIOUS
  <2> HIDE DEF h, Good
  <2>8. Sol(Y) = h
    BY <2>2, <2>5, <2>6, FoldUnique
  <2> QED BY <2>0, <2>4, <2>7, <2>8
<1>3. ASSUME NEW X \in SUBSET T, Good(X), X # {}
      PROVE  V(X) = g[<<c[X], V(X \ {c[X]})>>]
  <2>1. Computes(Sol(X), X, base, c, g)
    BY <1>1, <1>3
  <2>2. Sol(X)[X] = g[<<c[X], Sol(X)[X \ {c[X]}]>>]
    BY <1>3, <2>1 DEF Computes
  <2>3. V(X \ {c[X]}) = Sol(X)[X \ {c[X]}]
    BY <1>2, <1>3
  <2> QED BY <2>2, <2>3
<1>4. ASSUME NEW X \in SUBSET T, Good(X), X = {} PROVE V(X) = base
  BY <1>1, <1>4 DEF Computes
<1>5. B = {}
  <2> SUFFICES ASSUME B # {} PROVE FALSE
    OBVIOUS
  <2>0. B \in SUBSET (SUBSET T)
    OBVIOUS
  <2>1. PICK X \in B : \A Y \in B : Y \subseteq X => Y = X
    <3> HIDE DEF B
    <3> QED BY <2>0, MinimalSubset
  <2>2. X \in SUBSET T /\ ~Good(X)
    BY <2>1
  <2>3. \A Y \in SUBSET X : Y # X => Y \in SUBSET T /\ Good(Y)
    BY <2>1, <2>2
  <2> HIDE DEF B
  <2> DEFINE W(s) == IF s = {} THEN base ELSE g[<<c[s], V(s \ {c[s]})>>]
             h == [s \in SUBSET X |-> W(s)]
  <2>4. \A s \in SUBSET X : s # {} => /\ c[s] \in s /\ c[s] \in T
                                     /\ s \ {c[s]} \in SUBSET X /\ s \ {c[s]} # X
    BY <1>c, <2>2
  <2>5. \A s \in SUBSET X : s # {} => V(s \ {c[s]}) \in A
    <3> SUFFICES ASSUME NEW s \in SUBSET X, s # {} PROVE V(s \ {c[s]}) \in A
      OBVIOUS
    <3>1. s \ {c[s]} \in SUBSET T /\ Good(s \ {c[s]})
      BY <2>3, <2>4
    <3> HIDE DEF Good, V
    <3> QED BY <1>1, <3>1
  <2>6. h \in [SUBSET X -> A]
    <3> SUFFICES ASSUME NEW s \in SUBSET X PROVE W(s) \in A
      OBVIOUS
    <3>1. CASE s = {}
      BY <3>1 DEF Recursion
    <3>2. CASE s # {}
      <4>1. c[s] \in T /\ V(s \ {c[s]}) \in A
        BY <2>4, <2>5, <3>2
      <4> HIDE DEF V
      <4> QED BY <3>2, <4>1 DEF Recursion
    <3> QED BY <3>1, <3>2
  <2>7. ASSUME NEW u \in SUBSET X, u # X PROVE W(u) = V(u)
    <3>1. u \in SUBSET T /\ Good(u)
      BY <2>3, <2>7
    <3> HIDE DEF V, Good
    <3> QED BY <1>3, <1>4, <3>1
  <2>8. ASSUME NEW s \in SUBSET X
        PROVE  h[s] = IF s = {} THEN base ELSE g[<<c[s], h[s \ {c[s]}]>>]
    <3>1. ASSUME s # {} PROVE h[s \ {c[s]}] = V(s \ {c[s]})
      BY <2>4, <2>7, <3>1
    <3> HIDE DEF V
    <3> QED BY <3>1
  <2>9. Computes(h, X, base, c, g)
    <3>1. h = [s \in SUBSET X |-> h[s]]
      OBVIOUS
    <3> HIDE DEF h
    <3> QED BY <2>8, <3>1 DEF Computes
  <2> QED BY <2>2, <2>6, <2>9
<1>6. Good(T)
  BY <1>5
<1> QED BY <1>6

-----------------------------------------------------------------------------
(* Sums                                                                    *)

\* The sum of the integers f[x], x in S, as the models write it.
SumOf(f, S) == MapThenSumSet(LAMBDA x : f[x], S)

\* h is the recursive function MapThenSumSet evaluates.
Sums(h, f, S) ==
    h = [s \in SUBSET S |->
           IF s = {} THEN 0 ELSE LET x == CHOOSE x \in s : TRUE IN f[x] + h[s \ {x}]]

\* There is one recursive function of the sum over a finite set.
LEMMA SumsUnique ==
    ASSUME NEW S, IsFiniteSet(S), NEW f, NEW h, NEW e, Sums(h, f, S), Sums(e, f, S)
    PROVE  \A s \in SUBSET S : h[s] = e[s]
<1> DEFINE B == {s \in SUBSET S : h[s] # e[s]}
<1>1. ASSUME NEW s \in SUBSET S
      PROVE  /\ h[s] = IF s = {} THEN 0
                       ELSE LET x == CHOOSE x \in s : TRUE IN f[x] + h[s \ {x}]
             /\ e[s] = IF s = {} THEN 0
                       ELSE LET x == CHOOSE x \in s : TRUE IN f[x] + e[s \ {x}]
  BY DEF Sums
<1>2. B = {}
  <2> SUFFICES ASSUME B # {} PROVE FALSE
    OBVIOUS
  <2>1. B \in SUBSET (SUBSET S)
    OBVIOUS
  <2>2. PICK X \in B : \A Y \in B : Y \subseteq X => Y = X
    <3> HIDE DEF B
    <3> QED BY <2>1, MinimalSubset
  <2>3. X \in SUBSET S /\ h[X] # e[X]
    BY <2>2
  <2>4. X # {}
    BY <1>1, <2>3
  <2> DEFINE x == CHOOSE x \in X : TRUE
  <2>5. x \in X
    BY <2>4
  <2>6. h[X] = f[x] + h[X \ {x}] /\ e[X] = f[x] + e[X \ {x}]
    BY <1>1, <2>3, <2>4
  <2> HIDE DEF x
  <2>7. X \ {x} \notin B /\ X \ {x} \in SUBSET S
    BY <2>2, <2>3, <2>5
  <2>8. h[X \ {x}] = e[X \ {x}]
    BY <2>7
  <2> QED BY <2>3, <2>6, <2>8
<1> QED BY <1>2

\* F holds the sums over all the subsets of T.
SumTable(F, f, T) ==
    /\ F \in [SUBSET T -> Int] /\ F[{}] = 0
    /\ \A s \in SUBSET T : s # {} =>
          LET x == CHOOSE x \in s : TRUE IN F[s] = f[x] + F[s \ {x}]
    /\ \A s \in SUBSET T : SumOf(f, s) = F[s]
    /\ Sums(F, f, T)

\* The sums over the subsets of a finite set exist, and SumOf gives them.
LEMMA SumsAreValues ==
    ASSUME NEW T, IsFiniteSet(T), NEW f \in [T -> Int]
    PROVE  \E F : SumTable(F, f, T)
<1> DEFINE c == [s \in SUBSET T |-> CHOOSE x \in s : TRUE]
           g == [xv \in T \X Int |-> f[xv[1]] + xv[2]]
<1>1. \A s \in SUBSET T : s # {} => c[s] \in s
  OBVIOUS
<1>2. g \in [T \X Int -> Int]
  OBVIOUS
<1>3. Recursion(T, Int, 0, c, g)
  BY <1>1, <1>2 DEF Recursion
<1> HIDE DEF c, g
<1>4. PICK F \in [SUBSET T -> Int] : Computes(F, T, 0, c, g)
  BY <1>3, FoldExists
<1>5. \A s \in SUBSET T : F[s] = IF s = {} THEN 0 ELSE g[<<c[s], F[s \ {c[s]}]>>]
  BY <1>4 DEF Computes
<1>6. F[{}] = 0
  BY <1>5
<1>7. ASSUME NEW s \in SUBSET T, s # {}
      PROVE  LET x == CHOOSE x \in s : TRUE IN F[s] = f[x] + F[s \ {x}]
  <2>1. c[s] \in T /\ F[s \ {c[s]}] \in Int
    BY <1>1, <1>7
  <2>2. F[s] = f[c[s]] + F[s \ {c[s]}]
    BY <1>5, <1>7, <2>1 DEF g
  <2>3. c[s] = CHOOSE x \in s : TRUE
    BY DEF c
  <2> QED BY <2>2, <2>3
<1>8. ASSUME NEW S \in SUBSET T
      PROVE  SumOf(f, S) = F[S] /\ Sums([s \in SUBSET S |-> F[s]], f, S)
  <2> DEFINE e == [s \in SUBSET S |-> F[s]]
             I == CHOOSE h : Sums(h, f, S)
  <2>1. SumOf(f, S) = I[S]
    BY DEF SumOf, MapThenSumSet, MapThenFoldSet, Sums
  <2>2. ASSUME NEW s \in SUBSET S
        PROVE  e[s] = IF s = {} THEN 0
                      ELSE LET x == CHOOSE x \in s : TRUE IN f[x] + e[s \ {x}]
    BY <1>6, <1>7
  <2>3. Sums(e, f, S)
    <3>1. e = [s \in SUBSET S |-> e[s]]
      OBVIOUS
    <3> HIDE DEF e
    <3> QED BY <2>2, <3>1 DEF Sums
  <2>4. Sums(I, f, S)
    <3> HIDE DEF e
    <3> QED BY <2>3
  <2>5. IsFiniteSet(S)
    BY FS_Subset
  <2>6. e[S] = F[S]
    OBVIOUS
  <2>7. I[S] = F[S]
    <3> HIDE DEF I, e
    <3> QED BY <2>3, <2>4, <2>5, <2>6, SumsUnique
  <2> QED BY <2>1, <2>3, <2>7
<1>9. Sums(F, f, T)
  <2>1. F = [s \in SUBSET T |-> F[s]] /\ T \in SUBSET T
    OBVIOUS
  <2> DEFINE e == [s \in SUBSET T |-> F[s]]
  <2>2. Sums(e, f, T)
    BY <1>8, <2>1
  <2> HIDE DEF e
  <2>3. e = F
    BY <2>1 DEF e
  <2> QED BY <2>2, <2>3
<1> QED BY <1>6, <1>7, <1>8, <1>9 DEF SumTable

\* The sum of nothing, and its type.
LEMMA SumType ==
    ASSUME NEW T, IsFiniteSet(T), NEW f \in [T -> Int]
    PROVE  SumOf(f, {}) = 0 /\ \A S \in SUBSET T : SumOf(f, S) \in Int
<1>1. PICK F : SumTable(F, f, T)
  BY SumsAreValues
<1> QED BY <1>1 DEF SumTable

\* However a sum is written, it is SumOf when its recursive function computes f.
LEMMA SumIs ==
    ASSUME NEW T, IsFiniteSet(T), NEW f \in [T -> Int]
    PROVE  /\ \E h : Sums(h, f, T)
           /\ \A h : Sums(h, f, T) => h[T] = SumOf(f, T)
<1>1. PICK F : SumTable(F, f, T)
  BY SumsAreValues
<1>2. Sums(F, f, T) /\ SumOf(f, T) = F[T]
  BY <1>1 DEF SumTable
<1>3. ASSUME NEW h, Sums(h, f, T) PROVE h[T] = F[T]
  BY <1>2, <1>3, SumsUnique
<1> QED BY <1>2, <1>3

\* A sum does not depend on the order in which CHOOSE takes the elements: any one of
\* them may be taken out first.
LEMMA SumAdd ==
    ASSUME NEW T, IsFiniteSet(T), NEW f \in [T -> Int],
           NEW S \in SUBSET T, NEW y \in T, y \notin S
    PROVE  SumOf(f, S \cup {y}) = SumOf(f, S) + f[y]
<1>0. PICK F : SumTable(F, f, T)
  BY SumsAreValues
<1>1. /\ F \in [SUBSET T -> Int]
      /\ \A s \in SUBSET T : s # {} =>
            LET x == CHOOSE x \in s : TRUE IN F[s] = f[x] + F[s \ {x}]
      /\ \A s \in SUBSET T : SumOf(f, s) = F[s]
  BY <1>0 DEF SumTable
<1> DEFINE B == {s \in SUBSET T : \E z \in T \ s : F[s \cup {z}] # F[s] + f[z]}
<1>2. B = {}
  <2> SUFFICES ASSUME B # {} PROVE FALSE
    OBVIOUS
  <2>1. B \in SUBSET (SUBSET T)
    OBVIOUS
  <2>2. PICK X \in B : \A Y \in B : Y \subseteq X => Y = X
    <3> HIDE DEF B
    <3> QED BY <2>1, MinimalSubset
  <2>3. X \in SUBSET T
    BY <2>2
  <2>4. PICK z \in T \ X : F[X \cup {z}] # F[X] + f[z]
    BY <2>2
  <2> DEFINE x == CHOOSE x \in X \cup {z} : TRUE
  <2>5. x \in X \cup {z} /\ x \in T
    BY <2>3, <2>4
  <2>6. F[X \cup {z}] = f[x] + F[(X \cup {z}) \ {x}]
    BY <1>1, <2>3, <2>4
  <2> HIDE DEF x
  <2>7. x # z
    <3>1. ASSUME x = z PROVE FALSE
      <4>1. (X \cup {z}) \ {x} = X
        BY <2>4, <3>1
      <4>2. F[X] \in Int /\ f[z] \in Int
        BY <1>1, <2>3, <2>4
      <4>3. F[(X \cup {z}) \ {x}] = F[X]
        BY <4>1, Zenon
      <4> QED BY <2>4, <2>6, <3>1, <4>2, <4>3
    <3> QED BY <3>1
  <2> DEFINE Y == X \ {x}
  <2>8. /\ x \in X /\ Y \in SUBSET T /\ Y \subseteq X /\ Y # X /\ x \notin Y /\ z \notin Y
        /\ (X \cup {z}) \ {x} = Y \cup {z} /\ Y \cup {x} = X
    BY <2>3, <2>4, <2>5, <2>7
  <2> HIDE DEF Y
  <2>9. Y \notin B
    BY <2>2, <2>8
  <2>10. F[Y \cup {z}] = F[Y] + f[z] /\ F[Y \cup {x}] = F[Y] + f[x]
    BY <2>4, <2>5, <2>8, <2>9
  <2>11. F[Y] \in Int /\ f[x] \in Int /\ f[z] \in Int
    BY <1>1, <2>4, <2>5, <2>8
  <2>12. F[(X \cup {z}) \ {x}] = F[Y \cup {z}] /\ F[Y \cup {x}] = F[X]
    BY <2>8, Zenon
  <2> QED BY <2>4, <2>6, <2>10, <2>11, <2>12
<1>3. F[S \cup {y}] = F[S] + f[y]
  BY <1>2
<1>4. S \cup {y} \in SUBSET T
  OBVIOUS
<1> QED BY <1>1, <1>3, <1>4

\* A sum loses an element.
LEMMA SumRemove ==
    ASSUME NEW T, IsFiniteSet(T), NEW f \in [T -> Int], NEW S \in SUBSET T, NEW y \in S
    PROVE  SumOf(f, S) = SumOf(f, S \ {y}) + f[y]
<1> DEFINE R == S \ {y}
<1>1. R \in SUBSET T /\ y \in T /\ y \notin R /\ R \cup {y} = S
  OBVIOUS
<1>2. SumOf(f, R \cup {y}) = SumOf(f, R) + f[y]
  <2> HIDE DEF R
  <2> QED BY <1>1, SumAdd
<1>3. SumOf(f, R \cup {y}) = SumOf(f, S)
  BY <1>1, Zenon
<1> QED BY <1>2, <1>3

\* Two sums of terms that agree.
LEMMA SumAgree ==
    ASSUME NEW T, IsFiniteSet(T), NEW f \in [T -> Int], NEW g \in [T -> Int],
           NEW S \in SUBSET T, \A x \in S : f[x] = g[x]
    PROVE  SumOf(f, S) = SumOf(g, S)
<1> DEFINE B == {s \in SUBSET S : SumOf(f, s) # SumOf(g, s)}
<1>1. B = {}
  <2> SUFFICES ASSUME B # {} PROVE FALSE
    OBVIOUS
  <2>1. B \in SUBSET (SUBSET S) /\ IsFiniteSet(S)
    BY FS_Subset
  <2>2. PICK X \in B : \A Y \in B : Y \subseteq X => Y = X
    <3> HIDE DEF B
    <3> QED BY <2>1, MinimalSubset
  <2>3. X \in SUBSET S /\ X \in SUBSET T /\ SumOf(f, X) # SumOf(g, X)
    BY <2>2
  <2>4. X # {}
    <3>1. SumOf(f, {}) = 0 /\ SumOf(g, {}) = 0
      BY SumType
    <3> QED BY <2>3, <3>1
  <2>5. PICK y : y \in X
    BY <2>4
  <2>6. X \ {y} \notin B
    BY <2>2, <2>5
  <2>7. SumOf(f, X \ {y}) = SumOf(g, X \ {y})
    BY <2>3, <2>6
  <2>8. /\ SumOf(f, X) = SumOf(f, X \ {y}) + f[y]
        /\ SumOf(g, X) = SumOf(g, X \ {y}) + g[y]
    BY <2>3, <2>5, SumRemove
  <2>9. f[y] = g[y]
    BY <2>3, <2>5
  <2> QED BY <2>3, <2>7, <2>8, <2>9
<1> QED BY <1>1

\* A sum of natural numbers is one, and bounds the sum over any part of the set.
LEMMA SumMonotone ==
    ASSUME NEW T, IsFiniteSet(T), NEW f \in [T -> Nat], NEW U \in SUBSET T,
           NEW S \in SUBSET U
    PROVE  SumOf(f, S) \in Nat /\ SumOf(f, U) \in Nat /\ SumOf(f, S) <= SumOf(f, U)
<1>0. f \in [T -> Int] /\ S \in SUBSET T /\ \A x \in T : f[x] \in Nat
  OBVIOUS
\* From any set down to one of its subsets, one element at a time.
<1>1. ASSUME NEW X \in SUBSET T, NEW y \in X
      PROVE  /\ SumOf(f, X) \in Int /\ SumOf(f, X \ {y}) \in Int
             /\ SumOf(f, X \ {y}) <= SumOf(f, X)
  <2>1. SumOf(f, X) \in Int /\ SumOf(f, X \ {y}) \in Int
    BY <1>0, SumType, X \ {y} \in SUBSET T
  <2>2. SumOf(f, X) = SumOf(f, X \ {y}) + f[y]
    BY <1>0, SumRemove
  <2>3. f[y] \in Nat
    BY <1>0
  <2> QED BY <2>1, <2>2, <2>3
<1>2. ASSUME NEW Z \in SUBSET T, NEW W \in SUBSET Z
      PROVE  SumOf(f, W) <= SumOf(f, Z)
  <2> DEFINE B == {X \in SUBSET Z : W \subseteq X /\ ~(SumOf(f, W) <= SumOf(f, X))}
  <2>1. B = {}
    <3> SUFFICES ASSUME B # {} PROVE FALSE
      OBVIOUS
    <3>1. B \in SUBSET (SUBSET Z) /\ IsFiniteSet(Z)
      BY FS_Subset
    <3>2. PICK X \in B : \A Y \in B : Y \subseteq X => Y = X
      <4> HIDE DEF B
      <4> QED BY <3>1, MinimalSubset
    <3>3. /\ X \in SUBSET T /\ X \in SUBSET Z /\ W \subseteq X
          /\ ~(SumOf(f, W) <= SumOf(f, X))
      BY <3>2
    <3>4. SumOf(f, W) \in Int /\ SumOf(f, X) \in Int
      BY <1>0, <3>3, SumType, W \in SUBSET T
    <3>5. W # X
      BY <3>3, <3>4
    <3>6. PICK y \in X : y \notin W
      BY <3>3, <3>5
    <3>7. X \ {y} \notin B /\ W \subseteq X \ {y}
      BY <3>2, <3>3, <3>6
    <3>8. SumOf(f, W) <= SumOf(f, X \ {y})
      BY <3>3, <3>7
    <3>9. SumOf(f, X \ {y}) \in Int /\ SumOf(f, X \ {y}) <= SumOf(f, X)
      BY <1>1, <3>3
    <3> QED BY <3>3, <3>4, <3>8, <3>9
  <2> QED BY <2>1
<1>3. SumOf(f, {}) = 0 /\ SumOf(f, S) \in Int /\ SumOf(f, U) \in Int
  BY <1>0, SumType
<1>4. SumOf(f, {}) <= SumOf(f, S) /\ SumOf(f, S) <= SumOf(f, U)
  BY <1>0, <1>2, {} \in SUBSET S
<1> QED BY <1>3, <1>4

\* g has on V the terms f has k places further on.
Shifted(g, V, f, T, k) ==
    /\ T \subseteq Int /\ V \subseteq Int /\ k \in Int
    /\ \A i \in V : i + k \in T /\ g[i] = f[i + k]

\* The same terms under shifted indices have the same sum.
LEMMA SumShift ==
    ASSUME NEW T, IsFiniteSet(T), NEW f \in [T -> Int],
           NEW V, IsFiniteSet(V), NEW g \in [V -> Int],
           NEW k, Shifted(g, V, f, T, k)
    PROVE  SumOf(g, V) = SumOf(f, {i + k : i \in V})
<1> DEFINE Img(s) == {i + k : i \in s}
           B == {s \in SUBSET V : SumOf(g, s) # SumOf(f, Img(s))}
<1>1. B = {}
  <2> SUFFICES ASSUME B # {} PROVE FALSE
    OBVIOUS
  <2>1. B \in SUBSET (SUBSET V)
    OBVIOUS
  <2>2. PICK X \in B : \A Y \in B : Y \subseteq X => Y = X
    <3> HIDE DEF B
    <3> QED BY <2>1, MinimalSubset
  <2>3. X \in SUBSET V /\ SumOf(g, X) # SumOf(f, Img(X))
    BY <2>2
  <2>4. X # {}
    <3>1. SumOf(f, {}) = 0 /\ SumOf(g, {}) = 0
      BY SumType
    <3>2. ASSUME X = {} PROVE Img(X) = {}
      BY <3>2
    <3>3. ASSUME X = {} PROVE FALSE
      <4>1. SumOf(g, X) = SumOf(g, {}) /\ SumOf(f, Img(X)) = SumOf(f, {})
        BY <3>2, <3>3, Zenon
      <4> QED BY <2>3, <3>1, <4>1
    <3> QED BY <3>3
  <2>5. PICK y : y \in X
    BY <2>4
  <2>6. X \ {y} \notin B
    BY <2>2, <2>5
  <2>7. SumOf(g, X \ {y}) = SumOf(f, Img(X \ {y}))
    BY <2>3, <2>6
  <2>8. Img(X \ {y}) = Img(X) \ {y + k} /\ y + k \in Img(X) /\ Img(X) \in SUBSET T
    <3>1. k \in Int /\ \A i \in X : i \in Int /\ i + k \in T
      BY <2>3 DEF Shifted
    <3>2. \A i \in X : i + k = y + k => i = y
      BY <2>5, <3>1
    <3> QED BY <2>5, <3>1, <3>2
  <2> HIDE DEF Img
  <2>9. SumOf(g, X) = SumOf(g, X \ {y}) + g[y]
    BY <2>3, <2>5, SumRemove
  <2>10. SumOf(f, Img(X)) = SumOf(f, Img(X) \ {y + k}) + f[y + k]
    <3>1. ASSUME NEW I, NEW w, I \in SUBSET T, w \in I
          PROVE  SumOf(f, I) = SumOf(f, I \ {w}) + f[w]
      BY <3>1, SumRemove
    <3> QED BY <2>8, <3>1
  <2>11. g[y] = f[y + k]
    BY <2>3, <2>5 DEF Shifted
  <2>12. SumOf(f, Img(X \ {y})) = SumOf(f, Img(X) \ {y + k})
    BY <2>8, Zenon
  <2> QED BY <2>3, <2>7, <2>9, <2>10, <2>11, <2>12
<1>2. V \in SUBSET V
  OBVIOUS
<1> QED BY <1>1, <1>2

=============================================================================
