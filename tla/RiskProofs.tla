----------------------------- MODULE RiskProofs -----------------------------
(***************************************************************************)
(* What can be lost: the entries of a sleeve and of an underlying stay     *)
(* within their budgets (Decisions), and closing a structure costs no more *)
(* than its entry was charged (CloseLimits), for every book, batch and     *)
(* market.  Both rest on the payoff of a structure (Structures).           *)
(***************************************************************************)
EXTENDS CloseLimits, Decisions, FiniteSetTheorems, WellFoundedInduction, NaturalsInduction, TLAPS

-----------------------------------------------------------------------------
(***************************************************************************)
(* Induction, stated about sets: over the naturals, and over the subsets   *)
(* of a finite set.                                                        *)
(***************************************************************************)
LEMMA LeastNatural ==
    ASSUME NEW U \in SUBSET Nat, U # {}
    PROVE  \E u \in U : \A v \in U : u <= v
<1>. DEFINE R == OpToRel(<, Nat)
<1>1. R = {pair \in Nat \X Nat : pair[1] < pair[2]}
  BY DEF OpToRel
<1>2. PICK u \in U : \A v \in U : <<v, u>> \notin R
  <2>1. IsWellFoundedOn(R, Nat)
    BY NatLessThanWellFounded
  <2>. HIDE DEF R
  <2>. QED
    BY <2>1, WFMin
<1>. HIDE DEF R
<1>3. \A v \in U : u <= v
  <2>. TAKE v \in U
  <2>1. <<v, u>> \notin R /\ v \in Nat /\ u \in Nat
    BY <1>2
  <2>. QED
    BY <1>1, <2>1
<1>. QED
  BY <1>3

LEMMA CountUp ==
    ASSUME NEW F, 0 \in F, \A n \in Nat : n \in F => n + 1 \in F
    PROVE  Nat \subseteq F
<1>. DEFINE U == {n \in Nat : n \notin F}
<1>. SUFFICES ASSUME U # {} PROVE FALSE
  OBVIOUS
<1>1. PICK u \in U : \A v \in U : u <= v
  <2>1. U \in SUBSET Nat
    OBVIOUS
  <2>. HIDE DEF U
  <2>. QED
    BY <2>1, LeastNatural
<1>2. u \in Nat /\ u # 0 /\ u \notin F
  OBVIOUS
<1>3. u - 1 \in Nat /\ u - 1 \in F
  BY <1>1, <1>2
<1>4. u - 1 + 1 = u
  BY <1>2
<1>. QED
  BY <1>2, <1>3, <1>4

LEMMA SubsetsUp ==
    ASSUME NEW S, IsFiniteSet(S), NEW F,
           \A T \in SUBSET S : (\A t \in SUBSET T : t # T => t \in F) => T \in F
    PROVE  SUBSET S \subseteq F
<1>. DEFINE U == {n \in Nat : \E T \in SUBSET S : T \notin F /\ Cardinality(T) = n}
<1>1. \A T \in SUBSET S : /\ IsFiniteSet(T) /\ Cardinality(T) \in Nat
                          /\ \A t \in SUBSET T : t # T => Cardinality(t) < Cardinality(T)
  <2>. TAKE T \in SUBSET S
  <2>1. IsFiniteSet(T) /\ Cardinality(T) \in Nat
    BY FS_Subset, FS_CardinalityType
  <2>2. ASSUME NEW t \in SUBSET T, t # T PROVE Cardinality(t) < Cardinality(T)
    <3>1. /\ Cardinality(t) <= Cardinality(T) /\ Cardinality(t) \in Nat
          /\ Cardinality(t) = Cardinality(T) => t = T
      BY <2>1, FS_Subset, FS_CardinalityType
    <3>. QED
      BY <2>1, <2>2, <3>1
  <2>. QED
    BY <2>1, <2>2
<1>. SUFFICES ASSUME NEW B \in SUBSET S, B \notin F PROVE FALSE
  OBVIOUS
<1>2. PICK u \in U : \A v \in U : u <= v
  <2>1. U \in SUBSET Nat
    OBVIOUS
  <2>2. Cardinality(B) \in U
    BY <1>1
  <2>. HIDE DEF U
  <2>. QED
    BY <2>1, <2>2, LeastNatural
<1>3. PICK T \in SUBSET S : T \notin F /\ Cardinality(T) = u
  OBVIOUS
<1>4. ASSUME NEW t \in SUBSET T, t # T PROVE t \in F
  <2>. SUFFICES ASSUME t \notin F PROVE FALSE
    OBVIOUS
  <2>1. t \in SUBSET S /\ Cardinality(t) \in Nat /\ Cardinality(t) < u /\ u \in Nat
    BY <1>1, <1>3, <1>4
  <2>2. Cardinality(t) \in U
    BY <2>1
  <2>. HIDE DEF U
  <2>. QED
    BY <1>2, <2>1, <2>2
<1>. QED
  BY <1>3, <1>4

\* A finite set of numbers has a least and a greatest element.
LEMMA LeastOf ==
    ASSUME NEW S \in SUBSET Int, IsFiniteSet(S), S # {}
    PROVE  Min(S) \in S /\ \A x \in S : Min(S) <= x
<1>. DEFINE F == {T \in SUBSET S : T # {} => \E m \in T : \A x \in T : m <= x}
<1>1. ASSUME NEW T \in SUBSET S, \A t \in SUBSET T : t # T => t \in F
      PROVE  T \in F
  <2>. SUFFICES ASSUME NEW y \in T PROVE \E m \in T : \A x \in T : m <= x
    OBVIOUS
  <2>. DEFINE t == T \ {y}
  <2>1. t \in F
    BY <1>1
  <2>2. CASE t = {}
    BY <2>2
  <2>3. CASE t # {}
    <3>1. PICK m \in t : \A x \in t : m <= x
      BY <2>1, <2>3
    <3>2. m \in Int /\ y \in Int
      OBVIOUS
    <3>3. CASE m <= y
      BY <3>1, <3>3
    <3>4. CASE ~(m <= y)
      <4>. WITNESS y \in T
      <4>. TAKE x \in T
      <4>1. x \in Int /\ (x = y \/ m <= x)
        BY <3>1
      <4>. QED
        BY <3>2, <3>4, <4>1
    <3>. QED
      BY <3>3, <3>4
  <2>. QED
    BY <2>2, <2>3
<1>2. S \in F
  <2>. HIDE DEF F
  <2>. QED
    BY <1>1, SubsetsUp
<1>. QED
  BY <1>2 DEF Min

LEMMA GreatestOf ==
    ASSUME NEW S \in SUBSET Int, IsFiniteSet(S), S # {}
    PROVE  Max(S) \in S /\ \A x \in S : x <= Max(S)
<1>. DEFINE F == {T \in SUBSET S : T # {} => \E m \in T : \A x \in T : m >= x}
<1>1. ASSUME NEW T \in SUBSET S, \A t \in SUBSET T : t # T => t \in F
      PROVE  T \in F
  <2>. SUFFICES ASSUME NEW y \in T PROVE \E m \in T : \A x \in T : m >= x
    OBVIOUS
  <2>. DEFINE t == T \ {y}
  <2>1. t \in F
    BY <1>1
  <2>2. CASE t = {}
    BY <2>2
  <2>3. CASE t # {}
    <3>1. PICK m \in t : \A x \in t : m >= x
      BY <2>1, <2>3
    <3>2. m \in Int /\ y \in Int
      OBVIOUS
    <3>3. CASE m >= y
      BY <3>1, <3>3
    <3>4. CASE ~(m >= y)
      <4>. WITNESS y \in T
      <4>. TAKE x \in T
      <4>1. x \in Int /\ (x = y \/ m >= x)
        BY <3>1
      <4>. QED
        BY <3>2, <3>4, <4>1
    <3>. QED
      BY <3>3, <3>4
  <2>. QED
    BY <2>2, <2>3
<1>2. S \in F
  <2>. HIDE DEF F
  <2>. QED
    BY <1>1, SubsetsUp
<1>3. \E m \in S : \A x \in S : m >= x
  BY <1>2
<1>4. Max(S) \in S /\ \A x \in S : Max(S) >= x
  BY <1>3 DEF Max
<1>. QED
  BY <1>4

(***************************************************************************)
(* Sums of a function over a finite set: the library's recursion has a     *)
(* solution, and the order it takes the elements in does not matter.       *)
(***************************************************************************)
Adds(f, S, g) ==
    g = [s \in SUBSET S |-> IF s = {} THEN 0
                            ELSE f[CHOOSE x \in s : TRUE] + g[s \ {CHOOSE x \in s : TRUE}]]

LEMMA SumUnfolds ==
    ASSUME NEW f, NEW S
    PROVE  SumFunctionOnSet(f, S) = (CHOOSE g : Adds(f, S, g))[S]
BY DEF SumFunctionOnSet, FoldFunctionOnSet, MapThenFoldSet, Adds

LEMMA AddsOnSubset ==
    ASSUME NEW f, NEW S, NEW s \in SUBSET S
    PROVE  \A g : Adds(f, S, g) => Adds(f, s, [r \in SUBSET s |-> g[r]])
<1>. SUFFICES ASSUME NEW g, Adds(f, S, g) PROVE Adds(f, s, [r \in SUBSET s |-> g[r]])
  OBVIOUS
<1>. DEFINE h == [r \in SUBSET s |-> g[r]]
            Unfold(r, k) == IF r = {} THEN 0 ELSE f[CHOOSE x \in r : TRUE] + k[r \ {CHOOSE x \in r : TRUE}]
<1>1. ASSUME NEW r \in SUBSET s PROVE h[r] = Unfold(r, h)
  <2>1. r \in SUBSET S /\ h[r] = g[r]
    OBVIOUS
  <2>2. g[r] = Unfold(r, g)
    BY <2>1 DEF Adds
  <2>3. r # {} => h[r \ {CHOOSE x \in r : TRUE}] = g[r \ {CHOOSE x \in r : TRUE}]
    OBVIOUS
  <2>. QED
    BY <2>1, <2>2, <2>3
<1>2. h = [r \in SUBSET s |-> Unfold(r, h)]
  BY <1>1
<1>. QED
  BY <1>2 DEF Adds

LEMMA AddsOnce ==
    ASSUME NEW f, NEW S, IsFiniteSet(S), NEW g, NEW h, Adds(f, S, g), Adds(f, S, h)
    PROVE  g[S] = h[S]
<1>. DEFINE F == {s \in SUBSET S : g[s] = h[s]}
<1>1. ASSUME NEW T \in SUBSET S, \A t \in SUBSET T : t # T => t \in F
      PROVE  T \in F
  <2>. DEFINE c == CHOOSE x \in T : TRUE
  <2>1. /\ g[T] = IF T = {} THEN 0 ELSE f[c] + g[T \ {c}]
        /\ h[T] = IF T = {} THEN 0 ELSE f[c] + h[T \ {c}]
    BY DEF Adds
  <2>2. T # {} => T \ {c} \in F
    <3>. SUFFICES ASSUME T # {} PROVE T \ {c} \in F
      OBVIOUS
    <3>1. c \in T
      OBVIOUS
    <3>. HIDE DEF F, c
    <3>. QED
      BY <1>1, <3>1
  <2>. HIDE DEF c
  <2>. QED
    BY <2>1, <2>2
<1>2. S \in F
  <2>. HIDE DEF F
  <2>. QED
    BY <1>1, SubsetsUp
<1>. QED
  BY <1>2

LEMMA AddsExists ==
    ASSUME NEW f, NEW S, IsFiniteSet(S)
    PROVE  \E g : Adds(f, S, g)
<1>. DEFINE F == {s \in SUBSET S : \E g : Adds(f, s, g)}
<1>1. ASSUME NEW T \in SUBSET S, \A t \in SUBSET T : t # T => t \in F
      PROVE  T \in F
  <2>. DEFINE c == CHOOSE x \in T : TRUE
              Of(s) == CHOOSE g : Adds(f, s, g)
              h == [s \in SUBSET T |-> IF s = {} THEN 0
                                       ELSE IF s # T THEN Of(s)[s] ELSE f[c] + Of(T \ {c})[T \ {c}]]
  <2>0. \A s \in SUBSET T : IsFiniteSet(s) /\ (s # T => Adds(f, s, Of(s)))
    BY <1>1, FS_Subset
  <2>1. ASSUME NEW s \in SUBSET T, s # {}
        PROVE  h[s] = f[CHOOSE x \in s : TRUE] + h[s \ {CHOOSE x \in s : TRUE}]
    <3>. DEFINE d == CHOOSE x \in s : TRUE
                t == s \ {d}
    <3>1. d \in s /\ t \in SUBSET s /\ t \in SUBSET T /\ t # T
      BY <2>1
    <3>2. h[t] = Of(t)[t]
      <4>1. CASE t = {}
        <5>1. Adds(f, t, Of(t))
          BY <2>0, <3>1
        <5>2. Of(t)[t] = 0
          BY <4>1, <5>1 DEF Adds
        <5>3. h[t] = 0
          BY <3>1, <4>1
        <5>. QED
          BY <5>2, <5>3
      <4>2. CASE t # {}
        BY <3>1, <4>2
      <4>. QED
        BY <4>1, <4>2
    <3>3. CASE s = T
      BY <2>1, <3>2, <3>3
    <3>4. CASE s # T
      <4>1. Adds(f, s, Of(s)) /\ Adds(f, t, Of(t)) /\ IsFiniteSet(t)
        BY <2>0, <3>1, <3>4
      <4>2. Of(s)[s] = f[d] + Of(s)[t]
        <5>. HIDE DEF Of
        <5>. QED
          BY <2>1, <4>1 DEF Adds
      <4>3. Adds(f, t, [r \in SUBSET t |-> Of(s)[r]])
        <5>1. t \in SUBSET s
          BY <3>1
        <5>. HIDE DEF Of, t
        <5>2. \A g : Adds(f, s, g) => Adds(f, t, [r \in SUBSET t |-> g[r]])
          <6>. SUFFICES ASSUME NEW g, Adds(f, s, g) PROVE Adds(f, t, [r \in SUBSET t |-> g[r]])
            OBVIOUS
          <6>. QED
            BY <5>1, AddsOnSubset
        <5>. QED
          BY <4>1, <5>2, Zenon
      <4>4. [r \in SUBSET t |-> Of(s)[r]][t] = Of(t)[t]
        <5>. HIDE DEF Of, t
        <5>. QED
          BY <4>1, <4>3, AddsOnce
      <4>5. h[s] = Of(s)[s]
        BY <2>1, <3>4
      <4>. HIDE DEF h, Of
      <4>. QED
        BY <3>2, <4>2, <4>4, <4>5
    <3>. QED
      BY <3>3, <3>4
  <2>2. h[{}] = 0
    OBVIOUS
  <2>3. Adds(f, T, h)
    <3>. DEFINE Unfold(s, k) == IF s = {} THEN 0
                              ELSE f[CHOOSE x \in s : TRUE] + k[s \ {CHOOSE x \in s : TRUE}]
    <3>1. \A s \in SUBSET T : h[s] = Unfold(s, h)
      <4>. HIDE DEF h
      <4>. QED
        BY <2>1, <2>2
    <3>2. h = [s \in SUBSET T |-> h[s]]
      OBVIOUS
    <3>. HIDE DEF h
    <3>3. h = [s \in SUBSET T |-> Unfold(s, h)]
      BY <3>1, <3>2
    <3>. QED
      BY <3>3 DEF Adds
  <2>. HIDE DEF h
  <2>. QED
    BY <2>3
<1>2. S \in F
  <2>. HIDE DEF F
  <2>. QED
    BY <1>1, SubsetsUp
<1>. QED
  BY <1>2

LEMMA SumEmpty == ASSUME NEW f PROVE SumFunctionOnSet(f, {}) = 0
<1>1. IsFiniteSet({}) /\ {} \in SUBSET {}
  BY FS_EmptySet
<1>2. PICK g : Adds(f, {}, g)
  BY <1>1, AddsExists
<1>3. Adds(f, {}, CHOOSE h : Adds(f, {}, h))
  BY <1>2
<1>4. (CHOOSE h : Adds(f, {}, h))[{}] = 0
  BY <1>1, <1>3 DEF Adds
<1>. QED
  BY <1>4, SumUnfolds

LEMMA SumChosen ==
    ASSUME NEW f, NEW S, IsFiniteSet(S), S # {}
    PROVE  LET c == CHOOSE x \in S : TRUE
           IN  SumFunctionOnSet(f, S) = f[c] + SumFunctionOnSet(f, S \ {c})
<1>. DEFINE c == CHOOSE x \in S : TRUE
            t == S \ {c}
            Of(s) == CHOOSE g : Adds(f, s, g)
<1>1. c \in S /\ t \in SUBSET S /\ IsFiniteSet(t)
  BY FS_Subset
<1>2. Adds(f, S, Of(S)) /\ Adds(f, t, Of(t))
  BY <1>1, AddsExists
<1>3. Of(S)[S] = f[c] + Of(S)[t]
  <2>. HIDE DEF Of
  <2>. QED
    BY <1>2 DEF Adds
<1>4. Of(S)[t] = Of(t)[t]
  <2>1. t \in SUBSET S
    BY <1>1
  <2>. HIDE DEF Of, t
  <2>2. \A g : Adds(f, S, g) => Adds(f, t, [r \in SUBSET t |-> g[r]])
    <3>1. \A s : s \in SUBSET S => \A g : Adds(f, S, g) => Adds(f, s, [r \in SUBSET s |-> g[r]])
      BY AddsOnSubset, ZenonT(60)
    <3>. HIDE DEF c
    <3>. QED
      BY <2>1, <3>1
  <2>3. Adds(f, t, [r \in SUBSET t |-> Of(S)[r]])
    BY <1>2, <2>2, Zenon
  <2>4. [r \in SUBSET t |-> Of(S)[r]][t] = Of(t)[t]
    BY <1>1, <1>2, <2>3, AddsOnce
  <2>. QED
    BY <2>4
<1>5. SumFunctionOnSet(f, S) = Of(S)[S] /\ SumFunctionOnSet(f, t) = Of(t)[t]
  BY SumUnfolds
<1>. HIDE DEF Of
<1>. QED
  BY <1>3, <1>4, <1>5

\* Any element may be taken out first.
LEMMA SumRemove ==
    ASSUME NEW f, NEW S, IsFiniteSet(S), \A x \in S : f[x] \in Int
    PROVE  /\ SumFunctionOnSet(f, S) \in Int
           /\ \A x \in S : SumFunctionOnSet(f, S) = f[x] + SumFunctionOnSet(f, S \ {x})
<1>. DEFINE Total(s) == SumFunctionOnSet(f, s)
            F == {s \in SUBSET S : Total(s) \in Int /\ \A x \in s : Total(s) = f[x] + Total(s \ {x})}
<1>1. ASSUME NEW T \in SUBSET S, \A t \in SUBSET T : t # T => t \in F
      PROVE  T \in F
  <2>1. CASE T = {}
    BY <2>1, SumEmpty
  <2>2. CASE T # {}
    <3>. DEFINE c == CHOOSE x \in T : TRUE
    <3>1. c \in T /\ IsFiniteSet(T)
      BY <2>2, FS_Subset
    <3>2. Total(T) = f[c] + Total(T \ {c})
      BY <2>2, <3>1, SumChosen
    <3>. HIDE DEF c
    <3>3. \A x \in T : /\ T \ {x} \in F /\ f[x] \in Int
                       /\ \A y \in T : y # x => (T \ {x}) \ {y} \in F /\ y \in T \ {x}
      <4>1. \A t \in SUBSET T : t # T => t \in F
        BY <1>1
      <4>. HIDE DEF F
      <4>2. ASSUME NEW x \in T
            PROVE  T \ {x} \in F /\ \A y \in T : (T \ {x}) \ {y} \in F
        <5>1. T \ {x} \in SUBSET T /\ T \ {x} # T
          OBVIOUS
        <5>2. \A y \in T : (T \ {x}) \ {y} \in SUBSET T /\ (T \ {x}) \ {y} # T
          OBVIOUS
        <5>. QED
          BY <4>1, <5>1, <5>2
      <4>. QED
        BY <4>2
    <3>4. ASSUME NEW x \in T PROVE Total(T) = f[x] + Total(T \ {x})
      <4>1. CASE x = c
        BY <3>2, <4>1
      <4>2. CASE x # c
        <5>1. Total(T \ {c}) = f[x] + Total((T \ {c}) \ {x})
          BY <3>1, <3>3, <4>2
        <5>2. Total(T \ {x}) = f[c] + Total((T \ {x}) \ {c})
          BY <3>1, <3>3, <4>2
        <5>3. (T \ {x}) \ {c} = (T \ {c}) \ {x}
          OBVIOUS
        <5>4. Total((T \ {c}) \ {x}) \in Int /\ f[x] \in Int /\ f[c] \in Int
          BY <3>1, <3>3, <4>2
        <5>5. Total((T \ {x}) \ {c}) = Total((T \ {c}) \ {x})
          BY <5>3
        <5>6. \A a, b, v \in Int : a + (b + v) = b + (a + v)
          OBVIOUS
        <5>. HIDE DEF Total
        <5>7. f[c] + (f[x] + Total((T \ {c}) \ {x})) = f[x] + (f[c] + Total((T \ {c}) \ {x}))
          BY <5>4, <5>6
        <5>. QED
          BY <3>2, <5>1, <5>2, <5>5, <5>7
      <4>. QED
        BY <4>1, <4>2
    <3>5. Total(T) \in Int
      <4>1. f[c] \in Int /\ Total(T \ {c}) \in Int
        BY <3>1, <3>3
      <4>. HIDE DEF Total
      <4>. QED
        BY <3>2, <4>1
    <3>. QED
      BY <3>4, <3>5
  <2>. QED
    BY <2>1, <2>2
<1>2. S \in F
  <2>. HIDE DEF F
  <2>. QED
    BY <1>1, SubsetsUp
<1>. QED
  BY <1>2

\* A sum is linear in the function.
LEMMA SumLinear ==
    ASSUME NEW S, IsFiniteSet(S), NEW f, NEW g, NEW h, NEW d \in Int,
           \A x \in S : f[x] \in Int /\ g[x] \in Int /\ h[x] = f[x] + d * g[x]
    PROVE  SumFunctionOnSet(h, S) = SumFunctionOnSet(f, S) + d * SumFunctionOnSet(g, S)
<1>. DEFINE Total(k, s) == SumFunctionOnSet(k, s)
            F == {s \in SUBSET S : Total(h, s) = Total(f, s) + d * Total(g, s)}
<1>1. ASSUME NEW T \in SUBSET S, \A t \in SUBSET T : t # T => t \in F
      PROVE  T \in F
  <2>1. CASE T = {}
    BY <2>1, SumEmpty
  <2>2. CASE T # {}
    <3>1. PICK c : c \in T
      BY <2>2
    <3>2. IsFiniteSet(T) /\ IsFiniteSet(T \ {c}) /\ \A x \in T : f[x] \in Int /\ g[x] \in Int /\ h[x] \in Int
      <4>1. \A x \in T : f[x] \in Int /\ g[x] \in Int /\ h[x] = f[x] + d * g[x]
        OBVIOUS
      <4>. QED
        BY <4>1, FS_Subset
    <3>3. /\ Total(f, T) = f[c] + Total(f, T \ {c})
          /\ Total(g, T) = g[c] + Total(g, T \ {c})
          /\ Total(h, T) = h[c] + Total(h, T \ {c})
      BY <3>1, <3>2, SumRemove
    <3>4. Total(f, T \ {c}) \in Int /\ Total(g, T \ {c}) \in Int
      BY <3>1, <3>2, SumRemove
    <3>5. Total(h, T \ {c}) = Total(f, T \ {c}) + d * Total(g, T \ {c})
      BY <1>1, <3>1
    <3>6. f[c] \in Int /\ g[c] \in Int /\ h[c] = f[c] + d * g[c]
      BY <3>1
    <3>. HIDE DEF Total
    <3>7. \A a, b, p, q \in Int : a + d * b + (p + d * q) = a + p + d * (b + q)
      OBVIOUS
    <3>8. h[c] + Total(h, T \ {c}) = f[c] + Total(f, T \ {c}) + d * (g[c] + Total(g, T \ {c}))
      BY <3>4, <3>5, <3>6, <3>7
    <3>9. Total(h, T) = Total(f, T) + d * Total(g, T)
      BY <3>3, <3>8
    <3>. QED
      BY <3>9
  <2>. QED
    BY <2>1, <2>2
<1>2. S \in F
  <2>. HIDE DEF F
  <2>. QED
    BY <1>1, SubsetsUp
<1>. QED
  BY <1>2

\* What is smaller everywhere sums to less, and equal functions to the same.
LEMMA SumMonotone ==
    ASSUME NEW S, IsFiniteSet(S), NEW f, NEW g,
           \A x \in S : f[x] \in Int /\ g[x] \in Int /\ f[x] <= g[x]
    PROVE  SumFunctionOnSet(f, S) <= SumFunctionOnSet(g, S)
<1>. DEFINE Total(k, s) == SumFunctionOnSet(k, s)
            F == {s \in SUBSET S : Total(f, s) <= Total(g, s)}
<1>1. ASSUME NEW T \in SUBSET S, \A t \in SUBSET T : t # T => t \in F
      PROVE  T \in F
  <2>1. CASE T = {}
    BY <2>1, SumEmpty
  <2>2. CASE T # {}
    <3>1. PICK c : c \in T
      BY <2>2
    <3>2. IsFiniteSet(T) /\ IsFiniteSet(T \ {c}) /\ \A x \in T : f[x] \in Int /\ g[x] \in Int
      BY FS_Subset
    <3>3. /\ Total(f, T) = f[c] + Total(f, T \ {c})
          /\ Total(g, T) = g[c] + Total(g, T \ {c})
      BY <3>1, <3>2, SumRemove
    <3>4. Total(f, T \ {c}) \in Int /\ Total(g, T \ {c}) \in Int
      BY <3>1, <3>2, SumRemove
    <3>5. Total(f, T \ {c}) <= Total(g, T \ {c})
      BY <1>1, <3>1
    <3>6. f[c] \in Int /\ g[c] \in Int /\ f[c] <= g[c]
      BY <3>1
    <3>. HIDE DEF Total
    <3>7. Total(f, T) <= Total(g, T)
      BY <3>3, <3>4, <3>5, <3>6
    <3>. QED
      BY <3>7
  <2>. QED
    BY <2>1, <2>2
<1>2. S \in F
  <2>. HIDE DEF F
  <2>. QED
    BY <1>1, SubsetsUp
<1>. QED
  BY <1>2

LEMMA SumZero ==
    ASSUME NEW S, IsFiniteSet(S), NEW f, \A x \in S : f[x] = 0
    PROVE  SumFunctionOnSet(f, S) = 0
<1>. DEFINE total == SumFunctionOnSet(f, S)
<1>1. \A x \in S : f[x] \in Int /\ f[x] = f[x] + 1 * f[x]
  OBVIOUS
<1>2. total = total + 1 * total
  BY <1>1, SumLinear
<1>3. total \in Int
  BY <1>1, SumRemove
<1>. HIDE DEF total
<1>4. total = 0
  BY <1>2, <1>3
<1>. QED
  BY <1>4 DEF total

(***************************************************************************)
(* The payoff of a structure is linear between two neighbouring strikes    *)
(* and beyond the last one, so a structure that does not fall beyond its   *)
(* last strike is worth least at a breakpoint, whatever its legs.          *)
(***************************************************************************)
PayoffAt(legs, spot) ==
    [i \in DOMAIN legs |-> Signed(legs[i], Intrinsic(legs[i], spot)) * legs[i].ratio]
Payoff(legs, spot) == SumFunctionOnSet(PayoffAt(legs, spot), DOMAIN legs)
RiseFrom(legs, spot) ==
    [i \in DOMAIN legs |->
        IF legs[i].right = "call"
        THEN IF legs[i].strikeCents <= spot THEN Signed(legs[i], legs[i].ratio) ELSE 0
        ELSE IF legs[i].strikeCents <= spot THEN 0 ELSE -Signed(legs[i], legs[i].ratio)]
Rise(legs, spot) == SumFunctionOnSet(RiseFrom(legs, spot), DOMAIN legs)
RiseBeyond(legs) ==
    [i \in DOMAIN legs |-> IF legs[i].right = "call" THEN Signed(legs[i], legs[i].ratio) ELSE 0]

LEMMA PnlIsPayoff ==
    ASSUME NEW legs, NEW kind, NEW price, NEW spot
    PROVE  ExpiryPnl(legs, kind, price, spot) = (IF kind = "debit" THEN -price ELSE price) + Payoff(legs, spot)
BY DEF ExpiryPnl, OverLegs, SumFunction, Payoff, PayoffAt

LEMMA SlopeIsRise ==
    ASSUME NEW legs
    PROVE  SlopeBeyondHighestStrike(legs) = SumFunctionOnSet(RiseBeyond(legs), DOMAIN legs)
BY DEF SlopeBeyondHighestStrike, OverLegs, SumFunction, RiseBeyond

LEMMA LegsTyped ==
    ASSUME NEW legs \in Seq(OptionLegs)
    PROVE  /\ IsFiniteSet(DOMAIN legs)
           /\ \A i \in DOMAIN legs :
                /\ legs[i] \in OptionLegs /\ legs[i].strikeCents \in Nat /\ legs[i].ratio \in Nat \ {0}
                /\ legs[i].side \in {"buy", "sell"} /\ legs[i].right \in {"call", "put"}
<1>1. DOMAIN legs = 1..Len(legs) /\ Len(legs) \in Nat
  OBVIOUS
<1>2. IsFiniteSet(1..Len(legs))
  BY <1>1, FS_Interval
<1>3. \A i \in DOMAIN legs : legs[i] \in OptionLegs
  BY <1>1
<1>. QED
  BY <1>1, <1>2, <1>3 DEF OptionLegs

LEMMA PayoffTyped ==
    ASSUME NEW legs \in Seq(OptionLegs), NEW spot \in Int
    PROVE  /\ \A i \in DOMAIN legs : PayoffAt(legs, spot)[i] \in Int /\ RiseFrom(legs, spot)[i] \in Int
           /\ Payoff(legs, spot) \in Int /\ Rise(legs, spot) \in Int
<1>1. \A i \in DOMAIN legs : PayoffAt(legs, spot)[i] \in Int /\ RiseFrom(legs, spot)[i] \in Int
  <2>. TAKE i \in DOMAIN legs
  <2>1. legs[i].strikeCents \in Nat /\ legs[i].ratio \in Nat
    BY LegsTyped
  <2>2. Signed(legs[i], Intrinsic(legs[i], spot)) \in Int
    BY <2>1, SMTT(20) DEF Signed, Intrinsic, Larger
  <2>3. Signed(legs[i], Intrinsic(legs[i], spot)) * legs[i].ratio \in Int
    BY <2>1, <2>2
  <2>. QED
    BY <2>1, <2>3 DEF PayoffAt, RiseFrom, Signed
<1>. QED
  BY <1>1, LegsTyped, SumRemove DEF Payoff, Rise

LEMMA LegIsLinear ==
    ASSUME NEW legs \in Seq(OptionLegs), NEW a \in Nat, NEW b \in Nat, a <= b, NEW i \in DOMAIN legs,
           legs[i].strikeCents <= a \/ legs[i].strikeCents >= b
    PROVE  PayoffAt(legs, b)[i] = PayoffAt(legs, a)[i] + (b - a) * RiseFrom(legs, a)[i]
<1>. DEFINE l == legs[i]
            k == l.strikeCents
            r == l.ratio
<1>1. k \in Nat /\ r \in Nat /\ l.side \in {"buy", "sell"} /\ l.right \in {"call", "put"}
  BY LegsTyped
<1>2. /\ PayoffAt(legs, b)[i] = Signed(l, Intrinsic(l, b)) * r
      /\ PayoffAt(legs, a)[i] = Signed(l, Intrinsic(l, a)) * r
      /\ RiseFrom(legs, a)[i] = IF l.right = "call" THEN IF k <= a THEN Signed(l, r) ELSE 0
                                ELSE IF k <= a THEN 0 ELSE -Signed(l, r)
  BY DEF PayoffAt, RiseFrom
<1>3. /\ Intrinsic(l, b) = IF l.right = "call" THEN IF k <= a THEN b - k ELSE 0
                           ELSE IF k <= a THEN 0 ELSE k - b
      /\ Intrinsic(l, a) = IF l.right = "call" THEN IF k <= a THEN a - k ELSE 0
                           ELSE IF k <= a THEN 0 ELSE k - a
  <2>1. k <= a \/ k >= b
    OBVIOUS
  <2>. HIDE DEF k
  <2>. QED
    BY <1>1, <2>1 DEF Intrinsic, Larger, k
<1>4. \A n \in Int : Signed(l, n) = IF l.side = "buy" THEN n ELSE -n
  BY DEF Signed
<1>5. /\ (b - k) * r = (a - k) * r + (b - a) * r
      /\ (k - b) * r = (k - a) * r + (b - a) * (-r)
      /\ (-(b - k)) * r = (-(a - k)) * r + (b - a) * (-r)
      /\ (-(k - b)) * r = (-(k - a)) * r + (b - a) * (-(-r))
      /\ 0 * r = 0 /\ (-0) * r = 0 /\ 0 = 0 + (b - a) * 0
  <2>. HIDE DEF k, r
  <2>. QED
    BY <1>1
<1>6. Signed(l, r) = IF l.side = "buy" THEN r ELSE -r
  BY DEF Signed
<1>7. \A n \in Int : Signed(l, Intrinsic(l, b)) = IF l.side = "buy" THEN Intrinsic(l, b) ELSE -Intrinsic(l, b)
  BY DEF Signed
<1>8. Signed(l, Intrinsic(l, a)) = IF l.side = "buy" THEN Intrinsic(l, a) ELSE -Intrinsic(l, a)
  BY DEF Signed
<1>. HIDE DEF k, r, l
<1>9. CASE l.right = "call" /\ k <= a
  <2>1. CASE l.side = "buy"
    BY <1>1, <1>2, <1>3, <1>5, <1>6, <1>7, <1>8, <1>9, <2>1
  <2>2. CASE l.side # "buy"
    BY <1>1, <1>2, <1>3, <1>5, <1>6, <1>7, <1>8, <1>9, <2>2
  <2>. QED
    BY <2>1, <2>2
<1>10. CASE l.right # "call" /\ ~(k <= a)
  <2>1. CASE l.side = "buy"
    BY <1>1, <1>2, <1>3, <1>5, <1>6, <1>7, <1>8, <1>10, <2>1
  <2>2. CASE l.side # "buy"
    BY <1>1, <1>2, <1>3, <1>5, <1>6, <1>7, <1>8, <1>10, <2>2
  <2>. QED
    BY <2>1, <2>2
<1>11. CASE (l.right = "call" /\ ~(k <= a)) \/ (l.right # "call" /\ k <= a)
  <2>1. Intrinsic(l, a) = 0 /\ Intrinsic(l, b) = 0 /\ RiseFrom(legs, a)[i] = 0
    BY <1>2, <1>3, <1>11
  <2>2. PayoffAt(legs, b)[i] = 0 /\ PayoffAt(legs, a)[i] = 0
    BY <1>1, <1>2, <1>5, <1>7, <1>8, <2>1
  <2>. QED
    BY <2>1, <2>2
<1>. QED
  BY <1>9, <1>10, <1>11

LEMMA PayoffIsLinear ==
    ASSUME NEW legs \in Seq(OptionLegs), NEW a \in Nat, NEW b \in Nat, a <= b,
           \A i \in DOMAIN legs : legs[i].strikeCents <= a \/ legs[i].strikeCents >= b
    PROVE  Payoff(legs, b) = Payoff(legs, a) + (b - a) * Rise(legs, a)
<1>1. \A i \in DOMAIN legs :
        /\ PayoffAt(legs, a)[i] \in Int /\ RiseFrom(legs, a)[i] \in Int
        /\ PayoffAt(legs, b)[i] = PayoffAt(legs, a)[i] + (b - a) * RiseFrom(legs, a)[i]
  <2>. TAKE i \in DOMAIN legs
  <2>1. PayoffAt(legs, a)[i] \in Int /\ RiseFrom(legs, a)[i] \in Int
    <3>1. a \in Int
      OBVIOUS
    <3>. QED
      BY <3>1, PayoffTyped, Zenon
  <2>2. PayoffAt(legs, b)[i] = PayoffAt(legs, a)[i] + (b - a) * RiseFrom(legs, a)[i]
    BY LegIsLinear
  <2>. QED
    BY <2>1, <2>2
<1>2. b - a \in Int /\ IsFiniteSet(DOMAIN legs)
  BY LegsTyped
<1>. QED
  BY <1>1, <1>2, SumLinear DEF Payoff, Rise

LEMMA BreakpointsAre ==
    ASSUME NEW legs \in Seq(OptionLegs)
    PROVE  Breakpoints(legs) \in SUBSET Nat /\ IsFiniteSet(Breakpoints(legs)) /\ 0 \in Breakpoints(legs)
<1>. DEFINE strikes == {legs[i].strikeCents : i \in DOMAIN legs}
<1>1. IsFiniteSet(strikes) /\ strikes \in SUBSET Nat
  <2>. DEFINE f == [i \in DOMAIN legs |-> legs[i].strikeCents]
  <2>1. f \in Surjection(DOMAIN legs, strikes)
    BY DEF Surjection
  <2>2. IsFiniteSet(DOMAIN legs) /\ strikes \in SUBSET Nat
    BY LegsTyped
  <2>. HIDE DEF f, strikes
  <2>. QED
    BY <2>1, <2>2, FS_Surjection
<1>2. Breakpoints(legs) = strikes \cup {0}
  BY DEF Breakpoints
<1>. HIDE DEF strikes
<1>. QED
  BY <1>1, <1>2, FS_AddElement

LEMMA LowestAtBreakpoint ==
    ASSUME NEW legs \in Seq(OptionLegs), SlopeBeyondHighestStrike(legs) >= 0, NEW spot \in Nat
    PROVE  \E b \in Breakpoints(legs) : Payoff(legs, b) <= Payoff(legs, spot)
<1>. DEFINE P(s) == Payoff(legs, s)
            below == {b \in Breakpoints(legs) : b <= spot}
            above == {b \in Breakpoints(legs) : b > spot}
            lo == Max(below)
            hi == Min(above)
            K == Rise(legs, lo)
<1>1. /\ below \in SUBSET Int /\ IsFiniteSet(below) /\ below # {}
      /\ above \in SUBSET Int /\ IsFiniteSet(above)
  BY BreakpointsAre, FS_Subset
<1>2. lo \in below /\ \A x \in below : x <= lo
  <2>. HIDE DEF below
  <2>. QED
    BY <1>1, GreatestOf
<1>3. lo \in Breakpoints(legs) /\ lo \in Nat /\ lo <= spot
  BY <1>2, BreakpointsAre
<1>4. \A i \in DOMAIN legs : legs[i].strikeCents \in Breakpoints(legs) /\ legs[i].strikeCents \in Nat
  BY LegsTyped DEF Breakpoints
<1>. HIDE DEF lo
<1>5. \A i \in DOMAIN legs : legs[i].strikeCents <= lo \/ legs[i].strikeCents \in above
  BY <1>2, <1>4
<1>6. P(spot) \in Int /\ P(lo) \in Int /\ K \in Int
  BY <1>3, PayoffTyped
<1>7. CASE above = {}
  <2>1. P(spot) = P(lo) + (spot - lo) * K
    BY <1>3, <1>5, <1>7, PayoffIsLinear
  <2>2. \A i \in DOMAIN legs : RiseFrom(legs, lo)[i] = RiseBeyond(legs)[i] /\ RiseFrom(legs, lo)[i] \in Int
    <3>. TAKE i \in DOMAIN legs
    <3>1. legs[i].strikeCents <= lo
      BY <1>5, <1>7
    <3>2. RiseFrom(legs, lo)[i] \in Int
      BY <1>3, PayoffTyped
    <3>. QED
      BY <3>1, <3>2 DEF RiseFrom, RiseBeyond
  <2>3. K >= 0
    <3>1. SumFunctionOnSet(RiseBeyond(legs), DOMAIN legs) <= K
      BY <2>2, LegsTyped, SumMonotone DEF Rise
    <3>2. SumFunctionOnSet(RiseBeyond(legs), DOMAIN legs) \in Int
      BY <2>2, LegsTyped, SumRemove
    <3>. HIDE DEF K
    <3>. QED
      BY <1>6, <3>1, <3>2, SlopeIsRise
  <2>. HIDE DEF K, P
  <2>4. (spot - lo) * K >= 0
    BY <1>3, <1>6, <2>3
  <2>5. (spot - lo) * K \in Int
    BY <1>3, <1>6
  <2>6. P(lo) <= P(spot)
    BY <1>6, <2>1, <2>4, <2>5
  <2>. QED
    BY <1>3, <2>6 DEF P
<1>8. CASE above # {}
  <2>1. hi \in above /\ \A x \in above : hi <= x
    <3>. HIDE DEF above
    <3>. QED
      BY <1>1, <1>8, LeastOf
  <2>2. hi \in Breakpoints(legs) /\ hi \in Nat /\ hi > spot
    BY <2>1, BreakpointsAre
  <2>. HIDE DEF hi
  <2>3. \A i \in DOMAIN legs : legs[i].strikeCents <= lo \/ legs[i].strikeCents >= hi
    BY <1>5, <2>1, <1>4, <2>2
  <2>4. \A i \in DOMAIN legs : legs[i].strikeCents <= lo \/ legs[i].strikeCents >= spot
    BY <2>2, <2>3, <1>4
  <2>5. P(spot) = P(lo) + (spot - lo) * K
    BY <1>3, <2>4, PayoffIsLinear
  <2>6. P(hi) = P(lo) + (hi - lo) * K
    BY <1>3, <2>2, <2>3, PayoffIsLinear
  <2>7. P(hi) \in Int
    BY <2>2, PayoffTyped
  <2>. HIDE DEF K, P
  <2>8. CASE K >= 0
    <3>1. (spot - lo) * K >= 0 /\ (spot - lo) * K \in Int
      BY <1>3, <1>6, <2>8
    <3>2. P(lo) <= P(spot)
      BY <1>6, <2>5, <3>1
    <3>. QED
      BY <1>3, <3>2 DEF P
  <2>9. CASE ~(K >= 0)
    <3>1. (hi - lo) * K = (spot - lo) * K + (hi - spot) * K
      BY <1>3, <1>6, <2>2
    <3>2. (hi - spot) * K <= 0 /\ (hi - spot) * K \in Int /\ (spot - lo) * K \in Int
      BY <1>3, <1>6, <2>2, <2>9
    <3>3. P(hi) <= P(spot)
      BY <1>6, <2>5, <2>6, <2>7, <3>1, <3>2
    <3>. QED
      BY <2>2, <3>3 DEF P
  <2>. QED
    BY <2>8, <2>9
<1>. QED
  BY <1>7, <1>8

(***************************************************************************)
(* What a candidate costs at worst, per share: a debit is paid and a       *)
(* credit received, and the structure is worth Floor at the least.         *)
(***************************************************************************)
Cost(kind, price) == IF kind = "debit" THEN price ELSE -price
Floor(legs) == Min({Payoff(legs, b) : b \in Breakpoints(legs)})
WorstShare(legs, cost) == Larger(0, cost - Floor(legs))

Reserve(c) == definedRisk(c, c.quantity, c.entryLimit.priceCents)
Approvable == {c \in EntryCandidate : Reserve(c) # Undefined}
LimitCost(c) == Cost(c.entryLimit.kind, c.entryLimit.priceCents)

(***************************************************************************)
(* An entry, as the journal and the broker together show it: the fills the *)
(* journal knows are some of the broker's, all at the limit or better, and *)
(* cost no more than the price one cent worse that the risk is counted at. *)
(***************************************************************************)
EntryRecords ==
    [candidate : Approvable, reserved : Nat, state : Released \cup Live \cup {"filled"}, filled : Nat, price : Nat,
     broker : [working : BOOLEAN, filled : Nat, total : Nat]]
FillCost(e) == Cost(e.candidate.entryLimit.kind, conservativeRiskFillPrice(e.candidate.entryLimit.kind, e.price))
PaidCost(e) == Cost(e.candidate.entryLimit.kind, e.broker.total)
SoundEntry(e) ==
    /\ e \in EntryRecords
    /\ e.reserved = Reserve(e.candidate)
    /\ e.filled <= e.broker.filled /\ e.broker.filled <= e.candidate.quantity
    /\ e.broker.working => e.broker.filled < e.candidate.quantity
    /\ e.broker.filled = 0 => e.broker.total = 0
    /\ PaidCost(e) <= e.filled * FillCost(e) + (e.broker.filled - e.filled) * LimitCost(e.candidate)
    /\ PaidCost(e) <= e.broker.filled * LimitCost(e.candidate)
    /\ e.state \in Released \cup {"intent"} => e.broker = Unsent
    /\ e.state = "filled" => ~e.broker.working /\ e.filled = e.broker.filled

\* What the fills of an entry and the lots still at the broker can lose.
Resting(e) == IF e.broker.working THEN e.candidate.quantity - e.broker.filled ELSE 0
CapOf(e) ==
    LotSize * Larger(0, PaidCost(e) - e.broker.filled * Floor(e.candidate.legs)
                          + Resting(e) * WorstShare(e.candidate.legs, LimitCost(e.candidate)))

LEMMA FloorIsLowest ==
    ASSUME NEW legs \in Seq(OptionLegs)
    PROVE  /\ Floor(legs) \in Int
           /\ \A b \in Breakpoints(legs) : Floor(legs) <= Payoff(legs, b)
           /\ \E b \in Breakpoints(legs) : Floor(legs) = Payoff(legs, b)
           /\ SlopeBeyondHighestStrike(legs) >= 0 => \A spot \in Nat : Floor(legs) <= Payoff(legs, spot)
<1>. DEFINE worths == {Payoff(legs, b) : b \in Breakpoints(legs)}
            f == [b \in Breakpoints(legs) |-> Payoff(legs, b)]
<1>1. \A b \in Nat : Payoff(legs, b) \in Int
  <2>1. \A b \in Int : Payoff(legs, b) \in Int
    BY PayoffTyped
  <2>. QED
    BY <2>1
<1>2. worths \in SUBSET Int /\ worths # {}
  BY <1>1, BreakpointsAre
<1>3. IsFiniteSet(worths)
  <2>1. f \in Surjection(Breakpoints(legs), worths)
    BY DEF Surjection
  <2>. HIDE DEF f, worths
  <2>. QED
    BY <2>1, BreakpointsAre, FS_Surjection
<1>4. Floor(legs) \in worths /\ \A x \in worths : Floor(legs) <= x
  <2>. HIDE DEF worths
  <2>1. Min(worths) \in worths /\ \A x \in worths : Min(worths) <= x
    BY <1>2, <1>3, LeastOf
  <2>. QED
    BY <2>1 DEF Floor, worths
<1>5. \A b \in Breakpoints(legs) : Floor(legs) <= Payoff(legs, b)
  BY <1>4
<1>6. ASSUME SlopeBeyondHighestStrike(legs) >= 0, NEW spot \in Nat PROVE Floor(legs) <= Payoff(legs, spot)
  <2>1. PICK b \in Breakpoints(legs) : Payoff(legs, b) <= Payoff(legs, spot)
    BY <1>6, LowestAtBreakpoint
  <2>2. Floor(legs) <= Payoff(legs, b) /\ b \in Nat
    BY <1>5, BreakpointsAre
  <2>3. Payoff(legs, b) \in Int /\ Payoff(legs, spot) \in Int /\ Floor(legs) \in Int
    BY <1>1, <1>2, <1>4, <2>2
  <2>. QED
    BY <2>1, <2>2, <2>3
<1>. QED
  BY <1>2, <1>4, <1>5, <1>6

\* The code's bound is the cost over the floor.
LEMMA BoundIsShare ==
    ASSUME NEW legs \in Seq(OptionLegs), NEW kind, NEW price \in Int
    PROVE  expiryPayoffBound(legs, kind, price) =
              IF SlopeBeyondHighestStrike(legs) < 0 THEN Undefined ELSE WorstShare(legs, Cost(kind, price))
<1>. DEFINE pnls == {ExpiryPnl(legs, kind, price, spot) : spot \in Breakpoints(legs)}
            cost == Cost(kind, price)
            least == Floor(legs) - cost
<1>1. cost \in Int
  BY DEF Cost
<1>2. /\ Floor(legs) \in Int
      /\ \A b \in Breakpoints(legs) : Floor(legs) <= Payoff(legs, b) /\ Payoff(legs, b) \in Int
      /\ \E b \in Breakpoints(legs) : Floor(legs) = Payoff(legs, b)
  <2>1. \A b \in Int : Payoff(legs, b) \in Int
    BY PayoffTyped
  <2>2. \A b \in Breakpoints(legs) : b \in Int
    BY BreakpointsAre
  <2>. QED
    BY <2>1, <2>2, FloorIsLowest
<1>3. \A b \in Breakpoints(legs) : ExpiryPnl(legs, kind, price, b) = Payoff(legs, b) - cost
  <2>. TAKE b \in Breakpoints(legs)
  <2>1. ExpiryPnl(legs, kind, price, b) = (IF kind = "debit" THEN -price ELSE price) + Payoff(legs, b)
    BY PnlIsPayoff
  <2>2. Payoff(legs, b) \in Int
    BY <1>2
  <2>. QED
    BY <2>1, <2>2 DEF Cost
<1>. HIDE DEF cost
<1>4. least \in pnls /\ \A x \in pnls : least <= x
  BY <1>1, <1>2, <1>3
<1>5. \A x \in pnls : x \in Int
  BY <1>1, <1>2, <1>3
<1>6. Min(pnls) = least
  <2>1. least \in Int
    BY <1>4, <1>5
  <2>. HIDE DEF pnls, least
  <2>2. \E x \in pnls : \A y \in pnls : x <= y
    BY <1>4
  <2>3. Min(pnls) \in pnls /\ \A y \in pnls : Min(pnls) <= y
    BY <2>2 DEF Min
  <2>4. Min(pnls) \in Int /\ Min(pnls) <= least /\ least <= Min(pnls)
    BY <1>4, <1>5, <2>3
  <2>. QED
    BY <2>1, <2>4
<1>7. -least = cost - Floor(legs)
  BY <1>1, <1>2
<1>. HIDE DEF least, pnls
<1>. QED
  BY <1>6, <1>7 DEF expiryPayoffBound, WorstShare, pnls, cost

LEMMA ShareTyped ==
    ASSUME NEW legs \in Seq(OptionLegs), NEW cost \in Int
    PROVE  WorstShare(legs, cost) \in Nat /\ cost - Floor(legs) <= WorstShare(legs, cost)
BY FloorIsLowest DEF WorstShare, Larger

\* A risk the gates accept is the worst share times the shares, of a structure that does
\* not fall beyond its last strike.
LEMMA RiskIsShare ==
    ASSUME NEW c \in EntryCandidate, NEW q \in Nat, NEW price \in Int, definedRisk(c, q, price) # Undefined
    PROVE  /\ Admitted(c, price)
           /\ SlopeBeyondHighestStrike(c.legs) >= 0
           /\ definedRisk(c, q, price) = LotSize * (q * WorstShare(c.legs, Cost(c.entryLimit.kind, price)))
           /\ definedRisk(c, q, price) \in Nat
<1>. DEFINE share == WorstShare(c.legs, Cost(c.entryLimit.kind, price))
            bound == expiryPayoffBound(c.legs, c.entryLimit.kind, price)
<1>1. c.legs \in Seq(OptionLegs)
  BY DEF EntryCandidate
<1>2. Cost(c.entryLimit.kind, price) \in Int
  BY DEF Cost
<1>3. share \in Nat
  BY <1>1, <1>2, ShareTyped
<1>4. SlopeBeyondHighestStrike(c.legs) \in Int
  <2>1. \A i \in DOMAIN c.legs : RiseBeyond(c.legs)[i] \in Int
    BY <1>1, LegsTyped DEF RiseBeyond, Signed
  <2>. QED
    BY <1>1, <2>1, SlopeIsRise, LegsTyped, SumRemove
<1>5. bound = IF SlopeBeyondHighestStrike(c.legs) < 0 THEN Undefined ELSE share
  BY <1>1, BoundIsShare
<1>6. Admitted(c, price) /\ reserveFromPayoff(c.legs, c.entryLimit.kind, price, q) # Undefined
  BY DEF definedRisk
<1>7. definedRisk(c, q, price) = reserveFromPayoff(c.legs, c.entryLimit.kind, price, q)
  BY <1>6 DEF definedRisk
<1>8. /\ bound # Undefined
      /\ reserveFromPayoff(c.legs, c.entryLimit.kind, price, q) = bound * LotSize * q
  BY <1>6 DEF reserveFromPayoff
<1>. HIDE DEF bound, share
<1>9. bound = share /\ SlopeBeyondHighestStrike(c.legs) >= 0
  BY <1>4, <1>5, <1>8
<1>10. LotSize \in Nat
  BY StructuresAssumption
<1>11. share * LotSize * q = LotSize * (q * share) /\ LotSize * (q * share) \in Nat
  BY <1>3, <1>10
<1>. QED
  BY <1>6, <1>7, <1>8, <1>9, <1>11 DEF share

(***************************************************************************)
(* One entry: what it can really lose is within its cap, its cap within    *)
(* the risk it is counted with.                                            *)
(***************************************************************************)
LEMMA EntryTyped ==
    ASSUME NEW e, SoundEntry(e)
    PROVE  /\ e.candidate \in EntryCandidate /\ Reserve(e.candidate) # Undefined
           /\ e.candidate.legs \in Seq(OptionLegs)
           /\ e.candidate.quantity \in Nat \ {0} /\ e.candidate.entryLimit.priceCents \in Nat
           /\ e.candidate.entryLimit.kind \in {"debit", "credit"}
           /\ e.broker.working \in BOOLEAN /\ e.broker.filled \in Nat /\ e.broker.total \in Nat
           /\ e.filled \in Nat /\ e.price \in Nat
           /\ LimitCost(e.candidate) \in Int /\ PaidCost(e) \in Int /\ FillCost(e) \in Int
           /\ Floor(e.candidate.legs) \in Int
           /\ WorstShare(e.candidate.legs, LimitCost(e.candidate)) \in Nat
           /\ WorstShare(e.candidate.legs, FillCost(e)) \in Nat
           /\ Resting(e) \in Nat
           /\ LotSize \in Nat
<1>1. e \in EntryRecords
  BY DEF SoundEntry
<1>2. /\ e.candidate \in EntryCandidate /\ Reserve(e.candidate) # Undefined
      /\ e.broker.working \in BOOLEAN /\ e.broker.filled \in Nat /\ e.broker.total \in Nat
      /\ e.filled \in Nat /\ e.price \in Nat
  BY <1>1 DEF EntryRecords, Approvable
<1>3. /\ e.candidate.legs \in Seq(OptionLegs)
      /\ e.candidate.quantity \in Nat \ {0} /\ e.candidate.entryLimit.priceCents \in Nat
      /\ e.candidate.entryLimit.kind \in {"debit", "credit"}
  BY <1>2 DEF EntryCandidate
<1>4. LimitCost(e.candidate) \in Int /\ PaidCost(e) \in Int /\ FillCost(e) \in Int
  BY <1>2, <1>3 DEF LimitCost, PaidCost, FillCost, Cost, conservativeRiskFillPrice, Larger
<1>5. /\ Floor(e.candidate.legs) \in Int
      /\ WorstShare(e.candidate.legs, LimitCost(e.candidate)) \in Nat
      /\ WorstShare(e.candidate.legs, FillCost(e)) \in Nat
  BY <1>3, <1>4, FloorIsLowest, ShareTyped
<1>6. Resting(e) \in Nat
  BY <1>2, <1>3 DEF Resting, SoundEntry
<1>. QED
  BY <1>2, <1>3, <1>4, <1>5, <1>6, StructuresAssumption

LEMMA CapTyped ==
    ASSUME NEW e, SoundEntry(e)
    PROVE  CapOf(e) \in Nat
<1>. DEFINE x == PaidCost(e) - e.broker.filled * Floor(e.candidate.legs)
                          + Resting(e) * WorstShare(e.candidate.legs, LimitCost(e.candidate))
<1>1. x \in Int
  BY EntryTyped
<1>. HIDE DEF x
<1>2. Larger(0, x) \in Nat
  BY <1>1 DEF Larger
<1>3. LotSize * Larger(0, x) \in Nat
  BY <1>2, EntryTyped
<1>. QED
  BY <1>3 DEF CapOf, x

LEMMA WorstWithinCap ==
    ASSUME NEW e, SoundEntry(e)
    PROVE  WorstLoss(e) \in Nat /\ WorstLoss(e) <= CapOf(e)
<1>. DEFINE c == e.candidate
            F == e.broker.filled
            r == Resting(e)
            paid == e.broker.total + r * c.entryLimit.priceCents
            Loss(spot) == -((IF c.entryLimit.kind = "debit" THEN -paid ELSE paid)
                              + (F + r) * ExpiryPnl(c.legs, "debit", 0, spot))
            top == 2 * Max(Breakpoints(c.legs)) + 1
            losses == {Loss(spot) : spot \in 0..top}
            m == Floor(c.legs)
            B == WorstShare(c.legs, LimitCost(c))
            cap == PaidCost(e) - F * m + r * B
<1>1. /\ c \in EntryCandidate /\ Reserve(c) # Undefined /\ c.legs \in Seq(OptionLegs)
      /\ c.entryLimit.priceCents \in Nat /\ c.quantity \in Nat /\ F \in Nat /\ r \in Nat /\ e.broker.total \in Nat
      /\ m \in Int /\ B \in Nat /\ LimitCost(c) \in Int /\ PaidCost(e) \in Int /\ LotSize \in Nat
  BY EntryTyped, SMTT(20)
<1>2. SlopeBeyondHighestStrike(c.legs) >= 0
  <2>1. definedRisk(c, c.quantity, c.entryLimit.priceCents) # Undefined /\ c.entryLimit.priceCents \in Int
    BY <1>1 DEF Reserve
  <2>. HIDE DEF c
  <2>. QED
    BY <1>1, <2>1, RiskIsShare
<1>3. LimitCost(c) - m <= B
  BY <1>1, ShareTyped
<1>4. top \in Nat
  <2>1. Max(Breakpoints(c.legs)) \in Breakpoints(c.legs)
    BY <1>1, BreakpointsAre, GreatestOf
  <2>2. Max(Breakpoints(c.legs)) \in Nat
    BY <1>1, <2>1, BreakpointsAre
  <2>. QED
    BY <2>2
<1>5. ASSUME NEW spot \in Nat PROVE Loss(spot) \in Int /\ Loss(spot) <= cap
  <2>. DEFINE w == Payoff(c.legs, spot)
  <2>1. w \in Int /\ m <= w
    <3>1. spot \in Int /\ c.legs \in Seq(OptionLegs)
      BY <1>1
    <3>2. w \in Int
      BY <3>1, PayoffTyped
    <3>3. m <= w
      BY <1>2, <3>1, FloorIsLowest
    <3>. QED
      BY <3>2, <3>3
  <2>2. ExpiryPnl(c.legs, "debit", 0, spot) = w
    <3>1. ExpiryPnl(c.legs, "debit", 0, spot) = -0 + w
      BY PnlIsPayoff
    <3>. HIDE DEF w
    <3>. QED
      BY <2>1, <3>1
  <2>3. paid \in Nat
    <3>1. \A x, y, t \in Nat : t + x * y \in Nat
      OBVIOUS
    <3>. HIDE DEF c, F, r, m, B
    <3>. QED
      BY <1>1, <3>1
  <2>4. (IF c.entryLimit.kind = "debit" THEN -paid ELSE paid) = -(PaidCost(e) + r * LimitCost(c))
    <3>1. CASE c.entryLimit.kind = "debit"
      BY <1>1, <3>1 DEF PaidCost, LimitCost, Cost
    <3>2. CASE c.entryLimit.kind # "debit"
      <4>1. PaidCost(e) = -e.broker.total /\ LimitCost(c) = -c.entryLimit.priceCents
        BY <3>2 DEF PaidCost, LimitCost, Cost
      <4>2. r * (-c.entryLimit.priceCents) = -(r * c.entryLimit.priceCents) /\ r * c.entryLimit.priceCents \in Nat
        <5>. HIDE DEF c, F, r, m, B
        <5>. QED
          BY <1>1
      <4>3. -(PaidCost(e) + r * LimitCost(c)) = paid
        <5>. HIDE DEF c, F, r, m, B
        <5>1. r * LimitCost(c) = -(r * c.entryLimit.priceCents)
          BY <4>1, <4>2
        <5>2. \A t, y \in Nat : -(-t + -y) = t + y
          OBVIOUS
        <5>3. -(PaidCost(e) + r * LimitCost(c)) = -(-e.broker.total + -(r * c.entryLimit.priceCents))
          BY <4>1, <5>1
        <5>. QED
          BY <1>1, <4>2, <5>2, <5>3
      <4>. QED
        BY <3>2, <4>3
    <3>. QED
      BY <3>1, <3>2
  <2>. HIDE DEF w, m, B, F, r, paid
  <2>5. (F + r) * w = F * w + r * w /\ (F + r) * w \in Int /\ F * w \in Int /\ r * w \in Int
    BY <1>1, <2>1
  <2>6. F * m <= F * w /\ r * m <= r * w /\ F * m \in Int /\ r * m \in Int
    BY <1>1, <2>1
  <2>7. r * (LimitCost(c) - m) <= r * B /\ r * B \in Int /\ r * (LimitCost(c) - m) = r * LimitCost(c) - r * m
        /\ r * LimitCost(c) \in Int
    BY <1>1, <1>3
  <2>8. Loss(spot) = PaidCost(e) + r * LimitCost(c) - (F * w + r * w)
    <3>1. Loss(spot) = -(-(PaidCost(e) + r * LimitCost(c)) + (F + r) * w)
      BY <2>2, <2>4
    <3>2. \A x, y, z \in Int : -(-(x + y) + z) = x + y - z
      OBVIOUS
    <3>3. PaidCost(e) \in Int /\ r * LimitCost(c) \in Int /\ (F + r) * w \in Int
      BY <1>1, <2>5, <2>7
    <3>. HIDE DEF Loss, c
    <3>4. Loss(spot) = PaidCost(e) + r * LimitCost(c) - (F + r) * w
      BY <3>1, <3>2, <3>3
    <3>. QED
      BY <2>5, <3>4
  <2>9. cap = PaidCost(e) - F * m + r * B
    OBVIOUS
  <2>. HIDE DEF Loss, c, cap
  <2>10. Loss(spot) \in Int
    <3>1. \A x, y, z \in Int : x + y - z \in Int
      OBVIOUS
    <3>2. PaidCost(e) \in Int /\ r * LimitCost(c) \in Int /\ F * w + r * w \in Int
      BY <1>1, <2>5, <2>7
    <3>. QED
      BY <2>8, <3>1, <3>2
  <2>11. r * LimitCost(c) - r * m <= r * B
    BY <2>7
  <2>12. \A p, l, fw, rw, fm, rm, b \in Int :
            fm <= fw /\ rm <= rw /\ l - rm <= b => p + l - (fw + rw) <= p - fm + b
    OBVIOUS
  <2>13. Loss(spot) <= cap
    <3>1. PaidCost(e) + r * LimitCost(c) - (F * w + r * w) <= PaidCost(e) - F * m + r * B
      BY <1>1, <2>5, <2>6, <2>7, <2>11, <2>12
    <3>. QED
      BY <2>8, <2>9, <3>1
  <2>. QED
    BY <2>10, <2>13
<1>6. losses \in SUBSET Int /\ IsFiniteSet(losses) /\ losses # {}
  <2>. DEFINE f == [spot \in 0..top |-> Loss(spot)]
  <2>. HIDE DEF top
  <2>1. \A spot \in 0..top : Loss(spot) \in Int
    BY <1>4, <1>5
  <2>. HIDE DEF Loss
  <2>2. f \in Surjection(0..top, losses)
    BY DEF Surjection
  <2>3. IsFiniteSet(0..top) /\ 0 \in 0..top
    BY <1>4, FS_Interval
  <2>4. IsFiniteSet(losses)
    <3>. HIDE DEF f, losses
    <3>. QED
      BY <2>2, <2>3, FS_Surjection
  <2>. QED
    BY <2>1, <2>3, <2>4
<1>7. Max(losses) \in losses
  <2>. HIDE DEF losses
  <2>. QED
    BY <1>6, GreatestOf
<1>8. Max(losses) \in Int /\ Max(losses) <= cap
  <2>1. PICK spot \in 0..top : Max(losses) = Loss(spot)
    <3>. HIDE DEF top, Loss
    <3>. QED
      BY <1>7
  <2>2. spot \in Nat
    BY <1>4, <2>1
  <2>. HIDE DEF losses, Loss, cap
  <2>. QED
    BY <1>5, <2>1, <2>2
<1>9. cap \in Int
  BY <1>1
<1>10. WorstLoss(e) = LotSize * Larger(0, Max(losses))
  BY DEF WorstLoss, Resting
<1>11. CapOf(e) = LotSize * Larger(0, cap)
  BY DEF CapOf
<1>. HIDE DEF losses, cap
<1>12. Larger(0, Max(losses)) \in Nat /\ Larger(0, cap) \in Nat /\ Larger(0, Max(losses)) <= Larger(0, cap)
  BY <1>8, <1>9 DEF Larger
<1>. HIDE DEF Larger
<1>13. LotSize * Larger(0, Max(losses)) \in Nat /\ LotSize * Larger(0, Max(losses)) <= LotSize * Larger(0, cap)
  BY <1>1, <1>12
<1>. QED
  BY <1>10, <1>11, <1>13

\* Reserved, resting or filled: the risk an entry counts covers its cap.
LEMMA CountedCoversCap ==
    ASSUME NEW e, SoundEntry(e),
           e.state \in {"fillable", "filled"} => FilledRisk(e) # Undefined,
           e.state = "fillable" => RestingRisk(e) # Undefined
    PROVE  countedRisk(e) \in Nat /\ CapOf(e) <= countedRisk(e)
<1>. DEFINE c == e.candidate
            F == e.broker.filled
            f == e.filled
            q == c.quantity
            r == Resting(e)
            m == Floor(c.legs)
            L == LimitCost(c)
            P == FillCost(e)
            A == WorstShare(c.legs, P)
            B == WorstShare(c.legs, L)
            paid == PaidCost(e)
            cap == paid - F * m + r * B
<1>1. /\ c \in EntryCandidate /\ Reserve(c) # Undefined /\ c.legs \in Seq(OptionLegs)
      /\ q \in Nat /\ F \in Nat /\ r \in Nat /\ f \in Nat
      /\ m \in Int /\ A \in Nat /\ B \in Nat /\ L \in Int /\ P \in Int /\ paid \in Int /\ LotSize \in Nat
      /\ c.entryLimit.priceCents \in Nat
      /\ conservativeRiskFillPrice(c.entryLimit.kind, e.price) \in Int
  BY EntryTyped, SMTT(20) DEF conservativeRiskFillPrice, Larger
<1>2. L - m <= B /\ P - m <= A
  BY <1>1, ShareTyped
<1>3. /\ f <= F /\ F <= q /\ paid <= f * P + (F - f) * L /\ paid <= F * L
      /\ r = IF e.broker.working THEN q - F ELSE 0
  BY DEF SoundEntry, Resting
<1>4. CapOf(e) = LotSize * Larger(0, cap)
  BY DEF CapOf
<1>5. cap <= f * A + (q - f) * B
  <2>. HIDE DEF c, F, f, q, r, m, L, P, A, B, paid
  <2>1. f * (P - m) <= f * A /\ f * (P - m) = f * P - f * m /\ f * P \in Int /\ f * m \in Int /\ f * A \in Int
    BY <1>1, <1>2
  <2>2. F - f \in Nat /\ q - F \in Nat /\ q - f \in Nat /\ r \in Nat /\ r <= q - F
    BY <1>1, <1>3
  <2>3. /\ (F - f) * (L - m) <= (F - f) * B /\ (F - f) * (L - m) = (F - f) * L - (F - f) * m
        /\ (F - f) * L \in Int /\ (F - f) * m \in Int /\ (F - f) * B \in Int
    BY <1>1, <1>2, <2>2
  <2>4. F * m = f * m + (F - f) * m /\ F * m \in Int
    BY <1>1, <2>2
  <2>5. (q - f) * B = (F - f) * B + (q - F) * B /\ (q - F) * B \in Int /\ r * B <= (q - F) * B /\ r * B \in Int
    BY <1>1, <2>2
  <2>. QED
    BY <1>1, <1>3, <2>1, <2>3, <2>4, <2>5
<1>6. cap <= q * B
  <2>. HIDE DEF c, F, f, q, r, m, L, P, A, B, paid
  <2>1. F * (L - m) <= F * B /\ F * (L - m) = F * L - F * m /\ F * L \in Int /\ F * m \in Int /\ F * B \in Int
    BY <1>1, <1>2
  <2>2. q - F \in Nat /\ r <= q - F
    BY <1>1, <1>3
  <2>3. q * B = F * B + (q - F) * B /\ (q - F) * B \in Int /\ r * B <= (q - F) * B /\ r * B \in Int
    BY <1>1, <2>2
  <2>. QED
    BY <1>1, <1>3, <2>1, <2>3
<1>7. cap \in Int
  <2>1. F * m \in Int /\ r * B \in Int
    <3>. HIDE DEF F, m, r, B
    <3>. QED
      BY <1>1
  <2>. HIDE DEF F, m, r, B, paid
  <2>. QED
    BY <1>1, <2>1
<1>8. ASSUME NEW n \in Nat, cap <= n PROVE CapOf(e) <= LotSize * n
  <2>. HIDE DEF cap
  <2>1. Larger(0, cap) \in Nat /\ Larger(0, cap) <= n
    BY <1>7, <1>8 DEF Larger
  <2>. HIDE DEF Larger
  <2>2. LotSize * Larger(0, cap) <= LotSize * n
    BY <1>1, <2>1
  <2>. QED
    BY <1>4, <2>2
<1>9. f > 0 /\ FilledRisk(e) # Undefined => FilledRisk(e) = LotSize * (f * A)
  <2>. SUFFICES ASSUME f > 0, FilledRisk(e) # Undefined PROVE FilledRisk(e) = LotSize * (f * A)
    OBVIOUS
  <2>. DEFINE price == conservativeRiskFillPrice(c.entryLimit.kind, e.price)
  <2>1. FilledRisk(e) = definedRisk(c, f, price)
    BY <1>1 DEF FilledRisk
  <2>2. P = Cost(c.entryLimit.kind, price)
    BY DEF FillCost
  <2>3. price \in Int
    BY <1>1
  <2>. HIDE DEF price, c, f, P
  <2>. QED
    BY <1>1, <2>1, <2>2, <2>3, RiskIsShare
<1>10. f = 0 => FilledRisk(e) = 0 /\ f * A = 0
  BY <1>1 DEF FilledRisk
<1>11. RestingRisk(e) # Undefined => RestingRisk(e) = LotSize * ((q - f) * B)
  <2>1. q - f \in Nat
    <3>. HIDE DEF c, F, f, q, r, m, L, P, A, B, paid
    <3>. QED
      BY <1>1, <1>3
  <2>2. L = Cost(c.entryLimit.kind, c.entryLimit.priceCents)
    BY DEF LimitCost
  <2>3. RestingRisk(e) = definedRisk(c, q - f, c.entryLimit.priceCents)
    BY DEF RestingRisk
  <2>. HIDE DEF c, f, q, L
  <2>. QED
    BY <1>1, <2>1, <2>2, <2>3, RiskIsShare
<1>12. e.reserved = LotSize * (q * B) /\ e.reserved \in Nat
  <2>1. e.reserved = Reserve(c)
    BY DEF SoundEntry
  <2>2. L = Cost(c.entryLimit.kind, c.entryLimit.priceCents) /\ Reserve(c) = definedRisk(c, q, c.entryLimit.priceCents)
    BY DEF LimitCost, Reserve
  <2>. HIDE DEF c, q, L
  <2>. QED
    BY <1>1, <2>1, <2>2, RiskIsShare
<1>13. f * A \in Nat /\ (q - f) * B \in Nat /\ q * B \in Nat
  <2>1. q - f \in Nat
    <3>. HIDE DEF c, F, f, q, r, m, L, P, A, B, paid
    <3>. QED
      BY <1>1, <1>3
  <2>. HIDE DEF f, q, A, B
  <2>. QED
    BY <1>1, <2>1
<1>14. e.state \in Released \cup Live \cup {"filled"}
  BY DEF SoundEntry, EntryRecords
<1>15. CASE e.state \in {"intent", "confirmation_unclear"}
  <2>1. countedRisk(e) = e.reserved
    BY <1>15 DEF countedRisk, Released
  <2>. QED
    BY <1>6, <1>8, <1>12, <1>13, <2>1
<1>16. CASE e.state = "fillable"
  <2>1. countedRisk(e) = FilledRisk(e) + RestingRisk(e)
    BY <1>16 DEF countedRisk, Released
  <2>2. FilledRisk(e) = LotSize * (f * A) /\ RestingRisk(e) = LotSize * ((q - f) * B)
    <3>. HIDE DEF A, f, q, B
    <3>. QED
      BY <1>1, <1>9, <1>10, <1>11, <1>16
  <2>3. f * A + (q - f) * B \in Nat
    BY <1>13
  <2>4. CapOf(e) <= LotSize * (f * A + (q - f) * B)
    BY <1>5, <1>8, <2>3
  <2>5. LotSize * (f * A + (q - f) * B) = LotSize * (f * A) + LotSize * ((q - f) * B)
        /\ LotSize * (f * A) + LotSize * ((q - f) * B) \in Nat
    <3>. HIDE DEF A, B, f, q
    <3>. DEFINE x == f * A
                y == (q - f) * B
    <3>1. x \in Nat /\ y \in Nat /\ LotSize \in Nat
      BY <1>1, <1>13
    <3>. HIDE DEF x, y
    <3>2. LotSize * (x + y) = LotSize * x + LotSize * y /\ LotSize * x + LotSize * y \in Nat
      BY <3>1
    <3>. QED
      BY <3>2 DEF x, y
  <2>. QED
    BY <2>1, <2>2, <2>4, <2>5
<1>17. CASE e.state = "filled"
  <2>1. countedRisk(e) = FilledRisk(e)
    BY <1>17 DEF countedRisk, Released
  <2>2. FilledRisk(e) = LotSize * (f * A)
    <3>. HIDE DEF A, f
    <3>. QED
      BY <1>1, <1>9, <1>10, <1>17
  <2>3. F = f /\ r = 0
    BY <1>17 DEF SoundEntry, Resting
  <2>4. cap <= f * A
    <3>. HIDE DEF c, F, f, q, r, m, L, P, A, B, paid
    <3>1. f * (P - m) <= f * A /\ f * (P - m) = f * P - f * m /\ f * P \in Int /\ f * m \in Int /\ f * A \in Int
      BY <1>1, <1>2
    <3>2. (F - f) * L = 0 /\ r * B = 0
      BY <1>1, <2>3
    <3>. QED
      BY <1>1, <1>3, <2>3, <3>1, <3>2
  <2>5. LotSize * (f * A) \in Nat
    <3>. DEFINE x == f * A
    <3>1. x \in Nat
      BY <1>13
    <3>. HIDE DEF x
    <3>2. LotSize * x \in Nat
      BY <1>1, <3>1
    <3>. QED
      BY <3>2 DEF x
  <2>. QED
    BY <1>8, <1>13, <2>1, <2>2, <2>4, <2>5
<1>18. CASE e.state \in Released
  <2>1. countedRisk(e) = 0
    BY <1>18 DEF countedRisk, Released
  <2>2. e.broker = Unsent
    BY <1>18 DEF SoundEntry
  <2>3. F = 0 /\ r = 0 /\ paid <= 0
    <3>1. F = 0 /\ e.broker.total = 0 /\ ~e.broker.working
      BY <2>2 DEF Unsent
    <3>2. -e.broker.total <= 0 /\ e.broker.total <= 0
      BY <3>1
    <3>. QED
      BY <3>1, <3>2 DEF Resting, PaidCost, Cost
  <2>4. cap <= 0
    <3>. HIDE DEF F, r, paid, m, B
    <3>. QED
      BY <1>1, <2>3
  <2>5. LotSize * 0 = 0
    BY <1>1
  <2>. QED
    BY <1>8, <2>1, <2>4, <2>5
<1>. QED
  BY <1>14, <1>15, <1>16, <1>17, <1>18 DEF Live

(***************************************************************************)
(* The plans of a cycle: approvable candidates, each under an identity of  *)
(* its own that no entry has yet.                                          *)
(***************************************************************************)
PlanSet == {EntryActionPlan(c, n) : c \in Approvable, n \in Nat}
FitFor(ps, es) ==
    /\ ps \in Seq(PlanSet)
    /\ \A i, j \in DOMAIN ps : i # j => ps[i].id # ps[j].id
    /\ \A i \in DOMAIN ps : ps[i].id \notin DOMAIN es

LEMMA PricedCandidate ==
    ASSUME NEW c \in EntryCandidate, NEW quotes, NEW tolerance, Priceable(c, quotes, tolerance)
    PROVE  priceEntryLimit(c, quotes, tolerance) \in EntryCandidate
<1>. DEFINE price == limitFromNetMid(netMidTwice(c.legs, quotes), tolerance)
<1>1. price \in Nat
  BY StructuresAssumption DEF Priceable
<1>. HIDE DEF price
<1>2. [c EXCEPT !.entryLimit.priceCents = price] \in EntryCandidate
  BY <1>1 DEF EntryCandidate
<1>. QED
  BY <1>2 DEF priceEntryLimit, price

\* The candidates a batch is decided over.
LEMMA PricedBatch ==
    ASSUME NEW snapshot, NEW batch \in Seq(EntryCandidate), NEW now
    PROVE  \E executable \in Seq(EntryCandidate) :
              priceAndDecide(snapshot, batch, now) = decide(snapshot, executable, now)
<1>. DEFINE Keeps(c) == Priceable(c, snapshot.quotes, config.limitTolerance)
            Priced(c) == priceEntryLimit(c, snapshot.quotes, config.limitTolerance)
            Unfold(prev, n) == IF ~Keeps(batch[n]) THEN prev ELSE Append(prev, Priced(batch[n]))
            Solves(g, N) == g = [n \in 0..N |-> IF n = 0 THEN <<>> ELSE Unfold(g[n - 1], n)]
            F == {N \in Nat : \E g : Solves(g, N)}
<1>1. 0 \in F
  <2>. DEFINE h == [n \in 0..0 |-> <<>>]
  <2>1. h = [n \in 0..0 |-> IF n = 0 THEN <<>> ELSE Unfold(h[n - 1], n)]
    OBVIOUS
  <2>. HIDE DEF h, Unfold
  <2>. QED
    BY <2>1
<1>2. ASSUME NEW N \in Nat, N \in F PROVE N + 1 \in F
  <2>. HIDE DEF Unfold
  <2>1. PICK g : Solves(g, N)
    BY <1>2
  <2>. DEFINE h == [n \in 0..N + 1 |-> IF n <= N THEN g[n] ELSE Unfold(g[N], N + 1)]
  <2>2. ASSUME NEW n \in 0..N + 1 PROVE h[n] = IF n = 0 THEN <<>> ELSE Unfold(h[n - 1], n)
    <3>1. CASE n <= N
      <4>1. n \in 0..N /\ h[n] = g[n] /\ g[n] = IF n = 0 THEN <<>> ELSE Unfold(g[n - 1], n)
        BY <2>1, <3>1
      <4>2. n # 0 => h[n - 1] = g[n - 1]
        BY <3>1
      <4>. QED
        BY <4>1, <4>2
    <3>2. CASE ~(n <= N)
      <4>1. n = N + 1 /\ n - 1 = N /\ n # 0 /\ N \in 0..N + 1
        BY <3>2
      <4>2. h[N] = g[N] /\ h[n] = Unfold(g[N], N + 1)
        BY <4>1
      <4>. QED
        BY <4>1, <4>2
    <3>. QED
      BY <3>1, <3>2
  <2>3. h = [n \in 0..N + 1 |-> h[n]]
    OBVIOUS
  <2>. HIDE DEF h
  <2>4. Solves(h, N + 1)
    BY <2>2, <2>3
  <2>. QED
    BY <2>4
<1>3. Len(batch) \in F
  <2>. HIDE DEF F
  <2>. QED
    BY <1>1, <1>2, CountUp
<1>. DEFINE priced == CHOOSE g : Solves(g, Len(batch))
<1>4. Solves(priced, Len(batch))
  <2>. HIDE DEF Solves
  <2>. QED
    BY <1>3
<1>5. priceAndDecide(snapshot, batch, now) = decide(snapshot, priced[Len(batch)], now)
  BY DEF priceAndDecide
<1>. HIDE DEF priced
<1>6. priced[Len(batch)] \in Seq(EntryCandidate)
  <2>. DEFINE G == {n \in Nat : n <= Len(batch) => priced[n] \in Seq(EntryCandidate)}
  <2>1. 0 \in G
    <3>1. priced[0] = <<>>
      <4>. HIDE DEF Unfold
      <4>. QED
        BY <1>4
    <3>2. <<>> \in Seq(EntryCandidate)
      OBVIOUS
    <3>3. priced[0] \in Seq(EntryCandidate)
      BY <3>1, <3>2
    <3>. QED
      BY <3>3
  <2>2. ASSUME NEW n \in Nat, n \in G PROVE n + 1 \in G
    <3>. SUFFICES ASSUME n + 1 <= Len(batch) PROVE priced[n + 1] \in Seq(EntryCandidate)
      OBVIOUS
    <3>1. n + 1 \in 0..Len(batch) /\ n + 1 # 0 /\ n + 1 - 1 = n /\ n <= Len(batch)
      OBVIOUS
    <3>2. priced[n + 1] = Unfold(priced[n], n + 1)
      <4>. HIDE DEF Unfold
      <4>. QED
        BY <1>4, <3>1
    <3>3. priced[n] \in Seq(EntryCandidate) /\ batch[n + 1] \in EntryCandidate
      BY <2>2, <3>1
    <3>4. Keeps(batch[n + 1]) => Priced(batch[n + 1]) \in EntryCandidate
      BY <3>3, PricedCandidate
    <3>. HIDE DEF Keeps, Priced
    <3>. QED
      BY <3>2, <3>3, <3>4
  <2>3. Len(batch) \in G
    <3>. HIDE DEF G
    <3>. QED
      BY <2>1, <2>2, CountUp
  <2>. QED
    BY <2>3
<1>. QED
  BY <1>5, <1>6

\* G1 and G7 of the gates: what has passed can be priced at worst, and is new.
LEMMA PassedIsNew ==
    ASSUME NEW snapshot, NEW acc, NEW c, NEW now, Passed(gateVector(snapshot, acc, c, now))
    PROVE  /\ Reserve(c) # Undefined
           /\ entryClientOrderId(c, snapshot.cycleIndex) \notin acc.ids \cup DOMAIN snapshot.entries
<1>. DEFINE gates == gateVector(snapshot, acc, c, now)
<1>1. "G1" \in DOMAIN gates /\ "G7" \in DOMAIN gates
  BY DEF gateVector
<1>2. gates["G1"] /\ gates["G7"]
  BY <1>1 DEF Passed
<1>3. gates["G1"] = (Reserve(c) # Undefined)
  BY DEF gateVector, Reserve
<1>4. gates["G7"] = (entryClientOrderId(c, snapshot.cycleIndex) \notin acc.ids \cup DOMAIN snapshot.entries)
  BY DEF gateVector
<1>. QED
  BY <1>2, <1>3, <1>4

LEMMA PlanIsOf ==
    ASSUME NEW plan \in PlanSet
    PROVE  \E c \in Approvable, n \in Nat :
              plan = [candidate |-> c, id |-> entryClientOrderId(c, n), reserved |-> Reserve(c)]
BY DEF PlanSet, EntryActionPlan, Reserve

\* The decision over a batch plans every accepted candidate under a new identity.
AcceptedFit(acc, es) ==
    FitFor(acc.actions, es) /\ \A i \in DOMAIN acc.actions : acc.actions[i].id \in acc.ids

LEMMA AcceptStep ==
    ASSUME NEW snapshot, snapshot.cycleIndex \in Nat, NEW acc, AcceptedFit(acc, snapshot.entries),
           NEW c \in EntryCandidate, NEW now
    PROVE  AcceptedFit(evaluateCandidate(snapshot, acc, c, now), snapshot.entries)
<1>. DEFINE plan == EntryActionPlan(c, snapshot.cycleIndex)
            es == snapshot.entries
            next == evaluateCandidate(snapshot, acc, c, now)
            ps == acc.actions
<1>1. CASE ~Passed(gateVector(snapshot, acc, c, now))
  BY <1>1 DEF evaluateCandidate
<1>2. CASE Passed(gateVector(snapshot, acc, c, now))
  <2>1. Reserve(c) # Undefined /\ plan.id \notin acc.ids \cup DOMAIN es
    BY <1>2, PassedIsNew DEF EntryActionPlan
  <2>2. plan \in PlanSet
    BY <2>1 DEF PlanSet, Approvable
  <2>3. next.actions = Append(ps, plan) /\ next.ids = acc.ids \cup {plan.id}
    BY <1>2 DEF evaluateCandidate
  <2>4. /\ ps \in Seq(PlanSet) /\ \A i, j \in DOMAIN ps : i # j => ps[i].id # ps[j].id
        /\ \A i \in DOMAIN ps : ps[i].id \notin DOMAIN es /\ ps[i].id \in acc.ids
    BY DEF AcceptedFit, FitFor
  <2>. HIDE DEF plan, ps, es, next
  <2>5. /\ Append(ps, plan) \in Seq(PlanSet) /\ DOMAIN Append(ps, plan) = 1..Len(ps) + 1
        /\ DOMAIN ps = 1..Len(ps) /\ Len(ps) \in Nat
        /\ \A i \in 1..Len(ps) : Append(ps, plan)[i] = ps[i]
        /\ Append(ps, plan)[Len(ps) + 1] = plan
    BY <2>2, <2>4
  <2>6. \A i \in 1..Len(ps) + 1 : i \in 1..Len(ps) \/ i = Len(ps) + 1
    BY <2>5
  <2>7. FitFor(Append(ps, plan), es)
    BY <2>1, <2>4, <2>5, <2>6 DEF FitFor
  <2>8. \A i \in DOMAIN Append(ps, plan) : Append(ps, plan)[i].id \in acc.ids \cup {plan.id}
    BY <2>4, <2>5, <2>6
  <2>9. AcceptedFit(next, es)
    BY <2>3, <2>7, <2>8 DEF AcceptedFit
  <2>. QED
    BY <2>9 DEF next, es
<1>. QED
  BY <1>1, <1>2

LEMMA DecisionFits ==
    ASSUME NEW snapshot, snapshot.cycleIndex \in Nat, NEW batch \in Seq(EntryCandidate), NEW now
    PROVE  FitFor(decide(snapshot, batch, now), snapshot.entries)
<1>. DEFINE Unfold(prev, n) == evaluateCandidate(snapshot, prev, batch[n], now)
            Solves(g, N) == g = [n \in 0..N |-> IF n = 0 THEN Accepted ELSE Unfold(g[n - 1], n)]
            F == {N \in Nat : \E g : Solves(g, N)}
            es == snapshot.entries
<1>0. FitFor(<<>>, es)
  BY DEF FitFor
<1>1. 0 \in F
  <2>. DEFINE h == [n \in 0..0 |-> Accepted]
  <2>1. h = [n \in 0..0 |-> IF n = 0 THEN Accepted ELSE Unfold(h[n - 1], n)]
    OBVIOUS
  <2>. HIDE DEF h, Unfold
  <2>. QED
    BY <2>1
<1>2. ASSUME NEW N \in Nat, N \in F PROVE N + 1 \in F
  <2>. HIDE DEF Unfold
  <2>1. PICK g : Solves(g, N)
    BY <1>2
  <2>. DEFINE h == [n \in 0..N + 1 |-> IF n <= N THEN g[n] ELSE Unfold(g[N], N + 1)]
  <2>2. ASSUME NEW n \in 0..N + 1 PROVE h[n] = IF n = 0 THEN Accepted ELSE Unfold(h[n - 1], n)
    <3>1. CASE n <= N
      <4>1. n \in 0..N /\ h[n] = g[n] /\ g[n] = IF n = 0 THEN Accepted ELSE Unfold(g[n - 1], n)
        BY <2>1, <3>1
      <4>2. n # 0 => h[n - 1] = g[n - 1]
        BY <3>1
      <4>. QED
        BY <4>1, <4>2
    <3>2. CASE ~(n <= N)
      <4>1. n = N + 1 /\ n - 1 = N /\ n # 0 /\ N \in 0..N + 1
        BY <3>2
      <4>2. h[N] = g[N] /\ h[n] = Unfold(g[N], N + 1)
        BY <4>1
      <4>. QED
        BY <4>1, <4>2
    <3>. QED
      BY <3>1, <3>2
  <2>3. h = [n \in 0..N + 1 |-> h[n]]
    OBVIOUS
  <2>. HIDE DEF h
  <2>4. Solves(h, N + 1)
    BY <2>2, <2>3
  <2>. QED
    BY <2>4
<1>3. Len(batch) \in F
  <2>. HIDE DEF F
  <2>. QED
    BY <1>1, <1>2, CountUp
<1>. DEFINE after == CHOOSE g : Solves(g, Len(batch))
<1>4. Solves(after, Len(batch))
  <2>. HIDE DEF Solves
  <2>. QED
    BY <1>3
<1>5. decide(snapshot, batch, now) = <<>> \/ decide(snapshot, batch, now) = after[Len(batch)].actions
  BY DEF decide
<1>. HIDE DEF after
<1>6. AcceptedFit(after[Len(batch)], es)
  <2>. DEFINE G == {n \in Nat : n <= Len(batch) => AcceptedFit(after[n], es)}
  <2>1. 0 \in G
    <3>1. after[0] = Accepted
      <4>. HIDE DEF Unfold
      <4>. QED
        BY <1>4
    <3>2. Accepted.actions = <<>>
      BY DEF Accepted
    <3>. QED
      BY <1>0, <3>1, <3>2 DEF AcceptedFit
  <2>2. ASSUME NEW n \in Nat, n \in G PROVE n + 1 \in G
    <3>. SUFFICES ASSUME n + 1 <= Len(batch) PROVE AcceptedFit(after[n + 1], es)
      OBVIOUS
    <3>1. n + 1 \in 0..Len(batch) /\ n + 1 # 0 /\ n + 1 - 1 = n /\ n <= Len(batch)
      OBVIOUS
    <3>2. after[n + 1] = Unfold(after[n], n + 1)
      <4>. HIDE DEF Unfold
      <4>. QED
        BY <1>4, <3>1
    <3>3. AcceptedFit(after[n], es) /\ batch[n + 1] \in EntryCandidate
      BY <2>2, <3>1
    <3>. QED
      BY <3>2, <3>3, AcceptStep
  <2>3. Len(batch) \in G
    <3>. HIDE DEF G
    <3>. QED
      BY <2>1, <2>2, CountUp
  <2>. QED
    BY <2>3
<1>. QED
  BY <1>0, <1>5, <1>6 DEF AcceptedFit

\* The vetoes behind the gates keep a part of the plans.
LEMMA SurvivorsFit ==
    ASSUME NEW actions, NEW now, NEW es, FitFor(actions, es)
    PROVE  FitFor(Surviving(actions, now, es), es)
<1>. DEFINE Vetoed(prev, n) ==
                \/ lifecycleEntryVeto(actions[n].candidate)
                \/ qualificationEntryVeto(actions[n], now, es,
                                          Cardinality(liveEntryLifecycles(es)) + Len(prev))
            Unfold(prev, n) == IF Vetoed(prev, n) THEN prev ELSE Append(prev, actions[n])
            Solves(g, N) == g = [n \in 0..N |-> IF n = 0 THEN <<>> ELSE Unfold(g[n - 1], n)]
            F == {N \in Nat : \E g : Solves(g, N)}
<1>0. /\ actions \in Seq(PlanSet) /\ Len(actions) \in Nat /\ DOMAIN actions = 1..Len(actions)
      /\ \A i, j \in DOMAIN actions : i # j => actions[i].id # actions[j].id
      /\ \A i \in DOMAIN actions : actions[i].id \notin DOMAIN es
  BY DEF FitFor
<1>1. 0 \in F
  <2>. DEFINE h == [n \in 0..0 |-> <<>>]
  <2>1. h = [n \in 0..0 |-> IF n = 0 THEN <<>> ELSE Unfold(h[n - 1], n)]
    OBVIOUS
  <2>. HIDE DEF h, Unfold
  <2>. QED
    BY <2>1
<1>2. ASSUME NEW N \in Nat, N \in F PROVE N + 1 \in F
  <2>. HIDE DEF Unfold
  <2>1. PICK g : Solves(g, N)
    BY <1>2
  <2>. DEFINE h == [n \in 0..N + 1 |-> IF n <= N THEN g[n] ELSE Unfold(g[N], N + 1)]
  <2>2. ASSUME NEW n \in 0..N + 1 PROVE h[n] = IF n = 0 THEN <<>> ELSE Unfold(h[n - 1], n)
    <3>1. CASE n <= N
      <4>1. n \in 0..N /\ h[n] = g[n] /\ g[n] = IF n = 0 THEN <<>> ELSE Unfold(g[n - 1], n)
        BY <2>1, <3>1
      <4>2. n # 0 => h[n - 1] = g[n - 1]
        BY <3>1
      <4>. QED
        BY <4>1, <4>2
    <3>2. CASE ~(n <= N)
      <4>1. n = N + 1 /\ n - 1 = N /\ n # 0 /\ N \in 0..N + 1
        BY <3>2
      <4>2. h[N] = g[N] /\ h[n] = Unfold(g[N], N + 1)
        BY <4>1
      <4>. QED
        BY <4>1, <4>2
    <3>. QED
      BY <3>1, <3>2
  <2>3. h = [n \in 0..N + 1 |-> h[n]]
    OBVIOUS
  <2>. HIDE DEF h
  <2>4. Solves(h, N + 1)
    BY <2>2, <2>3
  <2>. QED
    BY <2>4
<1>3. Len(actions) \in F
  <2>. HIDE DEF F
  <2>. QED
    BY <1>0, <1>1, <1>2, CountUp
<1>. DEFINE kept == CHOOSE g : Solves(g, Len(actions))
<1>4. Solves(kept, Len(actions))
  <2>. HIDE DEF Solves
  <2>. QED
    BY <1>3
<1>5. Surviving(actions, now, es) = kept[Len(actions)]
  BY DEF Surviving
<1>. HIDE DEF kept
<1>. DEFINE Part(ps, n) ==
                /\ FitFor(ps, es)
                /\ \A i \in DOMAIN ps : \E j \in 1..n : ps[i] = actions[j]
<1>6. Part(kept[Len(actions)], Len(actions))
  <2>. DEFINE G == {n \in Nat : n <= Len(actions) => Part(kept[n], n)}
  <2>1. 0 \in G
    <3>1. kept[0] = <<>>
      <4>. HIDE DEF Unfold
      <4>. QED
        BY <1>0, <1>4
    <3>2. FitFor(<<>>, es) /\ DOMAIN <<>> = {}
      BY DEF FitFor
    <3>3. Part(<<>>, 0)
      BY <3>2
    <3>. HIDE DEF Part
    <3>4. Part(kept[0], 0)
      BY <3>1, <3>3
    <3>. QED
      BY <3>4
  <2>2. ASSUME NEW n \in Nat, n \in G PROVE n + 1 \in G
    <3>. SUFFICES ASSUME n + 1 <= Len(actions) PROVE Part(kept[n + 1], n + 1)
      OBVIOUS
    <3>1. n + 1 \in 0..Len(actions) /\ n + 1 # 0 /\ n + 1 - 1 = n /\ n <= Len(actions) /\ n + 1 \in 1..Len(actions)
      BY <1>0
    <3>2. kept[n + 1] = Unfold(kept[n], n + 1)
      <4>. HIDE DEF Unfold
      <4>. QED
        BY <1>4, <3>1
    <3>. DEFINE ps == kept[n]
                plan == actions[n + 1]
    <3>3. Part(ps, n)
      BY <2>2, <3>1
    <3>4. plan \in PlanSet /\ plan.id \notin DOMAIN es /\ \A j \in 1..n : actions[j].id # plan.id
      BY <1>0, <3>1
    <3>5. /\ ps \in Seq(PlanSet) /\ \A i, j \in DOMAIN ps : i # j => ps[i].id # ps[j].id
          /\ \A i \in DOMAIN ps : ps[i].id \notin DOMAIN es
          /\ \A i \in DOMAIN ps : \E j \in 1..n : ps[i] = actions[j]
      BY <3>3 DEF FitFor
    <3>6. kept[n + 1] = ps \/ kept[n + 1] = Append(ps, plan)
      BY <3>2
    <3>. HIDE DEF ps, plan
    <3>7. CASE kept[n + 1] = ps
      BY <3>1, <3>3, <3>7
    <3>8. CASE kept[n + 1] = Append(ps, plan)
      <4>1. /\ Append(ps, plan) \in Seq(PlanSet) /\ DOMAIN Append(ps, plan) = 1..Len(ps) + 1
            /\ DOMAIN ps = 1..Len(ps) /\ Len(ps) \in Nat
            /\ \A i \in 1..Len(ps) : Append(ps, plan)[i] = ps[i]
            /\ Append(ps, plan)[Len(ps) + 1] = plan
        BY <3>4, <3>5
      <4>2. \A i \in 1..Len(ps) + 1 : i \in 1..Len(ps) \/ i = Len(ps) + 1
        BY <4>1
      <4>3. \A i \in 1..Len(ps) : ps[i].id # plan.id
        BY <3>4, <3>5, <4>1
      <4>4. FitFor(Append(ps, plan), es)
        BY <3>4, <3>5, <4>1, <4>2, <4>3 DEF FitFor
      <4>5. \A i \in DOMAIN Append(ps, plan) : \E j \in 1..n + 1 : Append(ps, plan)[i] = actions[j]
        <5>1. \A j \in 1..n : j \in 1..n + 1
          OBVIOUS
        <5>2. n + 1 \in 1..n + 1
          OBVIOUS
        <5>. QED
          BY <3>5, <4>1, <4>2, <5>1, <5>2 DEF plan
      <4>. QED
        BY <3>8, <4>4, <4>5
    <3>. QED
      BY <3>6, <3>7, <3>8
  <2>3. Len(actions) \in G
    <3>. HIDE DEF G
    <3>. QED
      BY <1>0, <2>1, <2>2, CountUp
  <2>. QED
    BY <2>3
<1>. QED
  BY <1>5, <1>6

OfSleeve(es, s) == {id \in DOMAIN es : es[id].candidate.sleeve = s}
OfUnderlying(es, u) == {id \in DOMAIN es : underlyingOf(es[id].candidate) = u}
CapSum(es, S) == SumFunctionOnSet([id \in DOMAIN es |-> CapOf(es[id])], S)

(***************************************************************************)
(* The inductive invariant: the entries of a sleeve, and of an underlying, *)
(* have caps within the budget; a plan is new, or the one whose INTENT is  *)
(* the last thing that happened to its identity.                           *)
(***************************************************************************)
PlansFit ==
    /\ plans \in Seq(PlanSet)
    /\ \A i, j \in DOMAIN plans : i # j => plans[i].id # plans[j].id
    /\ \A i \in DOMAIN plans : plans[i].id \in DOMAIN entries =>
          i = 1 /\ entries[plans[i].id] = Intent(plans[i])
CapsHold(es) ==
    /\ \A s \in Sleeve : CapSum(es, OfSleeve(es, s)) <= config.sleeveBudgetCents[s]
    /\ \A u \in config.underlyingUniverse :
          CapSum(es, OfUnderlying(es, u)) <= config.maxUnderlyingExposureCents
BudgetInv ==
    /\ clock \in Nat
    /\ IsFiniteSet(DOMAIN entries)
    /\ \A id \in DOMAIN entries : SoundEntry(entries[id])
    /\ PlansFit
    /\ CapsHold(entries)

(***************************************************************************)
(* One entry, step by step.                                                *)
(***************************************************************************)
\* An INTENT, and what the answer to its submission makes of it.
Fresh(plan, state, working) ==
    [candidate |-> plan.candidate, reserved |-> plan.reserved, state |-> state, filled |-> 0, price |-> 0,
     broker |-> [working |-> working, filled |-> 0, total |-> 0]]

LEMMA FreshIsSound ==
    ASSUME NEW plan \in PlanSet, NEW state \in Released \cup Live, NEW working \in BOOLEAN,
           state \in Released \cup {"intent"} => ~working
    PROVE  /\ SoundEntry(Fresh(plan, state, working))
           /\ Fresh(plan, state, working).candidate = plan.candidate
           /\ CapOf(Fresh(plan, state, working)) = IF working THEN Reserve(plan.candidate) ELSE 0
           /\ Reserve(plan.candidate) \in Nat
<1>. DEFINE e == Fresh(plan, state, working)
            c == plan.candidate
            share == WorstShare(c.legs, LimitCost(c))
<1>1. c \in Approvable /\ plan.reserved = Reserve(c)
  BY PlanIsOf
<1>2. /\ c \in EntryCandidate /\ Reserve(c) # Undefined /\ c.quantity \in Nat \ {0}
      /\ c.entryLimit.priceCents \in Nat /\ c.legs \in Seq(OptionLegs)
  BY <1>1 DEF Approvable, EntryCandidate
<1>3. Reserve(c) = LotSize * (c.quantity * share) /\ Reserve(c) \in Nat
  BY <1>2, RiskIsShare DEF Reserve, LimitCost
<1>4. LimitCost(c) \in Int /\ share \in Nat
  <2>1. LimitCost(c) \in Int
    BY <1>2 DEF LimitCost, Cost
  <2>. QED
    BY <1>2, <2>1, ShareTyped
<1>5. /\ e.candidate = c /\ e.reserved = Reserve(c) /\ e.state = state /\ e.filled = 0 /\ e.price = 0
      /\ e.broker = [working |-> working, filled |-> 0, total |-> 0]
      /\ e.broker.working = working /\ e.broker.filled = 0 /\ e.broker.total = 0
  BY <1>1 DEF Fresh
<1>6. e \in EntryRecords
  BY <1>1, <1>3 DEF EntryRecords, Fresh
<1>. HIDE DEF e, c, share
<1>7. PaidCost(e) = 0
  <2>1. PaidCost(e) = 0 \/ PaidCost(e) = -0
    BY <1>5 DEF PaidCost, Cost
  <2>2. \A x, y \in Int : x = 0 /\ y = -x => y <= 0 /\ y >= 0
    OBVIOUS
  <2>3. PaidCost(e) \in Int /\ PaidCost(e) <= 0 /\ PaidCost(e) >= 0
    BY <2>1, <2>2
  <2>. QED
    BY <2>3
<1>8. FillCost(e) \in Int
  BY <1>5 DEF FillCost, conservativeRiskFillPrice, Cost, Larger
<1>9. e.filled * FillCost(e) + (e.broker.filled - e.filled) * LimitCost(c) = 0 /\ e.broker.filled * LimitCost(c) = 0
  BY <1>4, <1>5, <1>8
<1>10. SoundEntry(e)
  <2>1. e.state \in Released \cup {"intent"} => e.broker = Unsent
    BY <1>5 DEF Unsent
  <2>2. e.state # "filled"
    BY <1>5 DEF Released, Live
  <2>. QED
    BY <1>2, <1>5, <1>6, <1>7, <1>9, <2>1, <2>2 DEF SoundEntry
<1>11. Floor(c.legs) \in Int
  BY <1>2, FloorIsLowest
<1>12. CapOf(e) = LotSize * Larger(0, Resting(e) * share)
  <2>1. PaidCost(e) - e.broker.filled * Floor(c.legs) = 0
    BY <1>5, <1>7, <1>11
  <2>2. Resting(e) * share \in Int
    BY <1>2, <1>4, <1>5 DEF Resting
  <2>3. 0 + Resting(e) * share = Resting(e) * share
    BY <2>2
  <2>. QED
    BY <1>5, <2>1, <2>3 DEF CapOf, share
<1>13. CASE working
  <2>1. Resting(e) = c.quantity
    BY <1>2, <1>5, <1>13 DEF Resting
  <2>2. Larger(0, c.quantity * share) = c.quantity * share
    BY <1>2, <1>4 DEF Larger
  <2>. QED
    BY <1>3, <1>5, <1>10, <1>12, <1>13, <2>1, <2>2 DEF e, c
<1>14. CASE ~working
  <2>1. Resting(e) * share = 0
    BY <1>4, <1>5, <1>14 DEF Resting
  <2>2. CapOf(e) = 0
    BY <1>12, <2>1, StructuresAssumption DEF Larger
  <2>. QED
    BY <1>3, <1>5, <1>10, <1>14, <2>2 DEF e, c
<1>. QED
  BY <1>13, <1>14

LEMMA IntentIsFresh ==
    ASSUME NEW plan
    PROVE  Intent(plan) = Fresh(plan, "intent", FALSE)
BY DEF Intent, Fresh, Unsent

\* What the journal learns of an order in a reconciliation changes neither the order nor
\* what it can cost: an average rounded to the cent, and one cent worse, covers the fills.
LEMMA AverageCovers ==
    ASSUME NEW F \in Nat \ {0}, NEW T \in Nat
    PROVE  LET average == (2 * T + F) \div (2 * F)
           IN  average \in Nat /\ T <= F * (average + 1) /\ F * (average - 1) <= T
<1>. DEFINE average == (2 * T + F) \div (2 * F)
<1>1. \A a \in Nat, b \in Nat \ {0} : a \div b \in Nat /\ b * (a \div b) <= a /\ a < b * (a \div b) + b
  OBVIOUS
<1>2. 2 * T + F \in Nat /\ 2 * F \in Nat \ {0}
  OBVIOUS
<1>3. average \in Nat /\ (2 * F) * average <= 2 * T + F /\ 2 * T + F < (2 * F) * average + 2 * F
  BY <1>1, <1>2
<1>. HIDE DEF average
<1>4. F * average \in Nat /\ (2 * F) * average = 2 * (F * average)
      /\ F * (average + 1) = F * average + F /\ F * (average - 1) = F * average - F
  BY <1>3
<1>5. \A x, t, f \in Nat : 2 * x <= 2 * t + f /\ 2 * t + f < 2 * x + 2 * f => t <= x + f /\ x - f <= t
  OBVIOUS
<1>. QED
  BY <1>3, <1>4, <1>5 DEF average

LEMMA ReconciledIsSound ==
    ASSUME NEW e, SoundEntry(e)
    PROVE  SoundEntry(Reconciled(e)) /\ Reconciled(e).candidate = e.candidate /\ CapOf(Reconciled(e)) = CapOf(e)
<1>. DEFINE F == e.broker.filled
            price == IF F = 0 THEN 0 ELSE AverageCents(e.broker)
            seen == [e EXCEPT !.filled = F, !.price = price]
            ended == IF F > 0 THEN "filled" ELSE "canceled"
            closed == [seen EXCEPT !.state = ended]
            r == Reconciled(e)
            kind == e.candidate.entryLimit.kind
            L == LimitCost(e.candidate)
<1>1. /\ e \in EntryRecords /\ F \in Nat /\ e.broker.total \in Nat /\ kind \in {"debit", "credit"} /\ L \in Int
      /\ PaidCost(e) \in Int /\ PaidCost(e) <= F * L /\ F <= e.candidate.quantity
      /\ e.broker.working => F < e.candidate.quantity
      /\ e.state \in Released \cup {"intent"} => e.broker = Unsent
      /\ e.reserved = Reserve(e.candidate) /\ (F = 0 => e.broker.total = 0)
  BY EntryTyped DEF SoundEntry
<1>2. \/ r = e
      \/ e.state \in {"fillable", "confirmation_unclear"} /\ e.broker.working /\ r = seen
      \/ e.state \in {"fillable", "confirmation_unclear"} /\ ~e.broker.working /\ r = closed
  <2>. DEFINE kept == e.state \notin {"fillable", "confirmation_unclear"} \/ e.broker = Unsent
  <2>1. r = CASE kept -> e [] e.broker.working -> seen [] OTHER -> closed
    BY DEF Reconciled
  <2>. HIDE DEF seen, closed, r
  <2>2. CASE kept
    <3>1. ~e.broker.working
      BY <1>1, <2>2 DEF Unsent, SoundEntry, EntryRecords, Live, Released
    <3>. HIDE DEF kept
    <3>. QED
      BY <2>1, <2>2, <3>1
  <2>3. CASE ~kept
    BY <2>1, <2>3
  <2>. QED
    BY <2>2, <2>3
<1>3. price \in Nat /\ PaidCost(e) <= F * Cost(kind, conservativeRiskFillPrice(kind, price))
  <2>1. CASE F = 0
    <3>1. PaidCost(e) <= 0
      <4>1. F * L = 0
        BY <1>1, <2>1
      <4>. QED
        BY <1>1, <4>1
    <3>2. Cost(kind, conservativeRiskFillPrice(kind, 0)) \in Int
      BY DEF Cost, conservativeRiskFillPrice, Larger
    <3>. HIDE DEF kind
    <3>3. F * Cost(kind, conservativeRiskFillPrice(kind, 0)) = 0
      BY <2>1, <3>2
    <3>. QED
      BY <2>1, <3>1, <3>3
  <2>2. CASE F # 0
    <3>. DEFINE a == AverageCents(e.broker)
                T == e.broker.total
    <3>1. a \in Nat /\ T <= F * (a + 1) /\ F * (a - 1) <= T
      BY <1>1, <2>2, AverageCovers DEF AverageCents
    <3>2. PaidCost(e) = IF kind = "debit" THEN T ELSE -T
      BY DEF PaidCost, Cost
    <3>3. price = a
      BY <2>2
    <3>. HIDE DEF a, T, F, kind, price
    <3>4. CASE kind = "debit"
      BY <3>1, <3>2, <3>3, <3>4 DEF conservativeRiskFillPrice, Cost
    <3>5. CASE kind = "credit"
      <4>1. Cost(kind, conservativeRiskFillPrice(kind, price)) = -Larger(a - 1, 0)
        BY <3>3, <3>5 DEF conservativeRiskFillPrice, Cost
      <4>2. F * Larger(a - 1, 0) <= T /\ F * Larger(a - 1, 0) \in Int
        BY <1>1, <3>1 DEF Larger, T
      <4>3. F * (-Larger(a - 1, 0)) = -(F * Larger(a - 1, 0))
        BY <1>1, <3>1 DEF Larger
      <4>. QED
        BY <1>1, <3>1, <3>2, <3>3, <3>5, <4>1, <4>2, <4>3 DEF T
    <3>. QED
      BY <1>1, <3>4, <3>5
  <2>. QED
    BY <2>1, <2>2
<1>4. ASSUME NEW k, k \in EntryRecords, k.candidate = e.candidate, k.broker = e.broker, k.filled = F,
             k.price = price, k.reserved = e.reserved,
             k.state \in Released \cup {"intent"} => k.broker = Unsent,
             k.state = "filled" => ~k.broker.working
      PROVE  SoundEntry(k)
  <2>1. FillCost(k) = Cost(kind, conservativeRiskFillPrice(kind, price)) /\ PaidCost(k) = PaidCost(e)
    BY <1>4 DEF FillCost, PaidCost
  <2>2. FillCost(k) \in Int
    BY <1>3, <2>1 DEF Cost, conservativeRiskFillPrice, Larger
  <2>. HIDE DEF price, F, kind, L
  <2>3. k.broker.filled = F /\ (k.broker.filled - k.filled) * L = 0
    BY <1>1, <1>4 DEF F
  <2>4. F * FillCost(k) \in Int /\ F * FillCost(k) + 0 = F * FillCost(k)
    BY <1>1, <2>2
  <2>5. PaidCost(k) <= k.filled * FillCost(k) + (k.broker.filled - k.filled) * L
    BY <1>3, <1>4, <2>1, <2>3, <2>4
  <2>. QED
    BY <1>1, <1>4, <2>1, <2>3, <2>5 DEF SoundEntry, L, F
<1>5. ASSUME NEW k, k.candidate = e.candidate, k.broker = e.broker
      PROVE  CapOf(k) = CapOf(e)
  BY <1>5 DEF CapOf, PaidCost, Resting
<1>6. /\ seen.candidate = e.candidate /\ seen.broker = e.broker /\ seen.filled = F /\ seen.price = price
      /\ seen.reserved = e.reserved /\ seen.state = e.state /\ seen \in EntryRecords
  <2>. HIDE DEF F, price
  <2>. QED
    BY <1>1, <1>3 DEF EntryRecords
<1>7. /\ closed.candidate = e.candidate /\ closed.broker = e.broker /\ closed.filled = F /\ closed.price = price
      /\ closed.reserved = e.reserved /\ closed.state = ended /\ closed \in EntryRecords
  <2>1. ended \in Released \cup Live \cup {"filled"}
    BY DEF Released
  <2>. HIDE DEF F, price, ended
  <2>. QED
    BY <1>1, <1>3, <2>1 DEF EntryRecords
<1>8. CASE r = e
  BY <1>8
<1>9. CASE e.state \in {"fillable", "confirmation_unclear"} /\ e.broker.working /\ r = seen
  <2>1. SoundEntry(seen)
    BY <1>4, <1>6, <1>9, ZenonT(40) DEF Released
  <2>. QED
    BY <1>5, <1>6, <1>9, <2>1
<1>10. CASE e.state \in {"fillable", "confirmation_unclear"} /\ ~e.broker.working /\ r = closed
  <2>1. closed.state \in Released \cup {"intent"} => closed.broker = Unsent
    <3>1. SUFFICES ASSUME F = 0 PROVE e.broker = Unsent
      BY <1>1, <1>7 DEF Released
    <3>2. e.broker.total = 0
      BY <3>1 DEF SoundEntry
    <3>. QED
      BY <1>1, <1>10, <3>1, <3>2 DEF EntryRecords, Unsent
  <2>2. SoundEntry(closed)
    BY <1>4, <1>7, <1>10, <2>1
  <2>. QED
    BY <1>5, <1>7, <1>10, <2>2
<1>. QED
  BY <1>2, <1>8, <1>9, <1>10

LEMMA LotsGrow ==
    ASSUME NEW x \in Int, NEW y \in Int, x <= y
    PROVE  LotSize * Larger(0, x) <= LotSize * Larger(0, y)
<1>1. Larger(0, x) \in Nat /\ Larger(0, y) \in Nat /\ Larger(0, x) <= Larger(0, y)
  BY DEF Larger
<1>2. \A l, a, b \in Nat : a <= b => l * a <= l * b
  OBVIOUS
<1>. QED
  BY <1>1, <1>2, StructuresAssumption

\* A lot is filled at the limit or better: its cost was in the cap.
LEMMA FillIsSound ==
    ASSUME NEW e, SoundEntry(e), e.broker.working, NEW price,
           price \in {e.candidate.entryLimit.priceCents,
                      IF e.candidate.entryLimit.kind = "debit" THEN Larger(e.candidate.entryLimit.priceCents - 1, 0)
                      ELSE e.candidate.entryLimit.priceCents + 1},
           NEW working \in BOOLEAN, working <=> e.broker.filled + 1 < e.candidate.quantity,
           NEW k, k = [e EXCEPT !.broker = [working |-> working, filled |-> e.broker.filled + 1,
                                            total |-> e.broker.total + price]]
    PROVE  SoundEntry(k) /\ k.candidate = e.candidate /\ CapOf(k) <= CapOf(e)
<1>. DEFINE F == e.broker.filled
            f == e.filled
            T == e.broker.total
            c == e.candidate
            q == c.quantity
            kind == c.entryLimit.kind
            limit == c.entryLimit.priceCents
            L == LimitCost(c)
            P == FillCost(e)
            m == Floor(c.legs)
            share == WorstShare(c.legs, L)
            cost == Cost(kind, price)
            A == PaidCost(e)
<1>1. /\ e \in EntryRecords /\ F \in Nat /\ f \in Nat /\ T \in Nat /\ q \in Nat \ {0} /\ kind \in {"debit", "credit"}
      /\ L \in Int /\ P \in Int /\ m \in Int /\ share \in Nat /\ A \in Int /\ limit \in Nat
      /\ f <= F /\ F < q /\ A <= f * P + (F - f) * L /\ A <= F * L /\ L - m <= share
      /\ e.state \notin Released \cup {"intent"} /\ e.state # "filled" /\ e.reserved = Reserve(c)
      /\ e.state \in Released \cup Live \cup {"filled"} /\ (working <=> F + 1 < q)
  <2>1. e.state \notin Released \cup {"intent"} /\ e.state # "filled"
    BY DEF SoundEntry, Unsent
  <2>2. L - m <= share
    BY EntryTyped, ShareTyped
  <2>. QED
    BY <2>1, <2>2, EntryTyped DEF SoundEntry, EntryRecords
<1>2. price \in Nat /\ cost \in Int /\ cost <= L
  BY <1>1 DEF Cost, LimitCost, Larger
<1>. DEFINE broker == [working |-> working, filled |-> F + 1, total |-> T + price]
<1>3. /\ k.candidate = c /\ k.reserved = e.reserved /\ k.state = e.state /\ k.filled = f /\ k.price = e.price
      /\ k.broker = broker /\ k.broker.working = working /\ k.broker.filled = F + 1 /\ k.broker.total = T + price
  <2>1. k = [e EXCEPT !.broker = broker] /\ broker.working = working /\ broker.filled = F + 1 /\ broker.total = T + price
    OBVIOUS
  <2>. HIDE DEF broker
  <2>. QED
    BY <1>1, <2>1 DEF EntryRecords
<1>4. k \in EntryRecords
  <2>1. broker \in [working : BOOLEAN, filled : Nat, total : Nat] /\ k = [e EXCEPT !.broker = broker]
    BY <1>1, <1>2
  <2>. HIDE DEF broker
  <2>. QED
    BY <1>1, <2>1 DEF EntryRecords
<1>5. PaidCost(k) = A + cost
  <2>1. A = (IF kind = "debit" THEN T ELSE -T) /\ cost = (IF kind = "debit" THEN price ELSE -price)
    BY DEF PaidCost, Cost
  <2>2. PaidCost(k) = IF kind = "debit" THEN T + price ELSE -(T + price)
    BY <1>3 DEF PaidCost, Cost
  <2>. HIDE DEF A, cost, T, kind
  <2>. QED
    BY <1>1, <1>2, <2>1, <2>2
<1>6. FillCost(k) = P
  BY <1>3 DEF FillCost
<1>7. A + cost <= f * P + (F + 1 - f) * L /\ A + cost <= (F + 1) * L
  <2>. HIDE DEF A, cost, F, f, P, L
  <2>1. (F + 1 - f) * L = (F - f) * L + L /\ (F + 1) * L = F * L + L /\ (F - f) * L \in Int /\ F * L \in Int /\ f * P \in Int
    <3>1. \A x, y, z, l, p \in Int : /\ (x + 1 - y) * l = (x - y) * l + l /\ (x + 1) * l = x * l + l
                                   /\ (x - y) * l \in Int /\ x * l \in Int /\ y * p \in Int
      OBVIOUS
    <3>. QED
      BY <1>1, <3>1
  <2>. QED
    BY <1>1, <1>2, <2>1
<1>8. SoundEntry(k)
  <2>1. F + 1 # 0 /\ f <= F + 1 /\ F + 1 <= q
    BY <1>1
  <2>2. k.broker.working => k.broker.filled < q
    BY <1>3
  <2>3. PaidCost(k) <= k.filled * FillCost(k) + (k.broker.filled - k.filled) * LimitCost(k.candidate)
    <3>1. k.filled = f /\ k.broker.filled = F + 1 /\ LimitCost(k.candidate) = L
      BY <1>3
    <3>. HIDE DEF A, cost, F, f, P, L
    <3>. QED
      BY <1>1, <1>2, <1>5, <1>6, <1>7, <3>1
  <2>4. PaidCost(k) <= k.broker.filled * LimitCost(k.candidate)
    BY <1>3, <1>5, <1>7
  <2>5. k.filled <= k.broker.filled /\ k.broker.filled <= k.candidate.quantity /\ k.broker.filled # 0
        /\ (k.broker.working => k.broker.filled < k.candidate.quantity)
    BY <1>3, <2>1, <2>2
  <2>6. k.reserved = Reserve(k.candidate) /\ k.state \notin Released \cup {"intent"} /\ k.state # "filled"
    BY <1>1, <1>3
  <2>. HIDE DEF A, cost, F, f, P, L, c, q
  <2>. QED
    BY <1>4, <2>3, <2>4, <2>5, <2>6 DEF SoundEntry
<1>. DEFINE r == Resting(e)
            s == Resting(k)
<1>9. r = q - F /\ s = q - F - 1
  <2>1. r = q - F
    BY DEF Resting
  <2>2. s = IF working THEN q - (F + 1) ELSE 0
    BY <1>3 DEF Resting
  <2>. HIDE DEF r, s, q, F
  <2>. QED
    BY <1>1, <2>1, <2>2
<1>10. (A + cost) - (F + 1) * m + s * share <= A - F * m + r * share
  <2>. HIDE DEF A, cost, F, m, share, r, s, q
  <2>1. (F + 1) * m = F * m + m /\ F * m \in Int
    <3>1. \A x, y \in Int : (x + 1) * y = x * y + y /\ x * y \in Int
      OBVIOUS
    <3>. QED
      BY <1>1, <3>1
  <2>2. r = s + 1 /\ s \in Nat
    BY <1>1, <1>9
  <2>3. r * share = s * share + share /\ s * share \in Int
    <3>1. \A b, n \in Nat : (b + 1) * n = b * n + n /\ b * n \in Int
      OBVIOUS
    <3>. QED
      BY <1>1, <2>2, <3>1
  <2>. QED
    BY <1>1, <1>2, <2>1, <2>3
<1>11. (A + cost) - (F + 1) * m + s * share \in Int /\ A - F * m + r * share \in Int
  <2>. HIDE DEF A, cost, F, m, share, r, s, q
  <2>1. F * m \in Int /\ (F + 1) * m \in Int /\ s * share \in Int /\ r * share \in Int
    BY <1>1, <1>9
  <2>. QED
    BY <1>1, <1>2, <2>1
<1>12. CapOf(e) = LotSize * Larger(0, A - F * m + r * share)
  BY DEF CapOf
<1>13. CapOf(k) = LotSize * Larger(0, (A + cost) - (F + 1) * m + s * share)
  <2>. DEFINE Cap(paid, filled, of) ==
                LotSize * Larger(0, paid - filled * Floor(of.legs)
                                      + Resting(k) * WorstShare(of.legs, LimitCost(of)))
  <2>1. CapOf(k) = Cap(PaidCost(k), k.broker.filled, k.candidate)
    BY DEF CapOf
  <2>2. k.broker.filled = F + 1 /\ k.candidate = c /\ PaidCost(k) = A + cost
    BY <1>3, <1>5
  <2>. HIDE DEF F, A, cost, c
  <2>3. Cap(A + cost, F + 1, c) = LotSize * Larger(0, (A + cost) - (F + 1) * m + s * share)
    OBVIOUS
  <2>. HIDE DEF Cap
  <2>4. CapOf(k) = Cap(A + cost, F + 1, c)
    BY <2>1, <2>2
  <2>. QED
    BY <2>3, <2>4
<1>. HIDE DEF A, cost, F, m, share, r, s
<1>. QED
  BY <1>3, <1>8, <1>10, <1>11, <1>12, <1>13, LotsGrow

LEMMA EndIsSound ==
    ASSUME NEW e, SoundEntry(e), e.broker.working, NEW k, k = [e EXCEPT !.broker.working = FALSE]
    PROVE  SoundEntry(k) /\ k.candidate = e.candidate /\ CapOf(k) <= CapOf(e)
<1>. DEFINE c == e.candidate
            share == WorstShare(c.legs, LimitCost(c))
            x == PaidCost(e) - e.broker.filled * Floor(c.legs)
<1>1. e \in EntryRecords /\ e.state \notin Released \cup {"intent"}
  BY DEF SoundEntry, Unsent
<1>2. /\ k.candidate = c /\ k.reserved = e.reserved /\ k.state = e.state /\ k.filled = e.filled /\ k.price = e.price
      /\ k.broker.working = FALSE /\ k.broker.filled = e.broker.filled /\ k.broker.total = e.broker.total
      /\ k \in EntryRecords
  BY <1>1 DEF EntryRecords
<1>3. PaidCost(k) = PaidCost(e) /\ FillCost(k) = FillCost(e)
  BY <1>2 DEF PaidCost, FillCost
<1>4. SoundEntry(k)
  BY <1>1, <1>2, <1>3 DEF SoundEntry
<1>5. x \in Int /\ Resting(e) * share \in Nat /\ share \in Nat
  <2>1. x \in Int
    BY EntryTyped
  <2>2. Resting(e) \in Nat /\ share \in Nat
    BY EntryTyped
  <2>. HIDE DEF share, x
  <2>. QED
    BY <2>1, <2>2
<1>6. CapOf(e) = LotSize * Larger(0, x + Resting(e) * share)
  BY DEF CapOf
<1>7. CapOf(k) = LotSize * Larger(0, x + 0)
  <2>1. Resting(k) * share = 0
    BY <1>2, <1>5 DEF Resting
  <2>. QED
    BY <1>2, <1>3, <2>1 DEF CapOf
<1>. HIDE DEF x, share
<1>8. x + 0 \in Int /\ x + Resting(e) * share \in Int /\ x + 0 <= x + Resting(e) * share
  BY <1>5
<1>. QED
  BY <1>2, <1>4, <1>6, <1>7, <1>8, LotsGrow

(***************************************************************************)
(* The entries together.                                                   *)
(***************************************************************************)
\* Where no cap rises, no budget is exceeded.
LEMMA CapsKept ==
    ASSUME NEW es, NEW fs, DOMAIN fs = DOMAIN es, IsFiniteSet(DOMAIN es), CapsHold(es),
           config \in DecisionConfig,
           \A id \in DOMAIN es : /\ SoundEntry(es[id]) /\ SoundEntry(fs[id])
                                 /\ fs[id].candidate = es[id].candidate
                                 /\ CapOf(fs[id]) <= CapOf(es[id])
    PROVE  CapsHold(fs)
<1>. DEFINE before == [id \in DOMAIN es |-> CapOf(es[id])]
            now == [id \in DOMAIN fs |-> CapOf(fs[id])]
<1>1. \A S \in SUBSET DOMAIN es : /\ CapSum(fs, S) <= CapSum(es, S)
                                  /\ CapSum(fs, S) \in Int /\ CapSum(es, S) \in Int
  <2>. TAKE S \in SUBSET DOMAIN es
  <2>1. IsFiniteSet(S)
    BY FS_Subset
  <2>2. \A id \in S : now[id] \in Int /\ before[id] \in Int /\ now[id] <= before[id]
    BY CapTyped
  <2>3. CapSum(fs, S) = SumFunctionOnSet(now, S) /\ CapSum(es, S) = SumFunctionOnSet(before, S)
    BY DEF CapSum
  <2>. HIDE DEF now, before
  <2>4. SumFunctionOnSet(now, S) <= SumFunctionOnSet(before, S)
    BY <2>1, <2>2, SumMonotone
  <2>5. SumFunctionOnSet(now, S) \in Int /\ SumFunctionOnSet(before, S) \in Int
    BY <2>1, <2>2, SumRemove
  <2>. QED
    BY <2>3, <2>4, <2>5
<1>2. \A s : OfSleeve(fs, s) = OfSleeve(es, s) /\ OfSleeve(es, s) \in SUBSET DOMAIN es
  BY DEF OfSleeve
<1>3. \A u : OfUnderlying(fs, u) = OfUnderlying(es, u) /\ OfUnderlying(es, u) \in SUBSET DOMAIN es
  BY DEF OfUnderlying
<1>4. (\A s \in Sleeve : config.sleeveBudgetCents[s] \in Int) /\ config.maxUnderlyingExposureCents \in Int
  BY DEF DecisionConfig
<1>. QED
  BY <1>1, <1>2, <1>3, <1>4 DEF CapsHold

\* An INTENT is an entry of no cost yet.
LEMMA CapsOfIntent ==
    ASSUME NEW es, IsFiniteSet(DOMAIN es), CapsHold(es), \A id \in DOMAIN es : SoundEntry(es[id]),
           NEW new, new \notin DOMAIN es, NEW plan \in PlanSet,
           NEW fs, fs = [id \in DOMAIN es \cup {new} |-> IF id = new THEN Intent(plan) ELSE es[id]]
    PROVE  /\ IsFiniteSet(DOMAIN fs) /\ CapsHold(fs) /\ \A id \in DOMAIN fs : SoundEntry(fs[id])
<1>. DEFINE before == [id \in DOMAIN es |-> CapOf(es[id])]
            now == [id \in DOMAIN fs |-> CapOf(fs[id])]
<1>1. SoundEntry(Intent(plan)) /\ CapOf(Intent(plan)) = 0
  BY FreshIsSound, IntentIsFresh DEF Live
<1>2. /\ DOMAIN fs = DOMAIN es \cup {new} /\ fs[new] = Intent(plan)
      /\ \A id \in DOMAIN es : id # new /\ fs[id] = es[id]
  OBVIOUS
<1>3. IsFiniteSet(DOMAIN fs)
  BY <1>2, FS_AddElement
<1>4. \A id \in DOMAIN fs : SoundEntry(fs[id]) /\ now[id] \in Int
  BY <1>1, <1>2, CapTyped
<1>5. ASSUME NEW S \in SUBSET DOMAIN fs
      PROVE  CapSum(fs, S) = CapSum(es, S \ {new})
  <2>. DEFINE R == S \ {new}
  <2>1. IsFiniteSet(S) /\ IsFiniteSet(R) /\ R \in SUBSET DOMAIN es
    BY <1>2, <1>3, <1>5, FS_Subset
  <2>2. CapSum(fs, S) = SumFunctionOnSet(now, S) /\ CapSum(es, R) = SumFunctionOnSet(before, R)
    BY DEF CapSum
  <2>3. \A id \in R : before[id] = now[id] /\ now[id] \in Int
    BY <1>2, <1>4, <2>1
  <2>4. now[new] = 0
    BY <1>1, <1>2
  <2>5. \A id \in S : now[id] \in Int
    BY <1>4, <1>5
  <2>. HIDE DEF now, before
  <2>6. SumFunctionOnSet(now, R) = SumFunctionOnSet(before, R)
    <3>1. \A id \in R : now[id] \in Int /\ before[id] \in Int /\ now[id] <= before[id] /\ before[id] <= now[id]
      BY <2>3
    <3>. HIDE DEF R
    <3>2. SumFunctionOnSet(now, R) <= SumFunctionOnSet(before, R) /\ SumFunctionOnSet(before, R) <= SumFunctionOnSet(now, R)
      BY <2>1, <3>1, SumMonotone
    <3>3. SumFunctionOnSet(now, R) \in Int /\ SumFunctionOnSet(before, R) \in Int
      BY <2>1, <3>1, SumRemove
    <3>. QED
      BY <3>2, <3>3
  <2>7. SumFunctionOnSet(now, S) = SumFunctionOnSet(now, R)
    <3>1. CASE new \in S
      <4>1. SumFunctionOnSet(now, S) = now[new] + SumFunctionOnSet(now, R)
        BY <2>1, <2>5, <3>1, SumRemove
      <4>2. SumFunctionOnSet(now, R) \in Int
        <5>1. \A id \in R : now[id] \in Int
          BY <2>5
        <5>. HIDE DEF R
        <5>. QED
          BY <2>1, <5>1, SumRemove
      <4>. QED
        BY <2>4, <4>1, <4>2
    <3>2. CASE new \notin S
      <4>1. R = S
        BY <3>2
      <4>. QED
        BY <4>1
    <3>. QED
      BY <3>1, <3>2
  <2>. QED
    BY <2>2, <2>6, <2>7
<1>6. \A s : OfSleeve(fs, s) \in SUBSET DOMAIN fs /\ OfSleeve(fs, s) \ {new} = OfSleeve(es, s)
  BY <1>2 DEF OfSleeve
<1>7. \A u : OfUnderlying(fs, u) \in SUBSET DOMAIN fs /\ OfUnderlying(fs, u) \ {new} = OfUnderlying(es, u)
  BY <1>2 DEF OfUnderlying
<1>8. CapsHold(fs)
  <2>1. \A S \in SUBSET DOMAIN fs : CapSum(fs, S) = CapSum(es, S \ {new})
    BY <1>5
  <2>. QED
    BY <1>6, <1>7, <2>1 DEF CapsHold
<1>. QED
  BY <1>3, <1>4, <1>8

\* Gates 1 to 4 with nothing accepted beside it: what is counted and this candidate.
LEMMA PassedFits ==
    ASSUME NEW snapshot, NEW c \in EntryCandidate, NEW now, config \in DecisionConfig,
           \A g \in {"G1", "G2", "G3", "G4"} : gateVector(snapshot, Accepted, c, now)[g]
    PROVE  /\ Reserve(c) # Undefined
           /\ riskBySleeve(snapshot.entries, c.sleeve) + 0 + Reserve(c) <= config.sleeveBudgetCents[c.sleeve]
           /\ underlyingOf(c) \in config.underlyingUniverse =>
                 riskByUnderlying(snapshot.entries, underlyingOf(c)) + 0 + Reserve(c)
                    <= config.maxUnderlyingExposureCents
<1>. DEFINE gates == gateVector(snapshot, Accepted, c, now)
<1>1. /\ gates["G1"] = (Reserve(c) # Undefined)
      /\ gates["G2"] = (Reserve(c) # Undefined /\ WithinBudget(snapshot, Accepted, c, Reserve(c)))
      /\ gates["G4"] = (Reserve(c) # Undefined /\ WithinConcentration(snapshot, Accepted, c, Reserve(c)))
  BY DEF gateVector, Reserve
<1>2. gates["G1"] /\ gates["G2"] /\ gates["G4"]
  OBVIOUS
<1>. HIDE DEF gates
<1>3. Reserve(c) # Undefined /\ WithinBudget(snapshot, Accepted, c, Reserve(c))
      /\ WithinConcentration(snapshot, Accepted, c, Reserve(c))
  BY <1>1, <1>2
<1>4. c.sleeve \in Sleeve
  BY DEF EntryCandidate
<1>5. Accepted.sleeve[c.sleeve] = 0
  BY <1>4 DEF Accepted
<1>6. underlyingOf(c) \in config.underlyingUniverse => Accepted.underlying[underlyingOf(c)] = 0
  BY DEF Accepted
<1>7. riskBySleeve(snapshot.entries, c.sleeve) + 0 + Reserve(c) <= config.sleeveBudgetCents[c.sleeve]
  BY <1>3, <1>5 DEF WithinBudget
<1>8. underlyingOf(c) \in config.underlyingUniverse =>
         riskByUnderlying(snapshot.entries, underlyingOf(c)) + 0 + Reserve(c) <= config.maxUnderlyingExposureCents
  BY <1>3, <1>6 DEF WithinConcentration
<1>. QED
  BY <1>3, <1>7, <1>8

\* Among the entries of S, one whose risk is counted in full is replaced by one whose cap
\* the budget still had room for.
LEMMA SubmittedFits ==
    ASSUME NEW es, NEW fs, DOMAIN fs = DOMAIN es, IsFiniteSet(DOMAIN es), exposureLifecyclesFrom(es),
           \A id \in DOMAIN es : SoundEntry(es[id]) /\ SoundEntry(fs[id]),
           NEW new \in DOMAIN es, \A id \in DOMAIN es : id # new => fs[id] = es[id],
           NEW risk \in Nat, CapOf(fs[new]) <= risk,
           NEW S \in SUBSET DOMAIN es, new \in S, NEW budget \in Nat,
           SumFunctionOnSet([id \in DOMAIN es |-> countedRisk(es[id])], S) + 0 + risk <= budget
    PROVE  CapSum(fs, S) <= budget
<1>. DEFINE counted == [id \in DOMAIN es |-> countedRisk(es[id])]
            caps == [id \in DOMAIN fs |-> CapOf(fs[id])]
            R == S \ {new}
<1>1. \A id \in DOMAIN es : countedRisk(es[id]) \in Nat /\ CapOf(es[id]) <= countedRisk(es[id])
  BY CountedCoversCap DEF exposureLifecyclesFrom
<1>2. \A id \in DOMAIN es : CapOf(fs[id]) \in Nat
  BY CapTyped
<1>3. \A id \in S : counted[id] \in Int /\ counted[id] >= 0 /\ caps[id] \in Int
  BY <1>1, <1>2
<1>4. \A id \in R : counted[id] \in Int /\ caps[id] \in Int /\ caps[id] <= counted[id]
  BY <1>1, <1>2
<1>5. caps[new] <= risk
  OBVIOUS
<1>6. IsFiniteSet(S) /\ IsFiniteSet(R)
  BY FS_Subset
<1>7. CapSum(fs, S) = SumFunctionOnSet(caps, S)
  BY DEF CapSum
<1>8. SumFunctionOnSet(counted, S) + 0 + risk <= budget
  OBVIOUS
<1>. HIDE DEF counted, caps
<1>9. SumFunctionOnSet(caps, S) = caps[new] + SumFunctionOnSet(caps, R)
  BY <1>3, <1>6, SumRemove
<1>10. SumFunctionOnSet(counted, S) = counted[new] + SumFunctionOnSet(counted, R)
  BY <1>3, <1>6, SumRemove
<1>. HIDE DEF R
<1>11. SumFunctionOnSet(caps, R) <= SumFunctionOnSet(counted, R)
  BY <1>4, <1>6, SumMonotone
<1>12. SumFunctionOnSet(caps, R) \in Int /\ SumFunctionOnSet(counted, R) \in Int
  BY <1>4, <1>6, SumRemove
<1>. QED
  BY <1>3, <1>5, <1>7, <1>8, <1>9, <1>10, <1>11, <1>12

\* Among entries the new one is not of, nothing changes.
LEMMA OthersFit ==
    ASSUME NEW es, NEW fs, DOMAIN fs = DOMAIN es, IsFiniteSet(DOMAIN es),
           \A id \in DOMAIN es : SoundEntry(es[id]) /\ SoundEntry(fs[id]),
           NEW S \in SUBSET DOMAIN es, \A id \in S : fs[id] = es[id], NEW budget \in Nat, CapSum(es, S) <= budget
    PROVE  CapSum(fs, S) <= budget
<1>. DEFINE before == [id \in DOMAIN es |-> CapOf(es[id])]
            now == [id \in DOMAIN fs |-> CapOf(fs[id])]
<1>1. \A id \in S : now[id] \in Int /\ before[id] \in Int /\ now[id] <= before[id]
  BY CapTyped
<1>2. CapSum(fs, S) = SumFunctionOnSet(now, S) /\ CapSum(es, S) = SumFunctionOnSet(before, S)
  BY DEF CapSum
<1>3. IsFiniteSet(S)
  BY FS_Subset
<1>. HIDE DEF now, before
<1>4. SumFunctionOnSet(now, S) <= SumFunctionOnSet(before, S)
  BY <1>1, <1>3, SumMonotone
<1>5. SumFunctionOnSet(now, S) \in Int /\ SumFunctionOnSet(before, S) \in Int
  BY <1>1, <1>3, SumRemove
<1>. QED
  BY <1>2, <1>4, <1>5

\* The revalidation before the submission makes room for the order that leaves.
LEMMA CapsOfSubmission ==
    ASSUME NEW es, IsFiniteSet(DOMAIN es), CapsHold(es), exposureLifecyclesFrom(es), config \in DecisionConfig,
           NEW fs, DOMAIN fs = DOMAIN es, \A id \in DOMAIN es : SoundEntry(es[id]) /\ SoundEntry(fs[id]),
           NEW new \in DOMAIN es, \A id \in DOMAIN es : id # new => fs[id] = es[id],
           NEW c \in Approvable, es[new].candidate = c, fs[new].candidate = c, CapOf(fs[new]) <= Reserve(c),
           NEW snapshot, snapshot.entries = es, NEW now,
           \A g \in {"G1", "G2", "G3", "G4"} : gateVector(snapshot, Accepted, c, now)[g]
    PROVE  CapsHold(fs)
<1>1. c \in EntryCandidate /\ Reserve(c) # Undefined
  BY DEF Approvable
<1>2. Reserve(c) \in Nat
  <2>1. c.quantity \in Nat /\ c.entryLimit.priceCents \in Int
    BY <1>1 DEF EntryCandidate
  <2>. QED
    BY <1>1, <2>1, RiskIsShare DEF Reserve
<1>3. /\ riskBySleeve(es, c.sleeve) + 0 + Reserve(c) <= config.sleeveBudgetCents[c.sleeve]
      /\ underlyingOf(c) \in config.underlyingUniverse =>
             riskByUnderlying(es, underlyingOf(c)) + 0 + Reserve(c) <= config.maxUnderlyingExposureCents
  BY <1>1, PassedFits
<1>4. /\ \A s \in Sleeve : config.sleeveBudgetCents[s] \in Nat
      /\ config.maxUnderlyingExposureCents \in Nat
  BY DEF DecisionConfig
<1>5. \A id \in DOMAIN es : fs[id].candidate = es[id].candidate
  OBVIOUS
<1>8. ASSUME NEW S \in SUBSET DOMAIN es, new \in S, NEW budget \in Nat,
             SumFunctionOnSet([id \in DOMAIN es |-> countedRisk(es[id])], S) + 0 + Reserve(c) <= budget
      PROVE  CapSum(fs, S) <= budget
  BY <1>2, <1>8, SubmittedFits, ZenonT(30)
<1>6. ASSUME NEW s \in Sleeve PROVE CapSum(fs, OfSleeve(fs, s)) <= config.sleeveBudgetCents[s]
  <2>. DEFINE S == OfSleeve(es, s)
  <2>1. OfSleeve(fs, s) = S /\ S \in SUBSET DOMAIN es
    BY <1>5 DEF OfSleeve
  <2>2. CASE c.sleeve = s
    <3>1. new \in S
      BY <2>2 DEF OfSleeve
    <3>2. SumFunctionOnSet([id \in DOMAIN es |-> countedRisk(es[id])], S) + 0 + Reserve(c)
             <= config.sleeveBudgetCents[s]
      BY <1>3, <2>2 DEF riskBySleeve, OfSleeve
    <3>. HIDE DEF S
    <3>. QED
      BY <1>4, <1>8, <2>1, <3>1, <3>2
  <2>3. CASE c.sleeve # s
    <3>1. \A id \in S : fs[id] = es[id]
      BY <2>3 DEF OfSleeve
    <3>2. CapSum(es, S) <= config.sleeveBudgetCents[s]
      BY DEF CapsHold
    <3>. HIDE DEF S
    <3>. QED
      BY <1>4, <2>1, <3>1, <3>2, OthersFit
  <2>. QED
    BY <2>2, <2>3
<1>7. ASSUME NEW u \in config.underlyingUniverse
      PROVE  CapSum(fs, OfUnderlying(fs, u)) <= config.maxUnderlyingExposureCents
  <2>. DEFINE S == OfUnderlying(es, u)
  <2>1. OfUnderlying(fs, u) = S /\ S \in SUBSET DOMAIN es
    BY <1>5 DEF OfUnderlying
  <2>2. CASE underlyingOf(c) = u
    <3>1. new \in S
      BY <2>2 DEF OfUnderlying
    <3>2. SumFunctionOnSet([id \in DOMAIN es |-> countedRisk(es[id])], S) + 0 + Reserve(c)
             <= config.maxUnderlyingExposureCents
      BY <1>3, <2>2 DEF riskByUnderlying, OfUnderlying
    <3>. HIDE DEF S
    <3>. QED
      BY <1>4, <1>8, <2>1, <3>1, <3>2
  <2>3. CASE underlyingOf(c) # u
    <3>1. \A id \in S : fs[id] = es[id]
      BY <2>3 DEF OfUnderlying
    <3>2. CapSum(es, S) <= config.maxUnderlyingExposureCents
      BY DEF CapsHold
    <3>. HIDE DEF S
    <3>. QED
      BY <1>4, <2>1, <3>1, <3>2, OthersFit
  <2>. QED
    BY <2>2, <2>3
<1>. QED
  BY <1>6, <1>7 DEF CapsHold

(***************************************************************************)
(* Unfold by step.                                                           *)
(***************************************************************************)
LEMMA BudgetInitially == DecisionInit => BudgetInv
<1>. SUFFICES ASSUME DecisionInit PROVE BudgetInv
  OBVIOUS
<1>1. clock \in Nat /\ DOMAIN entries = {} /\ plans = <<>>
  BY DEF DecisionInit
<1>2. IsFiniteSet(DOMAIN entries)
  BY <1>1, FS_EmptySet
<1>3. PlansFit
  BY <1>1 DEF PlansFit
<1>4. \A S \in SUBSET DOMAIN entries : CapSum(entries, S) = 0
  <2>. TAKE S \in SUBSET DOMAIN entries
  <2>1. S = {}
    BY <1>1
  <2>. QED
    BY <2>1, SumEmpty DEF CapSum
<1>5. \A s, u : OfSleeve(entries, s) \in SUBSET DOMAIN entries /\ OfUnderlying(entries, u) \in SUBSET DOMAIN entries
  BY DEF OfSleeve, OfUnderlying
<1>6. (\A s \in Sleeve : config.sleeveBudgetCents[s] \in Nat) /\ config.maxUnderlyingExposureCents \in Nat
  BY ConfigAssumption DEF DecisionConfig
<1>7. CapsHold(entries)
  BY <1>4, <1>5, <1>6 DEF CapsHold
<1>. QED
  BY <1>1, <1>2, <1>3, <1>7 DEF BudgetInv

\* The plans of a cycle, and the entries as it has reconciled them.
LEMMA CycleStep ==
    ASSUME BudgetInv, plans = <<>>, NEW w, NEW batch \in Batches, Cycle(w, batch)
    PROVE  BudgetInv'
<1>. DEFINE snapshot == Snapshot(w, prior, entries', clock + 1)
<1>1. clock' = clock + 1 /\ clock + 1 \in Nat
  BY DEF Cycle, BudgetInv
<1>2. entries' = [id \in DOMAIN entries |-> Reconciled(entries[id])]
  BY DEF Cycle
<1>3. /\ DOMAIN entries' = DOMAIN entries
      /\ \A id \in DOMAIN entries : entries'[id] = Reconciled(entries[id])
  BY <1>2
<1>4. ASSUME NEW id \in DOMAIN entries
      PROVE  /\ SoundEntry(entries[id]) /\ SoundEntry(entries'[id])
             /\ entries'[id].candidate = entries[id].candidate
             /\ CapOf(entries'[id]) <= CapOf(entries[id])
  <2>1. SoundEntry(entries[id])
    BY DEF BudgetInv
  <2>. DEFINE e == entries[id]
  <2>2. SoundEntry(Reconciled(e)) /\ Reconciled(e).candidate = e.candidate /\ CapOf(Reconciled(e)) = CapOf(e)
    BY <2>1, ReconciledIsSound
  <2>3. CapOf(e) \in Nat
    BY <2>1, CapTyped
  <2>. QED
    BY <1>3, <2>1, <2>2, <2>3
<1>5. CapsHold(entries')
  <2>1. IsFiniteSet(DOMAIN entries) /\ CapsHold(entries)
    BY DEF BudgetInv
  <2>. QED
    BY <1>3, <1>4, <2>1, ConfigAssumption, CapsKept
<1>6. batch \in Seq(EntryCandidate)
  <2>1. Candidates \subseteq EntryCandidate
    BY CandidatesAssumption
  <2>2. batch = <<>> \/ (\E c \in Candidates : batch = <<c>>) \/ (\E c, d \in Candidates : batch = <<c, d>>)
    BY DEF Batches
  <2>3. CASE batch = <<>>
    BY <2>3
  <2>4. CASE \E c \in Candidates : batch = <<c>>
    <3>1. PICK c \in Candidates : batch = <<c>>
      BY <2>4
    <3>2. c \in EntryCandidate
      BY <2>1
    <3>3. <<c>> \in Seq(EntryCandidate)
      BY <3>2
    <3>. QED
      BY <3>1, <3>3
  <2>5. CASE \E c, d \in Candidates : batch = <<c, d>>
    <3>1. PICK c \in Candidates, d \in Candidates : batch = <<c, d>>
      BY <2>5
    <3>2. c \in EntryCandidate /\ d \in EntryCandidate
      BY <2>1
    <3>3. <<c, d>> \in Seq(EntryCandidate)
      BY <3>2
    <3>. QED
      BY <3>1, <3>3
  <2>. QED
    BY <2>2, <2>3, <2>4, <2>5
<1>7. snapshot.entries = entries' /\ snapshot.cycleIndex = clock + 1
  BY DEF Snapshot
<1>8. plans' = <<>> \/ plans' = Surviving(priceAndDecide(snapshot, batch, clock + 1), clock + 1, entries')
  BY DEF Cycle
<1>. HIDE DEF snapshot
<1>9. FitFor(Surviving(priceAndDecide(snapshot, batch, clock + 1), clock + 1, entries'), entries')
  <2>1. PICK executable \in Seq(EntryCandidate) :
           priceAndDecide(snapshot, batch, clock + 1) = decide(snapshot, executable, clock + 1)
    BY <1>6, PricedBatch
  <2>2. FitFor(decide(snapshot, executable, clock + 1), entries')
    BY <1>1, <1>7, DecisionFits
  <2>3. FitFor(priceAndDecide(snapshot, batch, clock + 1), entries')
    BY <2>1, <2>2
  <2>. QED
    BY <2>3, SurvivorsFit
<1>10. FitFor(<<>>, entries')
  BY DEF FitFor
<1>11. FitFor(plans', entries')
  BY <1>8, <1>9, <1>10
<1>12. PlansFit'
  BY <1>11 DEF PlansFit, FitFor
<1>13. IsFiniteSet(DOMAIN entries')
  BY <1>3 DEF BudgetInv
<1>. QED
  BY <1>1, <1>3, <1>4, <1>5, <1>12, <1>13 DEF BudgetInv

LEMMA HeadOfPlans ==
    ASSUME PlansFit, plans # <<>>
    PROVE  /\ Len(plans) \in Nat /\ DOMAIN plans = 1..Len(plans) /\ 1 \in DOMAIN plans
           /\ Head(plans) = plans[1] /\ Head(plans) \in PlanSet
           /\ Tail(plans) \in Seq(PlanSet) /\ DOMAIN Tail(plans) = 1..(Len(plans) - 1)
           /\ \A i \in 1..(Len(plans) - 1) : Tail(plans)[i] = plans[i + 1] /\ i + 1 \in DOMAIN plans /\ i + 1 # 1
<1>1. plans \in Seq(PlanSet) /\ plans # <<>>
  BY DEF PlansFit
<1>2. Len(plans) \in Nat /\ DOMAIN plans = 1..Len(plans) /\ Len(plans) # 0
  BY <1>1
<1>3. Head(plans) = plans[1] /\ Head(plans) \in PlanSet /\ Tail(plans) \in Seq(PlanSet)
  BY <1>1
<1>4. DOMAIN Tail(plans) = 1..(Len(plans) - 1) /\ \A i \in 1..(Len(plans) - 1) : Tail(plans)[i] = plans[i + 1]
  BY <1>1
<1>5. \A i \in 1..(Len(plans) - 1) : i + 1 \in 1..Len(plans) /\ i + 1 # 1
  BY <1>2
<1>. QED
  BY <1>2, <1>3, <1>4, <1>5

LEMMA IntentStep == ASSUME BudgetInv, RecordIntent PROVE BudgetInv'
<1>. DEFINE plan == Head(plans)
<1>1. plans # <<>> /\ plan.id \notin DOMAIN entries /\ plans' = plans /\ clock' = clock
      /\ entries' = [id \in DOMAIN entries \cup {plan.id} |-> IF id = plan.id THEN Intent(plan) ELSE entries[id]]
  BY DEF RecordIntent
<1>2. PlansFit /\ IsFiniteSet(DOMAIN entries) /\ CapsHold(entries) /\ clock \in Nat
      /\ \A id \in DOMAIN entries : SoundEntry(entries[id])
  BY DEF BudgetInv
<1>3. plan \in PlanSet /\ plan = plans[1] /\ 1 \in DOMAIN plans
  BY <1>1, <1>2, HeadOfPlans
<1>. HIDE DEF plan
<1>4. /\ IsFiniteSet(DOMAIN entries') /\ CapsHold(entries')
      /\ \A id \in DOMAIN entries' : SoundEntry(entries'[id])
  <2>. DEFINE fs == [id \in DOMAIN entries \cup {plan.id} |-> IF id = plan.id THEN Intent(plan) ELSE entries[id]]
  <2>1. \A f : f = fs => IsFiniteSet(DOMAIN f) /\ CapsHold(f) /\ \A id \in DOMAIN f : SoundEntry(f[id])
    <3>. TAKE f
    <3>. HAVE f = fs
    <3>1. f = [id \in DOMAIN entries \cup {plan.id} |-> IF id = plan.id THEN Intent(plan) ELSE entries[id]]
      OBVIOUS
    <3>2. plan.id \notin DOMAIN entries
      BY <1>1
    <3>. HIDE DEF fs
    <3>. QED
      BY <1>2, <1>3, <3>1, <3>2, CapsOfIntent
  <2>. QED
    BY <1>1, <2>1
<1>5. entries'[plan.id] = Intent(plan) /\ DOMAIN entries' = DOMAIN entries \cup {plan.id}
  BY <1>1
<1>6. ASSUME NEW i \in DOMAIN plans, plans[i].id \in DOMAIN entries'
      PROVE  i = 1 /\ entries'[plans[i].id] = Intent(plans[i])
  <2>1. CASE i = 1
    BY <1>3, <1>5, <2>1
  <2>2. CASE i # 1
    <3>1. plans[i].id # plan.id
      BY <1>2, <1>3, <2>2 DEF PlansFit
    <3>2. plans[i].id \in DOMAIN entries
      BY <1>5, <1>6, <3>1
    <3>. QED
      BY <1>2, <2>2, <3>2 DEF PlansFit
  <2>. QED
    BY <2>1, <2>2
<1>7. PlansFit'
  BY <1>1, <1>2, <1>6 DEF PlansFit
<1>. QED
  BY <1>1, <1>2, <1>4, <1>7 DEF BudgetInv

\* A step that changes one entry and leaves the plans, the entry not being the one planned.
LEMMA OneEntryStep ==
    ASSUME BudgetInv, UNCHANGED <<clock, plans>>, NEW id \in DOMAIN entries, DOMAIN entries' = DOMAIN entries,
           \A x \in DOMAIN entries : x # id => entries'[x] = entries[x],
           entries[id].broker.working,
           SoundEntry(entries'[id]), entries'[id].candidate = entries[id].candidate,
           CapOf(entries'[id]) <= CapOf(entries[id])
    PROVE  BudgetInv'
<1>1. PlansFit /\ IsFiniteSet(DOMAIN entries) /\ CapsHold(entries) /\ clock \in Nat
      /\ \A x \in DOMAIN entries : SoundEntry(entries[x])
  BY DEF BudgetInv
<1>2. \A x \in DOMAIN entries : /\ SoundEntry(entries[x]) /\ SoundEntry(entries'[x])
                                /\ entries'[x].candidate = entries[x].candidate
                                /\ CapOf(entries'[x]) <= CapOf(entries[x])
  <2>. TAKE x \in DOMAIN entries
  <2>1. SoundEntry(entries[x])
    BY <1>1
  <2>2. CapOf(entries[x]) \in Nat
    BY <2>1, CapTyped
  <2>3. CASE x = id
    BY <2>1, <2>3
  <2>4. CASE x # id
    BY <2>1, <2>2, <2>4
  <2>. QED
    BY <2>3, <2>4
<1>3. CapsHold(entries')
  BY <1>1, <1>2, ConfigAssumption, CapsKept
<1>4. ASSUME NEW i \in DOMAIN plans, plans[i].id \in DOMAIN entries
      PROVE  i = 1 /\ entries'[plans[i].id] = Intent(plans[i])
  <2>1. i = 1 /\ entries[plans[i].id] = Intent(plans[i])
    BY <1>1, <1>4 DEF PlansFit
  <2>2. plans[i].id # id
    BY <2>1 DEF Intent, Unsent
  <2>. QED
    BY <1>4, <2>1, <2>2
<1>5. PlansFit'
  BY <1>1, <1>4 DEF PlansFit
<1>. QED
  BY <1>1, <1>2, <1>3, <1>5 DEF BudgetInv

LEMMA FillStep == ASSUME BudgetInv, NEW id \in DOMAIN entries, FillLot(id) PROVE BudgetInv'
<1>. DEFINE e == entries[id]
            limit == e.candidate.entryLimit
            better == IF limit.kind = "debit" THEN Larger(limit.priceCents - 1, 0) ELSE limit.priceCents + 1
            more == e.broker.filled + 1 < e.candidate.quantity
<1>1. e.broker.working /\ UNCHANGED <<clock, plans>>
  BY DEF FillLot
<1>2. PICK price \in {limit.priceCents, better} :
         entries' = [entries EXCEPT ![id].broker =
                        [working |-> more, filled |-> e.broker.filled + 1, total |-> e.broker.total + price]]
  BY DEF FillLot
<1>3. PICK working \in BOOLEAN : working = more
  <2>1. more \in BOOLEAN
    OBVIOUS
  <2>. HIDE DEF more
  <2>. QED
    BY <2>1
<1>4. entries' = [entries EXCEPT ![id].broker =
                        [working |-> working, filled |-> e.broker.filled + 1, total |-> e.broker.total + price]]
  BY <1>2, <1>3, Zenon
<1>5. /\ DOMAIN entries' = DOMAIN entries /\ \A x \in DOMAIN entries : x # id => entries'[x] = entries[x]
      /\ entries'[id] = [e EXCEPT !.broker = [working |-> working, filled |-> e.broker.filled + 1,
                                              total |-> e.broker.total + price]]
  BY <1>4
<1>6. SoundEntry(e)
  BY DEF BudgetInv
<1>7. working <=> more
  BY <1>3
<1>8. SoundEntry(entries'[id]) /\ entries'[id].candidate = e.candidate /\ CapOf(entries'[id]) <= CapOf(e)
  <2>1. \A k : k = [e EXCEPT !.broker = [working |-> working, filled |-> e.broker.filled + 1,
                                         total |-> e.broker.total + price]]
                 => SoundEntry(k) /\ k.candidate = e.candidate /\ CapOf(k) <= CapOf(e)
    <3>. TAKE k
    <3>. HAVE k = [e EXCEPT !.broker = [working |-> working, filled |-> e.broker.filled + 1,
                                         total |-> e.broker.total + price]]
    <3>1. price \in {e.candidate.entryLimit.priceCents,
                     IF e.candidate.entryLimit.kind = "debit" THEN Larger(e.candidate.entryLimit.priceCents - 1, 0)
                     ELSE e.candidate.entryLimit.priceCents + 1}
      OBVIOUS
    <3>2. working <=> e.broker.filled + 1 < e.candidate.quantity
      BY <1>7
    <3>. HIDE DEF e
    <3>. QED
      BY <1>1, <1>6, <3>1, <3>2, FillIsSound, Zenon
  <2>. QED
    BY <1>5, <2>1
<1>. QED
  BY <1>1, <1>5, <1>8, OneEntryStep

LEMMA EndStep == ASSUME BudgetInv, NEW id \in DOMAIN entries, OrderEnds(id) PROVE BudgetInv'
<1>. DEFINE e == entries[id]
<1>1. e.broker.working /\ UNCHANGED <<clock, plans>> /\ entries' = [entries EXCEPT ![id].broker.working = FALSE]
  BY DEF OrderEnds
<1>2. /\ DOMAIN entries' = DOMAIN entries /\ \A x \in DOMAIN entries : x # id => entries'[x] = entries[x]
      /\ entries'[id] = [e EXCEPT !.broker.working = FALSE]
  BY <1>1
<1>3. SoundEntry(e)
  BY DEF BudgetInv
<1>4. SoundEntry(entries'[id]) /\ entries'[id].candidate = e.candidate /\ CapOf(entries'[id]) <= CapOf(e)
  <2>1. \A k : k = [e EXCEPT !.broker.working = FALSE]
                 => SoundEntry(k) /\ k.candidate = e.candidate /\ CapOf(k) <= CapOf(e)
    <3>. TAKE k
    <3>. HAVE k = [e EXCEPT !.broker.working = FALSE]
    <3>. QED
      BY <1>1, <1>3, EndIsSound
  <2>. QED
    BY <1>2, <2>1
<1>. QED
  BY <1>1, <1>2, <1>4, OneEntryStep

\* The answer to a submission: an order that may cost its reserve, or none.
LEMMA AnswerIsFresh ==
    ASSUME NEW plan, plan.id \in DOMAIN entries, entries[plan.id] = Intent(plan),
           NEW state, NEW working, Answer(plan.id, state, [working |-> working, filled |-> 0, total |-> 0])
    PROVE  /\ DOMAIN entries' = DOMAIN entries /\ \A x \in DOMAIN entries : x # plan.id => entries'[x] = entries[x]
           /\ entries'[plan.id] = Fresh(plan, state, working)
<1>. DEFINE broker == [working |-> working, filled |-> 0, total |-> 0]
            id == plan.id
<1>1. entries' = [entries EXCEPT ![id].state = state, ![id].broker = broker]
  BY DEF Answer
<1>. HIDE DEF broker, id
<1>2. /\ DOMAIN entries' = DOMAIN entries /\ \A x \in DOMAIN entries : x # id => entries'[x] = entries[x]
  BY <1>1
<1>3. entries'[id] = [entries[id] EXCEPT !.state = state, !.broker = broker]
  BY <1>1 DEF id
<1>4. entries[id] = [candidate |-> plan.candidate, reserved |-> plan.reserved, state |-> "intent",
                     filled |-> 0, price |-> 0, broker |-> Unsent]
  BY DEF Intent, id
<1>5. entries'[id] = [candidate |-> plan.candidate, reserved |-> plan.reserved, state |-> state,
                      filled |-> 0, price |-> 0, broker |-> broker]
  <2>. DEFINE x == [candidate |-> plan.candidate, reserved |-> plan.reserved, state |-> "intent",
                    filled |-> 0, price |-> 0, broker |-> Unsent]
              y == [x EXCEPT !.state = state]
              z == [y EXCEPT !.broker = broker]
  <2>1. y = [candidate |-> plan.candidate, reserved |-> plan.reserved, state |-> state,
             filled |-> 0, price |-> 0, broker |-> Unsent]
    OBVIOUS
  <2>2. z = [x EXCEPT !.state = state, !.broker = broker]
    OBVIOUS
  <2>. HIDE DEF x
  <2>3. entries'[id] = z
    BY <1>3, <1>4, <2>2 DEF x
  <2>. HIDE DEF y
  <2>4. z = [candidate |-> plan.candidate, reserved |-> plan.reserved, state |-> state,
             filled |-> 0, price |-> 0, broker |-> broker]
    BY <2>1
  <2>. QED
    BY <2>3, <2>4
<1>. QED
  BY <1>2, <1>5 DEF Fresh, broker, id

LEMMA SubmitStep == ASSUME BudgetInv, Submit PROVE BudgetInv'
<1>. DEFINE plan == Head(plans)
            c == plan.candidate
<1>1. plans # <<>> /\ plan.id \in DOMAIN entries /\ clock' = clock
  BY DEF Submit
<1>2. PlansFit /\ IsFiniteSet(DOMAIN entries) /\ CapsHold(entries) /\ clock \in Nat
      /\ \A id \in DOMAIN entries : SoundEntry(entries[id])
  BY DEF BudgetInv
<1>3. plan \in PlanSet /\ plan = plans[1] /\ 1 \in DOMAIN plans
  BY <1>1, <1>2, HeadOfPlans
<1>4. entries[plan.id] = Intent(plan)
  BY <1>1, <1>2, <1>3 DEF PlansFit
<1>5. PICK now : \/ Answer(plan.id, "canceled", Unsent)
                 \/ Answer(plan.id, "rejected", Unsent)
                 \/ /\ claimsHold(plan, now)
                    /\ \/ Answer(plan.id, "fillable", [Unsent EXCEPT !.working = TRUE])
                       \/ \E arrived \in BOOLEAN :
                            Answer(plan.id, "confirmation_unclear", [Unsent EXCEPT !.working = arrived])
  BY DEF Submit
<1>6. plans' = <<>> \/ plans' = Tail(plans)
  BY DEF Submit
<1>. HIDE DEF plan
<1>7. Unsent = [working |-> FALSE, filled |-> 0, total |-> 0]
      /\ \A w : [Unsent EXCEPT !.working = w] = [working |-> w, filled |-> 0, total |-> 0]
  BY DEF Unsent
<1>8. PICK state \in Released \cup Live, working \in BOOLEAN :
        /\ Answer(plan.id, state, [working |-> working, filled |-> 0, total |-> 0])
        /\ state \in Released \cup {"intent"} => ~working
        /\ working => claimsHold(plan, now)
  <2>1. {"canceled", "rejected"} \subseteq Released /\ {"fillable", "confirmation_unclear"} \subseteq Live
        /\ "fillable" \notin Released \cup {"intent"} /\ "confirmation_unclear" \notin Released \cup {"intent"}
    BY DEF Released, Live
  <2>2. CASE Answer(plan.id, "canceled", Unsent)
    BY <1>7, <2>1, <2>2
  <2>3. CASE Answer(plan.id, "rejected", Unsent)
    BY <1>7, <2>1, <2>3
  <2>4. CASE claimsHold(plan, now) /\ Answer(plan.id, "fillable", [Unsent EXCEPT !.working = TRUE])
    BY <1>7, <2>1, <2>4
  <2>5. CASE claimsHold(plan, now) /\ \E arrived \in BOOLEAN :
               Answer(plan.id, "confirmation_unclear", [Unsent EXCEPT !.working = arrived])
    BY <1>7, <2>1, <2>5
  <2>. QED
    BY <1>5, <2>2, <2>3, <2>4, <2>5
<1>9. /\ DOMAIN entries' = DOMAIN entries /\ \A x \in DOMAIN entries : x # plan.id => entries'[x] = entries[x]
      /\ entries'[plan.id] = Fresh(plan, state, working)
  BY <1>1, <1>4, <1>8, AnswerIsFresh
<1>10. /\ SoundEntry(entries'[plan.id]) /\ entries'[plan.id].candidate = c
       /\ CapOf(entries'[plan.id]) = (IF working THEN Reserve(c) ELSE 0) /\ Reserve(c) \in Nat
  BY <1>3, <1>8, <1>9, FreshIsSound, SMTT(20)
<1>11. SoundEntry(entries[plan.id]) /\ entries[plan.id].candidate = c /\ CapOf(entries[plan.id]) = 0
  <2>1. "intent" \in Released \cup Live
    BY DEF Live
  <2>. QED
    BY <1>3, <1>4, <2>1, FreshIsSound, IntentIsFresh, ZenonT(40)
<1>12. \A id \in DOMAIN entries : SoundEntry(entries[id]) /\ SoundEntry(entries'[id])
  BY <1>2, <1>9, <1>10, SMTT(20)
<1>13. CapsHold(entries')
  <2>1. CASE working
    <3>. DEFINE snapshot == Snapshot(now, prior, entries, clock)
    <3>1. /\ exposureLifecyclesFrom(entries)
          /\ \A g \in {"G1", "G2", "G3", "G4"} : gateVector(snapshot, Accepted, c, clock)[g]
      BY <1>8, <2>1 DEF claimsHold
    <3>2. snapshot.entries = entries
      BY DEF Snapshot
    <3>3. c \in Approvable
      BY <1>3, PlanIsOf
    <3>4. CapOf(entries'[plan.id]) <= Reserve(c)
      BY <1>10, <2>1
    <3>. HIDE DEF snapshot, c
    <3>. QED
      BY <1>1, <1>2, <1>9, <1>10, <1>11, <1>12, <3>1, <3>2, <3>3, <3>4, ConfigAssumption, CapsOfSubmission
  <2>2. CASE ~working
    <3>1. \A id \in DOMAIN entries : /\ SoundEntry(entries[id]) /\ SoundEntry(entries'[id])
                                     /\ entries'[id].candidate = entries[id].candidate
                                     /\ CapOf(entries'[id]) <= CapOf(entries[id])
      <4>. TAKE id \in DOMAIN entries
      <4>1. CapOf(entries[id]) \in Nat
        BY <1>12, CapTyped
      <4>2. CASE id = plan.id
        BY <1>10, <1>11, <1>12, <2>2, <4>2
      <4>3. CASE id # plan.id
        BY <1>9, <1>12, <4>1, <4>3
      <4>. QED
        BY <4>2, <4>3
    <3>. QED
      BY <1>2, <1>9, <3>1, ConfigAssumption, CapsKept
  <2>. QED
    BY <2>1, <2>2
<1>14. PlansFit'
  <2>1. CASE plans' = <<>>
    BY <2>1 DEF PlansFit
  <2>2. CASE plans' = Tail(plans)
    <3>1. /\ Tail(plans) \in Seq(PlanSet) /\ DOMAIN Tail(plans) = 1..(Len(plans) - 1)
          /\ \A i \in 1..(Len(plans) - 1) : Tail(plans)[i] = plans[i + 1] /\ i + 1 \in DOMAIN plans /\ i + 1 # 1
      BY <1>1, <1>2, HeadOfPlans
    <3>2. \A i, j \in 1..(Len(plans) - 1) : i # j => i + 1 # j + 1
      OBVIOUS
    <3>3. \A i, j \in DOMAIN Tail(plans) : i # j => Tail(plans)[i].id # Tail(plans)[j].id
      BY <1>2, <3>1, <3>2 DEF PlansFit
    <3>4. \A i \in DOMAIN Tail(plans) : Tail(plans)[i].id \notin DOMAIN entries'
      BY <1>2, <1>9, <3>1 DEF PlansFit
    <3>. QED
      BY <2>2, <3>1, <3>3, <3>4 DEF PlansFit
  <2>. QED
    BY <1>6, <2>1, <2>2
<1>. QED
  BY <1>1, <1>2, <1>9, <1>12, <1>13, <1>14 DEF BudgetInv

LEMMA BudgetStep == BudgetInv /\ [DecisionNext]_decisionVars => BudgetInv'
<1>. SUFFICES ASSUME BudgetInv, [DecisionNext]_decisionVars PROVE BudgetInv'
  OBVIOUS
<1>1. CASE UNCHANGED decisionVars
  BY <1>1 DEF decisionVars, BudgetInv, PlansFit
<1>2. CASE plans = <<>> /\ \E w \in Worlds : \E batch \in Batches : Cycle(w, batch)
  BY <1>2, CycleStep
<1>3. CASE RecordIntent
  BY <1>3, IntentStep
<1>4. CASE Submit
  BY <1>4, SubmitStep
<1>5. CASE \E id \in DOMAIN entries : FillLot(id) \/ OrderEnds(id)
  BY <1>5, FillStep, EndStep
<1>. QED
  BY <1>1, <1>2, <1>3, <1>4, <1>5 DEF DecisionNext

LEMMA BudgetsFollow == BudgetInv => BudgetsHold
<1>. SUFFICES ASSUME BudgetInv PROVE BudgetsHold
  OBVIOUS
<1>. DEFINE losses == [id \in DOMAIN entries |-> WorstLoss(entries[id])]
            caps == [id \in DOMAIN entries |-> CapOf(entries[id])]
<1>1. \A S \in SUBSET DOMAIN entries :
         /\ SumFunctionOnSet(losses, S) <= CapSum(entries, S)
         /\ SumFunctionOnSet(losses, S) \in Int /\ CapSum(entries, S) \in Int
  <2>. TAKE S \in SUBSET DOMAIN entries
  <2>1. IsFiniteSet(S)
    BY FS_Subset DEF BudgetInv
  <2>2. \A id \in S : losses[id] \in Int /\ caps[id] \in Int /\ losses[id] <= caps[id]
    BY WorstWithinCap, CapTyped DEF BudgetInv
  <2>3. CapSum(entries, S) = SumFunctionOnSet(caps, S)
    BY DEF CapSum
  <2>. HIDE DEF losses, caps
  <2>4. SumFunctionOnSet(losses, S) <= SumFunctionOnSet(caps, S)
    BY <2>1, <2>2, SumMonotone
  <2>5. SumFunctionOnSet(losses, S) \in Int /\ SumFunctionOnSet(caps, S) \in Int
    BY <2>1, <2>2, SumRemove
  <2>. QED
    BY <2>3, <2>4, <2>5
<1>2. (\A s \in Sleeve : config.sleeveBudgetCents[s] \in Int) /\ config.maxUnderlyingExposureCents \in Int
  BY ConfigAssumption DEF DecisionConfig
<1>3. CapsHold(entries)
  BY DEF BudgetInv
<1>4. \A s \in Sleeve : SumFunctionOnSet(losses, OfSleeve(entries, s)) <= config.sleeveBudgetCents[s]
  <2>. TAKE s \in Sleeve
  <2>1. OfSleeve(entries, s) \in SUBSET DOMAIN entries /\ CapSum(entries, OfSleeve(entries, s)) <= config.sleeveBudgetCents[s]
    BY <1>3 DEF OfSleeve, CapsHold
  <2>. HIDE DEF losses
  <2>. QED
    BY <1>1, <1>2, <2>1
<1>5. \A u \in config.underlyingUniverse :
         SumFunctionOnSet(losses, OfUnderlying(entries, u)) <= config.maxUnderlyingExposureCents
  <2>. TAKE u \in config.underlyingUniverse
  <2>1. /\ OfUnderlying(entries, u) \in SUBSET DOMAIN entries
        /\ CapSum(entries, OfUnderlying(entries, u)) <= config.maxUnderlyingExposureCents
    BY <1>3 DEF OfUnderlying, CapsHold
  <2>. HIDE DEF losses
  <2>. QED
    BY <1>1, <1>2, <2>1
<1>. QED
  BY <1>4, <1>5 DEF BudgetsHold, OfSleeve, OfUnderlying

\* Whatever the chain, the quotes, the batches and the order in which intents, answers and
\* fills arrive: what the entries of a sleeve, and of an underlying, can lose together stays
\* within its budget (decision.ts gates 2 and 4, execution.ts's revalidation).
THEOREM BudgetsAreHonoured == DecisionInit /\ [][DecisionNext]_decisionVars => []BudgetsHold
BY BudgetInitially, BudgetStep, BudgetsFollow, PTL

(***************************************************************************)
(* What a structure of an admitted shape is worth at the least: nothing,   *)
(* if it was paid for, and what its widest wing costs, if it was sold.     *)
(***************************************************************************)
LEMMA SumOne ==
    ASSUME NEW f, NEW a, f[a] \in Int
    PROVE  SumFunctionOnSet(f, {a}) = f[a]
<1>1. IsFiniteSet({a}) /\ {a} \ {a} = {}
  BY FS_Singleton
<1>2. SumFunctionOnSet(f, {a}) = f[a] + SumFunctionOnSet(f, {a} \ {a})
  BY <1>1, SumRemove
<1>. QED
  BY <1>1, <1>2, SumEmpty

LEMMA SumTwo ==
    ASSUME NEW f, NEW a, NEW b, a # b, f[a] \in Int, f[b] \in Int
    PROVE  SumFunctionOnSet(f, {a, b}) = f[a] + f[b]
<1>1. IsFiniteSet({a, b}) /\ {a, b} \ {a} = {b}
  <2>1. IsFiniteSet({b}) /\ {a, b} = {b} \cup {a}
    BY FS_Singleton
  <2>. QED
    BY <2>1, FS_AddElement
<1>2. \A x \in {a, b} : f[x] \in Int
  OBVIOUS
<1>3. SumFunctionOnSet(f, {a, b}) = f[a] + SumFunctionOnSet(f, {a, b} \ {a})
  BY <1>1, <1>2, SumRemove
<1>. QED
  BY <1>1, <1>3, SumOne

LEMMA SumFour ==
    ASSUME NEW f, NEW a, NEW b, NEW c, NEW d, a # b /\ a # c /\ a # d /\ b # c /\ b # d /\ c # d,
           f[a] \in Int /\ f[b] \in Int /\ f[c] \in Int /\ f[d] \in Int,
           NEW total, total = f[a] + f[b] + f[c] + f[d]
    PROVE  SumFunctionOnSet(f, {a, b, c, d}) = total
<1>1. /\ {a, b, c, d} \ {a} = {b, c, d} /\ {b, c, d} \ {b} = {c, d}
  OBVIOUS
<1>2. IsFiniteSet({b, c, d}) /\ IsFiniteSet({a, b, c, d})
  <2>1. /\ {c, d} = {d} \cup {c} /\ {b, c, d} = {c, d} \cup {b} /\ {a, b, c, d} = {b, c, d} \cup {a}
    OBVIOUS
  <2>2. IsFiniteSet({c, d})
    <3>1. IsFiniteSet({d})
      BY FS_Singleton
    <3>2. IsFiniteSet({d} \cup {c})
      BY <3>1, FS_AddElement
    <3>. QED
      BY <2>1, <3>2
  <2>3. IsFiniteSet({b, c, d})
    BY <2>1, <2>2, FS_AddElement
  <2>. QED
    BY <2>1, <2>3, FS_AddElement
<1>3. SumFunctionOnSet(f, {a, b, c, d}) = f[a] + SumFunctionOnSet(f, {a, b, c, d} \ {a})
  <2>1. \A x \in {a, b, c, d} : f[x] \in Int
    OBVIOUS
  <2>. QED
    BY <1>2, <2>1, SumRemove
<1>4. SumFunctionOnSet(f, {b, c, d}) = f[b] + SumFunctionOnSet(f, {b, c, d} \ {b})
  <2>1. \A x \in {b, c, d} : f[x] \in Int
    OBVIOUS
  <2>. QED
    BY <1>2, <2>1, SumRemove
<1>5. SumFunctionOnSet(f, {c, d}) = f[c] + f[d]
  BY SumTwo
<1>6. SumFunctionOnSet(f, {a, b, c, d}) = f[a] + (f[b] + (f[c] + f[d]))
  BY <1>1, <1>3, <1>4, <1>5
<1>7. \A u, v, x, y \in Int : u + (v + (x + y)) = u + v + x + y
  OBVIOUS
<1>. QED
  BY <1>6, <1>7

LEMMA WidthOfPair ==
    ASSUME NEW a \in Int, NEW b \in Int, a <= b
    PROVE  Width({a, b}) = b - a
<1>1. IsFiniteSet({a, b})
  <2>1. IsFiniteSet({b}) /\ {a, b} = {b} \cup {a}
    BY FS_Singleton
  <2>. QED
    BY <2>1, FS_AddElement
<1>2. {a, b} \in SUBSET Int /\ {a, b} # {}
  OBVIOUS
<1>3. Max({a, b}) \in {a, b} /\ \A x \in {a, b} : x <= Max({a, b})
  BY <1>1, <1>2, GreatestOf
<1>4. Min({a, b}) \in {a, b} /\ \A x \in {a, b} : Min({a, b}) <= x
  BY <1>1, <1>2, LeastOf
<1>5. Max({a, b}) = b /\ Min({a, b}) = a
  BY <1>3, <1>4
<1>. QED
  BY <1>2, <1>5 DEF Width

\* A leg of ratio one.
LEMMA LegWorth ==
    ASSUME NEW legs \in Seq(OptionLegs), NEW i \in DOMAIN legs, legs[i].ratio = 1, NEW spot \in Int
    PROVE  /\ PayoffAt(legs, spot)[i] = IF legs[i].side = "buy" THEN Intrinsic(legs[i], spot)
                                        ELSE 0 - Intrinsic(legs[i], spot)
           /\ Intrinsic(legs[i], spot) \in Nat
           /\ legs[i].right = "call" => Intrinsic(legs[i], spot)
                 = IF spot >= legs[i].strikeCents THEN spot - legs[i].strikeCents ELSE 0
           /\ legs[i].right # "call" => Intrinsic(legs[i], spot)
                 = IF spot <= legs[i].strikeCents THEN legs[i].strikeCents - spot ELSE 0
<1>. DEFINE k == legs[i].strikeCents
            worth == Intrinsic(legs[i], spot)
<1>1. k \in Nat
  BY LegsTyped
<1>2. /\ legs[i].right = "call" => worth = IF spot >= k THEN spot - k ELSE 0
      /\ legs[i].right # "call" => worth = IF spot <= k THEN k - spot ELSE 0
  <2>. HIDE DEF k
  <2>. QED
    BY <1>1 DEF Intrinsic, Larger, k
<1>3. worth \in Nat
  <2>. HIDE DEF worth, k
  <2>. QED
    BY <1>1, <1>2
<1>4. PayoffAt(legs, spot)[i] = (IF legs[i].side = "buy" THEN worth ELSE -worth) * 1
  BY DEF PayoffAt, Signed
<1>5. \A n \in Nat : n * 1 = n /\ (-n) * 1 = 0 - n
  OBVIOUS
<1>. HIDE DEF worth
<1>6. PayoffAt(legs, spot)[i] = IF legs[i].side = "buy" THEN worth ELSE 0 - worth
  BY <1>3, <1>4, <1>5
<1>. QED
  BY <1>2, <1>3, <1>6 DEF worth

LEMMA FloorBelow ==
    ASSUME NEW legs \in Seq(OptionLegs), NEW spot, spot = 0 \/ \E i \in DOMAIN legs : spot = legs[i].strikeCents
    PROVE  Floor(legs) <= Payoff(legs, spot) /\ spot \in Nat
<1>1. spot \in Breakpoints(legs)
  BY DEF Breakpoints
<1>. QED
  BY <1>1, FloorIsLowest, BreakpointsAre

LEMMA ShapeOf ==
    ASSUME NEW c \in EntryCandidate, NEW price, Admitted(c, price)
    PROVE  /\ c.legs \in Seq(OptionLegs) /\ \A i \in DOMAIN c.legs : c.legs[i].ratio = 1
           /\ c.entryLimit.kind \in {"debit", "credit"}
           /\ \/ LongOption(c) /\ c.declaredStructureType = "long_option"
              \/ Vertical(c, price) /\ c.declaredStructureType \in {"vertical_debit", "vertical_credit"}
              \/ IronCondor(c, price) /\ c.declaredStructureType = "iron_condor"
BY DEF Admitted, sameContractShape, EntryCandidate

\* The two legs of a vertical.
LEMMA VerticalLegs ==
    ASSUME NEW c \in EntryCandidate, NEW price, Admitted(c, price), Vertical(c, price)
    PROVE  \E long, short \in DOMAIN c.legs :
              /\ DOMAIN c.legs = {long, short} /\ long # short
              /\ c.legs[long].side = "buy" /\ c.legs[short].side = "sell" /\ c.legs[long].right = c.legs[short].right
              /\ LET bought == c.legs[long].strikeCents
                     sold == c.legs[short].strikeCents
                 IN  /\ bought # sold
                     /\ c.entryLimit.kind = "debit" =>
                          IF c.legs[long].right = "call" THEN bought < sold ELSE bought > sold
                     /\ c.entryLimit.kind = "credit" =>
                          ~(IF c.legs[long].right = "call" THEN bought < sold ELSE bought > sold)
<1>1. DOMAIN c.legs = {1, 2}
  <2>1. DOMAIN c.legs = 1..Len(c.legs) /\ Len(c.legs) = 2
    BY ShapeOf DEF Vertical
  <2>2. 1..2 = {1, 2}
    OBVIOUS
  <2>. QED
    BY <2>1, <2>2
<1>2. PICK long \in {1, 2}, short \in {1, 2} :
        LET bought == c.legs[long].strikeCents
            sold == c.legs[short].strikeCents
            isLongPayoff == IF c.legs[1].right = "call" THEN bought < sold ELSE bought > sold
        IN  /\ c.legs[long].side = "buy" /\ c.legs[short].side = "sell"
            /\ bought # sold
            /\ \/ c.entryLimit.kind = "debit" /\ isLongPayoff
               \/ c.entryLimit.kind = "credit" /\ ~isLongPayoff
  BY DEF Vertical
<1>3. c.legs[1].right = c.legs[2].right
  BY DEF Vertical
<1>4. long # short /\ c.legs[long].right = c.legs[1].right /\ c.legs[short].right = c.legs[1].right
  BY <1>2, <1>3
<1>5. DOMAIN c.legs = {long, short}
  BY <1>1, <1>4
<1>. QED
  BY <1>2, <1>4, <1>5

LEMMA DebitFloor ==
    ASSUME NEW c \in EntryCandidate, NEW price, Admitted(c, price), c.entryLimit.kind = "debit"
    PROVE  Floor(c.legs) <= 0
<1>. DEFINE legs == c.legs
<1>1. legs \in Seq(OptionLegs) /\ \A i \in DOMAIN legs : legs[i].ratio = 1
  BY ShapeOf
<1>2. /\ \A i \in DOMAIN legs : legs[i].strikeCents \in Nat /\ legs[i].right \in {"call", "put"}
      /\ Floor(legs) \in Int
  BY <1>1, LegsTyped, FloorIsLowest
<1>3. CASE LongOption(c)
  <2>1. DOMAIN legs = {1}
    <3>1. DOMAIN legs = 1..Len(legs) /\ Len(legs) = 1
      BY <1>1, <1>3 DEF LongOption
    <3>2. 1..1 = {1}
      OBVIOUS
    <3>. QED
      BY <3>1, <3>2
  <2>. DEFINE spot == IF legs[1].right = "call" THEN 0 ELSE legs[1].strikeCents
  <2>2. Floor(legs) <= Payoff(legs, spot) /\ spot \in Nat
    BY <1>1, <1>2, <2>1, FloorBelow
  <2>3. PayoffAt(legs, spot)[1] = 0
    <3>1. /\ PayoffAt(legs, spot)[1] = Intrinsic(legs[1], spot)
          /\ legs[1].right = "call" => Intrinsic(legs[1], spot)
                 = IF spot >= legs[1].strikeCents THEN spot - legs[1].strikeCents ELSE 0
          /\ legs[1].right # "call" => Intrinsic(legs[1], spot)
                 = IF spot <= legs[1].strikeCents THEN legs[1].strikeCents - spot ELSE 0
      <4>1. 1 \in DOMAIN legs /\ legs[1].ratio = 1 /\ legs[1].side = "buy"
        BY <1>1, <1>3, <2>1 DEF LongOption
      <4>2. spot \in Int
        BY <2>2
      <4>. HIDE DEF spot, legs
      <4>. QED
        BY <1>1, <4>1, <4>2, LegWorth
    <3>. QED
      BY <1>2, <2>1, <3>1
  <2>4. Payoff(legs, spot) = 0
    BY <2>1, <2>3, SumOne DEF Payoff
  <2>. QED
    BY <1>2, <2>2, <2>4
<1>4. CASE Vertical(c, price)
  <2>1. PICK long \in DOMAIN legs, short \in DOMAIN legs :
              /\ DOMAIN legs = {long, short} /\ long # short
              /\ legs[long].side = "buy" /\ legs[short].side = "sell" /\ legs[long].right = legs[short].right
              /\ IF legs[long].right = "call" THEN legs[long].strikeCents < legs[short].strikeCents
                 ELSE legs[long].strikeCents > legs[short].strikeCents
    BY <1>4, VerticalLegs
  <2>. DEFINE spot == IF legs[long].right = "call" THEN 0 ELSE legs[long].strikeCents
  <2>2. Floor(legs) <= Payoff(legs, spot) /\ spot \in Nat
    BY <1>1, <1>2, <2>1, FloorBelow
  <2>3. ASSUME NEW i \in DOMAIN legs PROVE PayoffAt(legs, spot)[i] = 0
    <3>1. /\ PayoffAt(legs, spot)[i] = IF legs[i].side = "buy" THEN Intrinsic(legs[i], spot)
                                       ELSE 0 - Intrinsic(legs[i], spot)
          /\ legs[i].right = "call" => Intrinsic(legs[i], spot)
                 = IF spot >= legs[i].strikeCents THEN spot - legs[i].strikeCents ELSE 0
          /\ legs[i].right # "call" => Intrinsic(legs[i], spot)
                 = IF spot <= legs[i].strikeCents THEN legs[i].strikeCents - spot ELSE 0
      <4>1. spot \in Int
        BY <2>2
      <4>. HIDE DEF spot, legs
      <4>. QED
        BY <1>1, <4>1, LegWorth
    <3>2. Intrinsic(legs[i], spot) = 0
      <4>1. i = long \/ i = short
        BY <2>1
      <4>. QED
        BY <1>2, <2>1, <3>1, <4>1
    <3>. QED
      BY <3>1, <3>2
  <2>4. Payoff(legs, spot) = 0
    <3>. DEFINE f == PayoffAt(legs, spot)
    <3>1. f[long] = 0 /\ f[short] = 0
      BY <2>3
    <3>. HIDE DEF f
    <3>2. f[long] \in Int /\ f[short] \in Int
      BY <3>1
    <3>3. SumFunctionOnSet(f, {long, short}) = f[long] + f[short]
      BY <2>1, <3>2, SumTwo
    <3>4. SumFunctionOnSet(f, {long, short}) = 0
      BY <3>1, <3>3
    <3>. QED
      BY <2>1, <3>4 DEF Payoff, f
  <2>. QED
    BY <1>2, <2>2, <2>4
<1>5. ~IronCondor(c, price)
  BY DEF IronCondor
<1>. QED
  BY <1>3, <1>4, <1>5, ShapeOf

\* A sold structure: at the far strike of its wider wing that wing costs its width, and
\* the other one nothing.
LEMMA VerticalCreditFloor ==
    ASSUME NEW c \in EntryCandidate, NEW price, Admitted(c, price), c.entryLimit.kind = "credit", Vertical(c, price),
           c.declaredStructureType \in {"vertical_debit", "vertical_credit"}
    PROVE  closeCapFor(c).widthCents \in Int /\ Floor(c.legs) + closeCapFor(c).widthCents <= 0
<1>. DEFINE legs == c.legs
<1>1. legs \in Seq(OptionLegs) /\ \A i \in DOMAIN legs : legs[i].ratio = 1
  BY ShapeOf
<1>2. /\ \A i \in DOMAIN legs : legs[i].strikeCents \in Nat /\ legs[i].right \in {"call", "put"}
      /\ Floor(legs) \in Int
  BY <1>1, LegsTyped, FloorIsLowest
<1>3. PICK long \in DOMAIN legs, short \in DOMAIN legs :
              /\ DOMAIN legs = {long, short} /\ long # short
              /\ legs[long].side = "buy" /\ legs[short].side = "sell" /\ legs[long].right = legs[short].right
              /\ legs[long].strikeCents # legs[short].strikeCents
              /\ ~(IF legs[long].right = "call" THEN legs[long].strikeCents < legs[short].strikeCents
                   ELSE legs[long].strikeCents > legs[short].strikeCents)
  BY VerticalLegs
<1>. DEFINE spot == legs[long].strikeCents
            far == legs[short].strikeCents
            width == IF legs[long].right = "call" THEN spot - far ELSE far - spot
<1>4. Floor(legs) <= Payoff(legs, spot) /\ spot \in Nat /\ far \in Nat
  BY <1>1, <1>2, FloorBelow
<1>5. \A i \in DOMAIN legs :
          /\ PayoffAt(legs, spot)[i] = IF legs[i].side = "buy" THEN Intrinsic(legs[i], spot)
                                       ELSE 0 - Intrinsic(legs[i], spot)
          /\ legs[i].right = "call" => Intrinsic(legs[i], spot)
                 = IF spot >= legs[i].strikeCents THEN spot - legs[i].strikeCents ELSE 0
          /\ legs[i].right # "call" => Intrinsic(legs[i], spot)
                 = IF spot <= legs[i].strikeCents THEN legs[i].strikeCents - spot ELSE 0
  <2>1. spot \in Int
    BY <1>4
  <2>. HIDE DEF spot, legs
  <2>. QED
    BY <1>1, <2>1, LegWorth
<1>6. Intrinsic(legs[long], spot) = 0
  BY <1>2, <1>4, <1>5
<1>7. Intrinsic(legs[short], spot) = width /\ width \in Nat
  BY <1>2, <1>3, <1>4, <1>5
<1>. DEFINE f == PayoffAt(legs, spot)
<1>8. f[long] = 0 /\ f[short] = 0 - width
  BY <1>3, <1>5, <1>6, <1>7
<1>9. Payoff(legs, spot) = 0 - width
  <2>. HIDE DEF f, width
  <2>1. f[long] \in Int /\ f[short] \in Int
    BY <1>7, <1>8
  <2>2. SumFunctionOnSet(f, {long, short}) = f[long] + f[short]
    BY <1>3, <2>1, SumTwo
  <2>3. SumFunctionOnSet(f, {long, short}) = 0 - width
    BY <1>7, <1>8, <2>2
  <2>. QED
    BY <1>3, <2>3 DEF Payoff, f
<1>10. closeCapFor(c).widthCents = width
  <2>1. closeCapFor(c).widthCents = Width({legs[i].strikeCents : i \in DOMAIN legs})
    BY DEF closeCapFor
  <2>2. {legs[i].strikeCents : i \in DOMAIN legs} = {spot, far}
    BY <1>3
  <2>3. {spot, far} = {far, spot}
    OBVIOUS
  <2>4. CASE legs[long].right = "call"
    <3>1. far <= spot
      BY <1>3, <1>4, <2>4
    <3>. HIDE DEF spot, far
    <3>2. Width({far, spot}) = spot - far
      BY <1>4, <3>1, WidthOfPair
    <3>. QED
      BY <2>1, <2>2, <2>3, <2>4, <3>2
  <2>5. CASE legs[long].right # "call"
    <3>1. spot <= far
      BY <1>3, <1>4, <2>5
    <3>. HIDE DEF spot, far
    <3>2. Width({spot, far}) = far - spot
      BY <1>4, <3>1, WidthOfPair
    <3>. QED
      BY <2>1, <2>2, <2>5, <3>2
  <2>. QED
    BY <2>4, <2>5
<1>. HIDE DEF width
<1>. QED
  BY <1>2, <1>4, <1>7, <1>9, <1>10

LEMMA CondorLegs ==
    ASSUME NEW c \in EntryCandidate, NEW price, Admitted(c, price), IronCondor(c, price)
    PROVE  \E p, q, r, s \in DOMAIN c.legs :
              /\ DOMAIN c.legs = {p, q, r, s}
              /\ p # q /\ p # r /\ p # s /\ q # r /\ q # s /\ r # s
              /\ c.legs[p].right = "put" /\ c.legs[q].right = "put"
              /\ c.legs[r].right = "call" /\ c.legs[s].right = "call"
              /\ c.legs[p].side = "buy" /\ c.legs[q].side = "sell"
              /\ c.legs[r].side = "sell" /\ c.legs[s].side = "buy"
              /\ c.legs[p].strikeCents <= c.legs[q].strikeCents
              /\ c.legs[q].strikeCents < c.legs[r].strikeCents
              /\ c.legs[r].strikeCents <= c.legs[s].strikeCents
<1>. DEFINE legs == c.legs
<1>1. legs \in Seq(OptionLegs) /\ \A i \in DOMAIN legs : legs[i].strikeCents \in Nat
  <2>1. legs \in Seq(OptionLegs)
    BY ShapeOf
  <2>. QED
    BY <2>1, LegsTyped
<1>2. DOMAIN legs = 1..4
  BY <1>1 DEF IronCondor
<1>3. PICK order \in [1..4 -> 1..4] :
        LET leg(n) == c.legs[order[n]]
            Below(m, n) == \/ leg(m).strikeCents < leg(n).strikeCents
                           \/ leg(m).strikeCents = leg(n).strikeCents /\ order[m] < order[n]
        IN  /\ \A n \in 1..4 : leg(n).right = IF n <= 2 THEN "put" ELSE "call"
            /\ Below(1, 2) /\ Below(3, 4)
            /\ [n \in 1..4 |-> leg(n).side] = <<"buy", "sell", "sell", "buy">>
            /\ leg(2).strikeCents < leg(3).strikeCents
  BY DEF IronCondor
<1>. DEFINE p == order[1]
            q == order[2]
            r == order[3]
            s == order[4]
<1>4. p \in 1..4 /\ q \in 1..4 /\ r \in 1..4 /\ s \in 1..4
  OBVIOUS
<1>5. legs[p].right = "put" /\ legs[q].right = "put" /\ legs[r].right = "call" /\ legs[s].right = "call"
  <2>1. \A n \in 1..4 : legs[order[n]].right = IF n <= 2 THEN "put" ELSE "call"
    BY <1>3
  <2>. QED
    BY <2>1
<1>6. legs[p].side = "buy" /\ legs[q].side = "sell" /\ legs[r].side = "sell" /\ legs[s].side = "buy"
  <2>1. [n \in 1..4 |-> legs[order[n]].side] = <<"buy", "sell", "sell", "buy">>
    BY <1>3
  <2>. DEFINE sides == [n \in 1..4 |-> legs[order[n]].side]
  <2>2. sides[1] = legs[p].side /\ sides[2] = legs[q].side /\ sides[3] = legs[r].side /\ sides[4] = legs[s].side
    OBVIOUS
  <2>. QED
    BY <2>1, <2>2
<1>7. /\ legs[p].strikeCents < legs[q].strikeCents \/ legs[p].strikeCents = legs[q].strikeCents
      /\ legs[r].strikeCents < legs[s].strikeCents \/ legs[r].strikeCents = legs[s].strikeCents
      /\ legs[q].strikeCents < legs[r].strikeCents
  BY <1>3
<1>. HIDE DEF p, q, r, s
<1>8. p # q /\ p # r /\ p # s /\ q # r /\ q # s /\ r # s
  BY <1>5, <1>6
<1>9. 1..4 = {p, q, r, s}
  <2>1. 1..4 = {1, 2, 3, 4}
    OBVIOUS
  <2>. QED
    BY <1>4, <1>8, <2>1
<1>10. legs[p].strikeCents <= legs[q].strikeCents /\ legs[r].strikeCents <= legs[s].strikeCents
  <2>1. /\ legs[p].strikeCents \in Nat /\ legs[q].strikeCents \in Nat
        /\ legs[r].strikeCents \in Nat /\ legs[s].strikeCents \in Nat
    BY <1>1, <1>2, <1>4
  <2>2. \A x, y \in Nat : x < y \/ x = y => x <= y
    OBVIOUS
  <2>. HIDE DEF legs
  <2>. QED
    BY <1>7, <2>1, <2>2
<1>. QED
  BY <1>2, <1>4, <1>5, <1>6, <1>7, <1>8, <1>9, <1>10

\* A condor at a price of the underlying at or below its puts, or at or above its calls.
LEMMA CondorFloor ==
    ASSUME NEW c \in EntryCandidate, NEW price, Admitted(c, price), IronCondor(c, price),
           c.declaredStructureType = "iron_condor", c.entryLimit.kind = "credit"
    PROVE  closeCapFor(c).widthCents \in Int /\ Floor(c.legs) + closeCapFor(c).widthCents <= 0
<1>. DEFINE legs == c.legs
<1>1. legs \in Seq(OptionLegs) /\ \A i \in DOMAIN legs : legs[i].ratio = 1
  BY ShapeOf
<1>2. Floor(legs) \in Int
  BY <1>1, FloorIsLowest
<1>3. PICK p \in DOMAIN legs, q \in DOMAIN legs, r \in DOMAIN legs, s \in DOMAIN legs :
              /\ DOMAIN legs = {p, q, r, s}
              /\ p # q /\ p # r /\ p # s /\ q # r /\ q # s /\ r # s
              /\ legs[p].right = "put" /\ legs[q].right = "put" /\ legs[r].right = "call" /\ legs[s].right = "call"
              /\ legs[p].side = "buy" /\ legs[q].side = "sell" /\ legs[r].side = "sell" /\ legs[s].side = "buy"
              /\ legs[p].strikeCents <= legs[q].strikeCents
              /\ legs[q].strikeCents < legs[r].strikeCents
              /\ legs[r].strikeCents <= legs[s].strikeCents
  BY CondorLegs
<1>. DEFINE kp == legs[p].strikeCents
            kq == legs[q].strikeCents
            kr == legs[r].strikeCents
            ks == legs[s].strikeCents
<1>4. kp \in Nat /\ kq \in Nat /\ kr \in Nat /\ ks \in Nat /\ kp <= kq /\ kq < kr /\ kr <= ks
  BY <1>1, <1>3, LegsTyped
<1>5. ASSUME NEW spot, spot = kp \/ spot = ks
      PROVE  /\ Floor(legs) <= Payoff(legs, spot)
             /\ Payoff(legs, spot) = IF spot = kp THEN 0 - (kq - kp) ELSE 0 - (ks - kr)
  <2>1. Floor(legs) <= Payoff(legs, spot) /\ spot \in Nat
    BY <1>1, <1>5, FloorBelow
  <2>2. spot \in Int
    BY <2>1
  <2>. DEFINE f == PayoffAt(legs, spot)
              Puts(k) == IF spot <= k THEN k - spot ELSE 0
              Calls(k) == IF spot >= k THEN spot - k ELSE 0
  <2>3. f[p] = Puts(kp) /\ f[q] = 0 - Puts(kq) /\ f[r] = 0 - Calls(kr) /\ f[s] = Calls(ks)
    <3>1. \A i \in DOMAIN legs :
          /\ PayoffAt(legs, spot)[i] = IF legs[i].side = "buy" THEN Intrinsic(legs[i], spot)
                                       ELSE 0 - Intrinsic(legs[i], spot)
          /\ legs[i].right = "call" => Intrinsic(legs[i], spot)
                 = IF spot >= legs[i].strikeCents THEN spot - legs[i].strikeCents ELSE 0
          /\ legs[i].right # "call" => Intrinsic(legs[i], spot)
                 = IF spot <= legs[i].strikeCents THEN legs[i].strikeCents - spot ELSE 0
      <4>. HIDE DEF legs
      <4>. QED
        BY <1>1, <2>2, LegWorth
    <3>. QED
      BY <1>3, <3>1
  <2>. HIDE DEF f, kp, kq, kr, ks
  <2>4. f[p] \in Int /\ f[q] \in Int /\ f[r] \in Int /\ f[s] \in Int
    BY <1>4, <2>1, <2>3
  <2>5. SumFunctionOnSet(f, {p, q, r, s}) = f[p] + f[q] + f[r] + f[s]
    <3>1. p # q /\ p # r /\ p # s /\ q # r /\ q # s /\ r # s
      BY <1>3
    <3>. QED
      BY <2>4, <3>1, SumFour, ZenonT(30)
  <2>6. f[p] + f[q] + f[r] + f[s] = IF spot = kp THEN 0 - (kq - kp) ELSE 0 - (ks - kr)
    BY <1>4, <1>5, <2>3
  <2>. QED
    BY <1>3, <2>1, <2>5, <2>6 DEF Payoff, f
<1>6. Strikes(legs, "put") = {kp, kq} /\ Strikes(legs, "call") = {kr, ks}
  <2>1. {j \in DOMAIN legs : legs[j].right = "put"} = {p, q} /\ {j \in DOMAIN legs : legs[j].right = "call"} = {r, s}
    BY <1>3
  <2>. QED
    BY <2>1 DEF Strikes
<1>7. Width({kp, kq}) = kq - kp /\ Width({kr, ks}) = ks - kr
  <2>. HIDE DEF kp, kq, kr, ks
  <2>. QED
    BY <1>4, WidthOfPair
<1>8. closeCapFor(c).widthCents = Larger(kq - kp, ks - kr)
  BY <1>6, <1>7 DEF closeCapFor
<1>9. Floor(legs) <= 0 - (kq - kp) /\ Floor(legs) <= 0 - (ks - kr)
  <2>. HIDE DEF legs
  <2>1. Floor(legs) <= 0 - (kq - kp)
    BY <1>5
  <2>2. Floor(legs) <= Payoff(legs, ks) /\ Payoff(legs, ks) = IF ks = kp THEN 0 - (kq - kp) ELSE 0 - (ks - kr)
    BY <1>5
  <2>3. ks # kp
    BY <1>4
  <2>. QED
    BY <2>1, <2>2, <2>3
<1>. HIDE DEF kp, kq, kr, ks
<1>. QED
  BY <1>2, <1>4, <1>8, <1>9 DEF Larger

(***************************************************************************)
(* The ladder: every state of a close is one of its requotes.              *)
(***************************************************************************)
Opened(c, price, quotes) ==
    /\ c \in Openable /\ price \in FillsOf(c) /\ quotes \in LadderMarkets(Contracts(c.legs))
    /\ definedRisk(c, 1, price) # Undefined
LadderInv ==
    \/ \E c, price, quotes : \E rung \in Nat :
          Opened(c, price, quotes) /\ ladder = OpenStructure(c, price, quotes, rung)
    \/ \E c, price, quotes : Opened(c, price, quotes) /\ ladder = KillStructure(c, price, quotes)
    \/ \E contract \in Pieces, quantity \in {-1, 1}, paired, protected \in BOOLEAN, rung \in Nat :
       \E spot \in LadderSpots, quotes \in LadderMarkets({contract.contractId}) :
          ladder = Residue(contract, quantity, paired, protected, quotes, spot, rung)

LEMMA LadderStep == LadderInv /\ [LadderNext]_ladder => LadderInv'
<1>. SUFFICES ASSUME LadderInv, [LadderNext]_ladder PROVE LadderInv'
  OBVIOUS
<1>1. CASE UNCHANGED ladder
  BY <1>1 DEF LadderInv
<1>2. CASE Requote
  <2>1. ladder.kind = "structure"
    BY <1>2 DEF Requote
  <2>2. PICK c, price, quotes :
          \E rung \in Nat : Opened(c, price, quotes) /\ ladder = OpenStructure(c, price, quotes, rung)
    <3>1. \A c, price, quotes : KillStructure(c, price, quotes).kind = "kill"
      BY DEF KillStructure, OpenStructure
    <3>2. \A contract, quantity, paired, protected, quotes, spot, rung :
             Residue(contract, quantity, paired, protected, quotes, spot, rung).kind \in {"held", "residue"}
      BY DEF Residue
    <3>. QED
      BY <2>1, <3>1, <3>2 DEF LadderInv
  <2>. PICK rung \in Nat : Opened(c, price, quotes) /\ ladder = OpenStructure(c, price, quotes, rung)
    BY <2>2
  <2>3. ladder.of = c /\ ladder.paid = price /\ ladder.rung = rung
    BY DEF OpenStructure
  <2>4. PICK now \in LadderMarkets(Contracts(c.legs)) : ladder' = OpenStructure(c, price, now, rung + 1)
    BY <1>2, <2>3 DEF Requote
  <2>5. Opened(c, price, now) /\ rung + 1 \in Nat
    BY DEF Opened
  <2>. QED
    BY <2>4, <2>5 DEF LadderInv
<1>3. CASE RequoteResidue
  <2>1. ladder.kind = "residue"
    BY <1>3 DEF RequoteResidue
  <2>2. PICK contract \in Pieces, quantity \in {-1, 1}, paired \in BOOLEAN, protected \in BOOLEAN, rung \in Nat :
          \E spot \in LadderSpots, quotes \in LadderMarkets({contract.contractId}) :
             ladder = Residue(contract, quantity, paired, protected, quotes, spot, rung)
    <3>1. \A c, price, quotes : KillStructure(c, price, quotes).kind = "kill"
      BY DEF KillStructure, OpenStructure
    <3>2. \A c, price, quotes, rung : OpenStructure(c, price, quotes, rung).kind = "structure"
      BY DEF OpenStructure
    <3>. QED
      BY <2>1, <3>1, <3>2 DEF LadderInv
  <2>3. /\ ladder.of = contract /\ ladder.quantity = quantity /\ ladder.paired = paired
        /\ ladder.protected = protected /\ ladder.rung = rung
    BY <2>2 DEF Residue
  <2>4. PICK now \in LadderMarkets({contract.contractId}), spot \in LadderSpots :
           ladder' = Residue(contract, quantity, paired, protected, now, spot, rung + 1)
    BY <1>3, <2>3 DEF RequoteResidue
  <2>5. rung + 1 \in Nat
    OBVIOUS
  <2>. QED
    BY <2>4, <2>5 DEF LadderInv
<1>. QED
  BY <1>1, <1>2, <1>3 DEF LadderNext

LEMMA LadderInitially == LadderInit => LadderInv
<1>1. 0 \in Nat
  OBVIOUS
<1>. QED
  BY <1>1 DEF LadderInit, LadderInv, Opened

LEMMA ReversedIds ==
    ASSUME NEW legs
    PROVE  /\ DOMAIN reversedLegs(legs) = DOMAIN legs
           /\ \A i \in DOMAIN legs : reversedLegs(legs)[i] =
                 [legs[i] EXCEPT !.side = IF legs[i].side = "buy" THEN "sell" ELSE "buy"]
BY DEF reversedLegs

LEMMA ReversedLegs ==
    ASSUME NEW legs \in Seq(OptionLegs)
    PROVE  /\ DOMAIN reversedLegs(legs) = DOMAIN legs
           /\ \A i \in DOMAIN legs : /\ reversedLegs(legs)[i].contractId = legs[i].contractId
                                     /\ reversedLegs(legs)[i].ratio = legs[i].ratio
                                     /\ reversedLegs(legs)[i].ratio \in Nat
<1>1. \A i \in DOMAIN legs : legs[i] \in OptionLegs
  BY LegsTyped
<1>2. ASSUME NEW i \in DOMAIN legs
      PROVE  reversedLegs(legs)[i].contractId = legs[i].contractId /\ reversedLegs(legs)[i].ratio = legs[i].ratio
  <2>. DEFINE side == IF legs[i].side = "buy" THEN "sell" ELSE "buy"
  <2>1. reversedLegs(legs)[i] = [legs[i] EXCEPT !.side = side]
    BY ReversedIds
  <2>. HIDE DEF side
  <2>. QED
    BY <1>1, <2>1 DEF OptionLegs
<1>3. \A i \in DOMAIN legs : legs[i].ratio \in Nat
  BY LegsTyped
<1>. QED
  BY <1>2, <1>3, ReversedIds

\* The net mid of quoted legs is a number.
LEMMA MidTyped ==
    ASSUME NEW legs, IsFiniteSet(DOMAIN legs), \A i \in DOMAIN legs : legs[i].ratio \in Nat,
           NEW quotes, Quoted(legs, quotes),
           \A id \in DOMAIN quotes : quotes[id].bidCents \in Nat /\ quotes[id].askCents \in Nat
    PROVE  netMidTwice(legs, quotes) \in Int
<1>. DEFINE f == [i \in DOMAIN legs |->
                    Signed(legs[i], (quotes[legs[i].contractId].bidCents + quotes[legs[i].contractId].askCents)
                                      * legs[i].ratio)]
<1>1. ASSUME NEW i \in DOMAIN legs PROVE f[i] \in Int
  <2>. DEFINE q == quotes[legs[i].contractId]
              n == (q.bidCents + q.askCents) * legs[i].ratio
  <2>1. q.bidCents \in Nat /\ q.askCents \in Nat
    BY DEF Quoted
  <2>2. n \in Int
    <3>. HIDE DEF q
    <3>. QED
      BY <2>1
  <2>3. f[i] = IF legs[i].side = "buy" THEN n ELSE -n
    BY DEF Signed
  <2>. HIDE DEF n, f
  <2>. QED
    BY <2>2, <2>3
<1>2. netMidTwice(legs, quotes) = SumFunctionOnSet(f, DOMAIN legs)
  BY DEF netMidTwice, OverLegs, SumFunction
<1>. HIDE DEF f
<1>. QED
  BY <1>1, <1>2, SumRemove

\* A closing limit asks for a cent at least, or pays the width at most.
LEMMA LadderBound ==
    ASSUME NEW c \in EntryCandidate, NEW quotes, NEW rung \in Nat,
           \A id \in DOMAIN quotes : quotes[id].bidCents \in Nat /\ quotes[id].askCents \in Nat,
           NEW limit, limit = escalateCloseLimit(reversedLegs(c.legs), quotes, rung, Step, closeCapFor(c)), limit.ok,
           closeCapFor(c).widthCents \in Int
    PROVE  \/ limit.kind = "credit" /\ limit.price \in Int /\ limit.price >= 1
           \/ /\ limit.kind = "debit" /\ limit.price \in Int
              /\ c.entryLimit.kind = "credit" => limit.price <= closeCapFor(c).widthCents
<1>. DEFINE legs == reversedLegs(c.legs)
            cap == closeCapFor(c)
            mid2 == netMidTwice(legs, quotes)
            dearer == RoundedUp(mid2) + rung * Step
            cheaper == RoundedDown(mid2) - rung * Step
            lesser == Smaller(dearer, cap.widthCents)
            greater == Larger(cheaper, 1)
<1>1. \A kind, price, atCap : CloseLimit(kind, price, atCap).ok =>
          CloseLimit(kind, price, atCap).kind = kind /\ CloseLimit(kind, price, atCap).price = price
  BY DEF CloseLimit, NoLimit
<1>2. ~NoLimit.ok
  BY DEF NoLimit
<1>3. c.legs \in Seq(OptionLegs) /\ c.entryLimit.kind \in {"debit", "credit"}
  BY DEF EntryCandidate
<1>4. Quoted(legs, quotes)
  BY <1>2 DEF escalateCloseLimit
<1>5. mid2 \in Int
  <2>1. IsFiniteSet(DOMAIN legs) /\ \A i \in DOMAIN legs : legs[i].ratio \in Nat
    BY <1>3, ReversedLegs, LegsTyped
  <2>. HIDE DEF legs
  <2>. QED
    BY <1>4, <2>1, MidTyped
<1>6. dearer \in Int /\ cheaper \in Int
  <2>1. RoundedUp(mid2) \in Int /\ RoundedDown(mid2) \in Int
    <3>. HIDE DEF mid2
    <3>1. Magnitude(mid2) \in Nat
      BY <1>5 DEF Magnitude
    <3>. QED
      BY <3>1 DEF RoundedUp, RoundedDown
  <2>2. rung * Step \in Int
    BY LadderAssumption
  <2>. HIDE DEF mid2
  <2>. QED
    BY <2>1, <2>2
<1>7. /\ greater \in Int /\ greater >= 1 /\ lesser \in Int /\ lesser <= cap.widthCents
  <2>. HIDE DEF cheaper, dearer, cap
  <2>1. cap.widthCents \in Int
    BY DEF cap
  <2>. QED
    BY <1>6, <2>1 DEF Larger, Smaller
<1>8. c.entryLimit.kind = "credit" => cap.kind = "width_debit_cap"
  BY DEF closeCapFor
<1>9. \/ limit = CloseLimit("credit", greater, cap.kind # "uncapped_marketable" /\ cheaper <= 0)
      \/ cap.kind # "width_debit_cap" /\ limit = CloseLimit("debit", dearer, FALSE)
      \/ limit = CloseLimit("debit", lesser, dearer >= cap.widthCents)
  <2>. HIDE DEF legs, cap
  <2>1. limit = escalateCloseLimit(legs, quotes, rung, Step, cap)
    BY DEF legs, cap
  <2>2. limit # NoLimit
    BY <1>2
  <2>. QED
    BY <2>1, <2>2 DEF escalateCloseLimit
<1>. HIDE DEF greater, lesser, dearer, cheaper, cap
<1>10. CASE limit = CloseLimit("credit", greater, cap.kind # "uncapped_marketable" /\ cheaper <= 0)
  <2>. DEFINE atCap == cap.kind # "uncapped_marketable" /\ cheaper <= 0
  <2>2. limit = CloseLimit("credit", greater, atCap)
    BY <1>10
  <2>. HIDE DEF atCap
  <2>1. CloseLimit("credit", greater, atCap).ok => CloseLimit("credit", greater, atCap).kind = "credit"
                                                /\ CloseLimit("credit", greater, atCap).price = greater
    BY <1>1
  <2>. QED
    BY <1>7, <2>1, <2>2
<1>11. CASE cap.kind # "width_debit_cap" /\ limit = CloseLimit("debit", dearer, FALSE)
  <2>. DEFINE atCap == FALSE
  <2>1. limit = CloseLimit("debit", dearer, atCap)
    BY <1>11
  <2>. HIDE DEF atCap
  <2>2. limit.kind = "debit" /\ limit.price = dearer
    BY <1>1, <2>1
  <2>3. c.entryLimit.kind # "credit"
    BY <1>8, <1>11
  <2>. QED
    BY <1>6, <2>2, <2>3
<1>12. CASE limit = CloseLimit("debit", lesser, dearer >= cap.widthCents)
  <2>. DEFINE atCap == dearer >= cap.widthCents
  <2>2. limit = CloseLimit("debit", lesser, atCap)
    BY <1>12
  <2>. HIDE DEF atCap
  <2>1. CloseLimit("debit", lesser, atCap).ok => CloseLimit("debit", lesser, atCap).kind = "debit"
                                                /\ CloseLimit("debit", lesser, atCap).price = lesser
    BY <1>1
  <2>. QED
    <3>1. limit.kind = "debit" /\ limit.price = lesser
      BY <2>1, <2>2
    <3>2. lesser <= closeCapFor(c).widthCents
      BY <1>7 DEF cap
    <3>. QED
      BY <1>7, <3>1, <3>2
<1>. QED
  BY <1>9, <1>10, <1>11, <1>12

LEMMA CapIsWidth ==
    ASSUME NEW c \in EntryCandidate, NEW price, Admitted(c, price)
    PROVE  closeCapFor(c).widthCents \in Int /\ (c.entryLimit.kind = "credit" => Floor(c.legs) + closeCapFor(c).widthCents <= 0)
<1>1. CASE c.entryLimit.kind = "debit"
  <2>1. closeCapFor(c).widthCents = 0
    BY <1>1 DEF closeCapFor, ZeroFloor
  <2>. QED
    BY <1>1, <2>1
<1>2. CASE c.entryLimit.kind = "credit"
  <2>1. ~LongOption(c)
    BY <1>2 DEF LongOption
  <2>2. CASE Vertical(c, price) /\ c.declaredStructureType \in {"vertical_debit", "vertical_credit"}
    BY <1>2, <2>2, VerticalCreditFloor
  <2>3. CASE IronCondor(c, price) /\ c.declaredStructureType = "iron_condor"
    BY <1>2, <2>3, CondorFloor
  <2>. QED
    BY <2>1, <2>2, <2>3, ShapeOf
<1>3. c.entryLimit.kind \in {"debit", "credit"}
  BY ShapeOf
<1>. QED
  BY <1>1, <1>2, <1>3

\* Every requote of an intact structure: what the entry and the close cost together.
LEMMA StructureBounded ==
    ASSUME NEW c, NEW price, NEW quotes, NEW rung \in Nat, Opened(c, price, quotes),
           ladder = OpenStructure(c, price, quotes, rung), ladder.limit.ok
    PROVE  \/ RealizedLoss <= ReservePerShare(ladder.of, ladder.paid)
           \/ ladder.of.entryLimit.kind = "debit" /\ ladder.limit.kind = "debit"
<1>. DEFINE limit == escalateCloseLimit(reversedLegs(c.legs), quotes, rung, Step, closeCapFor(c))
            kind == c.entryLimit.kind
            cost == Cost(kind, price)
<1>1. ladder.of = c /\ ladder.paid = price /\ ladder.limit = limit
  BY DEF OpenStructure
<1>2. c \in EntryCandidate /\ price \in Nat /\ kind \in {"debit", "credit"} /\ c.legs \in Seq(OptionLegs)
  BY LadderAssumption DEF Opened, FillsOf, EntryCandidate
<1>3. \A id \in DOMAIN quotes : quotes[id].bidCents \in Nat /\ quotes[id].askCents \in Nat
  <2>1. Contracts(c.legs) \in {Contracts(d.legs) : d \in Openable} \cup {{p.contractId} : p \in Pieces}
    BY DEF Opened
  <2>. QED
    BY <2>1, LadderAssumption DEF Opened
<1>4. Admitted(c, price) /\ SlopeBeyondHighestStrike(c.legs) >= 0
  <2>1. 1 \in Nat \ {0} /\ price \in Int /\ definedRisk(c, 1, price) # Undefined
    BY <1>2 DEF Opened
  <2>. QED
    BY <1>2, <2>1, RiskIsShare
<1>5. ReservePerShare(c, price) = WorstShare(c.legs, cost) /\ cost \in Int /\ Floor(c.legs) \in Int
  <2>1. SlopeBeyondHighestStrike(c.legs) \in Int
    <3>1. \A i \in DOMAIN c.legs : RiseBeyond(c.legs)[i] \in Int
      BY <1>2, LegsTyped DEF RiseBeyond, Signed
    <3>. QED
      BY <1>2, <3>1, SlopeIsRise, LegsTyped, SumRemove
  <2>2. ~(SlopeBeyondHighestStrike(c.legs) < 0)
    BY <1>4, <2>1
  <2>. QED
    BY <1>2, <2>2, BoundIsShare, FloorIsLowest DEF ReservePerShare, Cost
<1>6. closeCapFor(c).widthCents \in Int /\ (kind = "credit" => Floor(c.legs) + closeCapFor(c).widthCents <= 0)
  BY <1>2, <1>4, CapIsWidth
<1>7. limit.ok
  BY <1>1
<1>8. \/ limit.kind = "credit" /\ limit.price \in Int /\ limit.price >= 1
      \/ /\ limit.kind = "debit" /\ limit.price \in Int
         /\ kind = "credit" => limit.price <= closeCapFor(c).widthCents
  BY <1>2, <1>3, <1>6, <1>7, LadderBound
<1>9. RealizedLoss = (IF kind = "debit" THEN price ELSE -price)
                      + (IF limit.kind = "debit" THEN limit.price ELSE -limit.price)
  BY <1>1 DEF RealizedLoss
<1>10. cost = IF kind = "debit" THEN price ELSE -price
  BY DEF Cost
<1>11. WorstShare(c.legs, cost) >= 0 /\ WorstShare(c.legs, cost) >= cost - Floor(c.legs)
       /\ WorstShare(c.legs, cost) \in Int
  BY <1>2, <1>5, ShareTyped
<1>. HIDE DEF limit, cost
<1>12. CASE kind = "debit"
  <2>1. Floor(c.legs) <= 0
    BY <1>2, <1>4, <1>12, DebitFloor
  <2>. HIDE DEF kind
  <2>. QED
    BY <1>1, <1>2, <1>5, <1>8, <1>9, <1>10, <1>11, <1>12, <2>1, SMTT(20) DEF kind
<1>13. CASE kind = "credit"
  <2>1. RealizedLoss <= WorstShare(c.legs, cost)
    <3>. HIDE DEF kind
    <3>. QED
      BY <1>2, <1>5, <1>6, <1>8, <1>9, <1>10, <1>11, <1>13, SMTT(20)
  <2>. QED
    BY <1>1, <1>5, <2>1
<1>. QED
  BY <1>2, <1>12, <1>13

\* A long contract alone never costs more than it did.
LEMMA LongIsHarmless ==
    ASSUME NEW contract \in OptionContract
    PROVE  expiryPayoffBound(<<OptionLeg(contract, "buy", 1)>>, "credit", 0) = 0
<1>. DEFINE leg == OptionLeg(contract, "buy", 1)
            legs == <<leg>>
<1>1. leg \in OptionLegs /\ leg.side = "buy" /\ leg.ratio = 1
  BY DEF OptionLeg, OptionContract, OptionLegs
<1>. HIDE DEF leg
<1>2. legs \in Seq(OptionLegs) /\ DOMAIN legs = {1} /\ legs[1] = leg
  BY <1>1
<1>. HIDE DEF legs
<1>3. \A spot \in Nat : Payoff(legs, spot) >= 0 /\ Payoff(legs, spot) \in Int
  <2>. TAKE spot \in Nat
  <2>1. PayoffAt(legs, spot)[1] = Intrinsic(legs[1], spot) /\ Intrinsic(legs[1], spot) \in Nat
    <3>1. spot \in Int /\ 1 \in DOMAIN legs /\ legs[1].ratio = 1 /\ legs[1].side = "buy"
      BY <1>1, <1>2
    <3>. QED
      BY <1>2, <3>1, LegWorth
  <2>2. Payoff(legs, spot) = PayoffAt(legs, spot)[1]
    <3>. DEFINE f == PayoffAt(legs, spot)
    <3>1. f[1] \in Int
      BY <2>1
    <3>2. Payoff(legs, spot) = SumFunctionOnSet(f, {1})
      BY <1>2 DEF Payoff
    <3>. HIDE DEF f
    <3>3. SumFunctionOnSet(f, {1}) = f[1]
      BY <3>1, SumOne
    <3>. QED
      BY <3>2, <3>3 DEF f
  <2>. QED
    BY <2>1, <2>2
<1>4. Floor(legs) >= 0 /\ Floor(legs) \in Int
  BY <1>2, <1>3, FloorIsLowest, BreakpointsAre
<1>5. ~(SlopeBeyondHighestStrike(legs) < 0)
  <2>1. RiseBeyond(legs)[1] \in {0, 1}
    BY <1>1, <1>2 DEF RiseBeyond, Signed
  <2>2. SlopeBeyondHighestStrike(legs) = RiseBeyond(legs)[1]
    <3>. DEFINE f == RiseBeyond(legs)
    <3>1. f[1] \in Int
      BY <2>1
    <3>2. SlopeBeyondHighestStrike(legs) = SumFunctionOnSet(f, {1})
      BY <1>2, SlopeIsRise
    <3>. HIDE DEF f
    <3>3. SumFunctionOnSet(f, {1}) = f[1]
      BY <3>1, SumOne
    <3>. QED
      BY <3>2, <3>3 DEF f
  <2>. QED
    BY <2>1, <2>2
<1>6. expiryPayoffBound(legs, "credit", 0) = WorstShare(legs, Cost("credit", 0))
  BY <1>2, <1>5, BoundIsShare
<1>7. Cost("credit", 0) \in Int /\ Cost("credit", 0) <= 0
  BY DEF Cost
<1>8. WorstShare(legs, Cost("credit", 0)) = 0
  <2>1. ~(0 > Cost("credit", 0) - Floor(legs)) => Cost("credit", 0) - Floor(legs) <= 0 /\ Cost("credit", 0) - Floor(legs) >= 0
    BY <1>4, <1>7
  <2>. QED
    BY <1>4, <1>7, <2>1 DEF WorstShare, Larger
<1>. QED
  BY <1>6, <1>8 DEF legs, leg

LEMMA ResidueBounded ==
    ASSUME NEW contract \in Pieces, NEW quantity \in {-1, 1}, NEW paired \in BOOLEAN, NEW protected \in BOOLEAN,
           NEW rung \in Nat, NEW spot \in LadderSpots, NEW quotes \in LadderMarkets({contract.contractId}),
           ladder = Residue(contract, quantity, paired, protected, quotes, spot, rung)
    PROVE  ResidueCloses
<1>. DEFINE evidence == HoldEvidence(contract, quantity, paired, protected, quotes, spot)
            id == contract.contractId
            legs == <<residueClosingLeg(contract, quantity)>>
<1>1. /\ ladder.kind = IF evaluateExpiryHold(evidence, 0, 0) THEN "held" ELSE "residue"
      /\ ladder.of = contract /\ ladder.quantity = quantity /\ ladder.paired = paired /\ ladder.quotes = quotes
      /\ ladder.limit = IF quantity > 0 THEN escalateCloseLimit(legs, quotes, rung, Step, ZeroFloor)
                        ELSE marketableCloseLimit(legs, quotes, rung, Step)
  BY DEF Residue
<1>2. contract \in OptionContract
  BY LadderAssumption
<1>3. \A x \in DOMAIN quotes : quotes[x].bidCents \in Nat /\ quotes[x].askCents \in Nat
  <2>1. {contract.contractId} \in {Contracts(c.legs) : c \in Openable} \cup {{p.contractId} : p \in Pieces}
    OBVIOUS
  <2>. QED
    BY <2>1, LadderAssumption
<1>4. ASSUME ladder.quantity < 0, ladder.limit.ok
      PROVE  ladder.limit.kind = "debit" /\ ladder.limit.price >= ladder.quotes[ladder.of.contractId].askCents
  <2>1. quantity = -1 /\ ~(quantity > 0)
    BY <1>1, <1>4
  <2>. DEFINE leg == OptionLeg(contract, "buy", 1)
              ask == quotes[id].askCents
  <2>2. legs = <<leg>> /\ leg.side = "buy" /\ leg.ratio = 1 /\ leg.contractId = id
    BY <2>1 DEF residueClosingLeg, OptionLeg
  <2>. HIDE DEF leg, legs
  <2>3. legs[1] = leg /\ DOMAIN legs = {1}
    BY <2>2
  <2>4. ladder.limit = marketableCloseLimit(legs, quotes, rung, Step)
    BY <1>1, <2>1
  <2>5. Quoted(legs, quotes)
    <3>1. ~NoLimit.ok
      BY DEF NoLimit
    <3>2. ~Quoted(legs, quotes) => marketableCloseLimit(legs, quotes, rung, Step) = NoLimit
      BY DEF marketableCloseLimit
    <3>. QED
      BY <1>4, <2>4, <3>1, <3>2
  <2>6. id \in DOMAIN quotes /\ ask \in Nat
    BY <1>3, <2>2, <2>3, <2>5 DEF Quoted
  <2>. DEFINE f == [i \in DOMAIN legs |->
                      (IF legs[i].side = "buy" THEN quotes[legs[i].contractId].askCents
                       ELSE -quotes[legs[i].contractId].bidCents) * legs[i].ratio]
              signed == OverLegs(legs, LAMBDA l : (IF l.side = "buy" THEN quotes[l.contractId].askCents
                                                   ELSE -quotes[l.contractId].bidCents) * l.ratio)
              price == Larger(signed + rung * Step, 1)
  <2>7. signed = SumFunctionOnSet(f, {1})
    BY <2>3 DEF OverLegs, SumFunction
  <2>8. f[1] = ask
    <3>1. f[1] = ask * 1
      BY <2>2, <2>3
    <3>. QED
      BY <2>6, <3>1
  <2>9. signed = ask
    <3>. HIDE DEF f, signed
    <3>. QED
      BY <2>6, <2>7, <2>8, SumOne
  <2>10. ladder.limit = CloseLimit("debit", price, FALSE)
    <3>1. marketableCloseLimit(legs, quotes, rung, Step) =
             IF signed >= 0 THEN CloseLimit("debit", price, FALSE)
             ELSE CloseLimit("credit", Larger(-signed - rung * Step, 1), FALSE)
      BY <2>5 DEF marketableCloseLimit
    <3>2. signed >= 0
      <4>. HIDE DEF signed, ask
      <4>. QED
        BY <2>6, <2>9
    <3>. HIDE DEF signed, price
    <3>. QED
      BY <2>4, <3>1, <3>2
  <2>11. price >= ask
    <3>1. rung * Step \in Nat
      BY LadderAssumption
    <3>. HIDE DEF signed, ask
    <3>. QED
      BY <2>6, <2>9, <3>1 DEF Larger
  <2>. HIDE DEF price
  <2>12. ladder.limit.kind = "debit" /\ ladder.limit.price = price
    BY <1>4, <2>10 DEF CloseLimit, NoLimit
  <2>. QED
    BY <1>1, <2>11, <2>12
<1>5. ASSUME ladder.kind = "held"
      PROVE  /\ ~ladder.paired /\ ladder.quotes[ladder.of.contractId].bidCents = 0
             /\ expiryPayoffBound(<<OptionLeg(ladder.of, IF ladder.quantity > 0 THEN "buy" ELSE "sell", 1)>>,
                                  "credit", 0) = 0
  <2>1. evaluateExpiryHold(evidence, 0, 0)
    BY <1>1, <1>5
  <2>2. evidence.quantity > 0 /\ ~evidence.pairedShortOrLiability /\ evidence.quoted /\ evidence.quote.bidCents = 0
    BY <2>1 DEF evaluateExpiryHold
  <2>3. /\ evidence.quantity = quantity /\ evidence.pairedShortOrLiability = paired
        /\ evidence.quoted = (id \in DOMAIN quotes)
        /\ evidence.quote = IF id \in DOMAIN quotes THEN quotes[id]
                            ELSE [bidCents |-> 0, askCents |-> 0, size |-> 0, quotedAt |-> 0]
    BY DEF HoldEvidence
  <2>. HIDE DEF evidence
  <2>4. quantity > 0 /\ ~paired /\ quotes[id].bidCents = 0
    BY <2>2, <2>3
  <2>5. expiryPayoffBound(<<OptionLeg(contract, "buy", 1)>>, "credit", 0) = 0
    BY <1>2, LongIsHarmless
  <2>. QED
    BY <1>1, <2>4, <2>5
<1>. QED
  BY <1>4, <1>5 DEF ResidueCloses

LEMMA LadderFollows == LadderInv => CloseCostBounded
<1>. SUFFICES ASSUME LadderInv PROVE NetLossWithinReserve /\ ResidueCloses
  BY DEF CloseCostBounded
<1>1. CASE \E c, price, quotes : \E rung \in Nat :
              Opened(c, price, quotes) /\ ladder = OpenStructure(c, price, quotes, rung)
  <2>1. ladder.kind = "structure"
    BY <1>1 DEF OpenStructure
  <2>2. NetLossWithinReserve
    BY <1>1, StructureBounded DEF NetLossWithinReserve
  <2>. QED
    BY <2>1, <2>2 DEF ResidueCloses
<1>2. CASE \E c, price, quotes : Opened(c, price, quotes) /\ ladder = KillStructure(c, price, quotes)
  <2>1. ladder.kind = "kill"
    BY <1>2 DEF KillStructure, OpenStructure
  <2>. QED
    BY <2>1 DEF ResidueCloses, NetLossWithinReserve
<1>3. CASE \E contract \in Pieces, quantity \in {-1, 1}, paired, protected \in BOOLEAN, rung \in Nat :
           \E spot \in LadderSpots, quotes \in LadderMarkets({contract.contractId}) :
              ladder = Residue(contract, quantity, paired, protected, quotes, spot, rung)
  <2>1. ladder.kind # "structure"
    BY <1>3 DEF Residue
  <2>2. ResidueCloses
    BY <1>3, ResidueBounded
  <2>. QED
    BY <2>1, <2>2 DEF NetLossWithinReserve
<1>. QED
  BY <1>1, <1>2, <1>3 DEF LadderInv

\* However the market moves and however often a close is requoted: an intact structure is
\* closed at a loss within the reserve of its entry, a short residue at the ask or above,
\* and a residue is left to expire only where nothing can be lost (lifecycle.ts, S-X-05, S-X-06).
THEOREM ClosesAreBounded == LadderInit /\ [][LadderNext]_ladder => []CloseCostBounded
BY LadderInitially, LadderStep, LadderFollows, PTL

=============================================================================
