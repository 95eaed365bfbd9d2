----------------------------- MODULE SumLemmas -----------------------------
(***************************************************************************)
(* Sums over finite sets, SumFunctionOnSet of the community modules: a fold *)
(* that takes the elements in an order of its own.  Induction over finite   *)
(* sets is by a smallest counterexample, of which a set of counterexamples  *)
(* that is not empty has one.                                               *)
(***************************************************************************)
EXTENDS Integers, FiniteSets, Functions, FiniteSetTheorems, TLAPS

LEMMA SmallestSet ==
    ASSUME NEW S, IsFiniteSet(S), NEW B \in SUBSET SUBSET S, B # {}
    PROVE  \E T \in B : \A U \in B : U \subseteq T => U = T
<1>1. IsWellFoundedOn(StrictSubsetOrdering(S), SUBSET S)
    BY FS_StrictSubsetOrderingWellFounded, FS_FiniteSubsetsOfFinite
<1>2. \E T \in B : \A U \in B : ~(<<U, T>> \in StrictSubsetOrdering(S))
    BY <1>1, WFMin
<1>3. ASSUME NEW U \in SUBSET S, NEW T \in SUBSET S, U \subseteq T, U # T
      PROVE  <<U, T>> \in StrictSubsetOrdering(S)
    BY <1>3 DEF StrictSubsetOrdering
<1>. QED  BY <1>2, <1>3

\* A set of subsets that has the empty one, and each that it has with any one element
\* more, has them all.
LEMMA EverySubset ==
    ASSUME NEW S, IsFiniteSet(S), NEW G \in SUBSET SUBSET S, {} \in G,
           \A T \in G : \A x \in S \ T : T \cup {x} \in G
    PROVE  S \in G
<1>. SUFFICES ASSUME S \notin G PROVE FALSE
    OBVIOUS
<1>. DEFINE B == (SUBSET S) \ G
<1>0. B \in SUBSET SUBSET S /\ B # {}
    OBVIOUS
<1>1. PICK T \in B : \A U \in B : U \subseteq T => U = T
  <2>. HIDE DEF B
  <2>. QED  BY <1>0, SmallestSet
<1>2. PICK x \in T : TRUE
    BY <1>1
<1>3. T \ {x} \in G
    BY <1>1
<1>4. x \in S \ (T \ {x})
    BY <1>1, <1>2
<1>5. (T \ {x}) \cup {x} \in G
    BY <1>3, <1>4
<1>6. (T \ {x}) \cup {x} = T
    BY ONLY <1>2
<1>. QED  BY ONLY <1>1, <1>5, <1>6

-----------------------------------------------------------------------------
(* The fold is well defined. *)

Pick(s) == CHOOSE x \in s : TRUE
IsSum(g, f, S) == g = [s \in SUBSET S |-> IF s = {} THEN 0 ELSE f[Pick(s)] + g[s \ {Pick(s)}]]

LEMMA SumIs ==
    ASSUME NEW f, NEW S
    PROVE  SumFunctionOnSet(f, S) = (CHOOSE g : IsSum(g, f, S))[S]
<1>. QED  BY Zenon DEF SumFunctionOnSet, FoldFunctionOnSet, MapThenFoldSet, IsSum, Pick

LEMMA Picked == \A s : s # {} => Pick(s) \in s
<1>. QED  BY DEF Pick

\* What is computed of a set does not depend on the set that the fold began with.
LEMMA SumUnique ==
    ASSUME NEW f, NEW S, IsFiniteSet(S), NEW T, NEW g, NEW h,
           IsSum(g, f, S), IsSum(h, f, T)
    PROVE  \A s \in SUBSET (S \cap T) : g[s] = h[s]
<1>. DEFINE B == {s \in SUBSET (S \cap T) : g[s] # h[s]}
<1>. SUFFICES ASSUME B # {} PROVE FALSE
    OBVIOUS
<1>1. IsFiniteSet(S \cap T)
    BY FS_Intersection
<1>2. PICK s \in B : \A u \in B : u \subseteq s => u = s
  <2>1. B \in SUBSET SUBSET (S \cap T)
      OBVIOUS
  <2>. HIDE DEF B
  <2>. QED  BY <1>1, <2>1, SmallestSet
<1>3. s # {}
    BY DEF IsSum
<1>. DEFINE u == s \ {Pick(s)}
<1>4. u \subseteq s /\ u # s /\ u \in SUBSET (S \cap T)
    BY <1>3, Picked
<1>5. g[u] = h[u]
    BY <1>2, <1>4
<1>6. g[s] = f[Pick(s)] + g[u] /\ h[s] = f[Pick(s)] + h[u]
    BY <1>3 DEF IsSum
<1>. QED  BY <1>2, <1>5, <1>6

LEMMA SumExists ==
    ASSUME NEW f, NEW S, IsFiniteSet(S)
    PROVE  \E g : IsSum(g, f, S)
<1>. DEFINE B == {T \in SUBSET S : ~ \E g : IsSum(g, f, T)}
<1>. SUFFICES ASSUME B # {} PROVE FALSE
    OBVIOUS
<1>1. PICK T \in B : \A U \in B : U \subseteq T => U = T
  <2>1. B \in SUBSET SUBSET S
      OBVIOUS
  <2>. HIDE DEF B
  <2>. QED  BY <2>1, SmallestSet
<1>. DEFINE G(U) == CHOOSE g : IsSum(g, f, U)
            h == [s \in SUBSET T |-> IF s = {} THEN 0
                                     ELSE f[Pick(s)] + G(s \ {Pick(s)})[s \ {Pick(s)}]]
<1>2. \A U \in SUBSET T : U # T => IsSum(G(U), f, U)
    BY <1>1
<1>. HIDE DEF G
<1>3. ASSUME NEW s \in SUBSET T, s # {}
      PROVE  h[s \ {Pick(s)}] = G(s \ {Pick(s)})[s \ {Pick(s)}]
  <2>. DEFINE u == s \ {Pick(s)}
              w == u \ {Pick(u)}
  <2>1. u \in SUBSET T /\ u # T
      BY <1>3, Picked
  <2>2. IsSum(G(u), f, u)
      BY <2>1, <1>2
  <2>3. CASE u = {}
    <3>1. G(u)[u] = 0
        BY <2>2, <2>3 DEF IsSum
    <3>2. h[u] = 0
        BY <2>1, <2>3
    <3>. QED  BY <3>1, <3>2
  <2>4. CASE u # {}
    <3>1. w \in SUBSET T /\ w # T /\ w \subseteq u
        BY <2>1, <2>4, Picked
    <3>2. IsSum(G(w), f, w)
        BY <3>1, <1>2
    <3>3. IsFiniteSet(u) /\ IsFiniteSet(w)
        BY <2>1, <3>1, FS_Subset
    <3>. HIDE DEF w
    <3>4. G(u)[w] = G(w)[w]
      <4>1. w \in SUBSET (u \cap w)
          BY <3>1
      <4>. QED  BY <4>1, <2>2, <3>2, <3>3, SumUnique
    <3>5. G(u)[u] = f[Pick(u)] + G(u)[w]
        BY <2>2, <2>4 DEF IsSum, w
    <3>6. h[u] = f[Pick(u)] + G(w)[w]
        BY <2>1, <2>4 DEF w
    <3>. QED  BY <3>4, <3>5, <3>6
  <2>. QED  BY <2>3, <2>4
<1>4. IsSum(h, f, T)
    BY <1>3 DEF IsSum
<1>. QED  BY <1>1, <1>4

LEMMA SumFold ==
    ASSUME NEW f, NEW S, IsFiniteSet(S)
    PROVE  \E g : IsSum(g, f, S) /\ SumFunctionOnSet(f, S) = g[S]
<1>. QED  BY SumIs, SumExists

LEMMA SumEmpty == \A f : SumFunctionOnSet(f, {}) = 0
<1>1. ASSUME NEW f PROVE SumFunctionOnSet(f, {}) = 0
  <2>1. PICK g : IsSum(g, f, {}) /\ SumFunctionOnSet(f, {}) = g[{}]
      BY SumFold, FS_EmptySet
  <2>. QED  BY <2>1 DEF IsSum
<1>. QED  BY <1>1

LEMMA SumPick ==
    ASSUME NEW f, NEW S, IsFiniteSet(S), S # {}
    PROVE  SumFunctionOnSet(f, S) = f[Pick(S)] + SumFunctionOnSet(f, S \ {Pick(S)})
<1>. DEFINE R == S \ {Pick(S)}
<1>1. IsFiniteSet(R) /\ R \in SUBSET (S \cap R)
    BY FS_RemoveElement
<1>2. PICK g : IsSum(g, f, S) /\ SumFunctionOnSet(f, S) = g[S]
    BY SumFold
<1>. HIDE DEF R
<1>3. PICK h : IsSum(h, f, R) /\ SumFunctionOnSet(f, R) = h[R]
    BY <1>1, SumFold
<1>4. g[R] = h[R]
    BY <1>1, <1>2, <1>3, SumUnique
<1>5. g[S] = f[Pick(S)] + g[R]
    BY <1>2 DEF IsSum, R
<1>. QED  BY <1>2, <1>3, <1>4, <1>5 DEF R

-----------------------------------------------------------------------------
(* Sums of natural numbers. *)

LEMMA SumNat ==
    ASSUME NEW f, NEW S, IsFiniteSet(S), \A x \in S : f[x] \in Nat
    PROVE  SumFunctionOnSet(f, S) \in Nat
<1>. DEFINE B == {T \in SUBSET S : SumFunctionOnSet(f, T) \notin Nat}
<1>. SUFFICES ASSUME B # {} PROVE FALSE
    OBVIOUS
<1>1. PICK T \in B : \A U \in B : U \subseteq T => U = T
  <2>1. B \in SUBSET SUBSET S
      OBVIOUS
  <2>. HIDE DEF B
  <2>. QED  BY <2>1, SmallestSet
<1>2. T # {}
    BY SumEmpty
<1>3. T \in SUBSET S /\ IsFiniteSet(T)
    BY FS_Subset
<1>4. Pick(T) \in T /\ T \ {Pick(T)} \in SUBSET S /\ T \ {Pick(T)} # T
    BY <1>2, <1>3, Picked
<1>5. SumFunctionOnSet(f, T \ {Pick(T)}) \in Nat
    BY <1>1, <1>4
<1>. QED  BY <1>2, <1>3, <1>4, <1>5, SumPick

\* Any element may be taken out first.
LEMMA SumTake ==
    ASSUME NEW f, NEW S, IsFiniteSet(S), \A x \in S : f[x] \in Nat, NEW z \in S
    PROVE  SumFunctionOnSet(f, S) = f[z] + SumFunctionOnSet(f, S \ {z})
<1>. DEFINE Sum(T) == SumFunctionOnSet(f, T)
            B == {T \in SUBSET S : \E x \in T : Sum(T) # f[x] + Sum(T \ {x})}
<1>. SUFFICES ASSUME B # {} PROVE FALSE
    OBVIOUS
<1>1. PICK T \in B : \A U \in B : U \subseteq T => U = T
  <2>1. B \in SUBSET SUBSET S
      OBVIOUS
  <2>. HIDE DEF B
  <2>. QED  BY <2>1, SmallestSet
<1>2. PICK x \in T : Sum(T) # f[x] + Sum(T \ {x})
    BY <1>1
<1>. DEFINE c == Pick(T)
            Tc == T \ {c}
            Tx == T \ {x}
            R == Tc \ {x}
<1>3. T \in SUBSET S /\ c \in T
    BY <1>2, Picked
<1>4. IsFiniteSet(T) /\ Sum(T) = f[c] + Sum(Tc)
    BY <1>2, <1>3, SumPick, FS_Subset
<1>5. c # x
    BY <1>2, <1>4
<1>6. Tc \notin B /\ Tc \in SUBSET S /\ x \in Tc
    BY <1>1, <1>3, <1>5
<1>7. Tx \notin B /\ Tx \in SUBSET S /\ c \in Tx
    BY <1>1, <1>3, <1>5
<1>8. Tx \ {c} = R
    OBVIOUS
<1>9. IsFiniteSet(R) /\ R \in SUBSET S
    BY <1>6, FS_Subset
<1>10. Sum(R) \in Nat
    BY <1>9, SumNat
<1>. HIDE DEF Sum, c, R
<1>11. Sum(Tc) = f[x] + Sum(R)
    BY <1>6 DEF R
<1>12. Sum(Tx) = f[c] + Sum(R)
    BY <1>7, <1>8
<1>13. f[x] \in Nat /\ f[c] \in Nat
    BY <1>2, <1>3
<1>14. Sum(T) = f[x] + Sum(Tx)
    BY <1>4, <1>10, <1>11, <1>12, <1>13
<1>. QED  BY <1>2, <1>14

LEMMA SumAdd ==
    ASSUME NEW f, NEW S, IsFiniteSet(S), NEW z, z \notin S, \A x \in S \cup {z} : f[x] \in Nat
    PROVE  SumFunctionOnSet(f, S \cup {z}) = SumFunctionOnSet(f, S) + f[z]
<1>1. IsFiniteSet(S \cup {z}) /\ (S \cup {z}) \ {z} = S
    BY FS_AddElement
<1>2. SumFunctionOnSet(f, S \cup {z}) = f[z] + SumFunctionOnSet(f, S)
  <2>. DEFINE T == S \cup {z}
  <2>1. z \in T /\ T \ {z} = S /\ IsFiniteSet(T) /\ \A x \in T : f[x] \in Nat
      BY <1>1
  <2>. HIDE DEF T
  <2>2. SumFunctionOnSet(f, T) = f[z] + SumFunctionOnSet(f, T \ {z})
      BY <2>1, SumTake
  <2>. QED  BY <2>1, <2>2 DEF T
<1>3. SumFunctionOnSet(f, S) \in Nat /\ f[z] \in Nat
    BY SumNat
<1>. QED  BY <1>2, <1>3

\* A sum depends on the values at its elements alone.
LEMMA SumSame ==
    ASSUME NEW f, NEW g, NEW S, IsFiniteSet(S), \A x \in S : f[x] = g[x]
    PROVE  SumFunctionOnSet(f, S) = SumFunctionOnSet(g, S)
<1>. DEFINE B == {T \in SUBSET S : SumFunctionOnSet(f, T) # SumFunctionOnSet(g, T)}
<1>. SUFFICES ASSUME B # {} PROVE FALSE
    OBVIOUS
<1>1. PICK T \in B : \A U \in B : U \subseteq T => U = T
  <2>1. B \in SUBSET SUBSET S
      OBVIOUS
  <2>. HIDE DEF B
  <2>. QED  BY <2>1, SmallestSet
<1>2. T # {}
    BY SumEmpty
<1>3. T \in SUBSET S /\ IsFiniteSet(T)
    BY FS_Subset
<1>4. Pick(T) \in T /\ T \ {Pick(T)} \in SUBSET S /\ T \ {Pick(T)} # T
    BY <1>2, <1>3, Picked
<1>5. SumFunctionOnSet(f, T \ {Pick(T)}) = SumFunctionOnSet(g, T \ {Pick(T)})
    BY <1>1, <1>4
<1>. QED  BY <1>2, <1>3, <1>4, <1>5, SumPick

\* Changing one value changes the sum by as much.
LEMMA SumChange ==
    ASSUME NEW f, NEW g, NEW S, IsFiniteSet(S), NEW z \in S,
           \A x \in S : f[x] \in Nat /\ g[x] \in Nat,
           \A x \in S \ {z} : f[x] = g[x]
    PROVE  SumFunctionOnSet(g, S) = SumFunctionOnSet(f, S) - f[z] + g[z]
<1>1. IsFiniteSet(S \ {z})
    BY FS_RemoveElement
<1>2. SumFunctionOnSet(f, S \ {z}) = SumFunctionOnSet(g, S \ {z})
    BY <1>1, SumSame
<1>3. SumFunctionOnSet(f, S \ {z}) \in Nat
    BY <1>1, SumNat
<1>. QED  BY <1>2, <1>3, SumTake

LEMMA SumSubset ==
    ASSUME NEW f, NEW S, IsFiniteSet(S), \A x \in S : f[x] \in Nat, NEW T \in SUBSET S
    PROVE  SumFunctionOnSet(f, T) <= SumFunctionOnSet(f, S)
<1>. DEFINE B == {U \in SUBSET S : \E V \in SUBSET U : ~(SumFunctionOnSet(f, V) <= SumFunctionOnSet(f, U))}
<1>. SUFFICES ASSUME B # {} PROVE FALSE
    OBVIOUS
<1>1. PICK U \in B : \A W \in B : W \subseteq U => W = U
  <2>1. B \in SUBSET SUBSET S
      OBVIOUS
  <2>. HIDE DEF B
  <2>. QED  BY <2>1, SmallestSet
<1>2. PICK V \in SUBSET U : ~(SumFunctionOnSet(f, V) <= SumFunctionOnSet(f, U))
    BY <1>1
<1>3. U \in SUBSET S /\ V \in SUBSET S /\ IsFiniteSet(U) /\ IsFiniteSet(V)
    BY <1>1, <1>2, FS_Subset
<1>4. SumFunctionOnSet(f, U) \in Nat /\ SumFunctionOnSet(f, V) \in Nat
    BY <1>3, SumNat
<1>5. PICK x \in U : x \notin V
  <2>1. V # U
      BY <1>2, <1>4
  <2>. QED  BY <2>1
<1>6. V \in SUBSET (U \ {x}) /\ U \ {x} \in SUBSET S /\ U \ {x} # U
    BY <1>3, <1>5
<1>7. SumFunctionOnSet(f, V) <= SumFunctionOnSet(f, U \ {x})
    BY <1>1, <1>6
<1>8. SumFunctionOnSet(f, U \ {x}) \in Nat
    BY <1>3, <1>6, SumNat, FS_Subset
<1>9. SumFunctionOnSet(f, U) = f[x] + SumFunctionOnSet(f, U \ {x})
    BY <1>3, <1>5, SumTake
<1>10. f[x] \in Nat
    BY <1>3, <1>5
<1>. QED  BY <1>2, <1>4, <1>7, <1>8, <1>9, <1>10

LEMMA SumMonotone ==
    ASSUME NEW f, NEW g, NEW S, IsFiniteSet(S),
           \A x \in S : f[x] \in Nat /\ g[x] \in Nat /\ f[x] <= g[x]
    PROVE  SumFunctionOnSet(f, S) <= SumFunctionOnSet(g, S)
<1>. DEFINE B == {T \in SUBSET S : ~(SumFunctionOnSet(f, T) <= SumFunctionOnSet(g, T))}
<1>. SUFFICES ASSUME B # {} PROVE FALSE
    OBVIOUS
<1>1. PICK T \in B : \A U \in B : U \subseteq T => U = T
  <2>1. B \in SUBSET SUBSET S
      OBVIOUS
  <2>. HIDE DEF B
  <2>. QED  BY <2>1, SmallestSet
<1>2. T # {}
    BY SumEmpty
<1>3. T \in SUBSET S /\ IsFiniteSet(T)
    BY FS_Subset
<1>. DEFINE R == T \ {Pick(T)}
<1>4. Pick(T) \in T /\ R \in SUBSET S /\ R # T /\ IsFiniteSet(R)
    BY <1>2, <1>3, Picked, FS_Subset
<1>5. SumFunctionOnSet(f, R) <= SumFunctionOnSet(g, R)
    BY <1>1, <1>4
<1>6. /\ SumFunctionOnSet(f, T) = f[Pick(T)] + SumFunctionOnSet(f, R)
      /\ SumFunctionOnSet(g, T) = g[Pick(T)] + SumFunctionOnSet(g, R)
    BY <1>2, <1>3, SumPick
<1>7. SumFunctionOnSet(f, R) \in Nat /\ SumFunctionOnSet(g, R) \in Nat
    BY <1>3, <1>4, SumNat
<1>8. f[Pick(T)] \in Nat /\ g[Pick(T)] \in Nat /\ f[Pick(T)] <= g[Pick(T)]
    BY <1>3, <1>4
<1>. HIDE DEF R
<1>9. SumFunctionOnSet(f, T) <= SumFunctionOnSet(g, T)
    BY <1>5, <1>6, <1>7, <1>8
<1>. QED  BY <1>9
LEMMA SumOther ==
    ASSUME NEW f, NEW g, NEW T, IsFiniteSet(T), NEW z,
           \A x \in T : f[x] \in Nat /\ g[x] \in Nat,
           \A x \in T \ {z} : f[x] = g[x]
    PROVE  SumFunctionOnSet(g, T) = IF z \in T THEN SumFunctionOnSet(f, T) - f[z] + g[z] ELSE SumFunctionOnSet(f, T)
<1>1. CASE z \in T
    BY <1>1, SumChange
<1>2. CASE z \notin T
    BY <1>2, SumSame
<1>. QED  BY <1>1, <1>2

\* The sum of a whole function.
LEMMA SumWhole ==
    ASSUME NEW S, NEW f, f \in [S -> Nat], IsFiniteSet(S)
    PROVE  SumFunction(f) = SumFunctionOnSet(f, S) /\ SumFunction(f) \in Nat
<1>1. DOMAIN f = S /\ \A x \in S : f[x] \in Nat
    OBVIOUS
<1>2. SumFunction(f) = SumFunctionOnSet(f, S)
    BY <1>1, Zenon DEF SumFunction, SumFunctionOnSet, FoldFunction
<1>. QED  BY <1>1, <1>2, SumNat

LEMMA SumWholeOther ==
    ASSUME NEW S, NEW f, f \in [S -> Nat], NEW g, g \in [S -> Nat], IsFiniteSet(S),
           NEW z \in S, \A x \in S \ {z} : f[x] = g[x]
    PROVE  SumFunction(g) = SumFunction(f) - f[z] + g[z]
<1>1. \A x \in S : f[x] \in Nat /\ g[x] \in Nat
    OBVIOUS
<1>2. SumFunctionOnSet(g, S) = SumFunctionOnSet(f, S) - f[z] + g[z]
    BY <1>1, SumChange
<1>3. SumFunction(f) = SumFunctionOnSet(f, S) /\ SumFunction(g) = SumFunctionOnSet(g, S)
    BY SumWhole
<1>. QED  BY <1>2, <1>3

LEMMA SumSplit ==
    ASSUME NEW f, NEW S, NEW T, IsFiniteSet(S), IsFiniteSet(T), S \cap T = {},
           \A x \in S \cup T : f[x] \in Nat
    PROVE  SumFunctionOnSet(f, S \cup T) = SumFunctionOnSet(f, S) + SumFunctionOnSet(f, T)
<1>. DEFINE Sum(U) == SumFunctionOnSet(f, U)
            G == {U \in SUBSET T : Sum(S \cup U) = Sum(S) + Sum(U)}
<1>1. {} \in G
  <2>1. Sum(S) \in Nat /\ Sum({}) = 0 /\ S \cup {} = S
      BY SumNat, SumEmpty
  <2>. QED  BY <2>1
<1>2. ASSUME NEW U \in G, NEW x \in T \ U PROVE U \cup {x} \in G
  <2>1. IsFiniteSet(U) /\ IsFiniteSet(S \cup U)
      BY FS_Subset, FS_Union
  <2>2. Sum(U \cup {x}) = Sum(U) + f[x]
    <3>1. \A y \in U \cup {x} : f[y] \in Nat
        OBVIOUS
    <3>. QED  BY <2>1, <3>1, SumAdd
  <2>. DEFINE V == S \cup U
  <2>3. x \notin V /\ \A y \in V \cup {x} : f[y] \in Nat
      OBVIOUS
  <2>4. Sum(V \cup {x}) = Sum(V) + f[x]
    <3>. HIDE DEF V
    <3>. QED  BY <2>1, <2>3, SumAdd DEF V
  <2>5. Sum(S) \in Nat /\ Sum(U) \in Nat /\ f[x] \in Nat
      BY <2>1, SumNat
  <2>6. Sum(V) = Sum(S) + Sum(U)
      OBVIOUS
  <2>. DEFINE W == S \cup (U \cup {x})
  <2>7. W = V \cup {x}
      OBVIOUS
  <2>. HIDE DEF Sum, V, W
  <2>8. Sum(W) = Sum(S) + Sum(U \cup {x})
      BY <2>2, <2>4, <2>5, <2>6, <2>7
  <2>. QED  BY <2>8 DEF W
<1>3. T \in G
  <2>1. G \in SUBSET SUBSET T
      OBVIOUS
  <2>. HIDE DEF G
  <2>. QED  BY <1>1, <1>2, <2>1, EverySubset
<1>. QED  BY <1>3

LEMMA Distribute ==
    ASSUME NEW u \in Nat, NEW a \in Nat, NEW b \in Nat
    PROVE  u * (a + b) = u * a + u * b /\ u * a \in Nat /\ u * b \in Nat /\ u * 0 = 0
<1>. QED  OBVIOUS

LEMMA SumScaled ==
    ASSUME NEW f, NEW g, NEW S, IsFiniteSet(S), NEW u \in Nat,
           \A x \in S : f[x] \in Nat /\ g[x] \in Nat /\ u * f[x] <= g[x]
    PROVE  u * SumFunctionOnSet(f, S) <= SumFunctionOnSet(g, S)
<1>. DEFINE F(U) == SumFunctionOnSet(f, U)
            H(U) == SumFunctionOnSet(g, U)
            G == {U \in SUBSET S : u * F(U) <= H(U)}
<1>1. {} \in G
  <2>1. F({}) = 0 /\ H({}) = 0 /\ u * 0 = 0
      BY SumEmpty, Distribute
  <2>. QED  BY <2>1
<1>2. ASSUME NEW U \in G, NEW x \in S \ U PROVE U \cup {x} \in G
  <2>1. IsFiniteSet(U) /\ \A y \in U \cup {x} : f[y] \in Nat /\ g[y] \in Nat
      BY FS_Subset
  <2>2. F(U \cup {x}) = F(U) + f[x] /\ H(U \cup {x}) = H(U) + g[x]
      BY <2>1, SumAdd
  <2>3. F(U) \in Nat /\ H(U) \in Nat /\ f[x] \in Nat /\ g[x] \in Nat /\ u * f[x] <= g[x]
      BY <2>1, SumNat
  <2>4. u * F(U) <= H(U)
      OBVIOUS
  <2>. HIDE DEF F, H
  <2>5. u * (F(U) + f[x]) = u * F(U) + u * f[x] /\ u * F(U) \in Nat /\ u * f[x] \in Nat
      BY <2>3, Distribute
  <2>6. u * F(U \cup {x}) <= H(U \cup {x})
      BY <2>2, <2>3, <2>4, <2>5
  <2>. QED  BY <2>6
<1>3. S \in G
  <2>1. G \in SUBSET SUBSET S
      OBVIOUS
  <2>. HIDE DEF G
  <2>. QED  BY <1>1, <1>2, <2>1, EverySubset
<1>. QED  BY <1>3

\* A finite set of numbers that is not empty has a greatest.
LEMMA GreatestIn ==
    ASSUME NEW S, IsFiniteSet(S), S \subseteq Nat, S # {}
    PROVE  \E m \in S : \A x \in S : x <= m
<1>. DEFINE G == {U \in SUBSET S : U = {} \/ \E m \in U : \A x \in U : x <= m}
<1>1. {} \in G
    OBVIOUS
<1>2. ASSUME NEW U \in G, NEW x \in S \ U PROVE U \cup {x} \in G
  <2>1. CASE U = {}
      BY <2>1
  <2>2. ASSUME NEW m \in U, \A y \in U : y <= m PROVE U \cup {x} \in G
    <3>1. m \in Nat /\ x \in Nat /\ U \subseteq Nat
        OBVIOUS
    <3>2. CASE x <= m
        BY <2>2, <3>1, <3>2
    <3>3. CASE ~(x <= m)
      <4>1. \A y \in U \cup {x} : y <= x
          BY <2>2, <3>1, <3>3
      <4>. QED  BY <4>1
    <3>. QED  BY <3>2, <3>3
  <2>. QED  BY <2>1, <2>2
<1>3. S \in G
  <2>1. G \in SUBSET SUBSET S
      OBVIOUS
  <2>. HIDE DEF G
  <2>. QED  BY <1>1, <1>2, <2>1, EverySubset
<1>. QED  BY <1>3
=============================================================================
