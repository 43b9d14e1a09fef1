------------------------------ MODULE SumProofs ------------------------------
(***************************************************************************)
(* The laws of a sum over a finite set, for the invariants that add up     *)
(* the rows of a table (what a buyer paid, what was sold, the stars of a   *)
(* product).  SumFunctionOnSet is a fold: it takes the elements one by     *)
(* one, as CHOOSE gives them.  The laws say that the order is immaterial.  *)
(* Each is proved from a minimal counterexample among the subsets.         *)
(***************************************************************************)
EXTENDS Functions, FiniteSets, FiniteSetTheorems, TLAPS

\* The element the fold takes next.
FoldsNext(s) == CHOOSE x \in s : TRUE

\* g is the recursive function a sum of f over a subset of S is read from.
SumsUp(g, f, S) ==
  g = [s \in SUBSET S |-> IF s = {} THEN 0 ELSE f[FoldsNext(s)] + g[s \ {FoldsNext(s)}]]

-----------------------------------------------------------------------------
(* The fold's recursive function exists and is the only one *)

(* A family of subsets of a finite set has a minimal member. *)
LEMMA MinimalSubset ==
  ASSUME NEW S, IsFiniteSet(S), NEW B \in SUBSET (SUBSET S), B # {}
  PROVE  \E T \in B : \A U \in B : U \subseteq T => U = T
  <1> DEFINE R == StrictSubsetOrdering(S)
  <1>1. IsWellFoundedOn(R, FiniteSubsetsOf(S))
    BY FS_StrictSubsetOrderingWellFounded
  <1>2. B \subseteq FiniteSubsetsOf(S)
    BY FS_FiniteSubsetsOfFinite
  <1> HIDE DEF R
  <1>3. \E T \in B : \A U \in B : ~ (<<U, T>> \in R)
    BY <1>1, <1>2, WFMin
  <1>4. QED
    BY <1>3 DEF R, StrictSubsetOrdering

(* The element taken is one of the set. *)
LEMMA NextIsElement ==
  ASSUME NEW T, T # {}
  PROVE  FoldsNext(T) \in T
  BY DEF FoldsNext

(* Two such functions agree wherever both are defined. *)
LEMMA SumsAgree ==
  ASSUME NEW f, NEW g, NEW h, NEW S, NEW T, IsFiniteSet(S),
         SumsUp(g, f, S), SumsUp(h, f, T), NEW U \in SUBSET S, U \subseteq T
  PROVE  g[U] = h[U]
  <1> DEFINE B == {V \in SUBSET S : V \subseteq T /\ g[V] # h[V]}
  <1> SUFFICES ASSUME B # {}
               PROVE  FALSE
    OBVIOUS
  <1>1. PICK V \in B : \A W \in B : W \subseteq V => W = V
    <2>1. B \in SUBSET (SUBSET S)
      OBVIOUS
    <2> HIDE DEF B
    <2>2. QED
      BY <2>1, MinimalSubset
  <1>2. g[V] = IF V = {} THEN 0 ELSE f[FoldsNext(V)] + g[V \ {FoldsNext(V)}]
    BY DEF SumsUp
  <1>3. h[V] = IF V = {} THEN 0 ELSE f[FoldsNext(V)] + h[V \ {FoldsNext(V)}]
    BY DEF SumsUp
  <1>4. CASE V = {}
    BY <1>2, <1>3, <1>4
  <1>5. CASE V # {}
    <2> DEFINE W == V \ {FoldsNext(V)}
    <2>1. W \subseteq V /\ W # V
      BY <1>5, NextIsElement
    <2>2. g[W] = h[W]
      BY <1>1, <2>1
    <2>3. QED
      BY <1>2, <1>3, <1>5, <2>2
  <1>6. QED
    BY <1>4, <1>5

(* There is one over every finite set. *)
LEMMA SumsExist ==
  ASSUME NEW f, NEW S, IsFiniteSet(S)
  PROVE  \E g : SumsUp(g, f, S)
  <1> DEFINE B == {T \in SUBSET S : ~ \E g : SumsUp(g, f, T)}
  <1> SUFFICES ASSUME B # {}
               PROVE  FALSE
    OBVIOUS
  <1>1. PICK T \in B : \A U \in B : U \subseteq T => U = T
    <2>1. B \in SUBSET (SUBSET S)
      OBVIOUS
    <2> HIDE DEF B
    <2>2. QED
      BY <2>1, MinimalSubset
  <1> DEFINE G(U) == CHOOSE g : SumsUp(g, f, U)
  <1>2. ASSUME NEW U \in SUBSET T, U # T
        PROVE  SumsUp(G(U), f, U)
    <2>1. \E g : SumsUp(g, f, U)
      BY <1>1, <1>2
    <2>2. QED
      BY <2>1
  <1> DEFINE value(U) == IF U = {} THEN 0 ELSE f[FoldsNext(U)] + G(U \ {FoldsNext(U)})[U \ {FoldsNext(U)}]
             h        == [U \in SUBSET T |-> value(U)]
  <1>3. ASSUME NEW U \in SUBSET T, U # T
        PROVE  h[U] = G(U)[U]
    <2>1. G(U)[U] = IF U = {} THEN 0 ELSE f[FoldsNext(U)] + G(U)[U \ {FoldsNext(U)}]
      <3>1. SumsUp(G(U), f, U) /\ U \in SUBSET U
        BY <1>2, <1>3
      <3> HIDE DEF G
      <3>2. QED
        BY <3>1 DEF SumsUp
    <2>2. CASE U = {}
      BY <2>1, <2>2
    <2>3. CASE U # {}
      <3> DEFINE W == U \ {FoldsNext(U)}
      <3>1. W \in SUBSET T /\ W # T /\ W \in SUBSET U /\ W \subseteq W
        BY <1>3, <2>3, NextIsElement
      <3>2. IsFiniteSet(U) /\ IsFiniteSet(W)
        BY <1>1, <3>1, FS_Subset
      <3>3. SumsUp(G(U), f, U) /\ SumsUp(G(W), f, W)
        BY <1>2, <1>3, <3>1
      <3> HIDE DEF G
      <3>4. G(U)[W] = G(W)[W]
        BY <3>1, <3>2, <3>3, SumsAgree
      <3>5. QED
        BY <2>1, <2>3, <3>4
    <2>4. QED
      BY <2>2, <2>3
  <1>4. SumsUp(h, f, T)
    <2>1. ASSUME NEW U \in SUBSET T, U # {}
          PROVE  G(U \ {FoldsNext(U)})[U \ {FoldsNext(U)}] = h[U \ {FoldsNext(U)}]
      <3>1. U \ {FoldsNext(U)} \in SUBSET T /\ U \ {FoldsNext(U)} # T
        BY <2>1, NextIsElement
      <3> HIDE DEF G, h
      <3>2. QED
        BY <1>3, <3>1
    <2>2. ASSUME NEW U \in SUBSET T
          PROVE  value(U) = IF U = {} THEN 0 ELSE f[FoldsNext(U)] + h[U \ {FoldsNext(U)}]
      <3> HIDE DEF G, h
      <3>1. CASE U = {}
        BY <3>1
      <3>2. CASE U # {}
        BY <2>1, <3>2
      <3>3. QED
        BY <3>1, <3>2
    <2> HIDE DEF value
    <2>3. h = [U \in SUBSET T |-> IF U = {} THEN 0 ELSE f[FoldsNext(U)] + h[U \ {FoldsNext(U)}]]
      BY <2>2
    <2>4. QED
      BY <2>3 DEF SumsUp
  <1>5. QED
    BY <1>1, <1>4

-----------------------------------------------------------------------------
(* What the sum is *)

(* A sum over a finite set is read from such a function. *)
LEMMA SumIsRead ==
  ASSUME NEW f, NEW S, IsFiniteSet(S)
  PROVE  \E g : SumsUp(g, f, S) /\ SumFunctionOnSet(f, S) = g[S]
  <1> DEFINE g == CHOOSE g : SumsUp(g, f, S)
  <1>1. SumsUp(g, f, S)
    <2>1. \E k : SumsUp(k, f, S)
      BY SumsExist
    <2>2. QED
      BY <2>1
  <1>2. SumFunctionOnSet(f, S) = g[S]
    BY DEF SumFunctionOnSet, FoldFunctionOnSet, MapThenFoldSet, SumsUp, FoldsNext
  <1>3. QED
    BY <1>1, <1>2

(* The empty sum is 0. *)
LEMMA SumEmpty ==
  ASSUME NEW f
  PROVE  SumFunctionOnSet(f, {}) = 0
  <1>1. IsFiniteSet({})
    BY FS_EmptySet
  <1>2. PICK g : SumsUp(g, f, {}) /\ SumFunctionOnSet(f, {}) = g[{}]
    BY <1>1, SumIsRead
  <1>3. QED
    BY <1>2 DEF SumsUp

(* Any other is the value at the element taken next, and the rest.         *)
LEMMA SumNext ==
  ASSUME NEW f, NEW S, IsFiniteSet(S), S # {}
  PROVE  SumFunctionOnSet(f, S) = f[FoldsNext(S)] + SumFunctionOnSet(f, S \ {FoldsNext(S)})
  <1> DEFINE W == S \ {FoldsNext(S)}
  <1>1. PICK g : SumsUp(g, f, S) /\ SumFunctionOnSet(f, S) = g[S]
    BY SumIsRead
  <1>2. IsFiniteSet(W)
    BY FS_Subset
  <1>3. PICK h : SumsUp(h, f, W) /\ SumFunctionOnSet(f, W) = h[W]
    BY <1>2, SumIsRead
  <1>4. g[W] = h[W]
    BY <1>1, <1>3, SumsAgree
  <1>5. g[S] = f[FoldsNext(S)] + g[W]
    BY <1>1 DEF SumsUp
  <1>6. QED
    BY <1>1, <1>3, <1>4, <1>5

(* A sum of integers is an integer. *)
LEMMA SumType ==
  ASSUME NEW f, NEW S, IsFiniteSet(S), \A x \in S : f[x] \in Int
  PROVE  SumFunctionOnSet(f, S) \in Int
  <1> DEFINE B == {T \in SUBSET S : SumFunctionOnSet(f, T) \notin Int}
  <1> SUFFICES ASSUME B # {}
               PROVE  FALSE
    OBVIOUS
  <1>1. PICK T \in B : \A U \in B : U \subseteq T => U = T
    <2>1. B \in SUBSET (SUBSET S)
      OBVIOUS
    <2> HIDE DEF B
    <2>2. QED
      BY <2>1, MinimalSubset
  <1>2. IsFiniteSet(T)
    BY <1>1, FS_Subset
  <1>3. T # {}
    <2>1. SumFunctionOnSet(f, {}) \in Int
      BY SumEmpty
    <2>2. QED
      BY <1>1, <2>1
  <1> DEFINE W == T \ {FoldsNext(T)}
  <1>4. FoldsNext(T) \in T /\ W \subseteq T /\ W # T
    BY <1>3, NextIsElement
  <1>5. SumFunctionOnSet(f, W) \in Int
    BY <1>1, <1>4
  <1>6. SumFunctionOnSet(f, T) = f[FoldsNext(T)] + SumFunctionOnSet(f, W)
    BY <1>2, <1>3, SumNext
  <1>7. QED
    BY <1>1, <1>4, <1>5, <1>6

(* A sum of natural numbers is one. *)
LEMMA SumNat ==
  ASSUME NEW f, NEW S, IsFiniteSet(S), \A x \in S : f[x] \in Nat
  PROVE  SumFunctionOnSet(f, S) \in Nat
  <1> DEFINE B == {T \in SUBSET S : SumFunctionOnSet(f, T) \notin Nat}
  <1> SUFFICES ASSUME B # {}
               PROVE  FALSE
    OBVIOUS
  <1>1. PICK T \in B : \A U \in B : U \subseteq T => U = T
    <2>1. B \in SUBSET (SUBSET S)
      OBVIOUS
    <2> HIDE DEF B
    <2>2. QED
      BY <2>1, MinimalSubset
  <1>2. IsFiniteSet(T)
    BY <1>1, FS_Subset
  <1>3. T # {}
    <2>1. SumFunctionOnSet(f, {}) \in Nat
      BY SumEmpty
    <2>2. QED
      BY <1>1, <2>1
  <1> DEFINE W == T \ {FoldsNext(T)}
  <1>4. FoldsNext(T) \in T /\ W \subseteq T /\ W # T
    BY <1>3, NextIsElement
  <1>5. SumFunctionOnSet(f, W) \in Nat
    BY <1>1, <1>4
  <1>6. SumFunctionOnSet(f, T) = f[FoldsNext(T)] + SumFunctionOnSet(f, W)
    BY <1>2, <1>3, SumNext
  <1>7. QED
    BY <1>1, <1>4, <1>5, <1>6

(* Any element may be taken out first. *)
LEMMA SumTakeOut ==
  ASSUME NEW f, NEW S, IsFiniteSet(S), \A x \in S : f[x] \in Int, NEW x \in S
  PROVE  SumFunctionOnSet(f, S) = f[x] + SumFunctionOnSet(f, S \ {x})
  <1> DEFINE wrong(T, y) == SumFunctionOnSet(f, T) # f[y] + SumFunctionOnSet(f, T \ {y})
             B == {T \in SUBSET S : \E y \in T : wrong(T, y)}
  <1> SUFFICES ASSUME B # {}
               PROVE  FALSE
    OBVIOUS
  <1>1. PICK T \in B : \A U \in B : U \subseteq T => U = T
    <2>1. B \in SUBSET (SUBSET S)
      OBVIOUS
    <2> HIDE DEF B
    <2>2. QED
      BY <2>1, MinimalSubset
  <1>2. PICK y \in T : wrong(T, y)
    BY <1>1
  <1>3. IsFiniteSet(T) /\ T # {}
    BY <1>1, <1>2, FS_Subset
  <1> DEFINE z == FoldsNext(T)
  <1>4. z \in T
    BY <1>3, NextIsElement
  <1>5. SumFunctionOnSet(f, T) = f[z] + SumFunctionOnSet(f, T \ {z})
    BY <1>3, SumNext
  <1>6. z # y
    BY <1>2, <1>5
  <1> HIDE DEF z
  <1>7. \A U \in SUBSET T : \A u \in U : U # T =>
          SumFunctionOnSet(f, U) = f[u] + SumFunctionOnSet(f, U \ {u})
    BY <1>1
  <1>8. SumFunctionOnSet(f, T \ {z}) = f[y] + SumFunctionOnSet(f, (T \ {z}) \ {y})
    BY <1>4, <1>6, <1>7
  <1>9. SumFunctionOnSet(f, T \ {y}) = f[z] + SumFunctionOnSet(f, (T \ {y}) \ {z})
    BY <1>4, <1>6, <1>7
  <1>10. (T \ {z}) \ {y} = (T \ {y}) \ {z}
    OBVIOUS
  <1>11. IsFiniteSet((T \ {y}) \ {z})
    BY <1>3, FS_Subset
  <1>12. SumFunctionOnSet(f, (T \ {y}) \ {z}) \in Int
    BY <1>1, <1>11, SumType
  <1>13. f[y] \in Int /\ f[z] \in Int
    BY <1>1, <1>4
  <1>14. SumFunctionOnSet(f, T) = f[y] + SumFunctionOnSet(f, T \ {y})
    <2> DEFINE rest == SumFunctionOnSet(f, (T \ {y}) \ {z})
    <2>1. SumFunctionOnSet(f, T) = f[z] + (f[y] + rest)
      BY <1>5, <1>8, <1>10
    <2>2. rest \in Int
      BY <1>12
    <2> HIDE DEF rest
    <2>3. f[z] + (f[y] + rest) = f[y] + (f[z] + rest)
      BY <1>13, <2>2
    <2>4. SumFunctionOnSet(f, T \ {y}) = f[z] + rest
      BY <1>9 DEF rest
    <2>5. QED
      BY <2>1, <2>3, <2>4
  <1>15. QED
    BY <1>2, <1>14

(* The sum depends only on the values at the elements of the set. *)
LEMMA SumSameValues ==
  ASSUME NEW f, NEW g, NEW S, IsFiniteSet(S), \A x \in S : f[x] = g[x]
  PROVE  SumFunctionOnSet(f, S) = SumFunctionOnSet(g, S)
  <1> DEFINE B == {T \in SUBSET S : SumFunctionOnSet(f, T) # SumFunctionOnSet(g, T)}
  <1> SUFFICES ASSUME B # {}
               PROVE  FALSE
    OBVIOUS
  <1>1. PICK T \in B : \A U \in B : U \subseteq T => U = T
    <2>1. B \in SUBSET (SUBSET S)
      OBVIOUS
    <2> HIDE DEF B
    <2>2. QED
      BY <2>1, MinimalSubset
  <1>2. IsFiniteSet(T)
    BY <1>1, FS_Subset
  <1>3. T # {}
    BY <1>1, SumEmpty
  <1> DEFINE z == FoldsNext(T)
             W == T \ {z}
  <1>4. z \in T /\ W \subseteq T /\ W # T
    BY <1>3, NextIsElement
  <1>5. SumFunctionOnSet(f, W) = SumFunctionOnSet(g, W)
    BY <1>1, <1>4
  <1>6. f[z] = g[z]
    BY <1>1, <1>4
  <1>7. SumFunctionOnSet(f, T) = f[z] + SumFunctionOnSet(f, W)
    BY <1>2, <1>3, SumNext
  <1>8. SumFunctionOnSet(g, T) = g[z] + SumFunctionOnSet(g, W)
    BY <1>2, <1>3, SumNext
  <1>9. QED
    BY <1>1, <1>5, <1>6, <1>7, <1>8

-----------------------------------------------------------------------------
(* The forms the invariants use: a sum over a table's rows *)

(* A row added to the table. *)
LEMMA SumAddRow ==
  ASSUME NEW f, NEW g, NEW S, IsFiniteSet(S), NEW x, x \notin S,
         \A y \in S \cup {x} : g[y] \in Int, \A y \in S : f[y] = g[y]
  PROVE  SumFunctionOnSet(g, S \cup {x}) = SumFunctionOnSet(f, S) + g[x]
  <1>1. IsFiniteSet(S \cup {x})
    BY FS_AddElement
  <1>2. SumFunctionOnSet(g, S \cup {x}) = g[x] + SumFunctionOnSet(g, (S \cup {x}) \ {x})
    BY <1>1, SumTakeOut
  <1>3. (S \cup {x}) \ {x} = S
    OBVIOUS
  <1>4. SumFunctionOnSet(g, S) = SumFunctionOnSet(f, S)
    BY SumSameValues
  <1>5. SumFunctionOnSet(g, S) \in Int
    BY SumType
  <1>6. g[x] \in Int
    OBVIOUS
  <1>7. SumFunctionOnSet(g, S \cup {x}) = g[x] + SumFunctionOnSet(f, S)
    BY <1>2, <1>3, <1>4
  <1>8. SumFunctionOnSet(f, S) \in Int
    BY <1>4, <1>5
  <1>9. QED
    BY <1>6, <1>7, <1>8

(* One row of the table changed. *)
LEMMA SumChangeRow ==
  ASSUME NEW f, NEW g, NEW S, IsFiniteSet(S), NEW x \in S,
         \A y \in S : f[y] \in Int /\ g[y] \in Int,
         \A y \in S \ {x} : f[y] = g[y]
  PROVE  SumFunctionOnSet(g, S) = SumFunctionOnSet(f, S) + g[x] - f[x]
  <1> DEFINE W == S \ {x}
  <1>1. SumFunctionOnSet(f, S) = f[x] + SumFunctionOnSet(f, W)
    BY SumTakeOut
  <1>2. SumFunctionOnSet(g, S) = g[x] + SumFunctionOnSet(g, W)
    BY SumTakeOut
  <1>3. IsFiniteSet(W)
    BY FS_Subset
  <1>4. SumFunctionOnSet(g, W) = SumFunctionOnSet(f, W)
    BY <1>3, SumSameValues
  <1>5. SumFunctionOnSet(f, W) \in Int
    BY <1>3, SumType
  <1>6. QED
    BY <1>1, <1>2, <1>4, <1>5

===============================================================================
