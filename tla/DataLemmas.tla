----------------------------- MODULE DataLemmas -----------------------------
(***************************************************************************)
(* What the proofs about the routers and the networks need to know of the  *)
(* data that these keep: of sums over finite sets, of what is selected     *)
(* from a list, of sequences that grow and shrink, of the books of a       *)
(* buffer and of reports that are to come.  Nothing here is about a        *)
(* variable.                                                               *)
(*                                                                         *)
(* What is defined by recursion is proved by induction.  The induction     *)
(* theorems of the library take an operator, which the provers cannot      *)
(* instantiate: NatInduct takes a set, and is used with the set of the     *)
(* numbers for which a statement holds.                                    *)
(***************************************************************************)
EXTENDS Selection, SequencesExt, FiniteSetsExt, FiniteSetTheorems, SequenceTheorems,
        WellFoundedInduction, TLAPS

-----------------------------------------------------------------------------
(* Induction over the natural numbers. *)

(* Some numbers have a least one. *)
LEMMA LeastNatural ==
  ASSUME NEW T, T \subseteq Nat, T # {}
  PROVE  \E n \in T : \A m \in T : n <= m
<1> DEFINE less == {ss \in Nat \X Nat : ss[1] < ss[2]}
<1>1. IsWellFoundedOn(less, Nat)
  BY NatLessThanWellFounded DEF OpToRel
<1>2. PICK n \in T : \A m \in T : <<m, n>> \notin less
  <2> HIDE DEF less
  <2> QED BY <1>1, WFMin
<1>3. ASSUME NEW m \in T PROVE n <= m
  <2>1. m \in Nat /\ n \in Nat /\ ~(m < n)
    BY <1>2
  <2> QED BY <2>1
<1> QED BY <1>3

(* Induction, over a set of numbers. *)
LEMMA NatInduct ==
  ASSUME NEW T, 0 \in T, \A n \in Nat : n \in T => n + 1 \in T
  PROVE  Nat \subseteq T
<1> SUFFICES ASSUME Nat \ T # {} PROVE FALSE
  OBVIOUS
<1>1. PICK n \in Nat \ T : \A m \in Nat \ T : n <= m
  BY LeastNatural
<1>2. n # 0 /\ n - 1 \in Nat
  BY <1>1
<1>3. n - 1 \in T
  BY <1>1, <1>2
<1>4. (n - 1) + 1 = n
  BY <1>2
<1> QED BY <1>2, <1>3, <1>4

(* The least of some natural numbers, and the greatest if they are bounded. *)
LEMMA MinIsLeast ==
  ASSUME NEW T \in SUBSET Nat, T # {}
  PROVE  Min(T) \in T /\ \A n \in T : Min(T) <= n
<1>1. \E m \in T : \A n \in T : m =< n
  BY LeastNatural
<1> QED BY <1>1 DEF Min

(* The greatest of some numbers below a bound is one of them. *)
LEMMA MaxIsGreatest ==
  ASSUME NEW T \in SUBSET Nat, T # {}, NEW bound \in Nat, \A n \in T : n <= bound
  PROVE  Max(T) \in T /\ \A n \in T : n <= Max(T)
<1> DEFINE below == {k \in Nat : bound - k \in T}
<1>1. below # {}
  <2>1. PICK n \in T : TRUE
    OBVIOUS
  <2>2. bound - n \in Nat /\ bound - (bound - n) = n
    BY <2>1
  <2> QED BY <2>1, <2>2
<1>2. PICK k \in below : \A m \in below : k <= m
  BY <1>1, LeastNatural
<1>3. \A n \in T : bound - k >= n
  <2>1. ASSUME NEW n \in T PROVE bound - k >= n
    <3>1. bound - n \in Nat /\ bound - (bound - n) = n
      OBVIOUS
    <3>2. bound - n \in below
      BY <3>1
    <3>3. k <= bound - n /\ k \in Nat
      BY <1>2, <3>2
    <3> QED BY <3>1, <3>3
  <2> QED BY <2>1
<1>4. \E m \in T : \A n \in T : m >= n
  BY <1>2, <1>3
<1>5. Max(T) \in T /\ \A n \in T : Max(T) >= n
  BY <1>4 DEF Max
<1>6. \A n \in T : n \in Nat
  OBVIOUS
<1> QED BY <1>5, <1>6

-----------------------------------------------------------------------------
(* Sums over finite sets.  SumFunctionOnSet takes one element after the    *)
(* other, whichever the choice falls on.                                   *)

Chosen(s) == CHOOSE x \in s : TRUE

(* The function that SumFunctionOnSet is defined by, on the subsets of S.  *)
SumOver(f, S, sum) ==
  sum = [s \in SUBSET S |-> IF s = {} THEN 0 ELSE f[Chosen(s)] + sum[s \ {Chosen(s)}]]

(* What is chosen is one of the elements. *)
LEMMA ChosenIsIn ==
  ASSUME NEW s, s # {}
  PROVE  Chosen(s) \in s
BY DEF Chosen

(* One less is left without an element. *)
LEMMA FewerLeft ==
  ASSUME NEW S, IsFiniteSet(S), NEW x \in S
  PROVE  /\ IsFiniteSet(S \ {x}) /\ Cardinality(S) \in Nat \ {0}
         /\ Cardinality(S \ {x}) = Cardinality(S) - 1
<1>1. IsFiniteSet(S \ {x}) /\ Cardinality(S \ {x}) = Cardinality(S) - 1
  BY FS_RemoveElement
<1>2. Cardinality(S) \in Nat /\ Cardinality(S) # 0
  BY FS_CardinalityType, FS_EmptySet
<1> QED BY <1>1, <1>2

(* It does not depend on the set that it is defined on. *)
LEMMA SumIsUnique ==
  ASSUME NEW f, NEW S, IsFiniteSet(S), NEW T \in SUBSET S,
         NEW g, SumOver(f, S, g), NEW h, SumOver(f, T, h)
  PROVE  \A s \in SUBSET T : g[s] = h[s]
<1> DEFINE K == {n \in Nat : \A s \in SUBSET T : Cardinality(s) = n => g[s] = h[s]}
<1>1. \A s \in SUBSET T : IsFiniteSet(s) /\ Cardinality(s) \in Nat
  BY FS_Subset, FS_CardinalityType
<1>2. 0 \in K
  <2>1. ASSUME NEW s \in SUBSET T, Cardinality(s) = 0 PROVE g[s] = h[s]
    <3>1. s = {}
      BY <1>1, <2>1, FS_EmptySet
    <3> QED BY <3>1 DEF SumOver
  <2> QED BY <2>1
<1>3. ASSUME NEW n \in Nat, n \in K PROVE n + 1 \in K
  <2>1. ASSUME NEW s \in SUBSET T, Cardinality(s) = n + 1 PROVE g[s] = h[s]
    <3>1. s # {} /\ Chosen(s) \in s
      BY <2>1, <1>1, FS_EmptySet, ChosenIsIn
    <3>2. s \ {Chosen(s)} \in SUBSET T /\ Cardinality(s \ {Chosen(s)}) = n
      BY <1>1, <2>1, <3>1, FewerLeft
    <3>3. g[s \ {Chosen(s)}] = h[s \ {Chosen(s)}]
      BY <1>3, <3>2
    <3>4. g[s] = f[Chosen(s)] + g[s \ {Chosen(s)}] /\ h[s] = f[Chosen(s)] + h[s \ {Chosen(s)}]
      BY <3>1 DEF SumOver
    <3> QED BY <3>3, <3>4
  <2> QED BY <2>1
<1>4. Nat \subseteq K
  <2> HIDE DEF K
  <2> QED BY <1>2, <1>3, NatInduct
<1> QED BY <1>1, <1>4

(* There is one for every finite set. *)
LEMMA SumExists ==
  ASSUME NEW f, NEW S, IsFiniteSet(S)
  PROVE  \E sum : SumOver(f, S, sum)
<1> DEFINE K == {n \in Nat : \A T \in SUBSET S :
                               Cardinality(T) <= n => \E sum : SumOver(f, T, sum)}
<1>1. \A T \in SUBSET S : IsFiniteSet(T) /\ Cardinality(T) \in Nat
  BY FS_Subset, FS_CardinalityType
<1>2. 0 \in K
  <2>1. ASSUME NEW T \in SUBSET S, Cardinality(T) <= 0 PROVE \E sum : SumOver(f, T, sum)
    <3>1. T = {}
      BY <1>1, <2>1, FS_EmptySet
    <3>2. SumOver(f, T, [s \in SUBSET {} |-> 0])
      BY <3>1 DEF SumOver
    <3> QED BY <3>2
  <2> QED BY <2>1
<1>3. ASSUME NEW n \in Nat, n \in K PROVE n + 1 \in K
  <2>1. ASSUME NEW T \in SUBSET S, Cardinality(T) <= n + 1, T # {}
        PROVE  \E sum : SumOver(f, T, sum)
    <3> DEFINE Of(s) == CHOOSE sum : SumOver(f, s, sum)
               V(s) == Of(s)[s]
               sum == [s \in SUBSET T |-> IF s = {} THEN 0
                                          ELSE f[Chosen(s)] + V(s \ {Chosen(s)})]
    <3>1. ASSUME NEW s \in SUBSET T, s # T PROVE SumOver(f, s, Of(s))
      <4>1. s \in SUBSET S /\ Cardinality(s) <= n
        <5>1. PICK x \in T : x \notin s
          BY <3>1
        <5>2. Cardinality(T \ {x}) = Cardinality(T) - 1 /\ IsFiniteSet(T \ {x})
          BY <1>1, FewerLeft
        <5>3. Cardinality(s) <= Cardinality(T \ {x})
          <6>1. s \in SUBSET (T \ {x})
            BY <5>1
          <6> QED BY <5>2, <6>1, FS_Subset
        <5> QED BY <1>1, <2>1, <5>2, <5>3
      <4>2. \E g : SumOver(f, s, g)
        BY <1>3, <4>1
      <4> QED BY <4>2
    <3>2. ASSUME NEW s \in SUBSET T, s # {} PROVE sum[s \ {Chosen(s)}] = V(s \ {Chosen(s)})
      <4> DEFINE t == s \ {Chosen(s)}
      <4>1. t \in SUBSET T /\ t # T /\ IsFiniteSet(t)
        BY <3>2, <1>1, ChosenIsIn
      <4>2. SumOver(f, t, Of(t))
        BY <4>1, <3>1
      <4>3. CASE t = {}
        <5>1. V(t) = 0
          BY <4>2, <4>3 DEF SumOver
        <5> QED BY <4>1, <4>3, <5>1
      <4>4. CASE t # {}
        <5> DEFINE u == t \ {Chosen(t)}
        <5>1. u \in SUBSET t /\ u \in SUBSET T /\ u # T
          BY <4>1, <4>4, ChosenIsIn
        <5>2. SumOver(f, u, Of(u))
          BY <5>1, <3>1
        <5>3. Of(t)[u] = V(u)
          <6>1. \A r \in SUBSET u : Of(t)[r] = Of(u)[r]
            <7> HIDE DEF Of, t, u
            <7> QED BY <4>1, <4>2, <5>1, <5>2, SumIsUnique
          <6>2. u \in SUBSET u
            OBVIOUS
          <6> QED BY <6>1, <6>2
        <5>4. V(t) = f[Chosen(t)] + Of(t)[u]
          <6> HIDE DEF Of, t
          <6> QED BY <4>2, <4>4 DEF SumOver
        <5>5. sum[t] = f[Chosen(t)] + V(u)
          <6> HIDE DEF V, t
          <6> QED BY <4>1, <4>4
        <5> QED BY <5>3, <5>4, <5>5
      <4> QED BY <4>3, <4>4
    <3>3. sum = [s \in SUBSET T |-> IF s = {} THEN 0 ELSE f[Chosen(s)] + sum[s \ {Chosen(s)}]]
      <4>1. \A s \in SUBSET T : s # {} => sum[s \ {Chosen(s)}] = V(s \ {Chosen(s)})
        BY <3>2
      <4> HIDE DEF V
      <4>2. \A s \in SUBSET T : sum[s] = IF s = {} THEN 0 ELSE f[Chosen(s)] + sum[s \ {Chosen(s)}]
        BY <4>1
      <4>3. sum = [s \in SUBSET T |-> sum[s]]
        OBVIOUS
      <4> HIDE DEF sum
      <4> QED BY <4>2, <4>3
    <3> HIDE DEF sum
    <3> QED BY <3>3 DEF SumOver
  <2>2. ASSUME NEW T \in SUBSET S, Cardinality(T) <= n + 1 PROVE \E sum : SumOver(f, T, sum)
    BY <1>2, <2>1, <2>2, FS_EmptySet
  <2> QED BY <2>2
<1>4. Nat \subseteq K
  <2> HIDE DEF K
  <2> QED BY <1>2, <1>3, NatInduct
<1>5. Cardinality(S) \in K /\ S \in SUBSET S
  BY <1>1, <1>4
<1> QED BY <1>1, <1>5

(* The sum over a set is the value of such a function. *)
LEMMA TotalIs ==
  ASSUME NEW f, NEW S, IsFiniteSet(S)
  PROVE  \E sum : SumOver(f, S, sum) /\ SumFunctionOnSet(f, S) = sum[S]
<1> DEFINE sum == CHOOSE g : SumOver(f, S, g)
<1>1. SumOver(f, S, sum)
  BY SumExists
<1>2. SumFunctionOnSet(f, S) = sum[S]
  BY DEF SumFunctionOnSet, FoldFunctionOnSet, MapThenFoldSet, SumOver, Chosen
<1> QED BY <1>1, <1>2

(* One step of the sum, with the element that is chosen. *)
LEMMA TotalStep ==
  ASSUME NEW f
  PROVE  /\ SumFunctionOnSet(f, {}) = 0
         /\ \A S : IsFiniteSet(S) /\ S # {} =>
              SumFunctionOnSet(f, S) = f[Chosen(S)] + SumFunctionOnSet(f, S \ {Chosen(S)})
<1>1. SumFunctionOnSet(f, {}) = 0
  <2>1. PICK g : SumOver(f, {}, g) /\ SumFunctionOnSet(f, {}) = g[{}]
    BY TotalIs, FS_EmptySet
  <2> QED BY <2>1 DEF SumOver
<1>2. ASSUME NEW S, IsFiniteSet(S), S # {}
      PROVE  SumFunctionOnSet(f, S) = f[Chosen(S)] + SumFunctionOnSet(f, S \ {Chosen(S)})
  <2>1. PICK g : SumOver(f, S, g) /\ SumFunctionOnSet(f, S) = g[S]
    BY <1>2, TotalIs
  <2>2. S \ {Chosen(S)} \in SUBSET S /\ IsFiniteSet(S \ {Chosen(S)})
    BY <1>2, FS_Subset
  <2>3. PICK h : SumOver(f, S \ {Chosen(S)}, h)
                 /\ SumFunctionOnSet(f, S \ {Chosen(S)}) = h[S \ {Chosen(S)}]
    BY <2>2, TotalIs
  <2>4. g[S \ {Chosen(S)}] = h[S \ {Chosen(S)}]
    BY <1>2, <2>1, <2>2, <2>3, SumIsUnique
  <2>5. g[S] = f[Chosen(S)] + g[S \ {Chosen(S)}]
    BY <1>2, <2>1 DEF SumOver
  <2> QED BY <2>1, <2>3, <2>4, <2>5
<1> QED BY <1>1, <1>2

(* A sum of numbers is a number. *)
LEMMA TotalType ==
  ASSUME NEW f, NEW S, IsFiniteSet(S), \A x \in S : f[x] \in Nat
  PROVE  SumFunctionOnSet(f, S) \in Nat
<1> DEFINE K == {n \in Nat : \A T \in SUBSET S :
                               Cardinality(T) = n => SumFunctionOnSet(f, T) \in Nat}
<1>1. \A T \in SUBSET S : IsFiniteSet(T) /\ Cardinality(T) \in Nat
  BY FS_Subset, FS_CardinalityType
<1>2. 0 \in K
  BY <1>1, FS_EmptySet, TotalStep
<1>3. ASSUME NEW n \in Nat, n \in K PROVE n + 1 \in K
  <2>1. ASSUME NEW T \in SUBSET S, Cardinality(T) = n + 1 PROVE SumFunctionOnSet(f, T) \in Nat
    <3>1. T # {} /\ Chosen(T) \in T
      BY <2>1, FS_EmptySet, ChosenIsIn
    <3>2. T \ {Chosen(T)} \in SUBSET S /\ Cardinality(T \ {Chosen(T)}) = n
      BY <1>1, <2>1, <3>1, FewerLeft
    <3>3. SumFunctionOnSet(f, T \ {Chosen(T)}) \in Nat /\ f[Chosen(T)] \in Nat
      BY <1>3, <3>1, <3>2
    <3>4. SumFunctionOnSet(f, T) = f[Chosen(T)] + SumFunctionOnSet(f, T \ {Chosen(T)})
      BY <1>1, <3>1, TotalStep
    <3> QED BY <3>3, <3>4
  <2> QED BY <2>1
<1>4. Nat \subseteq K
  <2> HIDE DEF K
  <2> QED BY <1>2, <1>3, NatInduct
<1> QED BY <1>1, <1>4

(* The sum over one element. *)
LEMMA TotalOfOne ==
  ASSUME NEW f, NEW x, f[x] \in Nat
  PROVE  SumFunctionOnSet(f, {x}) = f[x]
<1>1. Chosen({x}) = x
  BY ChosenIsIn
<1>2. {x} \ {Chosen({x})} = {} /\ IsFiniteSet({x})
  BY <1>1, FS_Singleton
<1>3. SumFunctionOnSet(f, {x}) = f[x] + SumFunctionOnSet(f, {})
  BY <1>1, <1>2, TotalStep
<1> QED BY <1>3, TotalStep

(* The same with any element. *)
LEMMA TotalWithout ==
  ASSUME NEW f, NEW S, IsFiniteSet(S), \A x \in S : f[x] \in Nat
  PROVE  \A x \in S : SumFunctionOnSet(f, S) = f[x] + SumFunctionOnSet(f, S \ {x})
<1> DEFINE K == {n \in Nat : \A T \in SUBSET S : Cardinality(T) = n =>
                   \A x \in T : SumFunctionOnSet(f, T) = f[x] + SumFunctionOnSet(f, T \ {x})}
<1>1. \A T \in SUBSET S : IsFiniteSet(T) /\ Cardinality(T) \in Nat /\ SumFunctionOnSet(f, T) \in Nat
  BY FS_Subset, FS_CardinalityType, TotalType
<1>2. 0 \in K
  BY <1>1, FS_EmptySet
<1>3. ASSUME NEW n \in Nat, n \in K PROVE n + 1 \in K
  <2>1. ASSUME NEW T \in SUBSET S, Cardinality(T) = n + 1, NEW x \in T
        PROVE  SumFunctionOnSet(f, T) = f[x] + SumFunctionOnSet(f, T \ {x})
    <3> DEFINE c == Chosen(T)
    <3>1. c \in T /\ SumFunctionOnSet(f, T) = f[c] + SumFunctionOnSet(f, T \ {c})
      BY <1>1, TotalStep, ChosenIsIn
    <3> HIDE DEF c
    <3>2. CASE x = c
      BY <3>1, <3>2
    <3>3. CASE x # c
      <4>1. /\ T \ {c} \in SUBSET S /\ Cardinality(T \ {c}) = n /\ x \in T \ {c}
            /\ T \ {x} \in SUBSET S /\ Cardinality(T \ {x}) = n /\ c \in T \ {x}
            /\ (T \ {c}) \ {x} = (T \ {x}) \ {c} /\ (T \ {c}) \ {x} \in SUBSET S
        BY <1>1, <2>1, <3>1, <3>3, FewerLeft
      <4>2. SumFunctionOnSet(f, T \ {c}) = f[x] + SumFunctionOnSet(f, (T \ {c}) \ {x})
        BY <1>3, <4>1
      <4>3. SumFunctionOnSet(f, T \ {x}) = f[c] + SumFunctionOnSet(f, (T \ {x}) \ {c})
        BY <1>3, <4>1
      <4>4. f[x] \in Nat /\ f[c] \in Nat /\ SumFunctionOnSet(f, (T \ {c}) \ {x}) \in Nat
        BY <1>1, <3>1, <4>1
      <4> QED BY <3>1, <4>1, <4>2, <4>3, <4>4
    <3> QED BY <3>2, <3>3
  <2> QED BY <2>1
<1>4. Nat \subseteq K
  <2> HIDE DEF K
  <2> QED BY <1>2, <1>3, NatInduct
<1> QED BY <1>1, <1>4

(* A sum is that over a part and that over the rest. *)
LEMMA TotalSplit ==
  ASSUME NEW f, NEW S, NEW T \in SUBSET S, IsFiniteSet(S), \A x \in S : f[x] \in Nat
  PROVE  /\ SumFunctionOnSet(f, S) \in Nat /\ SumFunctionOnSet(f, T) \in Nat
         /\ SumFunctionOnSet(f, S \ T) \in Nat
         /\ SumFunctionOnSet(f, S) = SumFunctionOnSet(f, T) + SumFunctionOnSet(f, S \ T)
<1> DEFINE K == {n \in Nat : \A U \in SUBSET S : Cardinality(U) = n =>
                   SumFunctionOnSet(f, S) = SumFunctionOnSet(f, U) + SumFunctionOnSet(f, S \ U)}
<1>1. \A U \in SUBSET S : IsFiniteSet(U) /\ Cardinality(U) \in Nat /\ SumFunctionOnSet(f, U) \in Nat
  BY FS_Subset, FS_CardinalityType, TotalType
<1>2. 0 \in K
  <2>1. ASSUME NEW U \in SUBSET S, Cardinality(U) = 0
        PROVE  SumFunctionOnSet(f, S) = SumFunctionOnSet(f, U) + SumFunctionOnSet(f, S \ U)
    <3>1. U = {} /\ S \ U = S
      BY <1>1, <2>1, FS_EmptySet
    <3> QED BY <1>1, <3>1, TotalStep
  <2> QED BY <2>1
<1>3. ASSUME NEW n \in Nat, n \in K PROVE n + 1 \in K
  <2>1. ASSUME NEW U \in SUBSET S, Cardinality(U) = n + 1
        PROVE  SumFunctionOnSet(f, S) = SumFunctionOnSet(f, U) + SumFunctionOnSet(f, S \ U)
    <3>1. PICK x \in U : TRUE
      BY <2>1, FS_EmptySet
    <3> DEFINE V == U \ {x}
    <3>2. /\ V \in SUBSET S /\ Cardinality(V) = n
          /\ x \in S \ V /\ (S \ V) \ {x} = S \ U
      BY <1>1, <2>1, <3>1, FewerLeft
    <3>3. SumFunctionOnSet(f, S) = SumFunctionOnSet(f, V) + SumFunctionOnSet(f, S \ V)
      BY <1>3, <3>2
    <3>4. SumFunctionOnSet(f, U) = f[x] + SumFunctionOnSet(f, V)
      BY <1>1, <3>1, TotalWithout
    <3>5. SumFunctionOnSet(f, S \ V) = f[x] + SumFunctionOnSet(f, S \ U)
      <4>1. S \ V \in SUBSET S /\ IsFiniteSet(S \ V)
        BY <1>1
      <4> HIDE DEF V
      <4>2. SumFunctionOnSet(f, S \ V) = f[x] + SumFunctionOnSet(f, (S \ V) \ {x})
        BY <3>2, <4>1, TotalWithout
      <4> QED BY <3>2, <4>2
    <3>6. /\ f[x] \in Nat /\ SumFunctionOnSet(f, V) \in Nat
          /\ SumFunctionOnSet(f, S \ U) \in Nat
      <4>1. S \ U \in SUBSET S
        OBVIOUS
      <4> QED BY <1>1, <3>1, <3>2, <4>1
    <3> QED BY <3>3, <3>4, <3>5, <3>6
  <2> QED BY <2>1
<1>4. Nat \subseteq K
  <2> HIDE DEF K
  <2> QED BY <1>2, <1>3, NatInduct
<1>5. S \ T \in SUBSET S
  OBVIOUS
<1> QED BY <1>1, <1>4, <1>5

(* It depends on the values on the set only. *)
LEMMA TotalSame ==
  ASSUME NEW f, NEW g, NEW S, IsFiniteSet(S), \A x \in S : f[x] = g[x] /\ f[x] \in Nat
  PROVE  SumFunctionOnSet(f, S) = SumFunctionOnSet(g, S)
<1> DEFINE K == {n \in Nat : \A T \in SUBSET S : Cardinality(T) = n =>
                               SumFunctionOnSet(f, T) = SumFunctionOnSet(g, T)}
<1>1. \A T \in SUBSET S : IsFiniteSet(T) /\ Cardinality(T) \in Nat
  BY FS_Subset, FS_CardinalityType
<1>2. 0 \in K
  BY <1>1, FS_EmptySet, TotalStep
<1>3. ASSUME NEW n \in Nat, n \in K PROVE n + 1 \in K
  <2>1. ASSUME NEW T \in SUBSET S, Cardinality(T) = n + 1
        PROVE  SumFunctionOnSet(f, T) = SumFunctionOnSet(g, T)
    <3>1. T # {} /\ Chosen(T) \in T
      BY <2>1, FS_EmptySet, ChosenIsIn
    <3>2. T \ {Chosen(T)} \in SUBSET S /\ Cardinality(T \ {Chosen(T)}) = n
      BY <1>1, <2>1, <3>1, FewerLeft
    <3>3. SumFunctionOnSet(f, T \ {Chosen(T)}) = SumFunctionOnSet(g, T \ {Chosen(T)})
      BY <1>3, <3>2
    <3>4. f[Chosen(T)] = g[Chosen(T)]
      BY <3>1
    <3> QED BY <1>1, <3>1, <3>3, <3>4, TotalStep
  <2> QED BY <2>1
<1>4. Nat \subseteq K
  <2> HIDE DEF K
  <2> QED BY <1>2, <1>3, NatInduct
<1> QED BY <1>1, <1>4

(* One more element. *)
LEMMA TotalWith ==
  ASSUME NEW f, NEW g, NEW S, IsFiniteSet(S), \A y \in S : g[y] = f[y] /\ f[y] \in Nat,
         NEW x, x \notin S, g[x] \in Nat
  PROVE  /\ SumFunctionOnSet(f, S) \in Nat
         /\ SumFunctionOnSet(g, S \cup {x}) = SumFunctionOnSet(f, S) + g[x]
<1>1. IsFiniteSet(S \cup {x}) /\ x \in S \cup {x} /\ (S \cup {x}) \ {x} = S
  BY FS_AddElement
<1>2. \A y \in S \cup {x} : g[y] \in Nat
  OBVIOUS
<1>3. SumFunctionOnSet(g, S \cup {x}) = g[x] + SumFunctionOnSet(g, S)
  <2>1. SumFunctionOnSet(g, S \cup {x}) = g[x] + SumFunctionOnSet(g, (S \cup {x}) \ {x})
    BY <1>1, <1>2, TotalWithout
  <2> QED BY <1>1, <2>1
<1>4. SumFunctionOnSet(g, S) = SumFunctionOnSet(f, S)
  BY TotalSame
<1>5. SumFunctionOnSet(f, S) \in Nat
  BY TotalType
<1>6. SumFunctionOnSet(g, S \cup {x}) = SumFunctionOnSet(f, S) + g[x]
  BY <1>3, <1>4, <1>5
<1> QED BY <1>5, <1>6

(* One value is changed. *)
LEMMA TotalChanged ==
  ASSUME NEW f, NEW g, NEW S, IsFiniteSet(S), NEW x \in S,
         \A y \in S \ {x} : g[y] = f[y], \A y \in S : f[y] \in Nat /\ g[y] \in Nat
  PROVE  /\ SumFunctionOnSet(f, S) \in Nat /\ SumFunctionOnSet(g, S) \in Nat
         /\ SumFunctionOnSet(g, S) + f[x] = SumFunctionOnSet(f, S) + g[x]
<1>1. IsFiniteSet(S \ {x})
  BY FS_Subset
<1>2. /\ SumFunctionOnSet(f, S) = f[x] + SumFunctionOnSet(f, S \ {x})
      /\ SumFunctionOnSet(g, S) = g[x] + SumFunctionOnSet(g, S \ {x})
  BY TotalWithout
<1>3. SumFunctionOnSet(f, S \ {x}) = SumFunctionOnSet(g, S \ {x})
  BY <1>1, TotalSame
<1>4. SumFunctionOnSet(f, S \ {x}) \in Nat
  BY <1>1, TotalType
<1>5. SumFunctionOnSet(f, S) \in Nat
  BY TotalType
<1>6. SumFunctionOnSet(g, S) \in Nat
  BY TotalType
<1>7. SumFunctionOnSet(g, S) + f[x] = SumFunctionOnSet(f, S) + g[x]
  BY <1>2, <1>3, <1>4
<1> QED BY <1>5, <1>6, <1>7

(* A part is no more than the whole. *)
LEMMA TotalOfPart ==
  ASSUME NEW f, NEW g, NEW S, IsFiniteSet(S), NEW T \in SUBSET S,
         \A y \in S : f[y] \in Nat, \A y \in T : g[y] = f[y]
  PROVE  /\ SumFunctionOnSet(f, S) \in Nat /\ SumFunctionOnSet(g, T) \in Nat
         /\ SumFunctionOnSet(g, T) <= SumFunctionOnSet(f, S)
<1>1. IsFiniteSet(T)
  BY FS_Subset
<1>2. /\ SumFunctionOnSet(f, S) \in Nat /\ SumFunctionOnSet(f, T) \in Nat
      /\ SumFunctionOnSet(f, S \ T) \in Nat
      /\ SumFunctionOnSet(f, S) = SumFunctionOnSet(f, T) + SumFunctionOnSet(f, S \ T)
  BY TotalSplit
<1>3. SumFunctionOnSet(g, T) = SumFunctionOnSet(f, T)
  <2>1. \A y \in T : g[y] = f[y] /\ g[y] \in Nat
    OBVIOUS
  <2> QED BY <1>1, <2>1, TotalSame
<1>4. SumFunctionOnSet(g, T) \in Nat
  BY <1>2, <1>3
<1>5. SumFunctionOnSet(g, T) <= SumFunctionOnSet(f, S)
  BY <1>2, <1>3
<1> QED BY <1>2, <1>4, <1>5

-----------------------------------------------------------------------------
(* What is selected from a list. *)

(* The function that Selected is defined by, up to m.                      *)
UpTo(list, kept, m, f) ==
  f = [n \in 0..m |-> IF n = 0 THEN <<>>
                      ELSE IF list[n] \in kept THEN Append(f[n - 1], list[n]) ELSE f[n - 1]]

(* There is such a function, however far it goes. *)
LEMMA UpToExists ==
  ASSUME NEW list, NEW kept
  PROVE  \A m \in Nat : \E f : UpTo(list, kept, m, f)
<1> DEFINE K == {m \in Nat : \E f : UpTo(list, kept, m, f)}
<1>1. 0 \in K
  <2>1. UpTo(list, kept, 0, [n \in 0..0 |-> <<>>])
    BY DEF UpTo
  <2> QED BY <2>1
<1>2. ASSUME NEW m \in Nat, m \in K PROVE m + 1 \in K
  <2>1. PICK f : UpTo(list, kept, m, f)
    BY <1>2
  <2> DEFINE last == IF list[m + 1] \in kept THEN Append(f[m], list[m + 1]) ELSE f[m]
             g == [n \in 0..(m + 1) |-> IF n = m + 1 THEN last ELSE f[n]]
             Rule(h, n) == IF n = 0 THEN <<>>
                           ELSE IF list[n] \in kept THEN Append(h[n - 1], list[n]) ELSE h[n - 1]
  <2>2. ASSUME NEW n \in 0..(m + 1) PROVE g[n] = Rule(g, n)
    <3>1. CASE n = m + 1
      <4>1. n # 0 /\ n - 1 = m /\ m \in 0..(m + 1) /\ m # m + 1
        BY <3>1
      <4>2. g[n] = last /\ g[n - 1] = f[m]
        BY <3>1, <4>1
      <4> HIDE DEF g
      <4> QED BY <3>1, <4>1, <4>2
    <3>2. CASE n # m + 1
      <4>1. n \in 0..m
        BY <3>2
      <4>2. f[n] = Rule(f, n)
        BY <2>1, <4>1 DEF UpTo
      <4>3. g[n] = f[n] /\ (n # 0 => g[n - 1] = f[n - 1])
        BY <3>2, <4>1
      <4> HIDE DEF g
      <4> QED BY <4>2, <4>3
    <3> QED BY <3>1, <3>2
  <2>3. g = [n \in 0..(m + 1) |-> Rule(g, n)]
    <3>1. g = [n \in 0..(m + 1) |-> g[n]]
      OBVIOUS
    <3> HIDE DEF g, Rule
    <3> QED BY <2>2, <3>1
  <2>4. UpTo(list, kept, m + 1, g)
    <3> HIDE DEF g
    <3> QED BY <2>3 DEF UpTo
  <2> QED BY <2>4
<1>3. Nat \subseteq K
  <2> HIDE DEF K
  <2> QED BY <1>1, <1>2, NatInduct
<1> QED BY <1>3

(* s has what is kept of the first n entries of the list, in that order.   *)
Picks(list, kept, n, s) ==
  /\ {s[i] : i \in 1..Len(s)} = {list[i] : i \in 1..n} \cap kept
  /\ \A i, j \in 1..Len(s) :
       i < j => \E k, l \in 1..n : k < l /\ s[i] = list[k] /\ s[j] = list[l]

(* What was picked is picked still, with the next one if that is kept. *)
LEMMA PicksNext ==
  ASSUME NEW S, NEW list, NEW kept, NEW n \in Nat, NEW s \in Seq(S), list[n + 1] \in S,
         Picks(list, kept, n, s)
  PROVE  /\ list[n + 1] \notin kept => Picks(list, kept, n + 1, s)
         /\ list[n + 1] \in kept => /\ Append(s, list[n + 1]) \in Seq(S)
                                    /\ Picks(list, kept, n + 1, Append(s, list[n + 1]))
<1>1. 1..(n + 1) = 1..n \cup {n + 1}
  OBVIOUS
<1>2. ASSUME list[n + 1] \notin kept PROVE Picks(list, kept, n + 1, s)
  <2>1. {list[i] : i \in 1..(n + 1)} \cap kept = {list[i] : i \in 1..n} \cap kept
    BY <1>1, <1>2
  <2>2. ASSUME NEW i \in 1..Len(s), NEW j \in 1..Len(s), i < j
        PROVE  \E k, l \in 1..(n + 1) : k < l /\ s[i] = list[k] /\ s[j] = list[l]
    <3>1. PICK k \in 1..n, l \in 1..n : k < l /\ s[i] = list[k] /\ s[j] = list[l]
      BY <2>2 DEF Picks
    <3>2. k \in 1..(n + 1) /\ l \in 1..(n + 1)
      BY <1>1
    <3> QED BY <3>1, <3>2
  <2> QED BY <2>1, <2>2 DEF Picks
<1>3. ASSUME list[n + 1] \in kept
      PROVE  Append(s, list[n + 1]) \in Seq(S)
             /\ Picks(list, kept, n + 1, Append(s, list[n + 1]))
  <2> DEFINE t == Append(s, list[n + 1])
  <2>1. /\ t \in Seq(S) /\ Len(t) = Len(s) + 1 /\ Len(s) \in Nat
        /\ t[Len(s) + 1] = list[n + 1] /\ \A i \in 1..Len(s) : t[i] = s[i]
    OBVIOUS
  <2> HIDE DEF t
  <2>2. 1..Len(t) = 1..Len(s) \cup {Len(s) + 1}
    BY <2>1
  <2>3. {t[i] : i \in 1..Len(t)} = {s[i] : i \in 1..Len(s)} \cup {list[n + 1]}
    BY <2>1, <2>2
  <2>4. {list[i] : i \in 1..(n + 1)} \cap kept
          = ({list[i] : i \in 1..n} \cap kept) \cup {list[n + 1]}
    BY <1>1, <1>3
  <2>5. ASSUME NEW i \in 1..Len(t), NEW j \in 1..Len(t), i < j
        PROVE  \E k, l \in 1..(n + 1) : k < l /\ t[i] = list[k] /\ t[j] = list[l]
    <3>1. i \in 1..Len(s)
      BY <2>1, <2>5
    <3>2. CASE j = Len(s) + 1
      <4>1. PICK k \in 1..n : s[i] = list[k]
        BY <3>1 DEF Picks
      <4>2. k < n + 1 /\ k \in 1..(n + 1) /\ n + 1 \in 1..(n + 1)
        OBVIOUS
      <4> QED BY <2>1, <3>1, <3>2, <4>1, <4>2
    <3>3. CASE j # Len(s) + 1
      <4>1. j \in 1..Len(s)
        BY <2>2, <3>3
      <4>2. PICK k \in 1..n, l \in 1..n : k < l /\ s[i] = list[k] /\ s[j] = list[l]
        BY <2>5, <3>1, <4>1 DEF Picks
      <4> QED BY <1>1, <2>1, <3>1, <4>1, <4>2
    <3> QED BY <3>2, <3>3
  <2>6. Picks(list, kept, n + 1, t)
    BY <2>3, <2>4, <2>5 DEF Picks
  <2> QED BY <2>1, <2>6 DEF t
<1> QED BY <1>2, <1>3

(* What is selected of a list is picked from all of it. *)
LEMMA SelectedPicks ==
  ASSUME NEW S, NEW list \in Seq(S), NEW kept
  PROVE  Selected(list, kept) \in Seq(S) /\ Picks(list, kept, Len(list), Selected(list, kept))
<1>1. Len(list) \in Nat /\ \A i \in 1..Len(list) : list[i] \in S
  OBVIOUS
<1> DEFINE f == CHOOSE g : UpTo(list, kept, Len(list), g)
<1>2. UpTo(list, kept, Len(list), f)
  BY <1>1, UpToExists
<1>3. Selected(list, kept) = f[Len(list)]
  BY DEF Selected, UpTo
<1> HIDE DEF f
<1> DEFINE K == {n \in Nat : n <= Len(list) => f[n] \in Seq(S) /\ Picks(list, kept, n, f[n])}
<1>4. 0 \in K
  <2>1. f[0] = <<>>
    BY <1>1, <1>2 DEF UpTo
  <2>2. <<>> \in Seq(S) /\ Picks(list, kept, 0, <<>>)
    BY DEF Picks
  <2> QED BY <2>1, <2>2
<1>5. ASSUME NEW n \in Nat, n \in K PROVE n + 1 \in K
  <2>1. ASSUME n + 1 <= Len(list)
        PROVE  f[n + 1] \in Seq(S) /\ Picks(list, kept, n + 1, f[n + 1])
    <3>1. f[n] \in Seq(S) /\ Picks(list, kept, n, f[n]) /\ list[n + 1] \in S
      BY <1>1, <1>5, <2>1
    <3>2. n + 1 \in 0..Len(list) /\ n + 1 # 0 /\ (n + 1) - 1 = n
      BY <1>1, <2>1
    <3>3. f[n + 1] = IF list[n + 1] \in kept THEN Append(f[n], list[n + 1]) ELSE f[n]
      BY <1>2, <3>2 DEF UpTo
    <3>4. CASE list[n + 1] \in kept
      <4>1. Append(f[n], list[n + 1]) \in Seq(S)
            /\ Picks(list, kept, n + 1, Append(f[n], list[n + 1]))
        BY <3>1, <3>4, PicksNext
      <4> QED BY <3>3, <3>4, <4>1
    <3>5. CASE list[n + 1] \notin kept
      <4>1. Picks(list, kept, n + 1, f[n])
        BY <3>1, <3>5, PicksNext
      <4> QED BY <3>1, <3>3, <3>5, <4>1
    <3> QED BY <3>4, <3>5
  <2> QED BY <2>1
<1>6. Nat \subseteq K
  <2> HIDE DEF K
  <2> QED BY <1>4, <1>5, NatInduct
<1>7. Len(list) \in K
  BY <1>1, <1>6
<1> QED BY <1>1, <1>3, <1>7

(* What is selected is exactly what is kept, and nothing twice. *)
LEMMA SelectedHasWhatIsKept ==
  ASSUME NEW S, NEW list \in Seq(S), NEW kept
  PROVE  /\ Selected(list, kept) \in Seq(S)
         /\ ToSet(Selected(list, kept)) = ToSet(list) \cap kept
         /\ IsInjective(list) => IsInjective(Selected(list, kept))
<1> DEFINE s == Selected(list, kept)
<1>1. s \in Seq(S) /\ Picks(list, kept, Len(list), s)
  BY SelectedPicks
<1> HIDE DEF s
<1>2. DOMAIN list = 1..Len(list) /\ DOMAIN s = 1..Len(s) /\ Len(s) \in Nat
  BY <1>1
<1>3. ToSet(s) = ToSet(list) \cap kept
  BY <1>1, <1>2 DEF ToSet, Picks
<1>4. ASSUME IsInjective(list) PROVE IsInjective(s)
  <2>1. ASSUME NEW i \in 1..Len(s), NEW j \in 1..Len(s), i < j PROVE s[i] # s[j]
    <3>1. PICK k \in 1..Len(list), l \in 1..Len(list) :
                 k < l /\ s[i] = list[k] /\ s[j] = list[l]
      BY <1>1, <2>1 DEF Picks
    <3> QED BY <1>2, <1>4, <3>1 DEF IsInjective
  <2>2. ASSUME NEW i \in 1..Len(s), NEW j \in 1..Len(s), s[i] = s[j] PROVE i = j
    <3>1. i < j \/ j < i \/ i = j
      OBVIOUS
    <3> QED BY <2>1, <2>2, <3>1
  <2> QED BY <1>2, <2>2 DEF IsInjective
<1> QED BY <1>1, <1>3, <1>4 DEF s

(* What is selected is in the order of the list. *)
LEMMA SelectedKeepsOrder ==
  ASSUME NEW S, NEW list \in Seq(S), IsInjective(list), NEW kept,
         NEW i \in DOMAIN list, NEW j \in DOMAIN list, i < j,
         NEW a \in DOMAIN Selected(list, kept), NEW b \in DOMAIN Selected(list, kept),
         Selected(list, kept)[a] = list[i], Selected(list, kept)[b] = list[j]
  PROVE  a < b
<1> DEFINE s == Selected(list, kept)
<1>1. s \in Seq(S) /\ Picks(list, kept, Len(list), s)
  BY SelectedPicks
<1> HIDE DEF s
<1>2. DOMAIN list = 1..Len(list) /\ DOMAIN s = 1..Len(s) /\ Len(s) \in Nat
  BY <1>1
<1>3. a \in 1..Len(s) /\ b \in 1..Len(s) /\ s[a] = list[i] /\ s[b] = list[j]
  BY <1>2 DEF s
<1>4. a # b
  BY <1>3 DEF IsInjective
<1>5. ASSUME b < a PROVE FALSE
  <2>1. PICK k \in 1..Len(list), l \in 1..Len(list) :
               k < l /\ s[b] = list[k] /\ s[a] = list[l]
    BY <1>1, <1>3, <1>5 DEF Picks
  <2>2. k = j /\ l = i
    BY <1>2, <1>3, <2>1 DEF IsInjective
  <2> QED BY <1>2, <2>1, <2>2
<1> QED BY <1>2, <1>3, <1>4, <1>5

-----------------------------------------------------------------------------
(* Sequences, whatever their entries. *)

IsSeq(s) == s \in Seq({s[i] : i \in DOMAIN s})

(* A sequence over some set is one. *)
LEMMA SeqIsSeq ==
  ASSUME NEW S, NEW s \in Seq(S)
  PROVE  IsSeq(s)
<1>1. Len(s) \in Nat /\ DOMAIN s = 1..Len(s) /\ s \in [1..Len(s) -> S]
  OBVIOUS
<1>2. s \in [1..Len(s) -> {s[i] : i \in DOMAIN s}]
  BY <1>1
<1> QED BY <1>1, <1>2 DEF IsSeq

(* So is a function of the first numbers. *)
LEMMA FunctionIsSeq ==
  ASSUME NEW n \in Nat, NEW s, DOMAIN s = 1..n, s = [i \in 1..n |-> s[i]]
  PROVE  IsSeq(s) /\ Len(s) = n
<1>1. s \in [1..n -> {s[i] : i \in 1..n}]
  OBVIOUS
<1>2. s \in Seq({s[i] : i \in 1..n})
  BY <1>1
<1> QED BY <1>2 DEF IsSeq

(* One more is put last. *)
LEMMA AppendIsSeq ==
  ASSUME NEW s, IsSeq(s), NEW e
  PROVE  /\ IsSeq(Append(s, e)) /\ Append(s, e) # <<>>
         /\ Len(s) \in Nat /\ DOMAIN s = 1..Len(s)
         /\ DOMAIN Append(s, e) = 1..(Len(s) + 1)
         /\ Append(s, e)[Len(s) + 1] = e
         /\ \A i \in 1..Len(s) : Append(s, e)[i] = s[i]
<1> DEFINE S == {s[i] : i \in DOMAIN s} \cup {e}
<1>1. s \in Seq({s[i] : i \in DOMAIN s})
  BY DEF IsSeq
<1>2. s \in Seq(S) /\ e \in S
  BY <1>1
<1>3. /\ Append(s, e) \in Seq(S) /\ Append(s, e) # <<>>
      /\ Len(s) \in Nat /\ DOMAIN s = 1..Len(s)
      /\ Len(Append(s, e)) = Len(s) + 1
      /\ Append(s, e)[Len(s) + 1] = e
      /\ \A i \in 1..Len(s) : Append(s, e)[i] = s[i]
  <2> HIDE DEF S
  <2> QED BY <1>2
<1>4. DOMAIN Append(s, e) = 1..(Len(s) + 1)
  <2> HIDE DEF S
  <2> QED BY <1>3
<1> QED BY <1>3, <1>4, SeqIsSeq

(* The first is taken off. *)
LEMMA TailIsSeq ==
  ASSUME NEW s, IsSeq(s), s # <<>>
  PROVE  /\ IsSeq(Tail(s))
         /\ Len(s) \in Nat /\ Len(s) > 0 /\ DOMAIN s = 1..Len(s)
         /\ DOMAIN Tail(s) = 1..(Len(s) - 1)
         /\ \A i \in 1..(Len(s) - 1) : Tail(s)[i] = s[i + 1]
         /\ Head(s) = s[1]
<1> DEFINE S == {s[i] : i \in DOMAIN s}
<1>1. s \in Seq(S)
  BY DEF IsSeq
<1>2. /\ Tail(s) \in Seq(S)
      /\ Len(s) \in Nat /\ Len(s) > 0 /\ DOMAIN s = 1..Len(s)
      /\ Len(Tail(s)) = Len(s) - 1
      /\ \A i \in 1..(Len(s) - 1) : Tail(s)[i] = s[i + 1]
      /\ Head(s) = s[1]
  <2> HIDE DEF S
  <2> QED BY <1>1
<1>3. DOMAIN Tail(s) = 1..(Len(s) - 1)
  <2> HIDE DEF S
  <2> QED BY <1>2
<1> QED BY <1>2, <1>3, SeqIsSeq

(* A part of a list without repetitions has none either. *)
LEMMA PartOfList ==
  ASSUME NEW S, NEW list \in Seq(S), IsInjective(list),
         NEW m \in 1..(Len(list) + 1), NEW n \in 0..Len(list)
  PROVE  /\ SubSeq(list, m, n) \in Seq(S) /\ IsInjective(SubSeq(list, m, n))
         /\ ToSet(SubSeq(list, m, n)) \subseteq ToSet(list)
         /\ ToSet(SubSeq(list, m, n)) = {list[i] : i \in m..n}
<1> DEFINE part == SubSeq(list, m, n)
           len == IF m <= n THEN n - m + 1 ELSE 0
<1>1. Len(list) \in Nat /\ DOMAIN list = 1..Len(list) /\ m \in Nat /\ n \in Nat
  OBVIOUS
<1>2. \A i \in m..n : i \in DOMAIN list /\ list[i] \in S
  BY <1>1
<1>3. /\ part \in Seq(S) /\ Len(part) = len
      /\ \A i \in 1..(n - m + 1) : part[i] = list[m + i - 1]
  BY <1>1, <1>2, SubSeqProperties
<1>4. DOMAIN part = 1..len /\ len \in Nat
  <2> HIDE DEF part
  <2> QED BY <1>1, <1>3
<1>5. \A i \in 1..len : /\ part[i] = list[m + i - 1] /\ m + i - 1 \in m..n
  <2> HIDE DEF part
  <2> QED BY <1>1, <1>3
<1>6. \A i \in m..n : i - m + 1 \in 1..len /\ part[i - m + 1] = list[i]
  <2>1. ASSUME NEW i \in m..n PROVE i - m + 1 \in 1..len /\ part[i - m + 1] = list[i]
    <3>1. i - m + 1 \in 1..len /\ m + (i - m + 1) - 1 = i
      BY <1>1
    <3> HIDE DEF part, len
    <3> QED BY <1>5, <3>1
  <2> QED BY <2>1
<1> HIDE DEF part, len
<1>7. ToSet(part) = {list[i] : i \in m..n}
  <2>1. \A i \in 1..len : \E k \in m..n : part[i] = list[k]
    BY <1>5
  <2>2. \A k \in m..n : \E i \in 1..len : part[i] = list[k]
    BY <1>6
  <2>3. ToSet(part) = {part[i] : i \in 1..len}
    BY <1>4 DEF ToSet
  <2>4. ASSUME NEW x \in {part[i] : i \in 1..len} PROVE x \in {list[i] : i \in m..n}
    BY <2>1
  <2>5. ASSUME NEW x \in {list[i] : i \in m..n} PROVE x \in {part[i] : i \in 1..len}
    BY <2>2
  <2> QED BY <2>3, <2>4, <2>5
<1>8. IsInjective(part)
  <2>1. ASSUME NEW i \in 1..len, NEW j \in 1..len, part[i] = part[j] PROVE i = j
    <3>1. m + i - 1 = m + j - 1
      BY <1>2, <1>5, <2>1 DEF IsInjective
    <3> QED BY <1>1, <1>4, <3>1
  <2> QED BY <1>4, <2>1 DEF IsInjective
<1> QED BY <1>2, <1>3, <1>7, <1>8 DEF part, ToSet

(* A list without repetitions has none after another entry is added. *)
LEMMA AppendIsInjective ==
  ASSUME NEW S, NEW list \in Seq(S), IsInjective(list), NEW g \in S, g \notin ToSet(list)
  PROVE  /\ Append(list, g) \in Seq(S) /\ IsInjective(Append(list, g))
         /\ ToSet(Append(list, g)) = ToSet(list) \cup {g}
<1> DEFINE more == Append(list, g)
<1>1. /\ more \in Seq(S) /\ Len(list) \in Nat /\ Len(more) = Len(list) + 1
      /\ DOMAIN list = 1..Len(list) /\ DOMAIN more = 1..(Len(list) + 1)
      /\ more[Len(list) + 1] = g /\ \A i \in 1..Len(list) : more[i] = list[i]
  OBVIOUS
<1> HIDE DEF more
<1>2. ToSet(more) = ToSet(list) \cup {g}
  <2>1. 1..(Len(list) + 1) = 1..Len(list) \cup {Len(list) + 1}
    BY <1>1
  <2> QED BY <1>1, <2>1 DEF ToSet
<1>3. IsInjective(more)
  <2>1. ASSUME NEW i \in 1..(Len(list) + 1), NEW j \in 1..(Len(list) + 1),
               more[i] = more[j]
        PROVE  i = j
    <3>1. \A k \in 1..Len(list) : list[k] # g
      BY <1>1 DEF ToSet
    <3>2. (i \in 1..Len(list) \/ i = Len(list) + 1) /\ (j \in 1..Len(list) \/ j = Len(list) + 1)
      BY <1>1
    <3> QED BY <1>1, <2>1, <3>1, <3>2 DEF IsInjective
  <2> QED BY <1>1, <2>1 DEF IsInjective
<1> QED BY <1>1, <1>2, <1>3 DEF more

-----------------------------------------------------------------------------
(* The books of a buffer. *)

(* The list has no bundle twice, its counter of bundles is not less than   *)
(* it says, and that of bytes not more than there is room for; if they are *)
(* kept with exactness, the bundles counted are those of the list.         *)
Booked(bundles, room, list, bytes, count, exact) ==
  /\ list \in Seq(bundles) /\ IsInjective(list)
  /\ bytes \in Int /\ count \in Nat
  /\ bytes <= room /\ Len(list) <= count
  /\ exact => count = Len(list)

(* The elements of a list without repetitions are as many as it is long.   *)
LEMMA InjectiveList ==
  ASSUME NEW S, NEW list \in Seq(S), IsInjective(list)
  PROVE  /\ ToSet(list) \in SUBSET S /\ IsFiniteSet(ToSet(list))
         /\ Cardinality(ToSet(list)) = Len(list) /\ Len(list) \in Nat
<1>1. Len(list) \in Nat /\ DOMAIN list = 1..Len(list) /\ list \in [1..Len(list) -> S]
  OBVIOUS
<1>2. list \in Bijection(1..Len(list), ToSet(list))
  BY <1>1 DEF Bijection, Injection, Surjection, ToSet
<1>3. IsFiniteSet(1..Len(list)) /\ Cardinality(1..Len(list)) = Len(list)
  BY <1>1, FS_Interval
<1>4. IsFiniteSet(ToSet(list)) /\ Cardinality(ToSet(list)) = Len(list)
  BY <1>2, <1>3, FS_Bijection DEF ExistsBijection
<1> QED BY <1>1, <1>4 DEF ToSet

(* What a list takes is what a part of it and the rest take together.      *)
LEMMA TotalOfParts ==
  ASSUME NEW size, NEW bundles, size \in [bundles -> Nat], NEW list \in Seq(bundles),
         IsInjective(list), NEW some, some \subseteq ToSet(list)
  PROVE  /\ SumFunctionOnSet(size, some) \in Nat
         /\ SumFunctionOnSet(size, ToSet(list) \ some) \in Nat
         /\ SumFunctionOnSet(size, ToSet(list))
              = SumFunctionOnSet(size, some) + SumFunctionOnSet(size, ToSet(list) \ some)
<1> DEFINE all == ToSet(list)
<1>1. IsFiniteSet(all) /\ some \in SUBSET all /\ \A g \in all : size[g] \in Nat
  BY InjectiveList
<1> HIDE DEF all
<1>2. SumFunctionOnSet(size, some) \in Nat /\ SumFunctionOnSet(size, all \ some) \in Nat
  BY <1>1, TotalSplit
<1>3. SumFunctionOnSet(size, all)
        = SumFunctionOnSet(size, some) + SumFunctionOnSet(size, all \ some)
  BY <1>1, TotalSplit
<1> QED BY <1>2, <1>3 DEF all

(* Whatever is deleted is taken off the counters. *)
LEMMA BookedShrinks ==
  ASSUME NEW bundles, NEW room \in Nat, NEW list, NEW bytes, NEW count, NEW exact,
         Booked(bundles, room, list, bytes, count, exact),
         NEW rest \in Seq(bundles), IsInjective(rest), ToSet(rest) \subseteq ToSet(list),
         NEW gone, gone = ToSet(list) \ ToSet(rest), NEW less \in Nat
  PROVE  Booked(bundles, room, rest, bytes - less, count - Cardinality(gone), exact)
<1>1. /\ list \in Seq(bundles) /\ IsInjective(list)
      /\ bytes \in Int /\ count \in Nat /\ bytes <= room /\ Len(list) <= count
      /\ exact => count = Len(list)
  BY DEF Booked
<1>2. /\ IsFiniteSet(ToSet(list)) /\ Cardinality(ToSet(list)) = Len(list) /\ Len(list) \in Nat
  BY <1>1, InjectiveList
<1>3. Cardinality(ToSet(rest)) = Len(rest) /\ Len(rest) \in Nat
  BY InjectiveList
<1>4. Cardinality(gone) = Len(list) - Len(rest)
  <2>1. ToSet(list) \cap ToSet(rest) = ToSet(rest)
    OBVIOUS
  <2>2. Cardinality(ToSet(list) \ ToSet(rest))
          = Cardinality(ToSet(list)) - Cardinality(ToSet(list) \cap ToSet(rest))
    BY <1>2, FS_Difference
  <2> QED BY <1>2, <1>3, <2>1, <2>2
<1>5. /\ bytes - less \in Int /\ bytes - less <= room
      /\ count - Cardinality(gone) \in Nat /\ Len(rest) <= count - Cardinality(gone)
      /\ exact => count - Cardinality(gone) = Len(rest)
  BY <1>1, <1>2, <1>3, <1>4
<1> QED BY <1>5 DEF Booked

(* A bundle that is put last is counted; its bytes are what there is room  *)
(* for.                                                                    *)
LEMMA BookedGrows ==
  ASSUME NEW bundles, NEW room \in Nat, NEW list, NEW bytes, NEW count, NEW exact,
         Booked(bundles, room, list, bytes, count, exact),
         NEW g \in bundles, g \notin ToSet(list), NEW after \in Int, after <= room
  PROVE  /\ Booked(bundles, room, Append(list, g), after, count + 1, exact)
         /\ ToSet(Append(list, g)) = ToSet(list) \cup {g}
<1>1. /\ list \in Seq(bundles) /\ IsInjective(list)
      /\ count \in Nat /\ Len(list) <= count
      /\ exact => count = Len(list)
  BY DEF Booked
<1>2. Len(Append(list, g)) = Len(list) + 1 /\ Len(list) \in Nat
  BY <1>1
<1>3. /\ Append(list, g) \in Seq(bundles) /\ IsInjective(Append(list, g))
      /\ ToSet(Append(list, g)) = ToSet(list) \cup {g}
  BY <1>1, AppendIsInjective
<1>4. /\ count + 1 \in Nat /\ Len(Append(list, g)) <= count + 1
      /\ exact => count + 1 = Len(Append(list, g))
  BY <1>1, <1>2
<1> QED BY <1>3, <1>4 DEF Booked

(* What is held, but for a part of it, is the rest of the list. *)
LEMMA BookedLeft ==
  ASSUME NEW bundles, NEW room, NEW list, NEW bytes, NEW count, NEW exact,
         Booked(bundles, room, list, bytes, count, exact),
         NEW gone, NEW rest, rest = Selected(list, ToSet(list) \ gone)
  PROVE  /\ rest \in Seq(bundles) /\ IsInjective(rest)
         /\ ToSet(rest) = ToSet(list) \ gone
BY SelectedHasWhatIsKept DEF Booked

(* An emptied list leaves the counters as they are, no longer exact.       *)
LEMMA BookedEmpty ==
  ASSUME NEW bundles, NEW room \in Nat, NEW bytes \in Int, NEW count \in Nat,
         bytes <= room, NEW exact, exact => count = 0
  PROVE  Booked(bundles, room, <<>>, bytes, count, exact)
<1>1. <<>> \in Seq(bundles) /\ Len(<<>>) = 0 /\ IsInjective(<<>>)
  BY DEF IsInjective
<1> QED BY <1>1 DEF Booked

-----------------------------------------------------------------------------
(* Reports that are to come. *)

(* Who waits has something on its way to the agent, or with it and not     *)
(* cancelled.                                                              *)
Awaited(out) == \E i \in DOMAIN out : ~out[i].cancelled

Reported(waits, way, out) ==
  /\ IsSeq(way) /\ IsSeq(out)
  /\ waits => way # <<>> \/ Awaited(out)

(* A sequence with changed entries is as long as it was. *)
LEMMA ChangedIsSeq ==
  ASSUME NEW s, IsSeq(s), NEW t, t = [i \in DOMAIN s |-> t[i]]
  PROVE  IsSeq(t) /\ Len(t) = Len(s) /\ DOMAIN t = DOMAIN s /\ (s # <<>> => t # <<>>)
<1>1. DOMAIN s = 1..Len(s) /\ Len(s) \in Nat
  BY DEF IsSeq
<1>2. DOMAIN t = 1..Len(s) /\ t = [i \in 1..Len(s) |-> t[i]]
  BY <1>1
<1>3. IsSeq(t) /\ Len(t) = Len(s)
  BY <1>1, <1>2, FunctionIsSeq
<1>4. ASSUME s # <<>> PROVE t # <<>>
  <2>1. Len(s) > 0
    BY <1>4 DEF IsSeq
  <2> QED BY <1>1, <1>3, <2>1
<1> QED BY <1>1, <1>2, <1>3, <1>4

(* What is under way stays under way, and some of what the agent has is    *)
(* cancelled: if nothing is, one that is awaited still is.                 *)
LEMMA ReportedCancelled ==
  ASSUME NEW waits, NEW way, NEW out, Reported(waits, way, out), NEW hits,
         NEW way2, way2 = [i \in DOMAIN way |-> way2[i]],
         NEW out2, out2 = [i \in DOMAIN out |-> IF i \in hits
                                                THEN [out[i] EXCEPT !.cancelled = TRUE]
                                                ELSE out[i]],
         NEW waits2, waits2 => waits /\ hits = {}
  PROVE  Reported(waits2, way2, out2)
<1>1. IsSeq(way2) /\ (way # <<>> => way2 # <<>>)
  BY ChangedIsSeq DEF Reported
<1>2. IsSeq(out2) /\ DOMAIN out2 = DOMAIN out
  <2>1. DOMAIN out2 = DOMAIN out
    OBVIOUS
  <2>2. out2 = [i \in DOMAIN out |-> out2[i]]
    OBVIOUS
  <2> QED BY <2>1, <2>2, ChangedIsSeq DEF Reported
<1>3. ASSUME hits = {}, Awaited(out) PROVE Awaited(out2)
  <2>1. PICK i \in DOMAIN out : ~out[i].cancelled
    BY <1>3 DEF Awaited
  <2>2. out2[i] = out[i]
    BY <1>3
  <2> QED BY <1>2, <2>1, <2>2 DEF Awaited
<1> QED BY <1>1, <1>2, <1>3 DEF Reported

(* What is passed on is on its way. *)
LEMMA ReportedPassedOn ==
  ASSUME NEW way, NEW out, IsSeq(way), IsSeq(out), NEW e, NEW waits
  PROVE  Reported(waits, Append(way, e), out)
BY AppendIsSeq DEF Reported

(* So is an answer, if there is one; and what the agent has, if none of it *)
(* was cancelled.                                                          *)
LEMMA ReportedAnswered ==
  ASSUME NEW waits, NEW way, NEW out, Reported(waits, way, out),
         NEW way2, way2 = [i \in DOMAIN way |-> way2[i]],
         NEW out2, out2 = [i \in DOMAIN out |-> out2[i]],
         NEW ans, ans = <<>> \/ \E e : ans = <<e>>,
         NEW waits2, waits2 => (waits \/ ans # <<>>) /\ out2 = out
  PROVE  Reported(waits2, way2 \o ans, out2)
<1>1. IsSeq(way2) /\ (way # <<>> => way2 # <<>>) /\ IsSeq(out2)
  BY ChangedIsSeq DEF Reported
<1>2. CASE ans = <<>>
  <2>1. way2 \o <<>> = way2
    BY <1>1 DEF IsSeq
  <2> QED BY <1>1, <1>2, <2>1 DEF Reported
<1>3. ASSUME NEW e, ans = <<e>> PROVE Reported(waits2, way2 \o ans, out2)
  <2> DEFINE S == {way2[i] : i \in DOMAIN way2} \cup {e}
  <2>1. way2 \in Seq(S) /\ e \in S
    BY <1>1 DEF IsSeq
  <2> HIDE DEF S
  <2>2. way2 \o <<e>> = Append(way2, e)
    BY <2>1
  <2> QED BY <1>1, <1>3, <2>2, ReportedPassedOn
<1> QED BY <1>2, <1>3

(* The agent takes it over. *)
LEMMA ReportedTaken ==
  ASSUME NEW waits, NEW way, NEW out, Reported(waits, way, out), way # <<>>,
         NEW e, ~e.cancelled
  PROVE  Reported(waits, Tail(way), Append(out, e))
<1>1. IsSeq(Tail(way))
  BY TailIsSeq DEF Reported
<1>2. /\ IsSeq(Append(out, e)) /\ Len(out) + 1 \in DOMAIN Append(out, e)
      /\ Append(out, e)[Len(out) + 1] = e
  BY AppendIsSeq DEF Reported
<1> QED BY <1>1, <1>2 DEF Reported, Awaited

(* It drops what was cancelled; one that is awaited is another. *)
LEMMA ReportedDropped ==
  ASSUME NEW waits, NEW way, NEW out, Reported(waits, way, out), out # <<>>,
         Head(out).cancelled
  PROVE  Reported(waits, way, Tail(out))
<1>1. /\ IsSeq(Tail(out))
      /\ Len(out) \in Nat /\ Len(out) > 0 /\ DOMAIN out = 1..Len(out)
      /\ DOMAIN Tail(out) = 1..(Len(out) - 1)
      /\ \A i \in 1..(Len(out) - 1) : Tail(out)[i] = out[i + 1]
      /\ out[1].cancelled
  BY TailIsSeq DEF Reported
<1>2. ASSUME Awaited(out) PROVE Awaited(Tail(out))
  <2>1. PICK i \in 1..Len(out) : ~out[i].cancelled
    BY <1>1, <1>2 DEF Awaited
  <2>2. i - 1 \in 1..(Len(out) - 1) /\ (i - 1) + 1 = i
    BY <1>1, <2>1
  <2>3. Tail(out)[i - 1] = out[i]
    BY <1>1, <2>2
  <2> QED BY <1>1, <2>1, <2>2, <2>3 DEF Awaited
<1> QED BY <1>1, <1>2 DEF Reported
=============================================================================
