--------------------------- MODULE TrafficProofs ---------------------------
(***************************************************************************)
(* Proofs about Collector.tla and Traffic.tla, for any processes, sockets   *)
(* and counters: what the loop over the rows of nettop returns; that no key *)
(* is charged with more than it carried and nothing is lost of a socket     *)
(* whose counter runs all the time it is held, as long as no tool fails and *)
(* nothing is missed; and that the tables and the upload window stay in     *)
(* step with each other.                                                    *)
(***************************************************************************)
EXTENDS Traffic, FiniteSetTheorems, SequenceTheorems, TLAPS

-----------------------------------------------------------------------------
(* Induction *)

\* Induction on numbers and on finite sets, for a set of those that have a
\* property.
LEMMA NatInduct ==
  ASSUME NEW G, 0 \in G, \A n \in Nat : n \in G => n + 1 \in G
  PROVE  Nat \subseteq G
<1> SUFFICES ASSUME Nat \ G # {} PROVE FALSE
  OBVIOUS
<1>1. PICK m \in Nat \ G : \A n \in Nat \ G : <<n, m>> \notin OpToRel(<, Nat)
  <2>1. Nat \ G \subseteq Nat
    OBVIOUS
  <2> QED BY <2>1, WFMin, NatLessThanWellFounded
<1>2. m # 0 /\ m - 1 \in Nat /\ m - 1 \in Nat \ G
  <2>1. m \in Nat /\ m \notin G /\ m # 0
    OBVIOUS
  <2>2. m - 1 \in Nat /\ (m - 1) + 1 = m
    BY <2>1
  <2> QED BY <2>1, <2>2
<1>3. <<m - 1, m>> \in OpToRel(<, Nat)
  BY <1>1, <1>2 DEF OpToRel
<1> QED BY <1>1, <1>2, <1>3

LEMMA SmallerSet ==
  ASSUME NEW T, IsFiniteSet(T), NEW x \in T, NEW n \in Nat, Cardinality(T) <= n + 1
  PROVE  IsFiniteSet(T \ {x}) /\ Cardinality(T \ {x}) <= n
<1>1. IsFiniteSet(T \ {x}) /\ Cardinality(T \ {x}) = Cardinality(T) - 1
  BY FS_RemoveElement
<1>2. Cardinality(T) \in Nat
  BY FS_CardinalityType
<1> QED BY <1>1, <1>2

LEMMA SetInduct ==
  ASSUME NEW S, IsFiniteSet(S), NEW G, {} \in G,
         \A T \in SUBSET S : T # {} /\ (\A x \in T : T \ {x} \in G) => T \in G
  PROVE  SUBSET S \subseteq G
<1> DEFINE N == {n \in Nat : \A T \in SUBSET S : Cardinality(T) <= n => T \in G}
<1>1. 0 \in N
  <2> SUFFICES ASSUME NEW T \in SUBSET S, Cardinality(T) <= 0 PROVE T \in G
    OBVIOUS
  <2>1. IsFiniteSet(T) /\ Cardinality(T) \in Nat
    BY FS_Subset, FS_CardinalityType
  <2>2. Cardinality(T) = 0
    BY <2>1
  <2> QED BY <2>1, <2>2, FS_EmptySet
<1>2. ASSUME NEW n \in Nat, n \in N PROVE n + 1 \in N
  <2>3. ASSUME NEW T \in SUBSET S, Cardinality(T) <= n + 1, T # {} PROVE T \in G
    <3>1. IsFiniteSet(T)
      BY FS_Subset
    <3>2. \A x \in T : Cardinality(T \ {x}) <= n
      BY <2>3, <3>1, SmallerSet
    <3>3. \A x \in T : T \ {x} \in G
      BY <1>2, <3>2
    <3> QED BY <2>3, <3>3
  <2>4. \A T \in SUBSET S : Cardinality(T) <= n + 1 => T \in G
    BY <2>3
  <2>5. n + 1 \in Nat
    OBVIOUS
  <2> QED BY <2>4, <2>5
<1>3. Nat \subseteq N
  <2> HIDE DEF N
  <2> QED BY <1>1, <1>2, NatInduct
<1> SUFFICES ASSUME NEW T \in SUBSET S PROVE T \in G
  OBVIOUS
<1>4. Cardinality(T) \in Nat
  BY FS_Subset, FS_CardinalityType
<1> QED BY <1>3, <1>4

-----------------------------------------------------------------------------
(* Sums *)

Pick(s) == CHOOSE x \in s : TRUE

\* g is the recursive function by which the sum of f over S is defined.
Turn(f, s, g) == IF s = {} THEN 0 ELSE f[Pick(s)] + g[s \ {Pick(s)}]
Sums(f, S, g) == g = [s \in SUBSET S |-> Turn(f, s, g)]

LEMMA SumUnfolds == \A f, S : SumFunctionOnSet(f, S) = (CHOOSE g : Sums(f, S, g))[S]
  BY DEF SumFunctionOnSet, FoldFunctionOnSet, MapThenFoldSet, Sums, Turn, Pick

LEMMA PickIn == \A s : s # {} => Pick(s) \in s
  BY DEF Pick

\* There is one: the sums over the sets of at most n elements give those over
\* the sets of n + 1.
LEMMA SumsExist == ASSUME NEW f, NEW S, IsFiniteSet(S) PROVE \E g : Sums(f, S, g)
<1> DEFINE Upto(n, g) == \A s \in SUBSET S : Cardinality(s) <= n => g[s] = Turn(f, s, g)
           N == {n \in Nat : \E g : Upto(n, g)}
<1>0. \A s \in SUBSET S : IsFiniteSet(s) /\ Cardinality(s) \in Nat
  BY FS_Subset, FS_CardinalityType
<1>1. 0 \in N
  <2>1. ASSUME NEW s \in SUBSET S, Cardinality(s) <= 0 PROVE s = {}
    <3>1. Cardinality(s) = 0
      BY <1>0, <2>1
    <3> QED BY <1>0, <3>1, FS_EmptySet
  <2>2. Upto(0, [s \in SUBSET S |-> 0])
    BY <2>1 DEF Turn
  <2> QED BY <2>2
<1>2. ASSUME NEW n \in Nat, n \in N PROVE n + 1 \in N
  <2>1. PICK g : Upto(n, g)
    BY <1>2
  <2> DEFINE h == [s \in SUBSET S |-> IF Cardinality(s) <= n THEN g[s] ELSE Turn(f, s, g)]
  <2>2. ASSUME NEW s \in SUBSET S, Cardinality(s) <= n + 1 PROVE h[s] = Turn(f, s, h)
    <3>1. h[s] = Turn(f, s, g)
      BY <2>1
    <3>2. CASE s = {}
      BY <3>1, <3>2 DEF Turn
    <3>3. CASE s # {}
      <4>1. Pick(s) \in s
        BY <3>3, PickIn
      <4>2. s \ {Pick(s)} \in SUBSET S /\ Cardinality(s \ {Pick(s)}) <= n
        BY <1>0, <2>2, <4>1, SmallerSet
      <4>3. h[s \ {Pick(s)}] = g[s \ {Pick(s)}]
        BY <4>2
      <4> QED BY <3>1, <3>3, <4>3 DEF Turn
    <3> QED BY <3>2, <3>3
  <2>3. \E k : Upto(n + 1, k)
    <3> HIDE DEF h
    <3> QED BY <2>2
  <2>4. n + 1 \in Nat
    OBVIOUS
  <2> QED BY <2>3, <2>4
<1>3. Nat \subseteq N
  <2> HIDE DEF N
  <2> QED BY <1>1, <1>2, NatInduct
<1>4. PICK g : Upto(Cardinality(S), g)
  BY <1>0, <1>3
<1> DEFINE h == [s \in SUBSET S |-> Turn(f, s, g)]
<1>5. ASSUME NEW s \in SUBSET S PROVE h[s] = Turn(f, s, h) /\ h[s] = g[s]
  <2>1. \A t \in SUBSET S : g[t] = Turn(f, t, g)
    BY <1>4, FS_Subset
  <2>2. \A t \in SUBSET S : h[t] = g[t]
    BY <2>1
  <2>3. s # {} => s \ {Pick(s)} \in SUBSET S
    OBVIOUS
  <2>4. Turn(f, s, h) = Turn(f, s, g)
    BY <2>2, <2>3 DEF Turn
  <2> QED BY <2>1, <2>2, <2>4
<1>6. h = [s \in SUBSET S |-> Turn(f, s, h)]
  BY <1>5
<1> QED BY <1>6 DEF Sums

\* Two of them agree where both are defined.
LEMMA SumsAgree ==
  ASSUME NEW f, NEW S, IsFiniteSet(S), NEW T \in SUBSET S, NEW g, Sums(f, S, g), NEW h, Sums(f, T, h)
  PROVE  g[T] = h[T]
<1> DEFINE G == {s \in SUBSET T : g[s] = h[s]}
<1>1. /\ \A s \in SUBSET S : g[s] = Turn(f, s, g)
      /\ \A s \in SUBSET T : h[s] = Turn(f, s, h)
  BY DEF Sums
<1>2. {} \in G
  BY <1>1 DEF Turn
<1>3. ASSUME NEW s \in SUBSET T, s # {}, \A x \in s : s \ {x} \in G PROVE s \in G
  <2>1. g[s \ {Pick(s)}] = h[s \ {Pick(s)}]
    BY <1>3, PickIn
  <2>2. s \in SUBSET S
    OBVIOUS
  <2> QED BY <1>1, <2>1, <2>2, <1>3 DEF Turn
<1>4. SUBSET T \subseteq G
  <2>1. IsFiniteSet(T)
    BY FS_Subset
  <2> HIDE DEF G
  <2> QED BY <1>2, <1>3, <2>1, SetInduct
<1> QED BY <1>4

LEMMA SumTurns ==
  ASSUME NEW f, NEW S, IsFiniteSet(S)
  PROVE  /\ SumFunctionOnSet(f, {}) = 0
         /\ S # {} => SumFunctionOnSet(f, S) = f[Pick(S)] + SumFunctionOnSet(f, S \ {Pick(S)})
<1> DEFINE g(T) == CHOOSE g : Sums(f, T, g)
<1>1. ASSUME NEW T, IsFiniteSet(T) PROVE SumFunctionOnSet(f, T) = g(T)[T] /\ Sums(f, T, g(T))
  BY <1>1, SumsExist, SumUnfolds
<1> HIDE DEF g
<1>2. \A T : IsFiniteSet(T) => g(T)[T] = Turn(f, T, g(T))
  BY <1>1 DEF Sums
<1>3. SumFunctionOnSet(f, {}) = 0
  BY <1>1, <1>2, FS_EmptySet DEF Turn
<1>4. ASSUME S # {} PROVE SumFunctionOnSet(f, S) = f[Pick(S)] + SumFunctionOnSet(f, S \ {Pick(S)})
  <2> DEFINE R == S \ {Pick(S)}
  <2>1. R \in SUBSET S /\ IsFiniteSet(R)
    BY FS_Subset
  <2>2. g(S)[R] = g(R)[R]
    BY <1>1, <2>1, SumsAgree
  <2>3. g(S)[S] = f[Pick(S)] + g(S)[R]
    BY <1>2, <1>4 DEF Turn
  <2> QED BY <1>1, <2>1, <2>2, <2>3
<1> QED BY <1>3, <1>4

Weights(f, S) == \A x \in S : f[x] \in Nat

LEMMA SumEmpty == \A f : SumFunctionOnSet(f, {}) = 0
  BY SumTurns, FS_EmptySet

LEMMA SumType ==
  ASSUME NEW f, NEW S, IsFiniteSet(S), Weights(f, S) PROVE SumFunctionOnSet(f, S) \in Nat
<1> DEFINE G == {T \in SUBSET S : SumFunctionOnSet(f, T) \in Nat}
<1>1. {} \in G
  BY SumEmpty
<1>2. ASSUME NEW T \in SUBSET S, T # {}, \A x \in T : T \ {x} \in G PROVE T \in G
  <2>1. Pick(T) \in T /\ IsFiniteSet(T)
    BY <1>2, PickIn, FS_Subset
  <2>2. SumFunctionOnSet(f, T) = f[Pick(T)] + SumFunctionOnSet(f, T \ {Pick(T)})
    BY <1>2, <2>1, SumTurns
  <2>3. f[Pick(T)] \in Nat /\ SumFunctionOnSet(f, T \ {Pick(T)}) \in Nat
    BY <1>2, <2>1 DEF Weights
  <2> QED BY <2>2, <2>3
<1>3. SUBSET S \subseteq G
  <2> HIDE DEF G
  <2> QED BY <1>1, <1>2, SetInduct
<1> QED BY <1>3

\* The order of the elements does not matter.
LEMMA SumRemove ==
  ASSUME NEW f, NEW S, IsFiniteSet(S), Weights(f, S), NEW z \in S
  PROVE  SumFunctionOnSet(f, S) = f[z] + SumFunctionOnSet(f, S \ {z})
<1> DEFINE G == {T \in SUBSET S : \A x \in T :
                   SumFunctionOnSet(f, T) = f[x] + SumFunctionOnSet(f, T \ {x})}
<1>1. {} \in G
  OBVIOUS
<1>2. ASSUME NEW T \in SUBSET S, T # {}, \A x \in T : T \ {x} \in G PROVE T \in G
  <2> DEFINE y == Pick(T)
  <2>1. y \in T /\ IsFiniteSet(T)
    BY <1>2, PickIn, FS_Subset
  <2>2. SumFunctionOnSet(f, T) = f[y] + SumFunctionOnSet(f, T \ {y})
    BY <1>2, <2>1, SumTurns
  <2> HIDE DEF y
  <2>3. ASSUME NEW x \in T PROVE SumFunctionOnSet(f, T) = f[x] + SumFunctionOnSet(f, T \ {x})
    <3>1. CASE x = y
      BY <2>2, <3>1
    <3>2. CASE x # y
      <4> DEFINE R == (T \ {y}) \ {x}
      <4>1. R = (T \ {x}) \ {y} /\ x \in T \ {y} /\ y \in T \ {x} /\ R \in SUBSET S /\ IsFiniteSet(R)
        BY <2>1, <3>2, FS_Subset
      <4>2. SumFunctionOnSet(f, T \ {y}) = f[x] + SumFunctionOnSet(f, R)
        BY <1>2, <2>1, <4>1
      <4>3. SumFunctionOnSet(f, T \ {x}) = f[y] + SumFunctionOnSet(f, R)
        BY <1>2, <4>1
      <4>4. Weights(f, R)
        BY DEF Weights
      <4>5. SumFunctionOnSet(f, R) \in Nat
        BY <4>1, <4>4, SumType
      <4>6. f[x] \in Nat /\ f[y] \in Nat
        BY <2>1 DEF Weights
      <4> HIDE DEF R
      <4> QED BY <2>2, <4>2, <4>3, <4>5, <4>6
    <3> QED BY <3>1, <3>2
  <2> QED BY <2>3
<1>3. SUBSET S \subseteq G
  <2> HIDE DEF G
  <2> QED BY <1>1, <1>2, SetInduct
<1> QED BY <1>3

LEMMA SumUnion ==
  ASSUME NEW f, NEW A, NEW B, IsFiniteSet(A), IsFiniteSet(B), A \cap B = {}, Weights(f, A \cup B)
  PROVE  SumFunctionOnSet(f, A \cup B) = SumFunctionOnSet(f, A) + SumFunctionOnSet(f, B)
<1> DEFINE G == {T \in SUBSET B : SumFunctionOnSet(f, A \cup T)
                                    = SumFunctionOnSet(f, A) + SumFunctionOnSet(f, T)}
<1>0. SumFunctionOnSet(f, A) \in Nat /\ \A T \in SUBSET B : SumFunctionOnSet(f, T) \in Nat
  <2>1. Weights(f, A) /\ \A T \in SUBSET B : Weights(f, T) /\ IsFiniteSet(T)
    BY FS_Subset DEF Weights
  <2> QED BY <2>1, SumType
<1>1. {} \in G
  <2>1. A \cup {} = A /\ SumFunctionOnSet(f, {}) = 0
    BY SumEmpty
  <2> QED BY <1>0, <2>1
<1>2. ASSUME NEW T \in SUBSET B, T # {}, \A x \in T : T \ {x} \in G PROVE T \in G
  <2>1. PICK x \in T : TRUE
    BY <1>2
  <2>2. IsFiniteSet(T) /\ IsFiniteSet(A \cup T) /\ (A \cup T) \ {x} = A \cup (T \ {x})
    BY FS_Subset, FS_Union
  <2>3. Weights(f, T) /\ Weights(f, A \cup T) /\ f[x] \in Nat
    BY DEF Weights
  <2>4. SumFunctionOnSet(f, A \cup T) = f[x] + SumFunctionOnSet(f, A \cup (T \ {x}))
    BY <2>2, <2>3, SumRemove
  <2>5. SumFunctionOnSet(f, T) = f[x] + SumFunctionOnSet(f, T \ {x})
    BY <2>2, <2>3, SumRemove
  <2>6. SumFunctionOnSet(f, A \cup (T \ {x})) = SumFunctionOnSet(f, A) + SumFunctionOnSet(f, T \ {x})
    BY <1>2
  <2>7. SumFunctionOnSet(f, T \ {x}) \in Nat
    BY <1>0
  <2> QED BY <1>0, <2>3, <2>4, <2>5, <2>6, <2>7
<1>3. SUBSET B \subseteq G
  <2> HIDE DEF G
  <2> QED BY <1>1, <1>2, SetInduct
<1> QED BY <1>3

\* A sum over less is no more.
LEMMA SumLess ==
  ASSUME NEW f, NEW S, IsFiniteSet(S), Weights(f, S), NEW T \in SUBSET S
  PROVE  SumFunctionOnSet(f, T) \in Nat /\ SumFunctionOnSet(f, T) <= SumFunctionOnSet(f, S)
<1>1. /\ IsFiniteSet(T) /\ IsFiniteSet(S \ T) /\ T \cap (S \ T) = {} /\ T \cup (S \ T) = S
      /\ Weights(f, T) /\ Weights(f, S \ T)
  BY FS_Subset DEF Weights
<1>2. SumFunctionOnSet(f, S) = SumFunctionOnSet(f, T) + SumFunctionOnSet(f, S \ T)
  BY <1>1, SumUnion
<1> QED BY <1>1, <1>2, SumType

LEMMA SumOnes ==
  ASSUME NEW f, NEW S, IsFiniteSet(S), \A x \in S : f[x] = 1
  PROVE  SumFunctionOnSet(f, S) = Cardinality(S)
<1> DEFINE G == {T \in SUBSET S : SumFunctionOnSet(f, T) = Cardinality(T)}
<1>1. {} \in G
  BY SumEmpty, FS_EmptySet
<1>2. ASSUME NEW T \in SUBSET S, T # {}, \A x \in T : T \ {x} \in G PROVE T \in G
  <2>1. Pick(T) \in T /\ IsFiniteSet(T)
    BY <1>2, PickIn, FS_Subset
  <2>2. SumFunctionOnSet(f, T) = f[Pick(T)] + SumFunctionOnSet(f, T \ {Pick(T)})
    BY <1>2, <2>1, SumTurns
  <2>3. Cardinality(T \ {Pick(T)}) = Cardinality(T) - 1 /\ Cardinality(T) \in Nat
    BY <2>1, FS_RemoveElement, FS_CardinalityType
  <2>4. SumFunctionOnSet(f, T \ {Pick(T)}) = Cardinality(T \ {Pick(T)})
    BY <1>2, <2>1
  <2>5. f[Pick(T)] = 1
    BY <2>1
  <2>6. SumFunctionOnSet(f, T) = Cardinality(T)
    BY <2>2, <2>3, <2>4, <2>5
  <2> QED BY <2>6
<1>3. SUBSET S \subseteq G
  <2> HIDE DEF G
  <2> QED BY <1>1, <1>2, SetInduct
<1> QED BY <1>3

\* Every element k of K goes to the entry p[k] of a table: the new table has in
\* all what the old one had and what came with K.
Part(K, p, i) == {k \in K : p[k] = i}

LEMMA SumGrown ==
  ASSUME NEW I, IsFiniteSet(I), NEW J \in SUBSET I, NEW K, IsFiniteSet(K), NEW p, \A k \in K : p[k] \in I,
         NEW d, Weights(d, K), NEW old, Weights(old, J), NEW new,
         \A i \in I : new[i] = (IF i \in J THEN old[i] ELSE 0) + SumFunctionOnSet(d, Part(K, p, i))
  PROVE  SumFunctionOnSet(new, I) = SumFunctionOnSet(old, J) + SumFunctionOnSet(d, K)
<1> DEFINE Into(T) == {k \in K : p[k] \in T}
           G == {T \in SUBSET I : SumFunctionOnSet(new, T) =
                   SumFunctionOnSet(old, J \cap T) + SumFunctionOnSet(d, Into(T))}
<1>1. ASSUME NEW L \in SUBSET K PROVE IsFiniteSet(L) /\ Weights(d, L) /\ SumFunctionOnSet(d, L) \in Nat
  <2>1. IsFiniteSet(L) /\ Weights(d, L)
    BY FS_Subset DEF Weights
  <2> QED BY <2>1, SumType
<1>2. ASSUME NEW L \in SUBSET J
      PROVE  IsFiniteSet(L) /\ Weights(old, L) /\ SumFunctionOnSet(old, L) \in Nat
  <2>1. IsFiniteSet(L) /\ Weights(old, L)
    BY FS_Subset DEF Weights
  <2> QED BY <2>1, SumType
<1>3. ASSUME NEW i \in I PROVE new[i] \in Nat
  <2>1. SumFunctionOnSet(d, Part(K, p, i)) \in Nat
    BY <1>1 DEF Part
  <2>2. i \in J => old[i] \in Nat
    BY DEF Weights
  <2> QED BY <2>1, <2>2
<1>4. {} \in G
  <2>1. J \cap {} = {} /\ Into({}) = {} /\ \A f : SumFunctionOnSet(f, {}) = 0
    BY SumEmpty
  <2> HIDE DEF Into
  <2> QED BY <2>1
<1>5. ASSUME NEW T \in SUBSET I, T # {}, \A i \in T : T \ {i} \in G PROVE T \in G
  <2>1. PICK i \in T : TRUE
    BY <1>5
  <2> DEFINE R == T \ {i}
  <2>2. SumFunctionOnSet(new, T) = new[i] + SumFunctionOnSet(new, R)
    <3>1. IsFiniteSet(T) /\ Weights(new, T)
      BY <1>3, FS_Subset DEF Weights
    <3> QED BY <3>1, SumRemove
  <2>3. SumFunctionOnSet(new, R) = SumFunctionOnSet(old, J \cap R) + SumFunctionOnSet(d, Into(R))
    BY <1>5
  <2>4. SumFunctionOnSet(d, Into(T)) = SumFunctionOnSet(d, Part(K, p, i)) + SumFunctionOnSet(d, Into(R))
    <3>1. Into(T) = Part(K, p, i) \cup Into(R) /\ Part(K, p, i) \cap Into(R) = {}
      BY DEF Part
    <3>2. Part(K, p, i) \in SUBSET K /\ Into(R) \in SUBSET K /\ Into(T) \in SUBSET K
      BY DEF Part
    <3> HIDE DEF Into, R
    <3>3. Weights(d, Part(K, p, i) \cup Into(R))
      BY <1>1, <3>1, <3>2
    <3> QED BY <1>1, <3>1, <3>2, <3>3, SumUnion
  <2>5. SumFunctionOnSet(old, J \cap T)
          = (IF i \in J THEN old[i] ELSE 0) + SumFunctionOnSet(old, J \cap R)
    <3>1. CASE i \notin J
      <4>1. J \cap T = J \cap R /\ J \cap R \in SUBSET J
        BY <3>1
      <4>2. SumFunctionOnSet(old, J \cap R) \in Nat
        BY <1>2, <4>1
      <4> QED BY <3>1, <4>1, <4>2
    <3>2. CASE i \in J
      <4>1. i \in J \cap T /\ (J \cap T) \ {i} = J \cap R /\ J \cap T \in SUBSET J
        BY <3>2
      <4>2. IsFiniteSet(J \cap T) /\ Weights(old, J \cap T)
        BY <1>2, <4>1
      <4>3. SumFunctionOnSet(old, J \cap T) = old[i] + SumFunctionOnSet(old, (J \cap T) \ {i})
        BY <4>1, <4>2, SumRemove
      <4> QED BY <3>2, <4>1, <4>3
    <3> QED BY <3>1, <3>2
  <2>6. new[i] = (IF i \in J THEN old[i] ELSE 0) + SumFunctionOnSet(d, Part(K, p, i))
    OBVIOUS
  <2>7. /\ (IF i \in J THEN old[i] ELSE 0) \in Nat
        /\ SumFunctionOnSet(d, Part(K, p, i)) \in Nat /\ SumFunctionOnSet(d, Into(R)) \in Nat
        /\ SumFunctionOnSet(old, J \cap R) \in Nat
    <3>1. Part(K, p, i) \in SUBSET K /\ Into(R) \in SUBSET K /\ J \cap R \in SUBSET J
      BY DEF Part
    <3> HIDE DEF Into, R
    <3> QED BY <1>1, <1>2, <3>1 DEF Weights
  <2>8. SumFunctionOnSet(new, T) = SumFunctionOnSet(old, J \cap T) + SumFunctionOnSet(d, Into(T))
    <3> HIDE DEF Into, R
    <3> DEFINE a == IF i \in J THEN old[i] ELSE 0
    <3> HIDE DEF a
    <3>1. \A x, y, u, v \in Nat : (x + y) + (u + v) = (x + u) + (y + v)
      OBVIOUS
    <3> QED BY <2>2, <2>3, <2>4, <2>5, <2>6, <2>7, <3>1 DEF a
  <2> QED BY <2>8
<1>6. SUBSET I \subseteq G
  <2> HIDE DEF G
  <2> QED BY <1>4, <1>5, SetInduct
<1>7. J \cap I = J /\ Into(I) = K /\ I \in G
  BY <1>6
<1> QED BY <1>7

-----------------------------------------------------------------------------
(* The rows of nettop *)

\* Reading rows takes the loop from b to e.
Start == [pid |-> 0, seen |-> NoEntries]
Steps(b, rows, a) == /\ a[0] = b
                     /\ \A i \in 1..Len(rows) : a[i] = ReadRow(a[i - 1], rows[i])
Reads(b, rows, e) == \E a : Steps(b, rows, a) /\ a[Len(rows)] = e

LEMMA StepsAgree ==
  ASSUME NEW b, NEW rows, Len(rows) \in Nat, NEW a, Steps(b, rows, a), NEW c, Steps(b, rows, c)
  PROVE  a[Len(rows)] = c[Len(rows)]
<1> DEFINE n == Len(rows)
           G == {i \in Nat : i <= n => a[i] = c[i]}
<1>1. 0 \in G
  BY DEF Steps
<1>2. ASSUME NEW i \in Nat, i \in G PROVE i + 1 \in G
  <2>1. i + 1 \in Nat /\ (i + 1) - 1 = i
    OBVIOUS
  <2>2. i + 1 <= n => i + 1 \in 1..Len(rows) /\ a[i] = c[i]
    BY <1>2
  <2>3. i + 1 <= n => a[i + 1] = ReadRow(a[i], rows[i + 1]) /\ c[i + 1] = ReadRow(c[i], rows[i + 1])
    BY <2>1, <2>2 DEF Steps
  <2> QED BY <2>1, <2>2, <2>3
<1>3. Nat \subseteq G
  <2> HIDE DEF G
  <2> QED BY <1>1, <1>2, NatInduct
<1> QED BY <1>3

\* So does ReadRows.
LEMMA ReadsAll ==
  ASSUME NEW rows, Len(rows) \in Nat, NEW e, Reads(Start, rows, e) PROVE ReadRows(rows) = e.seen
<1> DEFINE n == Len(rows)
           Acc(a) == a = [i \in 0..Len(rows) |-> IF i = 0 THEN [pid |-> 0, seen |-> NoEntries]
                                                ELSE ReadRow(a[i - 1], rows[i])]
<1>1. PICK a : Steps(Start, rows, a) /\ a[n] = e
  BY DEF Reads
<1>2. ReadRows(rows) = (CHOOSE c : Acc(c))[n].seen
  BY DEF ReadRows
<1>3. \E c : Acc(c)
  <2> DEFINE c == [i \in 0..n |-> a[i]]
  <2>1. ASSUME NEW i \in 0..n
        PROVE  c[i] = IF i = 0 THEN [pid |-> 0, seen |-> NoEntries] ELSE ReadRow(c[i - 1], rows[i])
    <3>1. i # 0 => i \in 1..n /\ i - 1 \in 0..n
      OBVIOUS
    <3> QED BY <1>1, <3>1 DEF Steps, Start
  <2> QED BY <2>1
<1>4. \A c : Acc(c) => Steps(Start, rows, c)
  <2> SUFFICES ASSUME NEW c, Acc(c) PROVE Steps(Start, rows, c)
    OBVIOUS
  <2>1. \A i \in 0..n : c[i] = IF i = 0 THEN Start ELSE ReadRow(c[i - 1], rows[i])
    BY DEF Start
  <2>2. 0 \in 0..n /\ \A i \in 1..n : i \in 0..n /\ i # 0
    OBVIOUS
  <2> HIDE DEF Acc
  <2> QED BY <2>1, <2>2 DEF Steps
<1> HIDE DEF Acc
<1>5. Steps(Start, rows, CHOOSE c : Acc(c))
  BY <1>3, <1>4
<1> QED BY <1>1, <1>2, <1>5, StepsAgree

LEMMA ReadsConcat ==
  ASSUME NEW R, NEW q \in Seq(R), NEW r \in Seq(R), NEW b, NEW d, NEW e, Reads(b, q, d), Reads(d, r, e)
  PROVE  Reads(b, q \o r, e)
<1> DEFINE m == Len(q)
           n == Len(r)
<1>1. /\ m \in Nat /\ n \in Nat /\ Len(q \o r) = m + n
      /\ \A i \in 1..m : (q \o r)[i] = q[i]
      /\ \A i \in 1..n : (q \o r)[m + i] = r[i]
  BY ConcatProperties, LenProperties
<1>2. PICK a : Steps(b, q, a) /\ a[m] = d
  BY DEF Reads
<1>3. PICK c : Steps(d, r, c) /\ c[n] = e
  BY DEF Reads
<1> DEFINE f == [i \in 0..(m + n) |-> IF i <= m THEN a[i] ELSE c[i - m]]
<1> HIDE DEF m, n
<1>4. f[0] = b
  BY <1>1, <1>2 DEF Steps
<1>5. f[m + n] = e
  <2>1. CASE n = 0
    BY <1>1, <1>2, <1>3, <2>1 DEF Steps
  <2>2. CASE n # 0
    BY <1>1, <1>3, <2>2
  <2> QED BY <2>1, <2>2
<1>6. ASSUME NEW i \in 1..(m + n) PROVE f[i] = ReadRow(f[i - 1], (q \o r)[i])
  <2>1. CASE i <= m
    <3>1. i \in 1..m /\ f[i] = a[i] /\ f[i - 1] = a[i - 1]
      BY <1>1, <2>1
    <3> QED BY <1>1, <1>2, <3>1 DEF Steps, m
  <2>2. CASE i > m
    <3> DEFINE j == i - m
    <3>1. j \in 1..n /\ i = m + j /\ f[i] = c[j]
      BY <1>1, <2>2
    <3>2. f[i - 1] = c[j - 1]
      <4>1. CASE j = 1
        <5>1. i - 1 = m /\ j - 1 = 0 /\ m \in 0..(m + n)
          BY <1>1, <3>1, <4>1
        <5>2. f[i - 1] = a[m]
          BY <1>1, <5>1
        <5> QED BY <1>2, <1>3, <5>1, <5>2 DEF Steps
      <4>2. CASE j # 1
        BY <1>1, <3>1, <4>2
      <4> QED BY <4>1, <4>2
    <3> HIDE DEF j, f
    <3>3. c[j] = ReadRow(c[j - 1], r[j]) /\ (q \o r)[i] = r[j]
      BY <1>1, <1>3, <3>1 DEF Steps, n
    <3> QED BY <3>1, <3>2, <3>3
  <2> QED BY <1>1, <2>1, <2>2
<1> HIDE DEF f
<1>7. Steps(b, q \o r, f) /\ f[Len(q \o r)] = e
  BY <1>1, <1>4, <1>5, <1>6 DEF Steps
<1> QED BY <1>7 DEF Reads

\* Of the keys of D the counters they have now.
Held(D) == [k \in D |-> counter[SocketOf(k)]]

RowSet == {ProcessRow(p) : p \in Pids} \cup {SocketRow(s) : s \in Sockets}

LEMMA ReadsProcessRow ==
  ASSUME NEW p, NEW x, NEW f
  PROVE  Reads([pid |-> x, seen |-> f], <<ProcessRow(p)>>, [pid |-> p, seen |-> f])
<1> DEFINE b == [pid |-> x, seen |-> f]
           e == [pid |-> p, seen |-> f]
           a == [i \in 0..1 |-> IF i = 0 THEN b ELSE e]
<1>1. ReadRow(b, ProcessRow(p)) = e
  BY DEF ReadRow, ProcessRow
<1>2. Len(<<ProcessRow(p)>>) = 1 /\ <<ProcessRow(p)>>[1] = ProcessRow(p)
  OBVIOUS
<1>3. a[0] = b /\ a[1] = e
  OBVIOUS
<1> HIDE DEF a, b, e
<1>4. \A i \in 1..1 : i = 1 /\ i - 1 = 0
  OBVIOUS
<1> QED BY <1>1, <1>2, <1>3, <1>4 DEF Steps, Reads, b, e

\* A set of rows in some order names each of them.
LEMMA RowOrder ==
  ASSUME NEW X, IsFiniteSet(X)
  PROVE  /\ SetToSeq(X) \in Seq(X) /\ Len(SetToSeq(X)) \in Nat
         /\ \A i \in 1..Len(SetToSeq(X)) : SetToSeq(X)[i] \in X
         /\ \A x \in X : \E i \in 1..Len(SetToSeq(X)) : SetToSeq(X)[i] = x
<1> DEFINE n == Cardinality(X)
           q == SetToSeq(X)
<1>1. n \in Nat /\ ExistsBijection(1..n, X)
  BY FS_CardinalityType
<1>2. \E f \in [1..n -> X] : IsInjective(f)
  BY <1>1 DEF ExistsBijection, Bijection, Injection
<1>3. q \in [1..n -> X] /\ IsInjective(q)
  BY <1>2 DEF SetToSeq
<1>4. IsFiniteSet(1..n) /\ Cardinality(1..n) = n
  <2> HIDE DEF n
  <2>1. n \in Int /\ 1 \in Int
    BY <1>1
  <2>2. Cardinality(1..n) = (IF 1 > n THEN 0 ELSE n - 1 + 1) /\ IsFiniteSet(1..n)
    BY <2>1, FS_Interval
  <2> QED BY <1>1, <2>2
<1>5. q \in Surjection(1..n, X)
  <2>1. q \in Injection(1..n, X)
    BY <1>3 DEF Injection
  <2> QED BY <1>4, <2>1, FS_Injection
<1> HIDE DEF n, q
<1>6. q \in Seq(X) /\ Len(q) = n
  BY <1>1, <1>3, SeqDef, LenProperties
<1>7. /\ \A i \in 1..n : q[i] \in X
      /\ \A x \in X : \E i \in 1..n : q[i] = x
  BY <1>3, <1>5 DEF Surjection
<1> QED BY <1>1, <1>6, <1>7 DEF q

\* A process and its sockets, in any order: each is charged to the process.
LEMMA ReadsProcess ==
  ASSUME CollectorTypeOK, IsFiniteSet(open), NEW p \in Pids, NEW x, NEW D \in SUBSET open
  PROVE  /\ RowsOf(p) \in Seq(RowSet)
         /\ Reads([pid |-> x, seen |-> Held(D)], RowsOf(p),
                  [pid |-> p, seen |-> Held(D \cup {k \in open : PidOf(k) = p})])
<1> DEFINE T == {t \in Sockets : <<p, t>> \in open}
           X == {SocketRow(s) : s \in T}
           q == SetToSeq(X)
           n == Len(q)
           New(i) == {<<p, q[j].socket>> : j \in 1..i}
           After(i) == [pid |-> p, seen |-> Held(D \cup New(i))]
<1>0. p # 0 /\ open \subseteq Keys /\ \A k \in open : k = <<PidOf(k), SocketOf(k)>> /\ SocketOf(k) \in Sockets
  BY KeyAssumption DEF CollectorTypeOK, PidOf, SocketOf
<1>1. \A s : SocketRow(s).kind = "socket" /\ SocketRow(s).socket = s /\ SocketRow(s).bytes = counter[s]
  BY DEF SocketRow
<1>2. IsFiniteSet(X)
  <2> DEFINE U == {k \in open : PidOf(k) = p}
             f == [k \in U |-> SocketRow(SocketOf(k))]
  <2>1. IsFiniteSet(U)
    BY FS_Subset
  <2>2. f \in Surjection(U, X)
    <3>1. \A k \in U : SocketOf(k) \in T
      BY <1>0
    <3>2. \A s \in T : <<p, s>> \in U /\ SocketOf(<<p, s>>) = s
      BY DEF PidOf, SocketOf
    <3> QED BY <3>1, <3>2 DEF Surjection
  <2> HIDE DEF f, U, X
  <2> QED BY <2>1, <2>2, FS_Surjection
<1>3. /\ q \in Seq(X) /\ n \in Nat /\ \A i \in 1..n : q[i] \in X
      /\ \A r \in X : \E i \in 1..n : q[i] = r
  <2> HIDE DEF X
  <2> QED BY <1>2, RowOrder
<1>4. <<ProcessRow(p)>> \in Seq(RowSet) /\ q \in Seq(RowSet)
  <2>1. X \subseteq RowSet /\ ProcessRow(p) \in RowSet
    BY DEF RowSet
  <2> HIDE DEF X, q
  <2>2. q \in Seq(RowSet)
    BY <1>3, <2>1, SeqMonotonic
  <2>3. <<ProcessRow(p)>> \in Seq(RowSet)
    BY <2>1
  <2> QED BY <2>2, <2>3
<1>5. RowsOf(p) = <<ProcessRow(p)>> \o q
  BY DEF RowsOf
<1>6. ASSUME NEW i \in 1..n PROVE After(i) = ReadRow(After(i - 1), q[i])
  <2>1. PICK s \in T : q[i] = SocketRow(s)
    BY <1>3
  <2> HIDE DEF X, T, q, n
  <2>2. New(i) = New(i - 1) \cup {<<p, s>>}
    <3>1. q[i].socket = s /\ n \in Nat
      BY <1>1, <1>3, <2>1
    <3>2. 1..i = (1..(i - 1)) \cup {i}
      BY <3>1
    <3>3. New(i) = New(i - 1) \cup {<<p, q[i].socket>>}
      BY <3>2
    <3> HIDE DEF New
    <3> QED BY <3>1, <3>3
  <2>3. SocketOf(<<p, s>>) = s
    BY DEF SocketOf
  <2> DEFINE E == D \cup New(i - 1)
             z == <<p, s>>
  <2>4. D \cup New(i) = E \cup {z}
    BY <2>2
  <2> HIDE DEF New, E
  <2>5. ReadRow([pid |-> p, seen |-> Held(E)], q[i]) =
          [pid |-> p, seen |-> [k \in DOMAIN Held(E) \cup {z} |->
                                  IF k = z THEN counter[s] ELSE Held(E)[k]]]
    BY <1>0, <1>1, <2>1 DEF ReadRow
  <2>6. [k \in DOMAIN Held(E) \cup {z} |-> IF k = z THEN counter[s] ELSE Held(E)[k]]
          = Held(E \cup {z})
    BY <2>3 DEF Held
  <2> QED BY <2>4, <2>5, <2>6 DEF E
<1>7. Reads([pid |-> p, seen |-> Held(D)], q, After(n))
  <2> DEFINE a == [i \in 0..n |-> After(i)]
  <2>1. a[0] = [pid |-> p, seen |-> Held(D)]
    <3>1. New(0) = {} /\ 0 \in 0..n
      BY <1>3
    <3>2. D \cup New(0) = D
      BY <3>1
    <3> HIDE DEF New
    <3> QED BY <3>1, <3>2
  <2>2. \A i \in 1..n : i \in 0..n /\ i - 1 \in 0..n
    BY <1>3
  <2> HIDE DEF After
  <2>3. \A i \in 1..n : a[i] = ReadRow(a[i - 1], q[i])
    BY <1>6, <2>2
  <2>4. a[n] = After(n)
    BY <1>3
  <2> HIDE DEF a, q
  <2> QED BY <2>1, <2>3, <2>4 DEF Reads, Steps
<1>8. New(n) = {k \in open : PidOf(k) = p}
  <2>1. ASSUME NEW k \in open, PidOf(k) = p PROVE k \in New(n)
    <3>1. SocketOf(k) \in T /\ k = <<p, SocketOf(k)>>
      BY <1>0, <2>1
    <3>2. PICK i \in 1..n : q[i] = SocketRow(SocketOf(k))
      BY <1>3, <3>1
    <3>3. k = <<p, q[i].socket>>
      BY <1>1, <3>1, <3>2
    <3> HIDE DEF q, n
    <3> QED BY <3>3
  <2>2. ASSUME NEW i \in 1..n PROVE <<p, q[i].socket>> \in open /\ PidOf(<<p, q[i].socket>>) = p
    <3>1. PICK s \in T : q[i] = SocketRow(s)
      BY <1>3
    <3>2. q[i].socket = s
      BY <1>1, <3>1
    <3> QED BY <3>1, <3>2 DEF PidOf
  <2> QED BY <2>1, <2>2
<1> HIDE DEF q, n, New
<1>9. Reads([pid |-> x, seen |-> Held(D)], RowsOf(p), After(n))
  BY <1>4, <1>5, <1>7, ReadsProcessRow, ReadsConcat
<1>10. RowsOf(p) \in Seq(RowSet)
  BY <1>4, <1>5, ConcatProperties
<1> QED BY <1>8, <1>9, <1>10

\* One sequence after the other.
Chain(q, f) == \A i \in 1..Len(q) : f[i] = IF i = 1 THEN q[i] ELSE f[i - 1] \o q[i]

LEMMA FlattenChain ==
  ASSUME NEW q, Len(q) \in Nat, Len(q) # 0
  PROVE  \E f : Chain(q, f) /\ FlattenSeq(q) = f[Len(q)]
<1> DEFINE n == Len(q)
           Is(f) == f = [i \in 1..Len(q) |-> IF i = 1 THEN q[i] ELSE f[i - 1] \o q[i]]
           G == {m \in Nat : \E f : \A i \in 1..m : f[i] = IF i = 1 THEN q[i] ELSE f[i - 1] \o q[i]}
<1>1. 0 \in G
  OBVIOUS
<1>2. ASSUME NEW m \in Nat, m \in G PROVE m + 1 \in G
  <2>1. PICK f : \A i \in 1..m : f[i] = IF i = 1 THEN q[i] ELSE f[i - 1] \o q[i]
    BY <1>2
  <2> DEFINE g == [i \in 1..(m + 1) |-> IF i <= m THEN f[i]
                                        ELSE IF i = 1 THEN q[i] ELSE f[i - 1] \o q[i]]
  <2>2. ASSUME NEW i \in 1..(m + 1) PROVE g[i] = IF i = 1 THEN q[i] ELSE g[i - 1] \o q[i]
    <3>1. i # 1 => g[i - 1] = f[i - 1]
      OBVIOUS
    <3>2. i <= m => f[i] = IF i = 1 THEN q[i] ELSE f[i - 1] \o q[i]
      BY <2>1
    <3>3. g[i] = IF i = 1 THEN q[i] ELSE f[i - 1] \o q[i]
      BY <3>2
    <3> HIDE DEF g
    <3> QED BY <3>1, <3>3
  <2>3. \E h : \A i \in 1..(m + 1) : h[i] = IF i = 1 THEN q[i] ELSE h[i - 1] \o q[i]
    <3> HIDE DEF g
    <3> QED BY <2>2
  <2> QED BY <2>3
<1>3. Nat \subseteq G
  <2> HIDE DEF G
  <2> QED BY <1>1, <1>2, NatInduct
<1>4. PICK f : \A i \in 1..n : f[i] = IF i = 1 THEN q[i] ELSE f[i - 1] \o q[i]
  BY <1>3
<1>5. \E g : Is(g)
  <2> DEFINE g == [i \in 1..n |-> f[i]]
  <2>1. ASSUME NEW i \in 1..n PROVE g[i] = IF i = 1 THEN q[i] ELSE g[i - 1] \o q[i]
    <3>1. i # 1 => i - 1 \in 1..n
      OBVIOUS
    <3> QED BY <1>4, <3>1
  <2>2. g = [i \in 1..n |-> IF i = 1 THEN q[i] ELSE g[i - 1] \o q[i]]
    <3> HIDE DEF n
    <3> QED BY <2>1
  <2> HIDE DEF g
  <2> QED BY <2>2
<1>6. FlattenSeq(q) = (CHOOSE g : Is(g))[n]
  BY DEF FlattenSeq
<1>7. \A g : Is(g) => Chain(q, g)
  BY DEF Chain
<1> HIDE DEF Is
<1> QED BY <1>5, <1>6, <1>7

LEMMA PidOrder ==
  ASSUME NEW o \in SetToSeqs(Pids)
  PROVE  /\ DOMAIN o = 1..Len(o) /\ Len(o) \in Nat
         /\ \A i \in 1..Len(o) : o[i] \in Pids
         /\ \A p \in Pids : \E i \in 1..Len(o) : o[i] = p
<1> DEFINE n == Cardinality(Pids)
<1>1. n \in Nat
  BY FS_CardinalityType, KeyAssumption
<1>2. o \in [1..n -> Pids] /\ \A i, j \in 1..n : i # j => o[i] # o[j]
  BY DEF SetToSeqs
<1>3. Cardinality(1..n) = n
  <2> HIDE DEF n
  <2>1. n \in Int /\ 1 \in Int
    BY <1>1
  <2>2. Cardinality(1..n) = (IF 1 > n THEN 0 ELSE n - 1 + 1)
    BY <2>1, FS_Interval
  <2> QED BY <1>1, <2>2
<1>4. o \in Injection(1..n, Pids)
  BY <1>2 DEF Injection, IsInjective
<1>5. o \in Surjection(1..n, Pids)
  BY <1>3, <1>4, FS_Injection, KeyAssumption
<1> HIDE DEF n
<1>6. Len(o) = n
  BY <1>1, <1>2, SeqDef, LenProperties
<1> QED BY <1>1, <1>2, <1>5, <1>6 DEF Surjection

\* The loop over the output of nettop, whatever the order of its processes.
LEMMA HolderRight == ASSUME CollectorTypeOK, IsFiniteSet(open) PROVE RightHolder
<1> SUFFICES ASSUME NEW o \in SetToSeqs(Pids)
             PROVE  ReadRows(FlattenSeq([i \in DOMAIN o |-> RowsOf(o[i])])) = Held(open)
  BY DEF RightHolder, Outputs, Held
<1> DEFINE q == [i \in DOMAIN o |-> RowsOf(o[i])]
           n == Len(o)
           Of(i) == {k \in open : \E j \in 1..i : PidOf(k) = o[j]}
<1>1. /\ DOMAIN o = 1..n /\ n \in Nat /\ \A i \in 1..n : o[i] \in Pids
      /\ \A p \in Pids : \E i \in 1..n : o[i] = p
  BY PidOrder
<1>2. \A k \in open : PidOf(k) \in Pids
  BY KeyAssumption DEF CollectorTypeOK, PidOf
<1>3. Of(n) = open /\ Of(0) = {}
  BY <1>1, <1>2
<1>4. Len(q) = n
  <2>1. q \in Seq(Seq(RowSet))
    <3>1. \A i \in 1..n : RowsOf(o[i]) \in Seq(RowSet)
      BY <1>1, ReadsProcess
    <3>2. q \in [1..n -> Seq(RowSet)]
      BY <1>1, <3>1
    <3> HIDE DEF q, n
    <3> QED BY <1>1, <3>2, SeqDef
  <2>2. DOMAIN q = 1..n
    BY <1>1
  <2> HIDE DEF q, n
  <2> QED BY <1>1, <2>1, <2>2, LenProperties
<1>5. Start = [pid |-> 0, seen |-> Held({})]
  BY DEF Start, Held, NoEntries
<1>6. CASE n = 0
  <2>1. FlattenSeq(q) = q
    <3> HIDE DEF q
    <3> QED BY <1>4, <1>6 DEF FlattenSeq
  <2>2. Reads(Start, q, Start)
    <3>1. Steps(Start, q, [i \in {0} |-> Start]) /\ [i \in {0} |-> Start][0] = Start
      BY <1>4, <1>6 DEF Steps
    <3> HIDE DEF q
    <3> QED BY <1>4, <1>6, <3>1 DEF Reads
  <2>3. open = {}
    BY <1>3, <1>6
  <2> HIDE DEF q
  <2>4. ReadRows(q) = Start.seen
    BY <1>4, <1>6, <2>2, ReadsAll
  <2>5. Start.seen = Held(open)
    BY <1>5, <2>3
  <2> QED BY <2>1, <2>4, <2>5 DEF q
<1>7. CASE n # 0
  <2>1. PICK f : Chain(q, f) /\ FlattenSeq(q) = f[n]
    <3> HIDE DEF q
    <3> QED BY <1>1, <1>4, <1>7, FlattenChain
  <2> DEFINE G == {i \in Nat : i + 1 <= n =>
                     /\ f[i + 1] \in Seq(RowSet)
                     /\ \E p : Reads(Start, f[i + 1], [pid |-> p, seen |-> Held(Of(i + 1))])}
  <2>2. ASSUME NEW i \in 1..n, NEW x, NEW D, D = Of(i - 1)
        PROVE  /\ q[i] \in Seq(RowSet)
               /\ Reads([pid |-> x, seen |-> Held(D)], q[i], [pid |-> o[i], seen |-> Held(Of(i))])
    <3>1. q[i] = RowsOf(o[i]) /\ o[i] \in Pids
      BY <1>1
    <3>2. Of(i) = Of(i - 1) \cup {k \in open : PidOf(k) = o[i]}
      <4>1. \A j : j \in 1..i <=> j \in 1..(i - 1) \/ j = i
        BY <1>1
      <4> QED BY <4>1
    <3>3. D \in SUBSET open
      BY <2>2
    <3> HIDE DEF Of, q
    <3> QED BY <2>2, <3>1, <3>2, <3>3, ReadsProcess
  <2>3. \A i \in 1..n : f[i] = IF i = 1 THEN q[i] ELSE f[i - 1] \o q[i]
    BY <1>4, <2>1 DEF Chain
  <2> HIDE DEF q, Of
  <2>4. 0 \in G
    <3>1. 1 \in 1..n /\ f[1] = q[1]
      BY <1>1, <1>7, <2>3
    <3>2. 1 - 1 = 0 /\ 0 + 1 = 1
      OBVIOUS
    <3>3. q[1] \in Seq(RowSet) /\ Reads(Start, q[1], [pid |-> o[1], seen |-> Held(Of(1))])
      BY <1>3, <1>5, <2>2, <3>1, <3>2
    <3>4. f[0 + 1] \in Seq(RowSet) /\ \E p : Reads(Start, f[0 + 1], [pid |-> p, seen |-> Held(Of(0 + 1))])
      BY <3>1, <3>2, <3>3
    <3> QED BY <3>4
  <2>5. ASSUME NEW i \in Nat, i \in G PROVE i + 1 \in G
    <3> DEFINE m == i + 1
    <3>1. m \in Nat /\ (m + 1) - 1 = m
      OBVIOUS
    <3>2. ASSUME m + 1 <= n
          PROVE  /\ f[m + 1] \in Seq(RowSet)
                 /\ \E p : Reads(Start, f[m + 1], [pid |-> p, seen |-> Held(Of(m + 1))])
      <4>1. m + 1 \in 1..n /\ m + 1 # 1 /\ m <= n
        BY <1>1, <3>2
      <4>2. f[m] \in Seq(RowSet) /\ \E p : Reads(Start, f[m], [pid |-> p, seen |-> Held(Of(m))])
        BY <2>5, <4>1
      <4> HIDE DEF m
      <4>3. PICK p : Reads(Start, f[m], [pid |-> p, seen |-> Held(Of(m))])
        BY <4>2
      <4>4. f[m + 1] = f[m] \o q[m + 1]
        BY <2>3, <3>1, <4>1
      <4>5. /\ q[m + 1] \in Seq(RowSet)
            /\ Reads([pid |-> p, seen |-> Held(Of(m))], q[m + 1],
                     [pid |-> o[m + 1], seen |-> Held(Of(m + 1))])
        BY <2>2, <3>1, <4>1
      <4>6. f[m + 1] \in Seq(RowSet)
        BY <4>2, <4>4, <4>5, ConcatProperties
      <4>7. Reads(Start, f[m + 1], [pid |-> o[m + 1], seen |-> Held(Of(m + 1))])
        BY <4>2, <4>3, <4>4, <4>5, ReadsConcat
      <4> QED BY <4>6, <4>7
    <3> HIDE DEF m
    <3>3. m \in G
      BY <3>1, <3>2
    <3> QED BY <3>3 DEF m
  <2>6. Nat \subseteq G
    <3> HIDE DEF G
    <3> QED BY <2>4, <2>5, NatInduct
  <2>7. n - 1 \in Nat /\ (n - 1) + 1 = n /\ n <= n
    BY <1>1, <1>7
  <2>8. f[n] \in Seq(RowSet) /\ \E p : Reads(Start, f[n], [pid |-> p, seen |-> Held(Of(n))])
    BY <2>6, <2>7
  <2>9. PICK p : Reads(Start, f[n], [pid |-> p, seen |-> Held(open)])
    BY <1>3, <2>8
  <2>10. Len(f[n]) \in Nat
    BY <2>8, LenProperties
  <2>11. ReadRows(f[n]) = Held(open)
    BY <2>9, <2>10, ReadsAll
  <2> QED BY <2>1, <2>11 DEF q
<1> QED BY <1>6, <1>7

-----------------------------------------------------------------------------
(* What the keys are owed *)

C(k)  == counter[SocketOf(k)]
Gl(k) == SampleOf(k)

\* What diffOrCurrent makes of a counter n after one of g.
Since(n, g) == IF n >= g THEN n - g ELSE n

\* What the polls will count for an open key if nothing more happens: now, or
\* in two parts if the counters of this poll are read already.
Pending(k) == IF at = "list" THEN Due(k, Gl(k)) + Since(C(k), Gl(k)) ELSE Due(k, C(k))

\* A key that is closed may come back before its counter is subtracted; the
\* flow of a datagram socket does not go backwards within a poll.
Covered(k) ==
  /\ k \in open => owed[k] >= Pending(k)
  /\ k \notin open => owed[k] >= 0
  /\ k \notin open /\ at = "list" /\ SocketOf(k) \notin Datagrams => owed[k] >= Due(k, Gl(k))
  /\ at = "list" /\ SocketOf(k) \in Datagrams => C(k) >= Gl(k)

\* A key that is whole has a counter that only grew since its last sample.
Exact(k) ==
  k \in whole =>
    /\ owed[k] = Pending(k)
    /\ at = "list" => Gl(k) <= C(k) /\ (k \in DOMAIN samples => samples[k] <= Gl(k))
    /\ k \in DOMAIN samples => samples[k] <= C(k)

CollectorInv == /\ CollectorTypeOK /\ IsFiniteSet(open)
                /\ sighted => \A k \in Keys : Covered(k) /\ Exact(k)

-----------------------------------------------------------------------------
(* Numbers *)

LEMMA KeyTypes ==
  ASSUME CollectorTypeOK, NEW k \in Keys
  PROVE  /\ SocketOf(k) \in Sockets /\ C(k) \in Nat /\ Gl(k) \in Nat /\ owed[k] \in Int
         /\ k \in DOMAIN samples => samples[k] \in Nat
<1>1. SocketOf(k) \in Sockets
  BY KeyAssumption DEF SocketOf
<1>2. C(k) \in Nat
  BY <1>1 DEF C, CollectorTypeOK
<1>3. Gl(k) \in Nat
  BY DEF Gl, SampleOf, At, CollectorTypeOK
<1> QED BY <1>1, <1>2, <1>3 DEF CollectorTypeOK

\* The difference is never more than the counter.
LEMMA DueBounds ==
  ASSUME CollectorTypeOK, NEW k \in Keys, NEW n \in Nat
  PROVE  Due(k, n) \in Nat /\ Due(k, n) <= n
  BY KeyTypes DEF Due

LEMMA SinceBounds ==
  ASSUME NEW n \in Nat, NEW g \in Nat PROVE Since(n, g) \in Nat /\ Since(n, g) <= n
  BY DEF Since

\* A counter taken in two parts counts no less than taken at once, and the same
\* if it only grew.
LEMMA DueInParts ==
  ASSUME CollectorTypeOK, NEW k \in Keys, NEW n \in Nat, NEW g \in Nat
  PROVE  /\ Due(k, n) <= Due(k, g) + Since(n, g)
         /\ g <= n /\ (k \in DOMAIN samples => samples[k] <= g)
              => Due(k, n) = Due(k, g) + Since(n, g)
  BY KeyTypes DEF Due, Since

\* One more byte counts for at most one, and for one if the counter only grew.
LEMMA DueMore ==
  ASSUME CollectorTypeOK, NEW k \in Keys, NEW n \in Nat
  PROVE  /\ Due(k, n + 1) <= Due(k, n) + 1
         /\ (k \in DOMAIN samples => samples[k] <= n) => Due(k, n + 1) = Due(k, n) + 1
  BY KeyTypes DEF Due

LEMMA SinceMore ==
  ASSUME NEW n \in Nat, NEW g \in Nat
  PROVE  Since(n + 1, g) <= Since(n, g) + 1 /\ (g <= n => Since(n + 1, g) = Since(n, g) + 1)
  BY DEF Since

-----------------------------------------------------------------------------
(* The kernel: the counters move, the samples stay *)

Steady == at' = at /\ glance' = glance /\ samples' = samples

LEMMA SteadyKey ==
  ASSUME Steady, NEW k \in Keys
  PROVE  /\ Gl(k)' = Gl(k) /\ \A n : Due(k, n)' = Due(k, n)
         /\ Pending(k)' = IF at = "list" THEN Due(k, Gl(k)) + Since(C(k)', Gl(k)) ELSE Due(k, C(k)')
  BY DEF Steady, Gl, SampleOf, Due, Pending, Since

\* A key that a step leaves as it is.
LEMMA SameKey ==
  ASSUME CollectorTypeOK, Steady, NEW k \in Keys, Covered(k), Exact(k),
         C(k)' = C(k), owed'[k] = owed[k], k \in open' <=> k \in open, k \in whole' => k \in whole
  PROVE  Covered(k)' /\ Exact(k)'
<1>1. Gl(k)' = Gl(k) /\ Pending(k)' = Pending(k) /\ samples' = samples /\ at' = at
  BY SteadyKey DEF Pending, Steady
<1>2. Due(k, Gl(k))' = Due(k, Gl(k))
  BY SteadyKey, <1>1
<1>3. Covered(k)'
  BY <1>1, <1>2 DEF Covered
<1>4. Exact(k)'
  BY <1>1 DEF Exact
<1> QED BY <1>3, <1>4

LEMMA OpenStep ==
  ASSUME CollectorInv, NEW j \in Keys, Open(j) PROVE CollectorInv'
<1> DEFINE s == SocketOf(j)
<1>0. s \in Sockets /\ counter[s] \in Nat /\ owed[j] \in Int
  BY KeyTypes DEF CollectorInv, C
<1>1. /\ j \notin open /\ open' = open \cup {j} /\ Steady /\ UNCHANGED build
      /\ counter' = IF s \in Datagrams \/ Holders(s) # {} THEN counter ELSE [counter EXCEPT ![s] = 0]
      /\ owed' = IF Inherits(j) THEN owed ELSE [owed EXCEPT ![j] = @ + counter'[s]]
      /\ sighted' = (sighted /\ ~Inherits(j))
      /\ whole' = IF owed[j] = 0 /\ j \notin DOMAIN samples THEN whole \cup {j} ELSE whole
  BY DEF Open, Steady
<1>2. counter' \in [Sockets -> Nat] /\ counter'[s] \in Nat /\ counter'[s] <= counter[s]
  BY <1>0, <1>1 DEF CollectorInv, CollectorTypeOK
<1>3. owed' \in [Keys -> Int]
  BY <1>1, <1>2 DEF CollectorInv, CollectorTypeOK
<1>4. CollectorTypeOK' /\ IsFiniteSet(open')
  <2>1. IsFiniteSet(open')
    BY <1>1, FS_AddElement DEF CollectorInv
  <2> QED BY <1>1, <1>2, <1>3, <2>1 DEF CollectorInv, CollectorTypeOK, Steady
<1>5. ASSUME sighted', NEW k \in Keys, k # j PROVE Covered(k)' /\ Exact(k)'
  <2>1. Covered(k) /\ Exact(k)
    BY <1>1, <1>5 DEF CollectorInv
  <2>2. owed'[k] = owed[k] /\ (k \in open' <=> k \in open) /\ (k \in whole' => k \in whole)
    BY <1>1, <1>5 DEF CollectorInv, CollectorTypeOK
  <2>3. CASE C(k)' = C(k)
    BY <2>1, <2>2, <2>3, <1>1, SameKey DEF CollectorInv
  <2>4. CASE C(k)' # C(k)
    <3>1. SocketOf(k) = s /\ s \notin Datagrams /\ Holders(s) = {}
      BY <1>1, <2>4, KeyTypes DEF C, SocketOf, CollectorInv, CollectorTypeOK
    <3>2. k \notin open
      BY <3>1 DEF Holders
    <3>3. k \notin whole'
      BY <2>2, <3>2 DEF CollectorInv, CollectorTypeOK
    <3>4. Gl(k)' = Gl(k) /\ Due(k, Gl(k))' = Due(k, Gl(k)) /\ at' = at
      BY <1>1, SteadyKey DEF Steady
    <3> QED BY <2>1, <2>2, <3>1, <3>2, <3>3, <3>4 DEF Covered, Exact
  <2> QED BY <2>3, <2>4
<1>6. ASSUME sighted' PROVE Covered(j)' /\ Exact(j)'
  <2>1. Covered(j) /\ ~Inherits(j)
    BY <1>1, <1>6 DEF CollectorInv
  <2>2. C(j)' = counter'[s] /\ C(j)' \in Nat /\ C(j)' <= C(j) /\ j \in open'
    BY <1>1, <1>2 DEF C
  <2>3. owed'[j] = owed[j] + C(j)'
    BY <1>1, <2>1, <2>2 DEF CollectorInv, CollectorTypeOK
  <2>4. owed[j] >= 0 /\ (at = "list" /\ s \notin Datagrams => owed[j] >= Due(j, Gl(j)))
    BY <1>1, <2>1 DEF Covered
  <2>5. s \in Datagrams => C(j)' = C(j)
    BY <1>1, <2>2 DEF C
  <2>6. at = "list" /\ s \in Datagrams => C(j)' >= Gl(j)
    BY <2>1, <2>5 DEF Covered
  <2>7. /\ Gl(j)' = Gl(j) /\ at' = at /\ samples' = samples
        /\ Pending(j)' = IF at = "list" THEN Due(j, Gl(j)) + Since(C(j)', Gl(j)) ELSE Due(j, C(j)')
    BY <1>1, SteadyKey DEF Steady
  <2>8. /\ Gl(j) \in Nat /\ Due(j, C(j)') \in Nat /\ Due(j, C(j)') <= C(j)'
        /\ Due(j, Gl(j)) \in Nat /\ Due(j, Gl(j)) <= Gl(j)
        /\ Since(C(j)', Gl(j)) \in Nat /\ Since(C(j)', Gl(j)) <= C(j)'
    BY <2>2, KeyTypes, DueBounds, SinceBounds DEF CollectorInv
  <2>9. at = "list" /\ s \in Datagrams => Since(C(j)', Gl(j)) = C(j)' - Gl(j)
    BY <2>2, <2>6, <2>8 DEF Since
  <2>10. owed'[j] >= Pending(j)'
    <3>1. CASE at # "list"
      BY <1>0, <2>2, <2>3, <2>4, <2>7, <2>8, <3>1
    <3>2. CASE at = "list" /\ s \notin Datagrams
      BY <1>0, <2>2, <2>3, <2>4, <2>7, <2>8, <3>2
    <3>3. CASE at = "list" /\ s \in Datagrams
      BY <1>0, <2>2, <2>3, <2>4, <2>7, <2>8, <2>9, <3>3
    <3> QED BY <3>1, <3>2, <3>3
  <2>11. Covered(j)'
    BY <2>2, <2>6, <2>7, <2>10 DEF Covered
  <2>12. ASSUME j \in whole' PROVE Exact(j)'
    <3>1. owed[j] = 0 /\ j \notin DOMAIN samples
      BY <1>1, <2>12 DEF CollectorInv, CollectorTypeOK
    <3>2. \A n : Due(j, n) = n
      BY <3>1 DEF Due
    <3>3. at = "list" /\ s \notin Datagrams => Gl(j) = 0
      BY <2>4, <2>8, <3>1, <3>2
    <3>4. at = "list" => Gl(j) <= C(j)'
      BY <2>2, <2>6, <3>3
    <3>5. at = "list" => Since(C(j)', Gl(j)) = C(j)' - Gl(j)
      BY <2>2, <2>8, <3>4 DEF Since
    <3>6. owed'[j] = Pending(j)'
      BY <2>2, <2>3, <2>7, <2>8, <3>1, <3>2, <3>5
    <3> QED BY <2>7, <3>1, <3>4, <3>6 DEF Exact
  <2> QED BY <2>11, <2>12 DEF Exact
<1> QED BY <1>4, <1>5, <1>6 DEF CollectorInv

LEMMA CloseStep ==
  ASSUME CollectorInv, NEW j \in Keys, Close(j) PROVE CollectorInv'
<1>1. /\ j \in open /\ open' = open \ {j} /\ whole' = whole \ {j} /\ Steady
      /\ UNCHANGED <<build, counter, owed, sighted>>
  BY DEF Close, Steady
<1>2. CollectorTypeOK' /\ IsFiniteSet(open')
  <2>1. IsFiniteSet(open')
    BY <1>1, FS_RemoveElement DEF CollectorInv
  <2> QED BY <1>1, <2>1 DEF CollectorInv, CollectorTypeOK, Steady
<1>3. ASSUME sighted, NEW k \in Keys PROVE Covered(k)' /\ Exact(k)'
  <2>1. Covered(k) /\ Exact(k) /\ C(k)' = C(k) /\ owed'[k] = owed[k]
    BY <1>1, <1>3 DEF CollectorInv, C
  <2>2. CASE k # j
    BY <1>1, <2>1, <2>2, SameKey DEF CollectorInv
  <2>3. CASE k = j
    <3>1. /\ C(k) \in Nat /\ Gl(k) \in Nat /\ owed[k] \in Int
          /\ Due(k, C(k)) \in Nat /\ Due(k, Gl(k)) \in Nat /\ Since(C(k), Gl(k)) \in Nat
      BY KeyTypes, DueBounds, SinceBounds DEF CollectorInv
    <3>2. owed[k] >= Pending(k)
      BY <1>1, <2>1, <2>3 DEF Covered
    <3>3. owed[k] >= 0 /\ (at = "list" => owed[k] >= Due(k, Gl(k)))
      BY <3>1, <3>2 DEF Pending
    <3>4. Gl(k)' = Gl(k) /\ Due(k, Gl(k))' = Due(k, Gl(k)) /\ at' = at
      BY <1>1, SteadyKey DEF Steady
    <3>5. k \notin open' /\ k \notin whole'
      BY <1>1, <2>3
    <3> QED BY <2>1, <3>3, <3>4, <3>5 DEF Covered, Exact
  <2> QED BY <2>2, <2>3
<1> QED BY <1>1, <1>2, <1>3 DEF CollectorInv

LEMMA CarryStep ==
  ASSUME CollectorInv, NEW s \in Sockets, Carry(s) PROVE CollectorInv'
<1>1. /\ counter' = [counter EXCEPT ![s] = @ + 1] /\ Steady
      /\ owed' = [k \in Keys |-> IF k \in Holders(s) THEN owed[k] + 1 ELSE owed[k]]
      /\ UNCHANGED <<build, open, sighted, whole>>
  BY DEF Carry, Steady
<1>2. \A k \in Keys : C(k)' = IF SocketOf(k) = s THEN C(k) + 1 ELSE C(k)
  BY <1>1, KeyTypes DEF C, SocketOf, CollectorInv, CollectorTypeOK
<1>3. CollectorTypeOK'
  <2>1. counter' \in [Sockets -> Nat] /\ owed' \in [Keys -> Int]
    BY <1>1 DEF CollectorInv, CollectorTypeOK
  <2> QED BY <1>1, <2>1 DEF CollectorInv, CollectorTypeOK, Steady
<1>4. ASSUME sighted, NEW k \in Keys PROVE Covered(k)' /\ Exact(k)'
  <2>1. Covered(k) /\ Exact(k)
    BY <1>4 DEF CollectorInv
  <2>2. /\ C(k) \in Nat /\ Gl(k) \in Nat /\ owed[k] \in Int
        /\ Due(k, C(k)) \in Nat /\ Due(k, Gl(k)) \in Nat /\ Since(C(k), Gl(k)) \in Nat
        /\ Due(k, C(k) + 1) \in Nat /\ Since(C(k) + 1, Gl(k)) \in Nat
    <3>1. C(k) \in Nat /\ Gl(k) \in Nat /\ owed[k] \in Int /\ C(k) + 1 \in Nat
      BY KeyTypes DEF CollectorInv
    <3> QED BY <3>1, DueBounds, SinceBounds DEF CollectorInv
  <2>3. CASE SocketOf(k) # s
    <3>1. C(k)' = C(k) /\ owed'[k] = owed[k]
      BY <1>1, <1>2, <2>3 DEF Holders
    <3> QED BY <1>1, <2>1, <3>1, SameKey DEF CollectorInv
  <2>4. CASE SocketOf(k) = s /\ k \notin open
    <3>1. C(k)' = C(k) + 1 /\ owed'[k] = owed[k] /\ k \notin whole'
      BY <1>1, <1>2, <2>4 DEF Holders, CollectorInv, CollectorTypeOK
    <3>2. Gl(k)' = Gl(k) /\ Due(k, Gl(k))' = Due(k, Gl(k)) /\ at' = at /\ open' = open
      BY <1>1, SteadyKey DEF Steady
    <3> QED BY <2>1, <2>2, <2>4, <3>1, <3>2 DEF Covered, Exact
  <2>5. CASE SocketOf(k) = s /\ k \in open
    <3>1. C(k)' = C(k) + 1 /\ owed'[k] = owed[k] + 1
      BY <1>1, <1>2, <2>5 DEF Holders
    <3>2. /\ Gl(k)' = Gl(k) /\ at' = at /\ open' = open /\ samples' = samples /\ whole' = whole
          /\ Pending(k)' = IF at = "list" THEN Due(k, Gl(k)) + Since(C(k)', Gl(k))
                                          ELSE Due(k, C(k)')
      BY <1>1, SteadyKey DEF Steady
    <3>3. /\ Due(k, C(k) + 1) <= Due(k, C(k)) + 1
          /\ (k \in DOMAIN samples => samples[k] <= C(k)) => Due(k, C(k) + 1) = Due(k, C(k)) + 1
          /\ Since(C(k) + 1, Gl(k)) <= Since(C(k), Gl(k)) + 1
          /\ Gl(k) <= C(k) => Since(C(k) + 1, Gl(k)) = Since(C(k), Gl(k)) + 1
      BY <2>2, DueMore, SinceMore DEF CollectorInv
    <3>4. Pending(k)' <= Pending(k) + 1
      BY <2>2, <3>1, <3>2, <3>3 DEF Pending
    <3>5. Pending(k) \in Int /\ Pending(k)' \in Int
      BY <2>2, <3>1, <3>2 DEF Pending
    <3>6. Covered(k)'
      BY <2>1, <2>2, <2>5, <3>1, <3>2, <3>4, <3>5 DEF Covered
    <3>7. ASSUME k \in whole PROVE Exact(k)'
      <4>1. /\ owed[k] = Pending(k) /\ (at = "list" => Gl(k) <= C(k))
            /\ at = "list" => (k \in DOMAIN samples => samples[k] <= Gl(k))
            /\ k \in DOMAIN samples => samples[k] <= C(k) /\ samples[k] \in Nat
        BY <2>1, <3>7, KeyTypes DEF Exact, CollectorInv
      <4>2. Pending(k)' = Pending(k) + 1
        BY <2>2, <3>1, <3>2, <3>3, <4>1 DEF Pending
      <4> QED BY <2>2, <3>1, <3>2, <4>1, <4>2 DEF Exact
    <3> QED BY <3>2, <3>6, <3>7 DEF Exact
  <2> QED BY <2>3, <2>4, <2>5
<1> QED BY <1>1, <1>3, <1>4 DEF CollectorInv

LEMMA ExpireStep ==
  ASSUME CollectorInv, NEW s \in Sockets, Expire(s) PROVE CollectorInv'
<1>1. /\ counter' = [counter EXCEPT ![s] = 0] /\ Steady
      /\ whole' = {k \in whole : SocketOf(k) # s} /\ sighted' = (sighted /\ at = "idle")
      /\ UNCHANGED <<build, open, owed>>
  BY DEF Expire, Steady
<1>2. \A k \in Keys : C(k)' = IF SocketOf(k) = s THEN 0 ELSE C(k)
  BY <1>1, KeyTypes DEF C, SocketOf, CollectorInv, CollectorTypeOK
<1>3. CollectorTypeOK'
  <2>1. counter' \in [Sockets -> Nat]
    BY <1>1 DEF CollectorInv, CollectorTypeOK
  <2> QED BY <1>1, <2>1 DEF CollectorInv, CollectorTypeOK, Steady
<1>4. ASSUME sighted', NEW k \in Keys PROVE Covered(k)' /\ Exact(k)'
  <2>1. Covered(k) /\ Exact(k) /\ at = "idle"
    BY <1>1, <1>4 DEF CollectorInv
  <2>2. CASE SocketOf(k) # s
    BY <1>1, <1>2, <2>1, <2>2, SameKey DEF CollectorInv
  <2>3. CASE SocketOf(k) = s
    <3>1. C(k)' = 0 /\ k \notin whole' /\ at' = "idle" /\ open' = open /\ owed' = owed
      BY <1>1, <1>2, <2>1, <2>3 DEF Steady
    <3>2. Pending(k)' = Due(k, 0)
      BY <1>1, <2>1, <3>1, SteadyKey
    <3>3. Due(k, 0) = 0 /\ Due(k, C(k)) \in Nat /\ owed[k] \in Int
      BY KeyTypes, DueBounds DEF CollectorInv
    <3>4. owed[k] >= 0
      BY <2>1, <3>3 DEF Covered, Pending
    <3> QED BY <3>1, <3>2, <3>3, <3>4 DEF Covered, Exact
  <2> QED BY <2>2, <2>3
<1> QED BY <1>1, <1>3, <1>4 DEF CollectorInv

-----------------------------------------------------------------------------
(* The polls *)

LEMMA GlanceStep ==
  ASSUME CollectorInv, Glance PROVE CollectorInv'
<1>1. /\ at = "idle" /\ at' = "list" /\ UNCHANGED <<build, open, counter, samples, owed, whole>>
  BY DEF Glance, kernel
<1>2. PICK f \in SUBSET (Faults \cap {"ss", "conntrack"}) :
        /\ glance' = [streams |-> IF "ss" \in f THEN NoEntries ELSE StreamCounts,
                      flows   |-> IF "conntrack" \in f THEN NoEntries ELSE FlowCounts]
        /\ sighted' = (sighted /\ f = {})
  BY DEF Glance
<1>3. CollectorTypeOK'
  <2>1. /\ DOMAIN StreamCounts \subseteq Keys /\ DOMAIN FlowCounts \subseteq Datagrams
        /\ \A k \in DOMAIN StreamCounts : StreamCounts[k] \in Nat
        /\ \A s \in DOMAIN FlowCounts : FlowCounts[s] \in Nat
    BY KeyTypes, SocketAssumption DEF StreamCounts, FlowCounts, CollectorInv, CollectorTypeOK, C
  <2>2. DOMAIN NoEntries = {}
    BY DEF NoEntries
  <2>3. /\ DOMAIN glance'.streams \subseteq Keys /\ DOMAIN glance'.flows \subseteq Datagrams
        /\ \A k \in DOMAIN glance'.streams : glance'.streams[k] \in Nat
        /\ \A s \in DOMAIN glance'.flows : glance'.flows[s] \in Nat
    BY <1>2, <2>1, <2>2
  <2> QED BY <1>1, <1>2, <2>3 DEF CollectorInv, CollectorTypeOK
<1>4. ASSUME sighted', NEW k \in Keys PROVE Covered(k)' /\ Exact(k)'
  <2>1. Covered(k) /\ Exact(k) /\ glance' = [streams |-> StreamCounts, flows |-> FlowCounts]
    BY <1>2, <1>4 DEF CollectorInv
  <2>2. C(k) \in Nat /\ owed[k] \in Int /\ SocketOf(k) \in Sockets
        /\ (k \in DOMAIN samples => samples[k] \in Nat)
    BY KeyTypes DEF CollectorInv
  <2>3. Gl(k)' = IF SocketOf(k) \in Datagrams \/ k \in open THEN C(k) ELSE 0
    BY <2>1, <2>2 DEF Gl, SampleOf, At, StreamCounts, FlowCounts, C
  <2>4. C(k)' = C(k)
    BY <1>1 DEF C
  <2>5. \A n : Due(k, n)' = Due(k, n)
    BY <1>1 DEF Due
  <2>6. Since(C(k), C(k)) = 0
    BY <2>2 DEF Since
  <2>7. Due(k, 0) = 0 /\ Due(k, C(k)) \in Nat
    BY <2>2, DueBounds DEF Due, CollectorInv
  <2>8. Pending(k)' = Due(k, Gl(k)') + Since(C(k), Gl(k)')
    BY <1>1, <2>4, <2>5 DEF Pending, Due, Since
  <2>9. k \in open => Pending(k)' = Pending(k)
    BY <1>1, <2>3, <2>6, <2>7, <2>8 DEF Pending
  <2>10. Due(k, Gl(k))' = Due(k, Gl(k)')
    BY <1>1 DEF Due
  <2>11. Covered(k)'
    BY <1>1, <2>1, <2>2, <2>3, <2>4, <2>7, <2>9, <2>10 DEF Covered
  <2>12. Exact(k)'
    BY <1>1, <2>1, <2>2, <2>3, <2>4, <2>9 DEF Exact, CollectorInv, CollectorTypeOK
  <2> QED BY <2>11, <2>12
<1> QED BY <1>1, <1>2, <1>3, <1>4 DEF CollectorInv

\* What a complete listing says of an open key.
Seen(k) == IF at = "list" THEN Gl(k) ELSE C(k)

LEMMA ListedKeys ==
  ASSUME CollectorInv, Ready, NEW obs \in Observations
  PROVE  /\ DOMAIN obs \subseteq open /\ \A k \in DOMAIN obs : obs[k] \in Nat
         /\ \A k \in DOMAIN obs : obs[k] = Seen(k)
<1>1. CASE build = "linux"
  <2>1. at = "list" /\ obs \in Listings
    BY <1>1 DEF Ready, Observations
  <2>2. PICK S \in SUBSET open : obs = [k \in S |-> SampleOf(k)]
    BY <2>1 DEF Listings
  <2> QED BY <2>1, <2>2, KeyTypes DEF Seen, Gl, CollectorInv, CollectorTypeOK
<1>2. CASE build = "darwin"
  <2>1. at # "list" /\ \E rows \in Outputs : obs = ReadRows(rows)
    BY <1>2 DEF Ready, Observations
  <2>2. obs = [k \in open |-> counter[SocketOf(k)]]
    BY <1>2, <2>1, HolderRight DEF RightHolder, CollectorInv
  <2> QED BY <2>1, <2>2, KeyTypes DEF Seen, C, CollectorInv, CollectorTypeOK
<1>3. CASE build = "other"
  <2>1. obs = NoEntries
    BY <1>3 DEF Observations
  <2> QED BY <2>1 DEF NoEntries
<1>4. build \in {"linux", "darwin", "other"}
  BY BuildAssumption DEF CollectorInv, CollectorTypeOK
<1> QED BY <1>1, <1>2, <1>3, <1>4

LEMMA CollectStep ==
  ASSUME CollectorInv, Ready, NEW obs \in Observations, Collect(obs), samples' = obs
  PROVE  CollectorInv'
<1>1. /\ at' = "idle" /\ glance' = [streams |-> NoEntries, flows |-> NoEntries]
      /\ owed' = [k \in Keys |-> IF k \in DOMAIN obs THEN owed[k] - Delta(obs, k) ELSE owed[k]]
      /\ sighted' = (sighted /\ DOMAIN obs = open)
      /\ UNCHANGED <<build, open, counter, whole>>
  BY DEF Collect, kernel
<1>2. /\ DOMAIN obs \subseteq open /\ open \subseteq Keys
      /\ \A k \in DOMAIN obs : obs[k] \in Nat /\ obs[k] = Seen(k)
  BY ListedKeys DEF CollectorInv, CollectorTypeOK
<1>3. \A k \in DOMAIN obs : Delta(obs, k) = Due(k, Seen(k)) /\ Delta(obs, k) \in Nat
  BY <1>2, KeyTypes DEF Delta, Due, CollectorInv
<1>4. CollectorTypeOK'
  <2>1. owed' \in [Keys -> Int]
    BY <1>1, <1>3 DEF CollectorInv, CollectorTypeOK
  <2>2. DOMAIN glance'.streams = {} /\ DOMAIN glance'.flows = {}
    BY <1>1 DEF NoEntries
  <2> QED BY <1>1, <1>2, <2>1, <2>2 DEF CollectorInv, CollectorTypeOK
<1>5. ASSUME sighted', NEW k \in Keys PROVE Covered(k)' /\ Exact(k)'
  <2>1. Covered(k) /\ Exact(k) /\ DOMAIN obs = open
    BY <1>1, <1>5 DEF CollectorInv
  <2>2. /\ C(k) \in Nat /\ Gl(k) \in Nat /\ owed[k] \in Int /\ C(k)' = C(k)
        /\ Due(k, C(k)) \in Nat /\ Due(k, Gl(k)) \in Nat /\ Since(C(k), Gl(k)) \in Nat
    BY <1>1, KeyTypes, DueBounds, SinceBounds DEF CollectorInv, C
  <2>3. CASE k \notin open
    <3>1. owed'[k] = owed[k] /\ k \notin open' /\ k \notin whole' /\ owed[k] >= 0
      BY <1>1, <2>1, <2>3 DEF Covered, CollectorInv, CollectorTypeOK
    <3> QED BY <1>1, <3>1 DEF Covered, Exact
  <2>4. CASE k \in open
    <3>1. owed'[k] = owed[k] - Due(k, Seen(k)) /\ samples'[k] = Seen(k) /\ k \in DOMAIN samples'
      BY <1>1, <1>2, <1>3, <2>1, <2>4
    <3>2. Pending(k)' = Since(C(k), Seen(k))
      BY <1>1, <2>2, <3>1 DEF Pending, Due, Since
    <3>3. Pending(k) = Due(k, Seen(k)) + Since(C(k), Seen(k))
      BY <2>2 DEF Pending, Seen, Since
    <3>4. Due(k, Seen(k)) \in Nat /\ Since(C(k), Seen(k)) \in Nat
      BY <2>2 DEF Seen, Since
    <3>5. Covered(k)'
      BY <1>1, <2>1, <2>2, <2>4, <3>1, <3>2, <3>3, <3>4 DEF Covered
    <3>6. k \in whole => Seen(k) <= C(k) /\ owed[k] = Pending(k)
      BY <2>1, <2>2 DEF Exact, Seen
    <3>7. Exact(k)'
      BY <1>1, <2>2, <3>1, <3>2, <3>3, <3>4, <3>6 DEF Exact
    <3> QED BY <3>5, <3>7
  <2> QED BY <2>3, <2>4
<1> QED BY <1>1, <1>4, <1>5 DEF CollectorInv

\* A poll that fails is made good by the next one.
LEMMA FailStep ==
  ASSUME CollectorInv, CollectFails PROVE CollectorInv'
<1>1. /\ at' = "idle" /\ glance' = [streams |-> NoEntries, flows |-> NoEntries]
      /\ UNCHANGED <<build, open, counter, samples, owed, sighted, whole>>
  BY DEF CollectFails, kernel
<1>2. CollectorTypeOK'
  <2>1. DOMAIN glance'.streams = {} /\ DOMAIN glance'.flows = {}
    BY <1>1 DEF NoEntries
  <2> QED BY <1>1, <2>1 DEF CollectorInv, CollectorTypeOK
<1>3. ASSUME sighted, NEW k \in Keys PROVE Covered(k)' /\ Exact(k)'
  <2>1. Covered(k) /\ Exact(k)
    BY <1>3 DEF CollectorInv
  <2>2. /\ C(k) \in Nat /\ Gl(k) \in Nat /\ owed[k] \in Int /\ C(k)' = C(k)
        /\ Due(k, C(k)) \in Nat /\ Due(k, Gl(k)) \in Nat /\ Since(C(k), Gl(k)) \in Nat
    BY <1>1, KeyTypes, DueBounds, SinceBounds DEF CollectorInv, C
  <2>3. Pending(k)' = Due(k, C(k))
    BY <1>1 DEF Pending, Due, C
  <2>4. /\ Due(k, C(k)) <= Due(k, Gl(k)) + Since(C(k), Gl(k))
        /\ Gl(k) <= C(k) /\ (k \in DOMAIN samples => samples[k] <= Gl(k))
             => Due(k, C(k)) = Due(k, Gl(k)) + Since(C(k), Gl(k))
    BY <2>2, DueInParts DEF CollectorInv
  <2>5. Covered(k)'
    BY <1>1, <2>1, <2>2, <2>3, <2>4 DEF Covered, Pending
  <2>6. Exact(k)'
    BY <1>1, <2>1, <2>2, <2>3, <2>4 DEF Exact, Pending
  <2> QED BY <2>5, <2>6
<1> QED BY <1>1, <1>2, <1>3 DEF CollectorInv

-----------------------------------------------------------------------------
(* The tables *)

\* The tables are finite, and no domain was seen after the latest poll.
TablesInv == /\ TypeOK /\ WindowAgrees /\ ConnsWithinDomains /\ SamplesCounted
             /\ IsFiniteSet(DOMAIN domains) /\ IsFiniteSet(DOMAIN conns)
             /\ IsFiniteSet(DOMAIN window.domains) /\ IsFiniteSet(DOMAIN window.conns)
             /\ \A h \in DOMAIN domains : domains[h].last <= clock

\* What a poll observes, and what it adds for each key.
Observed(obs) == /\ IsFiniteSet(DOMAIN obs) /\ DOMAIN obs \subseteq Keys
                 /\ \A k \in DOMAIN obs : obs[k] \in Nat
Deltas(obs) == [k \in DOMAIN obs |-> Delta(obs, k)]
Ones(obs)   == [k \in DOMAIN obs |-> 1]

LEMMA DeltaTypes ==
  ASSUME TypeOK, NEW obs, Observed(obs)
  PROVE  /\ Weights(Deltas(obs), DOMAIN obs) /\ Weights(Ones(obs), DOMAIN obs)
         /\ \A k \in DOMAIN obs : Deltas(obs)[k] = Delta(obs, k)
         /\ \A S : Sum(obs, S) = SumFunctionOnSet(Deltas(obs), S)
<1>1. \A k \in DOMAIN obs : Delta(obs, k) \in Nat
  <2>1. \A k \in DOMAIN samples : samples[k] \in Nat
    BY DEF TypeOK, CollectorTypeOK
  <2> QED BY <2>1 DEF Delta, Observed
<1> QED BY <1>1 DEF Deltas, Ones, Weights, Sum

\* The sums over some of the observations.
LEMMA PartSums ==
  ASSUME TypeOK, NEW obs, Observed(obs), NEW S \in SUBSET DOMAIN obs
  PROVE  /\ IsFiniteSet(S) /\ Cardinality(S) \in Nat /\ Sum(obs, S) \in Nat
         /\ Weights(Deltas(obs), S) /\ Weights(Ones(obs), S)
         /\ Sum(obs, S) = SumFunctionOnSet(Deltas(obs), S)
         /\ Cardinality(S) = SumFunctionOnSet(Ones(obs), S)
         /\ S = {} => Sum(obs, S) = 0 /\ Cardinality(S) = 0
<1>1. IsFiniteSet(S) /\ Cardinality(S) \in Nat
  BY FS_Subset, FS_CardinalityType DEF Observed
<1>2. Weights(Deltas(obs), S) /\ Weights(Ones(obs), S)
  BY DeltaTypes DEF Weights
<1>3. Sum(obs, S) = SumFunctionOnSet(Deltas(obs), S)
  BY DeltaTypes
<1>4. Sum(obs, S) \in Nat
  BY <1>1, <1>2, <1>3, SumType
<1>5. Cardinality(S) = SumFunctionOnSet(Ones(obs), S)
  <2>1. \A k \in S : Ones(obs)[k] = 1
    BY DEF Ones
  <2> QED BY <1>1, <2>1, SumOnes
<1>6. S = {} => Sum(obs, S) = 0 /\ Cardinality(S) = 0
  BY <1>3, SumEmpty, FS_EmptySet
<1> QED BY <1>1, <1>2, <1>3, <1>4, <1>5, <1>6

Old(records, x) == IF x \in DOMAIN records THEN records[x] ELSE Fresh

LEMMA TouchedRecord ==
  ASSUME TypeOK, NEW obs, Observed(obs), NEW S \in SUBSET DOMAIN obs,
         NEW records, NEW x, x \in DOMAIN records => records[x] \in Records, NEW now \in Nat
  PROVE  LET r == Touched(records, x, obs, S, now)
         IN  /\ r \in Records /\ Old(records, x) \in Records
             /\ r.bytes = Old(records, x).bytes + Sum(obs, S)
             /\ r.seen = Old(records, x).seen + Cardinality(S)
             /\ r.last = IF S = {} THEN Old(records, x).last ELSE now
<1> DEFINE o == Old(records, x)
<1>1. o \in Records
  BY DEF Old, Records, Fresh
<1>2. o.bytes \in Nat /\ o.seen \in Nat /\ o.last \in Nat
  BY <1>1 DEF Records
<1>3. Touched(records, x, obs, S, now) =
        IF S = {} THEN o ELSE [bytes |-> o.bytes + Sum(obs, S), seen |-> o.seen + Cardinality(S), last |-> now]
  BY DEF Touched, Old
<1>4. Sum(obs, S) \in Nat /\ Cardinality(S) \in Nat /\ (S = {} => Sum(obs, S) = 0 /\ Cardinality(S) = 0)
  BY PartSums
<1> HIDE DEF o
<1>5. CASE S = {}
  BY <1>1, <1>2, <1>3, <1>4, <1>5 DEF o
<1>6. CASE S # {}
  <2>1. o.bytes + Sum(obs, S) \in Nat /\ o.seen + Cardinality(S) \in Nat
    BY <1>2, <1>4
  <2> QED BY <1>1, <1>3, <1>6, <2>1 DEF o, Records
<1> QED BY <1>5, <1>6

\* The poll itself.
Polled(obs) == /\ Observed(obs) /\ clock' \in Nat /\ clock < clock' /\ build' = build
               /\ PollDomains(obs, clock') /\ window' = RecordNetwork(obs)

LEMMA SameConns == build' = build => \A k : ConnOf(k)' = ConnOf(k)
  BY DEF ConnOf, Protocol

LEMMA Places ==
  ASSUME NEW obs, Observed(obs)
  PROVE  /\ IsFiniteSet(SeenConns(obs)) /\ IsFiniteSet(SeenHosts(obs))
         /\ SeenConns(obs) \subseteq Conns /\ SeenHosts(obs) \subseteq Hosts
         /\ \A c : OfConn(obs, c) \in SUBSET DOMAIN obs
         /\ \A h : OfHost(obs, h) \in SUBSET DOMAIN obs
         /\ \A k : HostOfConn(ConnOf(k)) = HostOf[SocketOf(k)]
         /\ \A c : c \notin SeenConns(obs) => OfConn(obs, c) = {}
         /\ \A h : h \notin SeenHosts(obs) => OfHost(obs, h) = {}
         /\ \A c \in SeenConns(obs) : OfConn(obs, c) # {} /\ HostOfConn(c) \in SeenHosts(obs)
         /\ \A h \in SeenHosts(obs) : OfHost(obs, h) # {}
<1>1. IsFiniteSet(SeenConns(obs)) /\ IsFiniteSet(SeenHosts(obs))
  <2> DEFINE c == [k \in DOMAIN obs |-> ConnOf(k)]
             h == [k \in DOMAIN obs |-> HostOf[SocketOf(k)]]
  <2>1. c \in Surjection(DOMAIN obs, SeenConns(obs)) /\ h \in Surjection(DOMAIN obs, SeenHosts(obs))
    BY DEF SeenConns, SeenHosts, Surjection
  <2> HIDE DEF c, h
  <2> QED BY <2>1, FS_Surjection DEF Observed
<1>2. \A k \in Keys : SocketOf(k) \in Sockets
  BY KeyAssumption DEF SocketOf
<1>3. \A k : HostOfConn(ConnOf(k)) = HostOf[SocketOf(k)]
  BY DEF HostOfConn, ConnOf
<1>4. SeenConns(obs) \subseteq Conns /\ SeenHosts(obs) \subseteq Hosts
  BY <1>2 DEF SeenConns, SeenHosts, Conns, Hosts, Observed
<1>5. /\ \A c \in SeenConns(obs) : OfConn(obs, c) # {} /\ HostOfConn(c) \in SeenHosts(obs)
      /\ \A h \in SeenHosts(obs) : OfHost(obs, h) # {}
  BY <1>3 DEF SeenConns, SeenHosts, OfConn, OfHost
<1>6. /\ \A c : c \notin SeenConns(obs) => OfConn(obs, c) = {}
      /\ \A h : h \notin SeenHosts(obs) => OfHost(obs, h) = {}
      /\ \A c : OfConn(obs, c) \in SUBSET DOMAIN obs
      /\ \A h : OfHost(obs, h) \in SUBSET DOMAIN obs
  BY DEF SeenConns, SeenHosts, OfConn, OfHost
<1> QED BY <1>1, <1>3, <1>4, <1>5, <1>6

LEMMA PollRecords ==
  ASSUME TypeOK, NEW obs, Polled(obs)
  PROVE  /\ DOMAIN domains' = SeenHosts(obs) \cup Kept(domains, clock')
         /\ DOMAIN conns' = SeenConns(obs) \cup Kept(conns, clock')
         /\ \A h \in DOMAIN domains' :
              /\ domains'[h] \in Records /\ Old(domains, h) \in Records
              /\ domains'[h].bytes = Old(domains, h).bytes + Sum(obs, OfHost(obs, h))
              /\ domains'[h].seen = Old(domains, h).seen + Cardinality(OfHost(obs, h))
              /\ domains'[h].last = IF h \in SeenHosts(obs) THEN clock' ELSE domains[h].last
         /\ \A c \in DOMAIN conns' :
              /\ conns'[c] \in Records /\ Old(conns, c) \in Records
              /\ conns'[c].bytes = Old(conns, c).bytes + Sum(obs, OfConn(obs, c))
              /\ conns'[c].seen = Old(conns, c).seen + Cardinality(OfConn(obs, c))
              /\ conns'[c].last = IF c \in SeenConns(obs) THEN clock' ELSE conns[c].last
<1>0. Observed(obs) /\ clock' \in Nat
  BY DEF Polled
<1>1. /\ domains' = [h \in SeenHosts(obs) \cup Kept(domains, clock') |->
                       Touched(domains, h, obs, OfHost(obs, h), clock')]
      /\ conns' = [c \in SeenConns(obs) \cup Kept(conns, clock') |->
                     Touched(conns, c, obs, OfConn(obs, c), clock')]
  BY DEF Polled, PollDomains, PollConns
<1>2. /\ \A h \in DOMAIN domains : domains[h] \in Records
      /\ \A c \in DOMAIN conns : conns[c] \in Records
  BY DEF TypeOK
<1>3. ASSUME NEW h \in DOMAIN domains'
      PROVE  /\ domains'[h] \in Records /\ Old(domains, h) \in Records
             /\ domains'[h].bytes = Old(domains, h).bytes + Sum(obs, OfHost(obs, h))
             /\ domains'[h].seen = Old(domains, h).seen + Cardinality(OfHost(obs, h))
             /\ domains'[h].last = IF h \in SeenHosts(obs) THEN clock' ELSE domains[h].last
  <2>1. OfHost(obs, h) \in SUBSET DOMAIN obs /\ (OfHost(obs, h) = {} <=> h \notin SeenHosts(obs))
    BY <1>0, Places
  <2>2. h \notin SeenHosts(obs) => Old(domains, h) = domains[h]
    BY <1>1 DEF Kept, Old
  <2>3. domains'[h] = Touched(domains, h, obs, OfHost(obs, h), clock')
    BY <1>1
  <2>4. h \in DOMAIN domains => domains[h] \in Records
    BY <1>2
  <2> QED BY <1>0, <2>1, <2>2, <2>3, <2>4, TouchedRecord
<1>4. ASSUME NEW c \in DOMAIN conns'
      PROVE  /\ conns'[c] \in Records /\ Old(conns, c) \in Records
             /\ conns'[c].bytes = Old(conns, c).bytes + Sum(obs, OfConn(obs, c))
             /\ conns'[c].seen = Old(conns, c).seen + Cardinality(OfConn(obs, c))
             /\ conns'[c].last = IF c \in SeenConns(obs) THEN clock' ELSE conns[c].last
  <2>1. OfConn(obs, c) \in SUBSET DOMAIN obs /\ (OfConn(obs, c) = {} <=> c \notin SeenConns(obs))
    BY <1>0, Places
  <2>2. c \notin SeenConns(obs) => Old(conns, c) = conns[c]
    BY <1>1 DEF Kept, Old
  <2>3. conns'[c] = Touched(conns, c, obs, OfConn(obs, c), clock')
    BY <1>1
  <2>4. c \in DOMAIN conns => conns[c] \in Records
    BY <1>2
  <2> QED BY <1>0, <2>1, <2>2, <2>3, <2>4, TouchedRecord
<1> QED BY <1>1, <1>3, <1>4

\* A socket's sample: its bytes were added to its connection.
LEMMA PollSamples == ASSUME TablesInv, NEW obs, Polled(obs) PROVE SamplesCounted'
<1>1. samples' = obs /\ Observed(obs) /\ build' = build
  BY DEF Polled, PollDomains
<1> SUFFICES ASSUME NEW k \in DOMAIN obs
             PROVE  ConnOf(k) \in DOMAIN conns' /\ obs[k] <= conns'[ConnOf(k)].bytes
  BY <1>1, SameConns DEF SamplesCounted
<1> DEFINE c == ConnOf(k)
<1>2. c \in SeenConns(obs) /\ k \in OfConn(obs, c)
  BY DEF SeenConns, OfConn
<1>3. c \in DOMAIN conns'
  BY <1>2, PollRecords DEF TablesInv
<1>4. conns'[c].bytes = Old(conns, c).bytes + Sum(obs, OfConn(obs, c)) /\ Old(conns, c) \in Records
  BY <1>3, PollRecords DEF TablesInv
<1>5. Delta(obs, k) \in Nat /\ Delta(obs, k) <= Sum(obs, OfConn(obs, c)) /\ Sum(obs, OfConn(obs, c)) \in Nat
  <2>1. OfConn(obs, c) \in SUBSET DOMAIN obs
    BY <1>1, Places
  <2> DEFINE S == OfConn(obs, c)
  <2> HIDE DEF S
  <2>2. /\ IsFiniteSet(S) /\ Weights(Deltas(obs), S) /\ Sum(obs, S) = SumFunctionOnSet(Deltas(obs), S)
        /\ Sum(obs, S) \in Nat
    BY <1>1, <2>1, PartSums DEF TablesInv, S
  <2>3. Deltas(obs)[k] = Delta(obs, k)
    BY DEF Deltas
  <2>4. Sum(obs, S) = Deltas(obs)[k] + SumFunctionOnSet(Deltas(obs), S \ {k})
    BY <1>2, <2>2, SumRemove DEF S
  <2>5. SumFunctionOnSet(Deltas(obs), S \ {k}) \in Nat
    BY <2>2, SumLess
  <2>6. Deltas(obs)[k] \in Nat
    BY <1>2, <2>2 DEF Weights, S
  <2> QED BY <2>2, <2>3, <2>4, <2>5, <2>6 DEF S
<1>6. Old(conns, c).bytes \in Nat /\ obs[k] \in Nat
  BY <1>1, <1>4 DEF Records, Observed
<1>7. CASE k \in DOMAIN samples /\ obs[k] >= samples[k]
  <2>1. c \in DOMAIN conns /\ samples[k] <= conns[c].bytes /\ samples[k] \in Nat
    BY <1>7 DEF TablesInv, SamplesCounted, TypeOK, CollectorTypeOK
  <2>2. samples[k] <= Old(conns, c).bytes /\ Delta(obs, k) = obs[k] - samples[k]
    BY <1>7, <2>1 DEF Old, Delta
  <2> HIDE DEF c
  <2> QED BY <1>3, <1>4, <1>5, <1>6, <2>1, <2>2 DEF c
<1>8. CASE ~(k \in DOMAIN samples /\ obs[k] >= samples[k])
  <2>1. Delta(obs, k) = obs[k]
    BY <1>8 DEF Delta
  <2> HIDE DEF c
  <2> QED BY <1>3, <1>4, <1>5, <1>6, <2>1 DEF c
<1> QED BY <1>7, <1>8

\* A connection that is kept has a domain that is kept; the bytes and polls
\* of the connections of a domain grow by what the domain's grow.
LEMMA PollConnections == ASSUME TablesInv, NEW obs, Polled(obs) PROVE ConnsWithinDomains'
<1>0. TypeOK /\ Observed(obs) /\ clock' \in Nat /\ clock < clock' /\ clock \in Nat
  BY DEF Polled, TablesInv, TypeOK
<1>1. SUFFICES ASSUME NEW h \in Hosts, ConnsTo(h, conns') # {}
      PROVE  /\ h \in DOMAIN domains'
             /\ \A c \in ConnsTo(h, conns') : conns'[c].last <= domains'[h].last
             /\ SumFunctionOnSet(Bytes(conns'), ConnsTo(h, conns')) <= domains'[h].bytes
             /\ SumFunctionOnSet(Times(conns'), ConnsTo(h, conns')) <= domains'[h].seen
  BY DEF ConnsWithinDomains, ConnsTo, Bytes, Times
<1> DEFINE I == ConnsTo(h, conns')
           L == ConnsTo(h, conns)
           J == I \cap DOMAIN conns
           K == OfHost(obs, h)
           p == [k \in K |-> ConnOf(k)]
<1>2. /\ DOMAIN domains' = SeenHosts(obs) \cup Kept(domains, clock')
      /\ DOMAIN conns' = SeenConns(obs) \cup Kept(conns, clock')
  BY <1>0, PollRecords
<1>3. \A c \in I : c \in DOMAIN conns' /\ HostOfConn(c) = h
  BY DEF ConnsTo
<1>4. J \subseteq L /\ J \subseteq I
  BY DEF ConnsTo
<1>5. L # {} => /\ h \in DOMAIN domains /\ \A c \in L : conns[c].last <= domains[h].last
                /\ SumFunctionOnSet(Bytes(conns), L) <= domains[h].bytes
                /\ SumFunctionOnSet(Times(conns), L) <= domains[h].seen
  BY DEF TablesInv, ConnsWithinDomains
<1>6. /\ \A c \in DOMAIN conns : conns[c] \in Records /\ conns[c].last \in Nat
      /\ \A x \in DOMAIN domains : domains[x] \in Records /\ domains[x].last \in Nat /\ domains[x].last <= clock
  BY DEF TablesInv, TypeOK, Records
<1>7. ASSUME NEW c \in I, c \notin SeenConns(obs)
      PROVE  /\ c \in L /\ h \in DOMAIN domains /\ h \in Kept(domains, clock')
             /\ conns[c].last <= domains[h].last
  <2>1. c \in Kept(conns, clock') /\ c \in L
    BY <1>2, <1>3, <1>7 DEF Kept, ConnsTo
  <2>2. h \in DOMAIN domains /\ conns[c].last <= domains[h].last
    BY <1>5, <2>1
  <2>3. clock' - conns[c].last <= EvictAfter /\ conns[c].last \in Nat /\ domains[h].last \in Nat
    BY <1>6, <2>1, <2>2 DEF Kept
  <2>4. clock' - domains[h].last <= EvictAfter
    BY <1>0, <2>2, <2>3, TimeAssumption
  <2> QED BY <2>1, <2>2, <2>4 DEF Kept
<1>8. h \in DOMAIN domains'
  <2>1. PICK c \in I : TRUE
    BY <1>1
  <2>2. c \in SeenConns(obs) => h \in SeenHosts(obs)
    BY <1>0, <1>3, Places
  <2> QED BY <1>2, <1>7, <2>2
<1>9. /\ domains'[h].bytes = Old(domains, h).bytes + Sum(obs, K)
      /\ domains'[h].seen = Old(domains, h).seen + Cardinality(K)
      /\ domains'[h].last = IF h \in SeenHosts(obs) THEN clock' ELSE domains[h].last
      /\ Old(domains, h).bytes \in Nat /\ Old(domains, h).seen \in Nat
  BY <1>0, <1>8, PollRecords DEF Records
<1>10. ASSUME NEW c \in I PROVE conns'[c].last <= domains'[h].last
  <2>1. conns'[c].last = IF c \in SeenConns(obs) THEN clock' ELSE conns[c].last
    BY <1>0, <1>3, PollRecords
  <2>2. CASE c \in SeenConns(obs)
    <3>1. h \in SeenHosts(obs)
      BY <1>0, <1>3, <2>2, Places
    <3> QED BY <1>0, <1>9, <2>1, <2>2, <3>1
  <2>3. CASE c \notin SeenConns(obs)
    <3>1. /\ conns'[c].last = conns[c].last /\ conns[c].last <= domains[h].last
          /\ conns[c].last \in Nat /\ domains[h].last \in Nat /\ domains[h].last <= clock
      BY <1>6, <1>7, <2>1, <2>3 DEF ConnsTo
    <3> QED BY <1>0, <1>9, <3>1
  <2> QED BY <2>2, <2>3
<1>11. /\ IsFiniteSet(I) /\ IsFiniteSet(L) /\ IsFiniteSet(K) /\ K \in SUBSET DOMAIN obs /\ J \in SUBSET I
       /\ \A k \in K : p[k] \in I
       /\ \A c \in I : Part(K, p, c) = OfConn(obs, c)
  <2>1. I \subseteq SeenConns(obs) \cup DOMAIN conns
    BY <1>2, <1>3 DEF Kept
  <2>2. IsFiniteSet(SeenConns(obs) \cup DOMAIN conns)
    BY <1>0, Places, FS_Union DEF TablesInv
  <2>3. IsFiniteSet(I) /\ IsFiniteSet(L)
    BY <2>1, <2>2, FS_Subset DEF ConnsTo, TablesInv
  <2>4. K \in SUBSET DOMAIN obs /\ IsFiniteSet(K)
    BY <1>0, Places, PartSums
  <2>5. \A k \in K : p[k] \in I
    BY <1>2, <1>0, Places DEF OfHost, SeenConns, ConnsTo
  <2>6. ASSUME NEW c \in I PROVE Part(K, p, c) = OfConn(obs, c)
    <3>1. \A k \in DOMAIN obs : ConnOf(k) = c => HostOf[SocketOf(k)] = h
      BY <1>0, <1>3, Places
    <3> QED BY <3>1 DEF Part, OfConn, OfHost
  <2> QED BY <1>4, <2>3, <2>4, <2>5, <2>6
<1>12. /\ Weights(Deltas(obs), K) /\ Weights(Ones(obs), K)
       /\ Sum(obs, K) = SumFunctionOnSet(Deltas(obs), K) /\ Sum(obs, K) \in Nat
       /\ Cardinality(K) = SumFunctionOnSet(Ones(obs), K) /\ Cardinality(K) \in Nat
  BY <1>0, <1>11, PartSums
<1>13. Weights(Bytes(conns), L) /\ Weights(Times(conns), L)
  BY <1>6 DEF Weights, Bytes, Times, ConnsTo, Records
<1>14. Weights(Bytes(conns), J) /\ Weights(Times(conns), J)
  BY <1>4, <1>13 DEF Weights
<1>15. ASSUME NEW c \in I
       PROVE  /\ Bytes(conns')[c] = (IF c \in J THEN Bytes(conns)[c] ELSE 0)
                                      + SumFunctionOnSet(Deltas(obs), Part(K, p, c))
              /\ Times(conns')[c] = (IF c \in J THEN Times(conns)[c] ELSE 0)
                                      + SumFunctionOnSet(Ones(obs), Part(K, p, c))
  <2>1. /\ conns'[c].bytes = Old(conns, c).bytes + Sum(obs, OfConn(obs, c))
        /\ conns'[c].seen = Old(conns, c).seen + Cardinality(OfConn(obs, c))
    BY <1>0, <1>3, PollRecords
  <2>2. OfConn(obs, c) \in SUBSET DOMAIN obs
    BY <1>0, Places
  <2>3. /\ Sum(obs, OfConn(obs, c)) = SumFunctionOnSet(Deltas(obs), OfConn(obs, c))
        /\ Cardinality(OfConn(obs, c)) = SumFunctionOnSet(Ones(obs), OfConn(obs, c))
    BY <1>0, <2>2, PartSums
  <2>4. Bytes(conns')[c] = conns'[c].bytes /\ Times(conns')[c] = conns'[c].seen
    BY <1>3 DEF Bytes, Times
  <2>5. /\ Old(conns, c).bytes = IF c \in J THEN Bytes(conns)[c] ELSE 0
        /\ Old(conns, c).seen = IF c \in J THEN Times(conns)[c] ELSE 0
    BY DEF Old, Bytes, Times, Fresh
  <2> QED BY <1>11, <2>1, <2>3, <2>4, <2>5
<1> HIDE DEF I, J, K, L, p
<1>16. /\ SumFunctionOnSet(Bytes(conns'), I) = SumFunctionOnSet(Bytes(conns), J) + Sum(obs, K)
       /\ SumFunctionOnSet(Times(conns'), I) = SumFunctionOnSet(Times(conns), J) + Cardinality(K)
  <2>1. SumFunctionOnSet(Bytes(conns'), I)
          = SumFunctionOnSet(Bytes(conns), J) + SumFunctionOnSet(Deltas(obs), K)
    BY <1>11, <1>12, <1>14, <1>15, SumGrown
  <2>2. SumFunctionOnSet(Times(conns'), I)
          = SumFunctionOnSet(Times(conns), J) + SumFunctionOnSet(Ones(obs), K)
    BY <1>11, <1>12, <1>14, <1>15, SumGrown
  <2> QED BY <1>12, <2>1, <2>2
<1>17. /\ SumFunctionOnSet(Bytes(conns), J) \in Nat /\ SumFunctionOnSet(Times(conns), J) \in Nat
       /\ SumFunctionOnSet(Bytes(conns), J) <= Old(domains, h).bytes
       /\ SumFunctionOnSet(Times(conns), J) <= Old(domains, h).seen
  <2>1. CASE J = {}
    <3>1. SumFunctionOnSet(Bytes(conns), J) = 0 /\ SumFunctionOnSet(Times(conns), J) = 0
      BY <2>1, SumEmpty
    <3> QED BY <1>9, <3>1
  <2>2. CASE J # {}
    <3>1. L # {} /\ J \in SUBSET L
      BY <1>4, <2>2
    <3>2. Old(domains, h) = domains[h]
      BY <1>5, <3>1 DEF Old
    <3>3. /\ SumFunctionOnSet(Bytes(conns), J) \in Nat /\ SumFunctionOnSet(Times(conns), J) \in Nat
          /\ SumFunctionOnSet(Bytes(conns), L) \in Nat /\ SumFunctionOnSet(Times(conns), L) \in Nat
          /\ SumFunctionOnSet(Bytes(conns), J) <= SumFunctionOnSet(Bytes(conns), L)
          /\ SumFunctionOnSet(Times(conns), J) <= SumFunctionOnSet(Times(conns), L)
      BY <1>11, <1>13, <3>1, SumLess, SumType
    <3> QED BY <1>5, <1>9, <3>1, <3>2, <3>3
  <2> QED BY <2>1, <2>2
<1>18. /\ SumFunctionOnSet(Bytes(conns'), I) <= domains'[h].bytes
       /\ SumFunctionOnSet(Times(conns'), I) <= domains'[h].seen
  BY <1>9, <1>12, <1>16, <1>17
<1> QED BY <1>8, <1>10, <1>18 DEF I

\* The window: what is added to the total, to the domains and to the
\* connections of each domain is the same.
LEMMA PollTypes ==
  ASSUME TablesInv, CollectorTypeOK', NEW obs, Polled(obs)
  PROVE  /\ TypeOK'
         /\ IsFiniteSet(DOMAIN domains') /\ IsFiniteSet(DOMAIN conns')
         /\ IsFiniteSet(DOMAIN window'.domains) /\ IsFiniteSet(DOMAIN window'.conns)
         /\ \A h \in DOMAIN domains' : domains'[h].last <= clock'
<1>0. TypeOK /\ Observed(obs) /\ clock' \in Nat /\ clock < clock' /\ clock \in Nat /\ build' = build
  BY DEF Polled, TablesInv, TypeOK
<1>1. /\ IsFiniteSet(SeenConns(obs)) /\ IsFiniteSet(SeenHosts(obs))
      /\ SeenConns(obs) \subseteq Conns /\ SeenHosts(obs) \subseteq Hosts
  BY <1>0, Places
<1>2. /\ DOMAIN domains' = SeenHosts(obs) \cup Kept(domains, clock')
      /\ DOMAIN conns' = SeenConns(obs) \cup Kept(conns, clock')
      /\ DOMAIN window'.domains = SeenHosts(obs) \cup DOMAIN window.domains
      /\ DOMAIN window'.conns = SeenConns(obs) \cup DOMAIN window.conns
  BY <1>0, PollRecords DEF Polled, RecordNetwork
<1>3. /\ Kept(domains, clock') \subseteq DOMAIN domains /\ Kept(conns, clock') \subseteq DOMAIN conns
      /\ DOMAIN domains \subseteq Hosts /\ DOMAIN window.domains \subseteq Hosts
      /\ DOMAIN conns \subseteq Conns /\ DOMAIN window.conns \subseteq Conns
  BY <1>0 DEF Kept, TypeOK
<1>4. /\ IsFiniteSet(DOMAIN domains') /\ IsFiniteSet(DOMAIN conns')
      /\ IsFiniteSet(DOMAIN window'.domains) /\ IsFiniteSet(DOMAIN window'.conns)
  <2>1. IsFiniteSet(Kept(domains, clock')) /\ IsFiniteSet(Kept(conns, clock'))
    BY <1>3, FS_Subset DEF TablesInv
  <2>2. IsFiniteSet(DOMAIN window.domains) /\ IsFiniteSet(DOMAIN window.conns)
    BY DEF TablesInv
  <2>3. \A S, T : IsFiniteSet(S) /\ IsFiniteSet(T) => IsFiniteSet(S \cup T)
    BY FS_Union
  <2> QED BY <1>1, <1>2, <2>1, <2>2, <2>3
<1>5. Conns' = Conns
  BY <1>0, SameConns DEF Conns
<1>6. /\ \A h \in DOMAIN domains' : domains'[h] \in Records
      /\ \A c \in DOMAIN conns' : conns'[c] \in Records
  BY <1>0, PollRecords
<1>7. \A h \in DOMAIN domains' : domains'[h].last <= clock'
  <2> SUFFICES ASSUME NEW h \in DOMAIN domains' PROVE domains'[h].last <= clock'
    OBVIOUS
  <2>1. domains'[h].last = IF h \in SeenHosts(obs) THEN clock' ELSE domains[h].last
    BY <1>0, PollRecords
  <2>2. h \notin SeenHosts(obs) => domains[h].last <= clock /\ domains[h].last \in Nat
    BY <1>2, <1>3 DEF TablesInv, TypeOK, Records
  <2> QED BY <1>0, <2>1, <2>2
<1>8. /\ window'.total \in Nat
      /\ \A h \in DOMAIN window'.domains : window'.domains[h] \in Nat
      /\ \A c \in DOMAIN window'.conns : window'.conns[c] \in Nat
  <2>1. /\ window.total \in Nat
        /\ \A h : At(window.domains, h) \in Nat
        /\ \A c : At(window.conns, c) \in Nat
    BY <1>0 DEF TypeOK, At
  <2>2. /\ Sum(obs, DOMAIN obs) \in Nat
        /\ \A h : Sum(obs, OfHost(obs, h)) \in Nat
        /\ \A c : Sum(obs, OfConn(obs, c)) \in Nat
    BY <1>0, Places, PartSums
  <2>3. /\ window'.total = window.total + Sum(obs, DOMAIN obs)
        /\ \A h \in DOMAIN window'.domains :
             window'.domains[h] = At(window.domains, h) + Sum(obs, OfHost(obs, h))
        /\ \A c \in DOMAIN window'.conns :
             window'.conns[c] = At(window.conns, c) + Sum(obs, OfConn(obs, c))
    BY <1>0 DEF Polled, RecordNetwork
  <2>4. window'.total \in Nat
    BY <2>1, <2>2, <2>3
  <2>5. \A h \in DOMAIN window'.domains : window'.domains[h] \in Nat
    BY <2>1, <2>2, <2>3
  <2>6. \A c \in DOMAIN window'.conns : window'.conns[c] \in Nat
    BY <2>1, <2>2, <2>3
  <2> QED BY <2>4, <2>5, <2>6
<1>9. TypeOK'
  BY <1>0, <1>1, <1>2, <1>3, <1>5, <1>6, <1>8 DEF TypeOK
<1> QED BY <1>4, <1>7, <1>9

LEMMA PollWindow ==
  ASSUME TablesInv, CollectorTypeOK', NEW obs, Polled(obs) PROVE WindowAgrees'
<1>0. TypeOK /\ Observed(obs)
  BY DEF Polled, TablesInv
<1> DEFINE D == window.domains
           E == window'.domains
           c0 == window.conns
           c1 == window'.conns
           A == DOMAIN obs
<1>1. /\ window'.total = window.total + Sum(obs, A)
      /\ E = [h \in SeenHosts(obs) \cup DOMAIN D |-> At(D, h) + Sum(obs, OfHost(obs, h))]
      /\ c1 = [c \in SeenConns(obs) \cup DOMAIN c0 |-> At(c0, c) + Sum(obs, OfConn(obs, c))]
  BY DEF Polled, RecordNetwork
<1>2. IsFiniteSet(DOMAIN E) /\ IsFiniteSet(DOMAIN c1) /\ IsFiniteSet(DOMAIN D)
  BY PollTypes DEF TablesInv
<1>3. /\ window.total = SumFunctionOnSet(D, DOMAIN D) /\ Weights(D, DOMAIN D)
      /\ Weights(c0, DOMAIN c0)
      /\ \A c \in DOMAIN c0 : HostOfConn(c) \in DOMAIN D
      /\ \A h \in DOMAIN D : D[h] = SumFunctionOnSet(c0, ConnsTo(h, c0))
  BY <1>0 DEF TablesInv, TypeOK, WindowAgrees, Weights, SumFunction
<1>4. /\ Sum(obs, A) = SumFunctionOnSet(Deltas(obs), A) /\ Weights(Deltas(obs), A) /\ IsFiniteSet(A)
  BY <1>0, PartSums
<1> HIDE DEF D, E, c0, c1, A
<1>5. window'.total = SumFunctionOnSet(E, DOMAIN E)
  <2> DEFINE p == [k \in A |-> HostOf[SocketOf(k)]]
             I == DOMAIN E
             J == DOMAIN D
  <2>1. IsFiniteSet(I) /\ J \in SUBSET I /\ \A k \in A : p[k] \in I
    BY <1>1, <1>2 DEF SeenHosts, A
  <2>2. ASSUME NEW h \in I
        PROVE  E[h] = (IF h \in J THEN D[h] ELSE 0) + SumFunctionOnSet(Deltas(obs), Part(A, p, h))
    <3>1. Part(A, p, h) = OfHost(obs, h)
      BY DEF Part, OfHost, A
    <3>2. OfHost(obs, h) \in SUBSET DOMAIN obs
      BY DEF OfHost
    <3>3. Sum(obs, OfHost(obs, h)) = SumFunctionOnSet(Deltas(obs), OfHost(obs, h))
      BY <1>0, <3>2, PartSums
    <3>4. E[h] = At(D, h) + Sum(obs, OfHost(obs, h))
      BY <1>1
    <3>5. At(D, h) = IF h \in J THEN D[h] ELSE 0
      BY DEF At
    <3> HIDE DEF p, I, J
    <3> QED BY <3>1, <3>3, <3>4, <3>5
  <2> HIDE DEF p, I, J
  <2>3. Weights(D, J)
    BY <1>3 DEF J
  <2>4. SumFunctionOnSet(E, I) = SumFunctionOnSet(D, J) + SumFunctionOnSet(Deltas(obs), A)
    BY <1>4, <2>1, <2>2, <2>3, SumGrown
  <2> QED BY <1>1, <1>3, <1>4, <2>4 DEF I, J
<1>6. \A c \in DOMAIN c1 : HostOfConn(c) \in DOMAIN E
  <2> SUFFICES ASSUME NEW c \in DOMAIN c1 PROVE HostOfConn(c) \in DOMAIN E
    OBVIOUS
  <2>1. c \in SeenConns(obs) => HostOfConn(c) \in SeenHosts(obs)
    BY <1>0, Places
  <2> QED BY <1>1, <1>3, <2>1
<1>7. ASSUME NEW h \in DOMAIN E PROVE E[h] = SumFunctionOnSet(c1, ConnsTo(h, c1))
  <2> DEFINE K == OfHost(obs, h)
             p == [k \in K |-> ConnOf(k)]
             I == ConnsTo(h, c1)
             J == ConnsTo(h, c0)
  <2>1. K \in SUBSET DOMAIN obs
    BY DEF OfHost
  <2>2. /\ IsFiniteSet(K) /\ Weights(Deltas(obs), K) /\ Sum(obs, K) = SumFunctionOnSet(Deltas(obs), K)
        /\ Sum(obs, K) \in Nat
    BY <1>0, <2>1, PartSums
  <2>3. \A k \in K : p[k] \in I
    BY <1>0, <1>1, Places DEF OfHost, SeenConns, ConnsTo
  <2>4. IsFiniteSet(I) /\ J \in SUBSET I
    BY <1>1, <1>2, FS_Subset DEF ConnsTo
  <2>5. Weights(c0, J)
    BY <1>3 DEF Weights, ConnsTo
  <2>6. ASSUME NEW c \in I
        PROVE  c1[c] = (IF c \in J THEN c0[c] ELSE 0) + SumFunctionOnSet(Deltas(obs), Part(K, p, c))
    <3>1. c \in DOMAIN c1 /\ HostOfConn(c) = h
      BY DEF ConnsTo
    <3>2. Part(K, p, c) = OfConn(obs, c)
      <4>1. \A k \in DOMAIN obs : ConnOf(k) = c => HostOf[SocketOf(k)] = h
        BY <1>0, <3>1, Places
      <4> QED BY <4>1 DEF Part, OfConn, OfHost
    <3>3. OfConn(obs, c) \in SUBSET DOMAIN obs
      BY DEF OfConn
    <3>4. Sum(obs, OfConn(obs, c)) = SumFunctionOnSet(Deltas(obs), OfConn(obs, c))
      BY <1>0, <3>3, PartSums
    <3>5. c1[c] = At(c0, c) + Sum(obs, OfConn(obs, c))
      BY <1>1, <3>1
    <3>6. At(c0, c) = IF c \in J THEN c0[c] ELSE 0
      BY <3>1 DEF At, ConnsTo
    <3> HIDE DEF K, p, I, J
    <3> QED BY <3>2, <3>4, <3>5, <3>6
  <2>7. E[h] = At(D, h) + Sum(obs, K)
    BY <1>1
  <2>8. At(D, h) = SumFunctionOnSet(c0, J)
    <3>1. CASE h \in DOMAIN D
      BY <1>3, <3>1 DEF At
    <3>2. CASE h \notin DOMAIN D
      <4>1. J = {}
        BY <1>3, <3>2 DEF ConnsTo
      <4> HIDE DEF J
      <4> QED BY <3>2, <4>1, SumEmpty DEF At
    <3> QED BY <3>1, <3>2
  <2> HIDE DEF K, p, I, J
  <2>9. SumFunctionOnSet(c1, I) = SumFunctionOnSet(c0, J) + SumFunctionOnSet(Deltas(obs), K)
    BY <2>2, <2>3, <2>4, <2>5, <2>6, SumGrown
  <2> QED BY <2>2, <2>7, <2>8, <2>9 DEF I
<1>8. WindowAgrees' = (/\ window'.total = SumFunctionOnSet(E, DOMAIN E)
                       /\ \A c \in DOMAIN c1 : HostOfConn(c) \in DOMAIN E
                       /\ \A h \in DOMAIN E : E[h] = SumFunctionOnSet(c1, ConnsTo(h, c1)))
  BY DEF WindowAgrees, SumFunction, E, c1, ConnsTo
<1> QED BY <1>5, <1>6, <1>7, <1>8

\* The steps that leave the tables as they are, and the one that clears the
\* window.
LEMMA SameTables ==
  ASSUME TablesInv, CollectorTypeOK', UNCHANGED <<build, samples, tables>>, clock' \in Nat, clock <= clock'
  PROVE  TablesInv'
<1>1. UNCHANGED <<domains, conns, window, samples, build>> /\ clock \in Nat
  BY DEF tables, TablesInv, TypeOK
<1>2. Conns' = Conns /\ \A k : ConnOf(k)' = ConnOf(k)
  BY <1>1, SameConns DEF Conns
<1>3. TypeOK'
  BY <1>1, <1>2 DEF TypeOK, TablesInv
<1>4. \A h \in DOMAIN domains : domains[h].last \in Nat /\ domains[h].last <= clock
  BY DEF TablesInv, TypeOK, Records
<1>5. \A h \in DOMAIN domains' : domains'[h].last <= clock'
  BY <1>1, <1>4
<1>6. WindowAgrees' /\ ConnsWithinDomains' /\ SamplesCounted'
  BY <1>1, <1>2 DEF TablesInv, WindowAgrees, ConnsWithinDomains, SamplesCounted, ConnsTo, Bytes, Times
<1> QED BY <1>1, <1>3, <1>5, <1>6 DEF TablesInv

LEMMA EmptyAgrees ==
  /\ window = EmptyUpload => WindowAgrees
  /\ window' = EmptyUpload => WindowAgrees'
<1>0. EmptyUpload.total = 0 /\ EmptyUpload.domains = NoEntries /\ EmptyUpload.conns = NoEntries
      /\ DOMAIN NoEntries = {} /\ SumFunctionOnSet(NoEntries, {}) = 0
  BY SumEmpty DEF EmptyUpload, NoEntries
<1> QED BY <1>0 DEF WindowAgrees, SumFunction

LEMMA ResetTables == ASSUME TablesInv, CollectorTypeOK', ResetWindow PROVE TablesInv'
<1>1. UNCHANGED <<domains, conns, samples, build, clock>> /\ window' = EmptyUpload
  BY DEF ResetWindow, collector
<1>2. Conns' = Conns /\ \A k : ConnOf(k)' = ConnOf(k)
  BY <1>1, SameConns DEF Conns
<1>3. EmptyUpload.total = 0 /\ DOMAIN EmptyUpload.domains = {} /\ DOMAIN EmptyUpload.conns = {}
  BY DEF EmptyUpload, NoEntries
<1>4. TypeOK'
  BY <1>1, <1>2, <1>3 DEF TypeOK, TablesInv
<1>5. ConnsWithinDomains' /\ SamplesCounted'
  BY <1>1, <1>2 DEF TablesInv, ConnsWithinDomains, SamplesCounted, ConnsTo, Bytes, Times
<1> QED BY <1>1, <1>3, <1>4, <1>5, EmptyAgrees, FS_EmptySet DEF TablesInv

-----------------------------------------------------------------------------
(* Theorems *)

TrafficInv == CollectorInv /\ TablesInv

LEMMA InitInv == Init => TrafficInv
<1> SUFFICES ASSUME Init PROVE TrafficInv
  OBVIOUS
<1>0. NoEntries = [x \in {} |-> 0] /\ DOMAIN NoEntries = {}
  BY DEF NoEntries
<1>1. CollectorTypeOK /\ IsFiniteSet(open)
  BY <1>0, FS_EmptySet DEF Init, CollectorInit, CollectorTypeOK
<1>2. ASSUME NEW k \in Keys PROVE Covered(k) /\ Exact(k)
  BY <1>1, KeyTypes DEF Init, CollectorInit, Covered, Exact
<1>3. TypeOK
  BY <1>0, <1>1 DEF Init, TypeOK, EmptyUpload
<1>4. ConnsWithinDomains /\ SamplesCounted
  BY <1>0 DEF Init, CollectorInit, ConnsWithinDomains, SamplesCounted, ConnsTo
<1>5. WindowAgrees
  BY <1>0, EmptyAgrees DEF Init
<1>6. TablesInv
  BY <1>0, <1>3, <1>4, <1>5, FS_EmptySet DEF Init, EmptyUpload, TablesInv
<1> QED BY <1>1, <1>2, <1>6 DEF CollectorInv, TrafficInv

LEMMA CollectorStep == CollectorInv /\ [Next]_vars => CollectorInv'
<1> SUFFICES ASSUME CollectorInv, [Next]_vars PROVE CollectorInv'
  OBVIOUS
<1>1. CASE UNCHANGED collector
  BY <1>1 DEF collector, kernel, CollectorInv, CollectorTypeOK, Covered, Exact, Pending, Gl, SampleOf,
              Due, Since, C
<1>2. CASE Kernel
  BY <1>2, OpenStep, CloseStep, CarryStep, ExpireStep DEF Kernel
<1>3. CASE Glance
  BY <1>3, GlanceStep
<1>4. ASSUME NEW gap \in Gaps, Poll(gap) PROVE CollectorInv'
  BY <1>4, CollectStep DEF Poll, PollDomains
<1>5. ASSUME NEW gap \in Gaps, PollBlind(gap) PROVE CollectorInv'
  BY <1>5, FailStep DEF PollBlind
<1> QED BY <1>1, <1>2, <1>3, <1>4, <1>5 DEF Next, ResetWindow, vars

LEMMA TrafficStep == TrafficInv /\ [Next]_vars => TrafficInv'
<1> SUFFICES ASSUME TrafficInv, [Next]_vars PROVE TrafficInv'
  OBVIOUS
<1>0. CollectorInv /\ CollectorInv' /\ TablesInv /\ CollectorTypeOK'
  BY CollectorStep DEF TrafficInv, CollectorInv
<1> SUFFICES TablesInv'
  BY <1>0 DEF TrafficInv
<1>1. CASE UNCHANGED <<build, samples, tables>> /\ clock' \in Nat /\ clock <= clock'
  BY <1>0, <1>1, SameTables
<1>2. CASE (Kernel \/ Glance) /\ UNCHANGED <<clock, tables>>
  <2>1. UNCHANGED <<build, samples>>
    BY <1>2 DEF Kernel, Open, Close, Carry, Expire, Glance
  <2>2. clock \in Nat
    BY <1>0 DEF TablesInv, TypeOK
  <2> QED BY <1>1, <1>2, <2>1, <2>2
<1>3. ASSUME NEW gap \in Gaps, Poll(gap) PROVE TablesInv'
  <2>1. PICK obs \in Observations :
          PollDomains(obs, clock') /\ window' = RecordNetwork(obs) /\ Collect(obs)
    BY <1>3 DEF Poll
  <2>2. Observed(obs)
    <3>1. DOMAIN obs \subseteq open /\ \A k \in DOMAIN obs : obs[k] \in Nat
      BY <1>0, <1>3, ListedKeys DEF Poll
    <3>2. IsFiniteSet(DOMAIN obs)
      BY <1>0, <3>1, FS_Subset DEF CollectorInv
    <3> QED BY <1>0, <3>1, <3>2 DEF Observed, CollectorInv, CollectorTypeOK
  <2>3. clock' \in Nat /\ clock < clock'
    <3>1. clock' = clock + gap /\ clock \in Nat /\ gap \in Nat \ {0}
      BY <1>0, <1>3, TimeAssumption DEF Poll, TablesInv, TypeOK
    <3> QED BY <3>1
  <2>4. Polled(obs)
    BY <2>1, <2>2, <2>3 DEF Polled, Collect
  <2> QED BY <1>0, <2>4, PollTypes, PollWindow, PollConnections, PollSamples DEF TablesInv
<1>4. ASSUME NEW gap \in Gaps, PollBlind(gap) PROVE TablesInv'
  <2>1. clock' = clock + gap /\ clock \in Nat /\ gap \in Nat
    BY <1>0, <1>4, TimeAssumption DEF PollBlind, TablesInv, TypeOK
  <2>2. UNCHANGED <<build, samples, tables>>
    BY <1>4 DEF PollBlind, CollectFails
  <2> QED BY <1>1, <2>1, <2>2
<1>5. CASE ResetWindow
  BY <1>0, <1>5, ResetTables
<1>6. CASE UNCHANGED vars
  <2>1. UNCHANGED <<build, samples, tables>> /\ clock' = clock /\ clock \in Nat
    BY <1>0, <1>6 DEF vars, collector, TablesInv, TypeOK
  <2> QED BY <1>1, <2>1
<1> QED BY <1>2, <1>3, <1>4, <1>5, <1>6 DEF Next

LEMMA TrafficCorrect == Spec => []TrafficInv
<1> QED BY InitInv, TrafficStep, PTL DEF Spec

\* Every variable keeps to its type.
THEOREM TrafficTypeCorrect == Spec => []TypeOK
<1>1. TrafficInv => TypeOK
  BY DEF TrafficInv, TablesInv
<1> QED BY <1>1, TrafficCorrect, PTL

\* The loop over the rows of nettop (parseNettopNetworkSamples) charges each
\* socket to the process that holds it, however many processes and sockets
\* there are and whatever order they are named in.
THEOREM RightHolderCorrect == Spec => []RightHolder
<1>1. TrafficInv => RightHolder
  BY HolderRight DEF TrafficInv, CollectorInv
<1> QED BY <1>1, TrafficCorrect, PTL

\* No key is charged with more than it carried: the difference that a poll
\* counts (diffOrCurrent) is of what the key is owed, also when its counter has
\* restarted or was read before the socket was opened.
THEOREM CountedOnceCorrect == Spec => []CountedOnce
<1>1. TrafficInv => CountedOnce
  <2> SUFFICES ASSUME CollectorInv, sighted, NEW k \in Keys PROVE owed[k] >= 0
    BY DEF CountedOnce, NoneInvented, TrafficInv
  <2>1. Covered(k) /\ owed[k] \in Int
    BY KeyTypes DEF CollectorInv
  <2>2. /\ Due(k, C(k)) \in Nat /\ Due(k, Gl(k)) \in Nat /\ Since(C(k), Gl(k)) \in Nat
    BY KeyTypes, DueBounds, SinceBounds DEF CollectorInv
  <2> QED BY <2>1, <2>2 DEF Covered, Pending
<1> QED BY <1>1, TrafficCorrect, PTL

\* Of a socket whose counter runs all the time it is held, what was not counted
\* yet is exactly what the next poll will count.
THEOREM NoneLostCorrect == Spec => []NoneLost
<1>1. TrafficInv => NoneLost
  <2> SUFFICES ASSUME CollectorInv, sighted, at = "idle", NEW k \in whole
               PROVE  owed[k] = Due(k, counter[SocketOf(k)])
    BY DEF NoneLost, TrafficInv
  <2>1. Exact(k)
    BY DEF CollectorInv, CollectorTypeOK
  <2> QED BY <2>1 DEF Exact, Pending, C
<1> QED BY <1>1, TrafficCorrect, PTL

\* The three parts of the upload window add up: recordNetwork adds the same to
\* each, through any number of polls and uploads.
THEOREM WindowCorrect == Spec => []WindowAgrees
<1>1. TrafficInv => WindowAgrees
  BY DEF TrafficInv, TablesInv
<1> QED BY <1>1, TrafficCorrect, PTL

\* Eviction (pollDomainsLocked) never drops a domain and keeps one of its
\* connections, and a domain is never behind its connections.
THEOREM ConnsCorrect == Spec => []ConnsWithinDomains
<1>1. TrafficInv => ConnsWithinDomains
  BY DEF TrafficInv, TablesInv
<1> QED BY <1>1, TrafficCorrect, PTL

\* A socket with a sample has a connection that holds the bytes of the sample.
THEOREM SamplesCorrect == Spec => []SamplesCounted
<1>1. TrafficInv => SamplesCounted
  BY DEF TrafficInv, TablesInv
<1> QED BY <1>1, TrafficCorrect, PTL
=============================================================================
