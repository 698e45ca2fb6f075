---------------------------- MODULE FaultAccounting ----------------------------
(***************************************************************************)
(* Lemmas for counting what faults cost.  In a system where each fault may *)
(* do one harm, at once or later, S is the set of the harms that are done, *)
(* D that of the actors that may still do one, and n the number of faults. *)
(***************************************************************************)
EXTENDS Integers, FiniteSets, FiniteSetTheorems, TLAPS

Balance(S, D, n) ==
  /\ IsFiniteSet(S) /\ IsFiniteSet(D)
  /\ Cardinality(S) + Cardinality(D) <= n

\* A step is without cost, a fault that does a harm or makes an actor that may
\* do one, or the harm that such an actor does.
Costs(S, T, D, E, n, m) ==
  \/ m = n /\ T \subseteq S /\ E \subseteq D
  \/ m = n + 1 /\ \E x : T \subseteq S \union {x} /\ E \subseteq D
  \/ m = n + 1 /\ \E h : T \subseteq S /\ E \subseteq D \union {h}
  \/ m = n /\ \E x : \E h \in D : T \subseteq S \union {x} /\ E \subseteq D \ {h}

\* A set with at most one more element.
LEMMA AtMostOneMore ==
  ASSUME NEW S, NEW T, NEW x, IsFiniteSet(S), T \subseteq S \union {x}
  PROVE  IsFiniteSet(T) /\ Cardinality(T) \in Nat /\ Cardinality(S) \in Nat
           /\ Cardinality(T) <= Cardinality(S) + 1
<1>1. IsFiniteSet(S \union {x}) /\ Cardinality(S \union {x}) <= Cardinality(S) + 1
      /\ Cardinality(S) \in Nat
  BY FS_AddElement, FS_CardinalityType
<1>2. IsFiniteSet(T) /\ Cardinality(T) <= Cardinality(S \union {x})
  BY <1>1, FS_Subset
<1>3. Cardinality(T) \in Nat /\ Cardinality(S \union {x}) \in Nat
  BY <1>1, <1>2, FS_CardinalityType
<1> QED
  BY <1>1, <1>2, <1>3

\* A set with no more elements.
LEMMA NoMore ==
  ASSUME NEW S, NEW T, IsFiniteSet(S), T \subseteq S
  PROVE  IsFiniteSet(T) /\ Cardinality(T) \in Nat /\ Cardinality(S) \in Nat
           /\ Cardinality(T) <= Cardinality(S)
BY FS_Subset, FS_CardinalityType

\* A set that has lost an element.
LEMMA OneLess ==
  ASSUME NEW S, NEW T, NEW x \in S, IsFiniteSet(S), T \subseteq S \ {x}
  PROVE  IsFiniteSet(T) /\ Cardinality(T) \in Nat /\ Cardinality(S) \in Nat
           /\ Cardinality(T) <= Cardinality(S) - 1
<1>1. IsFiniteSet(S \ {x}) /\ Cardinality(S \ {x}) = Cardinality(S) - 1
  BY FS_RemoveElement
<1>2. IsFiniteSet(T) /\ Cardinality(T) <= Cardinality(S \ {x})
  BY <1>1, FS_Subset
<1>3. Cardinality(T) \in Nat /\ Cardinality(S) \in Nat
  BY <1>2, FS_CardinalityType
<1> QED
  BY <1>1, <1>2, <1>3

\* Whichever it is, the account stays balanced.
LEMMA Balanced ==
  ASSUME NEW S, NEW T, NEW D, NEW E, NEW n \in Nat, NEW m,
         Balance(S, D, n), Costs(S, T, D, E, n, m)
  PROVE  Balance(T, E, m)
<1> USE DEF Balance
<1>1. CASE m = n /\ T \subseteq S /\ E \subseteq D
  <2>1. IsFiniteSet(T) /\ Cardinality(T) \in Nat /\ Cardinality(S) \in Nat
        /\ Cardinality(T) <= Cardinality(S)
    BY <1>1, NoMore
  <2>2. IsFiniteSet(E) /\ Cardinality(E) \in Nat /\ Cardinality(D) \in Nat
        /\ Cardinality(E) <= Cardinality(D)
    BY <1>1, NoMore
  <2> QED
    BY <1>1, <2>1, <2>2
<1>2. ASSUME NEW x, T \subseteq S \union {x}, E \subseteq D, m = n + 1
      PROVE  Balance(T, E, m)
  <2>1. IsFiniteSet(T) /\ Cardinality(T) \in Nat /\ Cardinality(S) \in Nat
        /\ Cardinality(T) <= Cardinality(S) + 1
    BY <1>2, AtMostOneMore
  <2>2. IsFiniteSet(E) /\ Cardinality(E) \in Nat /\ Cardinality(D) \in Nat
        /\ Cardinality(E) <= Cardinality(D)
    BY <1>2, NoMore
  <2> QED
    BY <1>2, <2>1, <2>2
<1>3. ASSUME NEW h, T \subseteq S, E \subseteq D \union {h}, m = n + 1
      PROVE  Balance(T, E, m)
  <2>1. IsFiniteSet(T) /\ Cardinality(T) \in Nat /\ Cardinality(S) \in Nat
        /\ Cardinality(T) <= Cardinality(S)
    BY <1>3, NoMore
  <2>2. IsFiniteSet(E) /\ Cardinality(E) \in Nat /\ Cardinality(D) \in Nat
        /\ Cardinality(E) <= Cardinality(D) + 1
    BY <1>3, AtMostOneMore
  <2> QED
    BY <1>3, <2>1, <2>2
<1>4. ASSUME NEW x, NEW h \in D, T \subseteq S \union {x}, E \subseteq D \ {h}, m = n
      PROVE  Balance(T, E, m)
  <2>1. IsFiniteSet(T) /\ Cardinality(T) \in Nat /\ Cardinality(S) \in Nat
        /\ Cardinality(T) <= Cardinality(S) + 1
    BY <1>4, AtMostOneMore
  <2>2. IsFiniteSet(E) /\ Cardinality(E) \in Nat /\ Cardinality(D) \in Nat
        /\ Cardinality(E) <= Cardinality(D) - 1
    BY <1>4, OneLess
  <2> QED
    BY <1>4, <2>1, <2>2
<1> QED
  BY <1>1, <1>2, <1>3, <1>4 DEF Costs
================================================================================
