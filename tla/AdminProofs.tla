------------------------------- MODULE AdminProofs ------------------------------
(***************************************************************************)
(* Proofs about the reports, the trends and the console's screens, and of  *)
(* the three parts of MCAdmin together: for any numbers of rows, days,     *)
(* keys, options and callbacks that wait.  What SessionsProofs proves of   *)
(* the sessions carries over to them.                                      *)
(***************************************************************************)
EXTENDS MCAdmin, SessionsProofs, WellFoundedInduction

-----------------------------------------------------------------------------
\* Induction over a set of numbers, which needs no operator as a parameter.
LEMMA SetInduction ==
  ASSUME NEW P, P \subseteq Nat, 0 \in P, \A n \in P : n + 1 \in P
  PROVE  P = Nat
<1> SUFFICES ASSUME Nat \ P # {}
             PROVE  FALSE
  OBVIOUS
<1> DEFINE R == OpToRel(<, Nat)
           Q == Nat \ P
<1>1. \A i, j \in Nat : j < i => <<j, i>> \in R
  BY DEF OpToRel
<1>2. IsWellFoundedOn(R, Nat)
  BY NatLessThanWellFounded
<1>3. Q # {} /\ Q \subseteq Nat
  OBVIOUS
<1> HIDE DEF R, Q
<1>4. PICK i \in Q : \A j \in Q : <<j, i>> \notin R
  BY <1>2, <1>3, WFMin
<1>5. i \in Nat /\ i \notin P /\ i # 0
  BY <1>4 DEF Q
<1>6. i - 1 \in Nat /\ i - 1 < i /\ (i - 1) + 1 = i
  BY <1>5
<1>7. i - 1 \notin Q
  BY <1>1, <1>4, <1>5, <1>6
<1>8. QED
  BY <1>5, <1>6, <1>7 DEF Q

\* The element that the fold takes first.
One(s) == CHOOSE x \in s : TRUE

\* The sums over each of the sets in D, as the fold defines them.
AreSums(h, g, D) ==
  h = [s \in D |-> IF s = {} THEN 0 ELSE g[One(s)] + h[s \ {One(s)}]]

\* A sum is what the fold of the community modules computes.
LEMMA SumOfIsFold ==
  ASSUME NEW g, NEW S
  PROVE  SumOf(g, S) = (CHOOSE h : AreSums(h, g, SUBSET S))[S]
BY DEF SumOf, MapThenSumSet, MapThenFoldSet, AreSums, One

\* Without it the set is smaller by one.
LEMMA OneIsRemoved ==
  ASSUME NEW s, s # {}, IsFiniteSet(s)
  PROVE  /\ One(s) \in s /\ IsFiniteSet(s \ {One(s)})
         /\ Cardinality(s) \in Nat /\ Cardinality(s \ {One(s)}) \in Nat
         /\ Cardinality(s) = Cardinality(s \ {One(s)}) + 1
<1>1. One(s) \in s
  BY DEF One
<1>2. IsFiniteSet(s \ {One(s)}) /\ Cardinality(s \ {One(s)}) = Cardinality(s) - 1
  BY <1>1, FS_RemoveElement
<1>3. Cardinality(s) \in Nat /\ Cardinality(s \ {One(s)}) \in Nat
  BY <1>2, FS_CardinalityType
<1>4. QED
  BY <1>1, <1>2, <1>3

\* There are such sums for the subsets of a finite set.
LEMMA SumsExist ==
  ASSUME NEW g, NEW S, IsFiniteSet(S)
  PROVE  \E h : AreSums(h, g, SUBSET S)
<1> DEFINE Upto(n) == {s \in SUBSET S : Cardinality(s) <= n}
           P == {n \in Nat : \E h : AreSums(h, g, Upto(n))}
<1>0. \A s \in SUBSET S : IsFiniteSet(s) /\ Cardinality(s) \in Nat
  BY FS_Subset, FS_CardinalityType
<1>1. 0 \in P
  <2> DEFINE h == [s \in Upto(0) |-> 0]
  <2>1. \A s \in Upto(0) : s = {}
    BY <1>0, FS_EmptySet
  <2>2. AreSums(h, g, Upto(0))
    BY <2>1 DEF AreSums
  <2>3. QED
    BY <2>2
<1>2. ASSUME NEW n \in P
      PROVE  n + 1 \in P
  <2>1. n \in Nat
    OBVIOUS
  <2>2. PICK h : AreSums(h, g, Upto(n))
    OBVIOUS
  <2> DEFINE e == [s \in Upto(n + 1) |-> IF s = {} THEN 0 ELSE g[One(s)] + h[s \ {One(s)}]]
  <2>3. ASSUME NEW s \in Upto(n + 1), s # {}
        PROVE  /\ s \ {One(s)} \in Upto(n) /\ s \ {One(s)} \in Upto(n + 1)
               /\ e[s \ {One(s)}] = h[s \ {One(s)}]
    <3> DEFINE t == s \ {One(s)}
    <3>1. IsFiniteSet(s) /\ t \in SUBSET S /\ Cardinality(s) <= n + 1
      BY <1>0
    <3>2. Cardinality(t) <= n /\ Cardinality(t) <= n + 1
      BY <2>1, <2>3, <3>1, OneIsRemoved
    <3>3. t \in Upto(n) /\ t \in Upto(n + 1)
      BY <3>1, <3>2
    <3> HIDE DEF t, Upto
    <3>4. h[t] = IF t = {} THEN 0 ELSE g[One(t)] + h[t \ {One(t)}]
      BY <2>2, <3>3 DEF AreSums
    <3>5. QED
      BY <3>3, <3>4 DEF t
  <2> HIDE DEF Upto
  <2>4. AreSums(e, g, Upto(n + 1))
    <3>1. \A s \in Upto(n + 1) : e[s] = IF s = {} THEN 0 ELSE g[One(s)] + h[s \ {One(s)}]
      OBVIOUS
    <3>2. \A s \in Upto(n + 1) : e[s] = IF s = {} THEN 0 ELSE g[One(s)] + e[s \ {One(s)}]
      BY <2>3, <3>1
    <3>3. e = [s \in Upto(n + 1) |-> e[s]]
      OBVIOUS
    <3> HIDE DEF e
    <3>4. QED
      BY <3>2, <3>3 DEF AreSums
  <2>5. QED
    BY <2>1, <2>4
<1>3. P = Nat
  <2> HIDE DEF P
  <2>1. P \subseteq Nat
    BY DEF P
  <2>2. QED
    BY <1>1, <1>2, <2>1, SetInduction
<1>4. Upto(Cardinality(S)) = SUBSET S /\ Cardinality(S) \in Nat
  <2>1. \A s \in SUBSET S : Cardinality(s) <= Cardinality(S)
    BY FS_Subset
  <2>2. QED
    BY <1>0, <2>1
<1>5. PICK h : AreSums(h, g, Upto(Cardinality(S)))
  <2>1. Cardinality(S) \in P
    BY <1>3, <1>4
  <2>2. QED
    BY <2>1
<1> HIDE DEF Upto
<1>6. QED
  BY <1>4, <1>5

\* They do not depend on which set's subsets they are for.
LEMMA SumsAgree ==
  ASSUME NEW g, NEW h, NEW e, NEW S, NEW T \in SUBSET S, IsFiniteSet(S),
         AreSums(h, g, SUBSET S), AreSums(e, g, SUBSET T)
  PROVE  h[T] = e[T]
<1> DEFINE P == {n \in Nat : \A s \in SUBSET T : Cardinality(s) = n => h[s] = e[s]}
<1>0. /\ \A s \in SUBSET T : IsFiniteSet(s) /\ Cardinality(s) \in Nat /\ s \in SUBSET S
      /\ T \in SUBSET T
  BY FS_Subset, FS_CardinalityType
<1>1. ASSUME NEW s \in SUBSET T
      PROVE  /\ h[s] = IF s = {} THEN 0 ELSE g[One(s)] + h[s \ {One(s)}]
             /\ e[s] = IF s = {} THEN 0 ELSE g[One(s)] + e[s \ {One(s)}]
  BY <1>0 DEF AreSums
<1>2. 0 \in P
  BY <1>0, <1>1, FS_EmptySet
<1>3. ASSUME NEW n \in P
      PROVE  n + 1 \in P
  <2> SUFFICES ASSUME NEW s \in SUBSET T, Cardinality(s) = n + 1
               PROVE  h[s] = e[s]
    OBVIOUS
  <2>1. n \in Nat /\ IsFiniteSet(s) /\ s # {}
    BY <1>0, FS_EmptySet
  <2>2. /\ s \ {One(s)} \in SUBSET T /\ Cardinality(s \ {One(s)}) \in Nat
        /\ Cardinality(s) = Cardinality(s \ {One(s)}) + 1
    BY <2>1, OneIsRemoved
  <2>3. Cardinality(s \ {One(s)}) = n
    BY <2>1, <2>2
  <2>4. h[s \ {One(s)}] = e[s \ {One(s)}]
    BY <2>2, <2>3
  <2>5. QED
    BY <1>1, <2>1, <2>4
<1>4. P = Nat
  <2> HIDE DEF P
  <2>1. P \subseteq Nat
    BY DEF P
  <2>2. QED
    BY <1>2, <1>3, <2>1, SetInduction
<1>5. QED
  BY <1>0, <1>4

\* A sum is the value of the element that the fold chooses and the sum of the others.
LEMMA SumOfOne ==
  ASSUME NEW g, NEW S, IsFiniteSet(S)
  PROVE  /\ S = {} => SumOf(g, S) = 0
         /\ S # {} => SumOf(g, S) = g[One(S)] + SumOf(g, S \ {One(S)})
<1>1. PICK h : h = (CHOOSE f : AreSums(f, g, SUBSET S))
  OBVIOUS
<1>2. AreSums(h, g, SUBSET S) /\ SumOf(g, S) = h[S]
  BY <1>1, SumsExist, SumOfIsFold
<1>3. h[S] = IF S = {} THEN 0 ELSE g[One(S)] + h[S \ {One(S)}]
  BY <1>2 DEF AreSums
<1>4. ASSUME S # {}
      PROVE  h[S \ {One(S)}] = SumOf(g, S \ {One(S)})
  <2> DEFINE T == S \ {One(S)}
  <2>1. PICK e : e = (CHOOSE f : AreSums(f, g, SUBSET T))
    OBVIOUS
  <2>2. T \in SUBSET S /\ IsFiniteSet(T)
    BY FS_Subset
  <2> HIDE DEF T
  <2>3. AreSums(e, g, SUBSET T) /\ SumOf(g, T) = e[T]
    BY <2>1, <2>2, SumsExist, SumOfIsFold
  <2>4. h[T] = e[T]
    BY <1>2, <2>2, <2>3, SumsAgree
  <2>5. QED
    BY <2>3, <2>4 DEF T
<1>5. QED
  BY <1>2, <1>3, <1>4

\* Sums of natural numbers are natural numbers.
LEMMA SumIsNat ==
  ASSUME NEW D, NEW g \in [D -> Nat], NEW S \in SUBSET D, IsFiniteSet(S)
  PROVE  SumOf(g, S) \in Nat
<1> DEFINE P == {n \in Nat : \A s \in SUBSET S : Cardinality(s) = n => SumOf(g, s) \in Nat}
<1>0. \A s \in SUBSET S : IsFiniteSet(s) /\ Cardinality(s) \in Nat
  BY FS_Subset, FS_CardinalityType
<1>1. 0 \in P
  BY <1>0, FS_EmptySet, SumOfOne
<1>2. ASSUME NEW n \in P
      PROVE  n + 1 \in P
  <2> SUFFICES ASSUME NEW s \in SUBSET S, Cardinality(s) = n + 1
               PROVE  SumOf(g, s) \in Nat
    OBVIOUS
  <2>1. n \in Nat /\ IsFiniteSet(s) /\ s # {}
    BY <1>0, FS_EmptySet
  <2>2. /\ One(s) \in S /\ s \ {One(s)} \in SUBSET S /\ Cardinality(s \ {One(s)}) \in Nat
        /\ Cardinality(s) = Cardinality(s \ {One(s)}) + 1
    BY <2>1, OneIsRemoved
  <2>3. Cardinality(s \ {One(s)}) = n
    BY <2>1, <2>2
  <2>4. SumOf(g, s \ {One(s)}) \in Nat /\ g[One(s)] \in Nat
    BY <2>2, <2>3
  <2>5. QED
    BY <2>1, <2>4, SumOfOne
<1>3. P = Nat
  <2> HIDE DEF P
  <2>1. P \subseteq Nat
    BY DEF P
  <2>2. QED
    BY <1>1, <1>2, <2>1, SetInduction
<1>4. QED
  BY <1>0, <1>3

\* The sum of nothing but zeros.
LEMMA SumOfZeros ==
  ASSUME NEW g, NEW S, IsFiniteSet(S), \A x \in S : g[x] = 0
  PROVE  SumOf(g, S) = 0
<1> DEFINE P == {n \in Nat : \A s \in SUBSET S : Cardinality(s) = n => SumOf(g, s) = 0}
<1>0. \A s \in SUBSET S : IsFiniteSet(s) /\ Cardinality(s) \in Nat
  BY FS_Subset, FS_CardinalityType
<1>1. 0 \in P
  BY <1>0, FS_EmptySet, SumOfOne
<1>2. ASSUME NEW n \in P
      PROVE  n + 1 \in P
  <2> SUFFICES ASSUME NEW s \in SUBSET S, Cardinality(s) = n + 1
               PROVE  SumOf(g, s) = 0
    OBVIOUS
  <2>1. n \in Nat /\ IsFiniteSet(s) /\ s # {}
    BY <1>0, FS_EmptySet
  <2>2. /\ One(s) \in S /\ s \ {One(s)} \in SUBSET S /\ Cardinality(s \ {One(s)}) \in Nat
        /\ Cardinality(s) = Cardinality(s \ {One(s)}) + 1
    BY <2>1, OneIsRemoved
  <2>3. Cardinality(s \ {One(s)}) = n
    BY <2>1, <2>2
  <2>4. SumOf(g, s \ {One(s)}) = 0 /\ g[One(s)] = 0
    BY <2>2, <2>3
  <2>5. QED
    BY <2>1, <2>4, SumOfOne
<1>3. P = Nat
  <2> HIDE DEF P
  <2>1. P \subseteq Nat
    BY DEF P
  <2>2. QED
    BY <1>1, <1>2, <2>1, SetInduction
<1>4. QED
  BY <1>0, <1>3

\* Any element can be taken out of a sum.
LEMMA SumRemove ==
  ASSUME NEW D, NEW g \in [D -> Nat], NEW S \in SUBSET D, IsFiniteSet(S), NEW x \in S
  PROVE  SumOf(g, S) = g[x] + SumOf(g, S \ {x})
<1> DEFINE P == {n \in Nat : \A s \in SUBSET S : Cardinality(s) = n =>
                               \A y \in s : SumOf(g, s) = g[y] + SumOf(g, s \ {y})}
<1>0. \A s \in SUBSET S : /\ IsFiniteSet(s) /\ Cardinality(s) \in Nat
                          /\ SumOf(g, s) \in Nat /\ \A y \in s : g[y] \in Nat
  BY FS_Subset, FS_CardinalityType, SumIsNat
<1>1. 0 \in P
  BY <1>0, FS_EmptySet
<1>2. ASSUME NEW n \in P
      PROVE  n + 1 \in P
  <2> SUFFICES ASSUME NEW s \in SUBSET S, Cardinality(s) = n + 1, NEW y \in s
               PROVE  SumOf(g, s) = g[y] + SumOf(g, s \ {y})
    OBVIOUS
  <2> DEFINE c == One(s)
  <2>1. n \in Nat /\ IsFiniteSet(s) /\ s # {}
    BY <1>0
  <2>2. /\ c \in s /\ s \ {c} \in SUBSET S /\ Cardinality(s \ {c}) \in Nat
        /\ Cardinality(s) = Cardinality(s \ {c}) + 1
    BY <2>1, OneIsRemoved
  <2>3. SumOf(g, s) = g[c] + SumOf(g, s \ {c})
    BY <2>1, SumOfOne
  <2>4. CASE y = c
    BY <2>3, <2>4
  <2>5. CASE y # c
    <3>1. Cardinality(s \ {c}) = n /\ y \in s \ {c}
      BY <2>1, <2>2, <2>5
    <3>2. SumOf(g, s \ {c}) = g[y] + SumOf(g, (s \ {c}) \ {y})
      BY <2>2, <3>1
    <3>3. /\ s \ {y} \in SUBSET S /\ IsFiniteSet(s \ {y}) /\ Cardinality(s \ {y}) = n
          /\ c \in s \ {y}
      <4>1. Cardinality(s \ {y}) = Cardinality(s) - 1
        BY <2>1, FS_RemoveElement
      <4>2. QED
        BY <1>0, <2>1, <2>2, <2>5, <4>1
    <3>4. SumOf(g, s \ {y}) = g[c] + SumOf(g, (s \ {y}) \ {c})
      BY <3>3
    <3>5. (s \ {y}) \ {c} = (s \ {c}) \ {y}
      OBVIOUS
    <3>6. PICK z : z = SumOf(g, (s \ {c}) \ {y})
      OBVIOUS
    <3>7. g[c] \in Nat /\ g[y] \in Nat /\ z \in Nat
      BY <1>0, <2>2, <3>6
    <3>8. SumOf(g, s) = g[c] + (g[y] + z) /\ SumOf(g, s \ {y}) = g[c] + z
      BY <2>3, <3>2, <3>4, <3>5, <3>6
    <3>9. QED
      BY <3>7, <3>8
  <2>6. QED
    BY <2>4, <2>5
<1>3. P = Nat
  <2> HIDE DEF P
  <2>1. P \subseteq Nat
    BY DEF P
  <2>2. QED
    BY <1>1, <1>2, <2>1, SetInduction
<1>4. S \in SUBSET S /\ Cardinality(S) \in P
  BY <1>0, <1>3
<1>5. QED
  BY <1>4

\* A sum over more elements, of greater values, is not smaller.
LEMMA SumMonotone ==
  ASSUME NEW D, NEW g \in [D -> Nat], NEW h \in [D -> Nat], NEW T \in SUBSET D, NEW S \in SUBSET T,
         IsFiniteSet(T), \A x \in S : g[x] <= h[x]
  PROVE  SumOf(g, S) <= SumOf(h, T)
<1> DEFINE P == {n \in Nat : \A t \in SUBSET T : Cardinality(t) = n =>
                               SumOf(g, S \cap t) <= SumOf(h, t)}
<1>0. \A t \in SUBSET T : /\ IsFiniteSet(t) /\ Cardinality(t) \in Nat /\ t \in SUBSET D
                          /\ SumOf(g, t) \in Nat /\ SumOf(h, t) \in Nat
                          /\ S \cap t \in SUBSET T
  BY FS_Subset, FS_CardinalityType, SumIsNat
<1>1. 0 \in P
  <2> SUFFICES ASSUME NEW t \in SUBSET T, Cardinality(t) = 0
               PROVE  SumOf(g, S \cap t) <= SumOf(h, t)
    OBVIOUS
  <2>1. t = {} /\ S \cap t = {}
    BY <1>0, FS_EmptySet
  <2>2. SumOf(g, {}) = 0 /\ SumOf(h, {}) = 0
    BY FS_EmptySet, SumOfOne
  <2>3. QED
    BY <2>1, <2>2
<1>2. ASSUME NEW n \in P
      PROVE  n + 1 \in P
  <2> SUFFICES ASSUME NEW t \in SUBSET T, Cardinality(t) = n + 1
               PROVE  SumOf(g, S \cap t) <= SumOf(h, t)
    OBVIOUS
  <2>1. n \in Nat /\ IsFiniteSet(t) /\ t # {}
    BY <1>0, FS_EmptySet
  <2>2. PICK y \in t : Cardinality(t \ {y}) = n
    BY <2>1, OneIsRemoved
  <2>3. t \ {y} \in SUBSET T /\ g[y] \in Nat /\ h[y] \in Nat
    OBVIOUS
  <2>4. SumOf(h, t) = h[y] + SumOf(h, t \ {y})
    BY <1>0, <2>1, SumRemove
  <2>5. SumOf(g, S \cap (t \ {y})) <= SumOf(h, t \ {y})
    BY <2>2, <2>3
  <2> DEFINE a == SumOf(g, S \cap (t \ {y}))
             b == SumOf(h, t \ {y})
  <2>6. a \in Nat /\ b \in Nat
    BY <1>0, <2>3
  <2>7. CASE y \in S
    <3>1. (S \cap t) \ {y} = S \cap (t \ {y}) /\ y \in S \cap t /\ IsFiniteSet(S \cap t)
          /\ S \cap t \in SUBSET D
      BY <1>0, <2>7
    <3>2. SumOf(g, S \cap t) = g[y] + a
      BY <3>1, SumRemove
    <3>3. g[y] <= h[y]
      BY <2>7
    <3> HIDE DEF a, b
    <3>4. a <= b /\ SumOf(h, t) = h[y] + b
      BY <2>4, <2>5 DEF a, b
    <3>5. QED
      BY <2>3, <2>6, <3>2, <3>3, <3>4
  <2>8. CASE y \notin S
    <3>1. S \cap t = S \cap (t \ {y})
      BY <2>8
    <3>2. SumOf(g, S \cap t) = a
      BY <3>1
    <3> HIDE DEF a, b
    <3>3. a <= b /\ SumOf(h, t) = h[y] + b
      BY <2>4, <2>5 DEF a, b
    <3>4. QED
      BY <2>3, <2>6, <3>2, <3>3
  <2>9. QED
    BY <2>7, <2>8
<1>3. P = Nat
  <2> HIDE DEF P
  <2>1. P \subseteq Nat
    BY DEF P
  <2>2. QED
    BY <1>1, <1>2, <2>1, SetInduction
<1>4. T \in SUBSET T /\ Cardinality(T) \in P /\ S \cap T = S
  BY <1>0, <1>3
<1>5. QED
  BY <1>4

\* The sums of functions with the same values.
LEMMA SumSame ==
  ASSUME NEW D, NEW g \in [D -> Nat], NEW h \in [D -> Nat], NEW S \in SUBSET D,
         IsFiniteSet(S), \A x \in S : g[x] = h[x]
  PROVE  SumOf(g, S) = SumOf(h, S)
<1>1. \A x \in S : g[x] \in Nat /\ h[x] \in Nat /\ g[x] <= h[x] /\ h[x] <= g[x]
  OBVIOUS
<1>2. SumOf(g, S) <= SumOf(h, S) /\ SumOf(h, S) <= SumOf(g, S)
  BY <1>1, SumMonotone
<1>3. SumOf(g, S) \in Nat /\ SumOf(h, S) \in Nat
  BY SumIsNat
<1>4. QED
  BY <1>2, <1>3

\* A sum after one value has changed.
LEMMA SumUpdate ==
  ASSUME NEW D, NEW g \in [D -> Nat], NEW h \in [D -> Nat], NEW S \in SUBSET D, IsFiniteSet(S),
         NEW x \in D, \A y \in D \ {x} : h[y] = g[y]
  PROVE  /\ x \notin S => SumOf(h, S) = SumOf(g, S)
         /\ x \in S => SumOf(h, S) + g[x] = SumOf(g, S) + h[x]
<1>1. h \in [D -> Nat] /\ \A y \in D : y # x => h[y] = g[y]
  OBVIOUS
<1>2. ASSUME x \notin S
      PROVE  SumOf(h, S) = SumOf(g, S)
  <2>1. \A y \in S : h[y] = g[y]
    BY <1>1, <1>2
  <2>2. QED
    BY <1>1, <2>1, SumSame
<1>3. ASSUME x \in S
      PROVE  SumOf(h, S) + g[x] = SumOf(g, S) + h[x]
  <2> DEFINE T == S \ {x}
  <2>1. T \in SUBSET D /\ IsFiniteSet(T) /\ \A y \in T : h[y] = g[y]
    BY <1>1, FS_Subset
  <2>2. SumOf(h, T) = SumOf(g, T) /\ SumOf(g, T) \in Nat
    <3> HIDE DEF T
    <3>1. QED
      BY <1>1, <2>1, SumSame, SumIsNat
  <2>3. SumOf(h, S) = h[x] + SumOf(h, T)
    BY <1>1, <1>3, SumRemove
  <2>4. SumOf(g, S) = g[x] + SumOf(g, T)
    BY <1>3, SumRemove
  <2>5. h[x] \in Nat /\ g[x] \in Nat
    BY <1>1
  <2> HIDE DEF T
  <2>6. QED
    BY <2>2, <2>3, <2>4, <2>5
<1>4. QED
  BY <1>2, <1>3

\* What a step of an induction on the size of a set takes away.
LEMMA OneLess ==
  ASSUME NEW n \in Nat, NEW t, IsFiniteSet(t), Cardinality(t) = n + 1
  PROVE  t # {} /\ \E y \in t : IsFiniteSet(t \ {y}) /\ Cardinality(t \ {y}) = n
<1>1. t # {}
  BY FS_EmptySet
<1>2. /\ One(t) \in t /\ IsFiniteSet(t \ {One(t)}) /\ Cardinality(t \ {One(t)}) \in Nat
      /\ Cardinality(t) = Cardinality(t \ {One(t)}) + 1
  BY <1>1, OneIsRemoved
<1>3. \A c \in Nat : n + 1 = c + 1 => c = n
  OBVIOUS
<1>4. QED
  BY <1>1, <1>2, <1>3

\* Disjoint sets, and a function with its arguments renamed.
Splits(D, g, U, S, T) ==
  /\ g \in [D -> Nat] /\ S \in SUBSET D /\ T \in SUBSET D
  /\ IsFiniteSet(S) /\ IsFiniteSet(T) /\ S \cap T = {} /\ U = S \cup T

LEMMA SumSplit ==
  ASSUME NEW D, NEW g, NEW U, NEW S, NEW T, Splits(D, g, U, S, T)
  PROVE  SumOf(g, U) = SumOf(g, S) + SumOf(g, T)
<1> USE DEF Splits
<1> DEFINE P == {n \in Nat : \A t \in SUBSET T : Cardinality(t) = n =>
                               SumOf(g, S \cup t) = SumOf(g, S) + SumOf(g, t)}
<1>0. /\ SumOf(g, S) \in Nat
      /\ \A t \in SUBSET T : /\ IsFiniteSet(t) /\ Cardinality(t) \in Nat
                             /\ IsFiniteSet(S \cup t) /\ S \cup t \in SUBSET D
                             /\ SumOf(g, t) \in Nat
  <2>1. \A t \in SUBSET T : IsFiniteSet(t) /\ Cardinality(t) \in Nat /\ SumOf(g, t) \in Nat
    BY FS_Subset, FS_CardinalityType, SumIsNat
  <2>2. \A t \in SUBSET T : IsFiniteSet(S \cup t)
    BY <2>1, FS_Union
  <2>3. QED
    BY <2>1, <2>2, SumIsNat
<1>1. 0 \in P
  <2> SUFFICES ASSUME NEW t \in SUBSET T, Cardinality(t) = 0
               PROVE  SumOf(g, S \cup t) = SumOf(g, S) + SumOf(g, t)
    OBVIOUS
  <2>1. t = {} /\ S \cup t = S
    BY <1>0, FS_EmptySet
  <2>2. SumOf(g, {}) = 0
    BY FS_EmptySet, SumOfOne
  <2>3. QED
    BY <1>0, <2>1, <2>2
<1>2. ASSUME NEW n \in P
      PROVE  n + 1 \in P
  <2> SUFFICES ASSUME NEW t \in SUBSET T, Cardinality(t) = n + 1
               PROVE  SumOf(g, S \cup t) = SumOf(g, S) + SumOf(g, t)
    OBVIOUS
  <2>1. n \in Nat
    OBVIOUS
  <2>2. IsFiniteSet(t) /\ IsFiniteSet(S \cup t) /\ S \cup t \in SUBSET D
    BY <1>0
  <2>3. PICK y \in t : Cardinality(t \ {y}) = n
    BY <2>1, <2>2, OneLess
  <2>4. t \ {y} \in SUBSET T /\ g[y] \in Nat /\ (S \cup t) \ {y} = S \cup (t \ {y})
    OBVIOUS
  <2>5. SumOf(g, t) = g[y] + SumOf(g, t \ {y})
    BY <2>2, SumRemove
  <2>6. SumOf(g, S \cup t) = g[y] + SumOf(g, S \cup (t \ {y}))
    <3>1. y \in S \cup t
      OBVIOUS
    <3>2. QED
      BY <2>2, <2>4, <3>1, SumRemove
  <2>7. SumOf(g, S \cup (t \ {y})) = SumOf(g, S) + SumOf(g, t \ {y})
    BY <2>3, <2>4
  <2>8. SumOf(g, t \ {y}) \in Nat /\ SumOf(g, S) \in Nat
    BY <1>0, <2>4
  <2>9. \A a, b, c \in Nat : a + (b + c) = b + (a + c)
    OBVIOUS
  <2>10. QED
    BY <2>4, <2>5, <2>6, <2>7, <2>8, <2>9
<1>3. P = Nat
  <2> HIDE DEF P
  <2>1. P \subseteq Nat
    BY DEF P
  <2>2. QED
    BY <1>1, <1>2, <2>1, SetInduction
<1>4. T \in SUBSET T /\ Cardinality(T) \in P
  BY <1>0, <1>3
<1>5. QED
  BY <1>4

Renames(D, f, S, E, g, T, h) ==
  /\ f \in [D -> Nat] /\ S \in SUBSET D /\ IsFiniteSet(S)
  /\ g \in [E -> Nat] /\ h \in [S -> E] /\ T = {h[x] : x \in S}
  /\ \A x, y \in S : h[x] = h[y] => x = y
  /\ \A x \in S : f[x] = g[h[x]]

LEMMA SumRenamed ==
  ASSUME NEW D, NEW f, NEW S, NEW E, NEW g, NEW T, NEW h, Renames(D, f, S, E, g, T, h)
  PROVE  SumOf(f, S) = SumOf(g, T)
<1> USE DEF Renames
<1> DEFINE I(s) == {h[x] : x \in s}
           P == {n \in Nat : \A s \in SUBSET S : Cardinality(s) = n =>
                               IsFiniteSet(I(s)) /\ SumOf(f, s) = SumOf(g, I(s))}
<1>0. \A s \in SUBSET S : /\ IsFiniteSet(s) /\ Cardinality(s) \in Nat /\ I(s) \in SUBSET E
  BY FS_Subset, FS_CardinalityType
<1>1. 0 \in P
  <2> SUFFICES ASSUME NEW s \in SUBSET S, Cardinality(s) = 0
               PROVE  IsFiniteSet(I(s)) /\ SumOf(f, s) = SumOf(g, I(s))
    OBVIOUS
  <2>1. s = {} /\ I(s) = {}
    BY <1>0, FS_EmptySet
  <2>2. SumOf(f, {}) = 0 /\ SumOf(g, {}) = 0 /\ IsFiniteSet({})
    BY FS_EmptySet, SumOfOne
  <2> HIDE DEF I
  <2>3. QED
    BY <2>1, <2>2
<1>2. ASSUME NEW n \in P
      PROVE  n + 1 \in P
  <2> SUFFICES ASSUME NEW s \in SUBSET S, Cardinality(s) = n + 1
               PROVE  IsFiniteSet(I(s)) /\ SumOf(f, s) = SumOf(g, I(s))
    OBVIOUS
  <2>1. n \in Nat /\ IsFiniteSet(s)
    BY <1>0
  <2>2. PICK y \in s : Cardinality(s \ {y}) = n
    BY <2>1, OneLess
  <2>3. s \ {y} \in SUBSET S /\ h[y] \in I(s) /\ I(s) \in SUBSET E
    OBVIOUS
  <2>4. I(s) \ {h[y]} = I(s \ {y})
    OBVIOUS
  <2>5. IsFiniteSet(I(s \ {y})) /\ SumOf(f, s \ {y}) = SumOf(g, I(s \ {y}))
    BY <2>2, <2>3
  <2>6. I(s) = I(s \ {y}) \cup {h[y]}
    OBVIOUS
  <2> HIDE DEF I
  <2>7. IsFiniteSet(I(s))
    <3> DEFINE Z == I(s \ {y})
    <3>1. IsFiniteSet(Z) /\ I(s) = Z \cup {h[y]}
      BY <2>5, <2>6
    <3> HIDE DEF Z
    <3>2. QED
      BY <3>1, FS_AddElement
  <2>8. SumOf(f, s) = f[y] + SumOf(f, s \ {y})
    BY <2>1, SumRemove
  <2>9. SumOf(g, I(s)) = g[h[y]] + SumOf(g, I(s) \ {h[y]})
    BY <2>3, <2>7, SumRemove
  <2>10. f[y] = g[h[y]]
    OBVIOUS
  <2>11. QED
    BY <2>4, <2>5, <2>7, <2>8, <2>9, <2>10
<1>3. P = Nat
  <2> HIDE DEF P
  <2>1. P \subseteq Nat
    BY DEF P
  <2>2. QED
    BY <1>1, <1>2, <2>1, SetInduction
<1>4. S \in SUBSET S /\ Cardinality(S) \in P
  BY <1>0, <1>3
<1>5. QED
  BY <1>4

-----------------------------------------------------------------------------
\* The rows that each field of a report counts, whichever function does.
RowsOf ==
  [users |-> UserRows, new_today |-> {"user_today"}, new_this_week |-> {"user_today", "user_week"},
   vaults |-> VaultRows, with_pin |-> {"vault_pin"}, by_status |-> VaultRows,
   members |-> {"member"}, by_role |-> {"member"},
   failed_1h |-> HourRows, failed_24h |-> FailedRows, lockouts_24h |-> LockoutRows,
   entries |-> LogRows, events |-> LogRows, failed_unlocks |-> FailedRows]

\* The positions in a report: a function and a SELECT of it, or the end.
Valid(k, s) ==
  /\ s[1] \in 1..(Len(Called[k]) + 1)
  /\ s[2] \in IF s[1] > Len(Called[k]) THEN {1} ELSE 1..Len(Called[k][s[1]])

\* The fields that have been counted when SELECT s comes next.
Before(k, s) ==
  {x \in DOMAIN RowsOf : \E i \in 1..Len(Called[k]) : \E j \in 1..Len(Called[k][i]) :
     /\ x \in DOMAIN Called[k][i][j]
     /\ i < s[1] \/ (i = s[1] /\ j < s[2])}

Stats == {"users", "new_today", "new_this_week", "vaults", "with_pin", "by_status",
          "members", "by_role"}

\* Where the functions of the failed attempts and of the activity are among those called.
FailedAt(k) == IF k = "alerts" THEN 1 ELSE 4
ActivityAt(k) == IF k = "activity" THEN 2 ELSE 6

\* How many functions each endpoint calls, and how many SELECTs these execute.
LEMMA Lengths ==
  /\ Len(Called["overview"]) = 3 /\ Len(Called["alerts"]) = 2
  /\ Len(Called["activity"]) = 2 /\ Len(Called["summary"]) = 6
  /\ Len(GetUserMetrics) = 3 /\ Len(GetVaultMetrics) = 3 /\ Len(GetMemberMetrics) = 2
  /\ Len(GetFailedUnlockStats) = 2 /\ Len(GetPinLockoutStats) = 1
  /\ Len(GetRecentActivity) = 1 /\ Len(GetActivitySummary) = 1
  /\ Kinds = {"overview", "alerts", "activity", "summary"}
<1>1. /\ Len(GetUserMetrics) = 3 /\ Len(GetVaultMetrics) = 3 /\ Len(GetMemberMetrics) = 2
      /\ Len(GetFailedUnlockStats) = 2 /\ Len(GetPinLockoutStats) = 1
      /\ Len(GetRecentActivity) = 1 /\ Len(GetActivitySummary) = 1
  BY DEF GetUserMetrics, GetVaultMetrics, GetMemberMetrics, GetFailedUnlockStats,
         GetPinLockoutStats, GetRecentActivity, GetActivitySummary
<1>2. QED
  BY <1>1 DEF Called, Kinds

\* The functions of the reports of many, one by one.
LEMMA CalledAre ==
  /\ Called["overview"][1] = GetUserMetrics /\ Called["overview"][2] = GetVaultMetrics
  /\ Called["overview"][3] = GetMemberMetrics
  /\ Called["alerts"][1] = GetFailedUnlockStats /\ Called["alerts"][2] = GetPinLockoutStats
  /\ Called["activity"][1] = GetRecentActivity /\ Called["activity"][2] = GetActivitySummary
  /\ Called["summary"][1] = GetUserMetrics /\ Called["summary"][2] = GetVaultMetrics
  /\ Called["summary"][3] = GetMemberMetrics /\ Called["summary"][4] = GetFailedUnlockStats
  /\ Called["summary"][5] = GetPinLockoutStats /\ Called["summary"][6] = GetActivitySummary
BY DEF Called

\* What each of the SELECTs counts.
Selects(q, fields) ==
  DOMAIN q = fields /\ fields \subseteq DOMAIN RowsOf /\ \A x \in fields : q[x] = RowsOf[x]

LEMMA SelectsAre ==
  /\ Selects(GetUserMetrics[1], {"users"}) /\ Selects(GetUserMetrics[2], {"new_today"})
  /\ Selects(GetUserMetrics[3], {"new_this_week"})
  /\ Selects(GetVaultMetrics[1], {"vaults"}) /\ Selects(GetVaultMetrics[2], {"with_pin"})
  /\ Selects(GetVaultMetrics[3], {"by_status"})
  /\ Selects(GetMemberMetrics[1], {"members"}) /\ Selects(GetMemberMetrics[2], {"by_role"})
  /\ Selects(GetFailedUnlockStats[1], {"failed_1h"}) /\ Selects(GetFailedUnlockStats[2], {"failed_24h"})
  /\ Selects(GetPinLockoutStats[1], {"lockouts_24h"}) /\ Selects(GetRecentActivity[1], {"entries"})
  /\ Selects(GetActivitySummary[1], {"events", "failed_unlocks"})
<1>1. Selects(GetUserMetrics[1], {"users"}) /\ Selects(GetUserMetrics[2], {"new_today"})
  BY DEF Selects, GetUserMetrics, RowsOf
<1>2. Selects(GetUserMetrics[3], {"new_this_week"})
  BY DEF Selects, GetUserMetrics, RowsOf
<1>3. Selects(GetVaultMetrics[1], {"vaults"}) /\ Selects(GetVaultMetrics[2], {"with_pin"})
      /\ Selects(GetVaultMetrics[3], {"by_status"})
  BY DEF Selects, GetVaultMetrics, RowsOf
<1>4. Selects(GetMemberMetrics[1], {"members"}) /\ Selects(GetMemberMetrics[2], {"by_role"})
  BY DEF Selects, GetMemberMetrics, RowsOf
<1>5. Selects(GetFailedUnlockStats[1], {"failed_1h"}) /\ Selects(GetFailedUnlockStats[2], {"failed_24h"})
  BY DEF Selects, GetFailedUnlockStats, RowsOf
<1>6. Selects(GetPinLockoutStats[1], {"lockouts_24h"}) /\ Selects(GetRecentActivity[1], {"entries"})
  BY DEF Selects, GetPinLockoutStats, GetRecentActivity, RowsOf
<1>7. Selects(GetActivitySummary[1], {"events", "failed_unlocks"})
  BY DEF Selects, GetActivitySummary, RowsOf
<1>8. QED
  BY <1>1, <1>2, <1>3, <1>4, <1>5, <1>6, <1>7

\* The functions that a report calls.
LEMMA FunctionAt ==
  ASSUME NEW k \in Kinds, NEW i \in 1..Len(Called[k])
  PROVE  \/ i = 1 /\ k \in {"overview", "summary"} /\ Called[k][i] = GetUserMetrics
         \/ i = 2 /\ k \in {"overview", "summary"} /\ Called[k][i] = GetVaultMetrics
         \/ i = 3 /\ k \in {"overview", "summary"} /\ Called[k][i] = GetMemberMetrics
         \/ i = FailedAt(k) /\ k \in {"alerts", "summary"} /\ Called[k][i] = GetFailedUnlockStats
         \/ i = FailedAt(k) + 1 /\ k \in {"alerts", "summary"} /\ Called[k][i] = GetPinLockoutStats
         \/ i = 1 /\ k = "activity" /\ Called[k][i] = GetRecentActivity
         \/ i = ActivityAt(k) /\ k \in {"activity", "summary"} /\ Called[k][i] = GetActivitySummary
<1>1. \/ i \in 1..3 /\ k \in {"overview", "summary"}
      \/ i \in {4, 5, 6} /\ k = "summary"
      \/ i \in {1, 2} /\ k \in {"alerts", "activity"}
  <2> PICK n : n = Len(Called[k])
    OBVIOUS
  <2>1. /\ k = "overview" => n = 3
        /\ k = "summary" => n = 6
        /\ k \in {"alerts", "activity"} => n = 2
    BY Lengths
  <2>2. i \in 1..n /\ k \in {"overview", "summary", "alerts", "activity"}
    BY Lengths
  <2>3. CASE k = "overview"
    BY <2>1, <2>2, <2>3
  <2>4. CASE k = "summary"
    <3>1. i \in 1..6
      BY <2>1, <2>2, <2>4
    <3>2. i \in 1..3 \/ i \in {4, 5, 6}
      BY <3>1
    <3>3. QED
      BY <2>4, <3>2
  <2>5. CASE k \in {"alerts", "activity"}
    <3>1. i \in 1..2
      BY <2>1, <2>2, <2>5
    <3>2. i \in {1, 2}
      BY <3>1
    <3>3. QED
      BY <2>5, <3>2
  <2>6. QED
    BY <2>2, <2>3, <2>4, <2>5
<1>2. QED
  BY <1>1, CalledAre DEF FailedAt, ActivityAt

LEMMA Functions ==
  ASSUME NEW k \in Kinds
  PROVE  /\ Len(Called[k]) \in Nat
         /\ \A i \in 1..Len(Called[k]) : Len(Called[k][i]) \in 1..3
<1>1. Len(Called[k]) \in Nat
  BY Lengths
<1>2. ASSUME NEW i \in 1..Len(Called[k])
      PROVE  Len(Called[k][i]) \in 1..3
  <2>1. Called[k][i] \in {GetUserMetrics, GetVaultMetrics, GetMemberMetrics, GetFailedUnlockStats,
                         GetPinLockoutStats, GetRecentActivity, GetActivitySummary}
    BY <1>2, FunctionAt
  <2>2. Len(Called[k][i]) \in {1, 2, 3}
    BY <2>1, Lengths
  <2>3. QED
    BY <2>2
<1>3. QED
  BY <1>1, <1>2

\* Every field is counted by one SELECT of a report, and from its rows.
FieldIs(k, i, j, x) ==
  /\ x \in DOMAIN RowsOf /\ Called[k][i][j][x] = RowsOf[x]
  /\ x \in Stats => k \in {"overview", "summary"}
  /\ x = "new_today" => i = 1 /\ j = 2
  /\ x = "new_this_week" => i = 1 /\ j = 3
  /\ x \in {"failed_1h", "failed_24h", "lockouts_24h"} => k \in {"alerts", "summary"}
  /\ x = "failed_1h" => i = FailedAt(k) /\ j = 1
  /\ x = "failed_24h" => i = FailedAt(k) /\ j = 2
  /\ x = "entries" => k = "activity"
  /\ x \in {"events", "failed_unlocks"} => k \in {"activity", "summary"}

LEMMA FieldAt ==
  ASSUME NEW k \in Kinds, NEW i \in 1..Len(Called[k]), NEW j \in 1..Len(Called[k][i]),
         NEW x \in DOMAIN Called[k][i][j]
  PROVE  FieldIs(k, i, j, x)
<1>1. CASE i = 1 /\ k \in {"overview", "summary"} /\ Called[k][i] = GetUserMetrics
  <2>1. j \in 1..3
    BY <1>1, Lengths
  <2>2. QED
    BY <1>1, <2>1, SelectsAre DEF FieldIs, Stats, Selects
<1>2. CASE i = 2 /\ k \in {"overview", "summary"} /\ Called[k][i] = GetVaultMetrics
  <2>1. j \in 1..3
    BY <1>2, Lengths
  <2>2. QED
    BY <1>2, <2>1, SelectsAre DEF FieldIs, Stats, Selects
<1>3. CASE i = 3 /\ k \in {"overview", "summary"} /\ Called[k][i] = GetMemberMetrics
  <2>1. j \in 1..2
    BY <1>3, Lengths
  <2>2. QED
    BY <1>3, <2>1, SelectsAre DEF FieldIs, Stats, Selects
<1>4. CASE i = FailedAt(k) /\ k \in {"alerts", "summary"} /\ Called[k][i] = GetFailedUnlockStats
  <2>1. j \in 1..2
    BY <1>4, Lengths
  <2>2. QED
    BY <1>4, <2>1, SelectsAre DEF FieldIs, Stats, Selects, FailedAt
<1>5. CASE i = FailedAt(k) + 1 /\ k \in {"alerts", "summary"} /\ Called[k][i] = GetPinLockoutStats
  <2>1. j \in 1..1
    BY <1>5, Lengths
  <2>2. QED
    BY <1>5, <2>1, SelectsAre DEF FieldIs, Stats, Selects, FailedAt
<1>6. CASE i = 1 /\ k = "activity" /\ Called[k][i] = GetRecentActivity
  <2>1. j \in 1..1
    BY <1>6, Lengths
  <2>2. QED
    BY <1>6, <2>1, SelectsAre DEF FieldIs, Stats, Selects
<1>7. CASE i = ActivityAt(k) /\ k \in {"activity", "summary"} /\ Called[k][i] = GetActivitySummary
  <2>1. j \in 1..1
    BY <1>7, Lengths
  <2>2. QED
    BY <1>7, <2>1, SelectsAre DEF FieldIs, Stats, Selects
<1>8. QED
  BY <1>1, <1>2, <1>3, <1>4, <1>5, <1>6, <1>7, FunctionAt

\* After the SELECT that comes next, its fields have been counted.
LEMMA NextSelect ==
  ASSUME NEW k \in Kinds, NEW s, Valid(k, s), s[1] <= Len(Called[k])
  PROVE  LET f == Called[k][s[1]]
             t == IF s[2] < Len(f) THEN <<s[1], s[2] + 1>> ELSE <<s[1] + 1, 1>>
         IN Valid(k, t) /\ Before(k, t) = Before(k, s) \cup DOMAIN f[s[2]]
<1> DEFINE f == Called[k][s[1]]
           t == IF s[2] < Len(f) THEN <<s[1], s[2] + 1>> ELSE <<s[1] + 1, 1>>
           n == Len(Called[k])
<1>0. n \in Nat /\ \A i \in 1..n : Len(Called[k][i]) \in 1..3
  BY Functions
<1>1. s[1] \in 1..n /\ s[2] \in 1..Len(f)
  BY <1>0 DEF Valid
<1>2. Valid(k, t)
  <2>1. CASE s[2] < Len(f)
    <3>1. t[1] = s[1] /\ t[2] = s[2] + 1 /\ t[2] \in 1..Len(f)
      BY <1>0, <1>1, <2>1
    <3> HIDE DEF t
    <3>2. QED
      BY <1>1, <3>1 DEF Valid
  <2>2. CASE ~(s[2] < Len(f))
    <3>1. t[1] = s[1] + 1 /\ t[2] = 1
      BY <2>2
    <3> HIDE DEF t
    <3> PICK m : m = n
      OBVIOUS
    <3>2. t[1] \in 1..(m + 1) /\ (t[1] > m \/ t[1] \in 1..m)
      BY <1>0, <1>1, <3>1
    <3>3. t[1] \in 1..m => 1 \in 1..Len(Called[k][t[1]])
      <4>1. t[1] \in 1..m => Len(Called[k][t[1]]) \in 1..3
        BY <1>0
      <4>2. \A l \in 1..3 : 1 \in 1..l
        OBVIOUS
      <4>3. QED
        BY <4>1, <4>2
    <3>4. QED
      BY <3>1, <3>2, <3>3 DEF Valid
  <2>3. QED
    BY <2>1, <2>2
<1>3. ASSUME NEW i \in 1..n, NEW j \in 1..Len(Called[k][i])
      PROVE  (i < t[1] \/ (i = t[1] /\ j < t[2])) <=>
               (i < s[1] \/ (i = s[1] /\ j < s[2]) \/ (i = s[1] /\ j = s[2]))
  <2>1. Len(f) \in Nat /\ s[1] \in Nat /\ s[2] \in Nat /\ (i = s[1] => j <= Len(f))
    BY <1>0, <1>1
  <2>2. CASE s[2] < Len(f)
    <3>1. t[1] = s[1] /\ t[2] = s[2] + 1
      BY <2>2
    <3> HIDE DEF t
    <3>2. QED
      BY <1>3, <2>1, <3>1
  <2>3. CASE ~(s[2] < Len(f))
    <3>1. t[1] = s[1] + 1 /\ t[2] = 1
      BY <2>3
    <3> HIDE DEF t
    <3>2. QED
      BY <1>0, <1>1, <1>3, <2>1, <2>3, <3>1
  <2>4. QED
    BY <2>2, <2>3
<1>4. \A x \in DOMAIN f[s[2]] : x \in DOMAIN RowsOf
  <2>1. \A i \in 1..n : \A j \in 1..Len(Called[k][i]) : DOMAIN Called[k][i][j] \subseteq DOMAIN RowsOf
    BY FieldAt DEF FieldIs
  <2>2. QED
    BY <1>1, <2>1
<1> HIDE DEF t
<1>5. Before(k, t) = Before(k, s) \cup DOMAIN f[s[2]]
  BY <1>1, <1>3, <1>4 DEF Before
<1>6. QED
  BY <1>2, <1>5 DEF t

\* When a report is complete, all of its fields have been counted.
LEMMA AllCounted ==
  ASSUME NEW k \in Kinds, NEW s, s[1] > Len(Called[k]), Valid(k, s)
  PROVE  /\ k \in {"overview", "summary"} => Stats \subseteq Before(k, s)
         /\ k \in {"alerts", "summary"} => {"failed_1h", "failed_24h", "lockouts_24h"} \subseteq Before(k, s)
         /\ k \in {"activity", "summary"} => {"events", "failed_unlocks"} \subseteq Before(k, s)
         /\ k = "activity" => "entries" \in Before(k, s)
<1>1. ASSUME NEW i \in 1..Len(Called[k]), NEW j \in 1..Len(Called[k][i])
      PROVE  DOMAIN Called[k][i][j] \subseteq Before(k, s)
  <2>1. i < s[1]
    BY Functions DEF Valid
  <2>2. QED
    BY <2>1, FieldAt DEF FieldIs, Before
<1>2. ASSUME k \in {"overview", "summary"}
      PROVE  Stats \subseteq Before(k, s)
  <2>1. 1 \in 1..Len(Called[k]) /\ 2 \in 1..Len(Called[k]) /\ 3 \in 1..Len(Called[k])
    <3>1. Len(Called[k]) = 3 \/ Len(Called[k]) = 6
      BY <1>2, Lengths
    <3>2. QED
      BY <3>1, SMTT(30)
  <2>2. Called[k][1] = GetUserMetrics /\ Called[k][2] = GetVaultMetrics /\ Called[k][3] = GetMemberMetrics
    BY <1>2, CalledAre
  <2>3. /\ \A j \in {1, 2, 3} : j \in 1..Len(Called[k][1]) /\ j \in 1..Len(Called[k][2])
        /\ \A j \in {1, 2} : j \in 1..Len(Called[k][3])
    BY <2>2, Lengths
  <2>4. /\ {"users"} \subseteq Before(k, s) /\ {"new_today"} \subseteq Before(k, s)
        /\ {"new_this_week"} \subseteq Before(k, s)
    BY <1>1, <2>1, <2>2, <2>3, SelectsAre DEF Selects
  <2>5. /\ {"vaults"} \subseteq Before(k, s) /\ {"with_pin"} \subseteq Before(k, s)
        /\ {"by_status"} \subseteq Before(k, s)
    BY <1>1, <2>1, <2>2, <2>3, SelectsAre DEF Selects
  <2>6. {"members"} \subseteq Before(k, s) /\ {"by_role"} \subseteq Before(k, s)
    BY <1>1, <2>1, <2>2, <2>3, SelectsAre DEF Selects
  <2>7. QED
    BY <2>4, <2>5, <2>6 DEF Stats
<1>3. ASSUME k \in {"alerts", "summary"}
      PROVE  {"failed_1h", "failed_24h", "lockouts_24h"} \subseteq Before(k, s)
  <2>1. FailedAt(k) \in 1..Len(Called[k]) /\ FailedAt(k) + 1 \in 1..Len(Called[k])
    <3>1. CASE k = "alerts"
      <4>1. FailedAt(k) = 1 /\ Len(Called[k]) = 2
        BY <3>1, Lengths DEF FailedAt
      <4>2. QED
        BY <4>1
    <3>2. CASE k = "summary"
      <4>1. FailedAt(k) = 4 /\ Len(Called[k]) = 6
        BY <3>2, Lengths DEF FailedAt
      <4>2. QED
        BY <4>1
    <3>3. QED
      BY <1>3, <3>1, <3>2
  <2>2. Called[k][FailedAt(k)] = GetFailedUnlockStats /\ Called[k][FailedAt(k) + 1] = GetPinLockoutStats
    BY <1>3, CalledAre DEF FailedAt
  <2>3. /\ 1 \in 1..Len(Called[k][FailedAt(k)]) /\ 2 \in 1..Len(Called[k][FailedAt(k)])
        /\ 1 \in 1..Len(Called[k][FailedAt(k) + 1])
    BY <2>2, Lengths
  <2>4. {"failed_1h"} \subseteq Before(k, s) /\ {"failed_24h"} \subseteq Before(k, s)
    BY <1>1, <2>1, <2>2, <2>3, SelectsAre DEF Selects
  <2>5. {"lockouts_24h"} \subseteq Before(k, s)
    BY <1>1, <2>1, <2>2, <2>3, SelectsAre DEF Selects
  <2>6. QED
    BY <2>4, <2>5
<1>4. ASSUME k \in {"activity", "summary"}
      PROVE  {"events", "failed_unlocks"} \subseteq Before(k, s)
  <2>1. /\ ActivityAt(k) \in 1..Len(Called[k]) /\ Called[k][ActivityAt(k)] = GetActivitySummary
    BY <1>4, Lengths, CalledAre DEF ActivityAt
  <2>2. 1 \in 1..Len(Called[k][ActivityAt(k)])
    BY <2>1, Lengths
  <2>3. QED
    BY <1>1, <2>1, <2>2, SelectsAre DEF Selects
<1>5. ASSUME k = "activity"
      PROVE  "entries" \in Before(k, s)
  <2>1. /\ 1 \in 1..Len(Called[k]) /\ Called[k][1] = GetRecentActivity
    BY <1>5, Lengths, CalledAre
  <2>2. 1 \in 1..Len(Called[k][1])
    BY <2>1, Lengths
  <2>3. {"entries"} \subseteq Before(k, s)
    BY <1>1, <2>1, <2>2, SelectsAre DEF Selects
  <2>4. QED
    BY <2>3
<1>6. QED
  BY <1>2, <1>3, <1>4, <1>5

\* The fields of two windows, the inner one first.
Windows == {<<"new_today", "new_this_week">>, <<"failed_1h", "failed_24h">>}

\* The inner window is counted right before the outer one, by the same function.
LEMMA WindowsCounted ==
  ASSUME NEW k \in Kinds, NEW s, Valid(k, s), NEW w \in Windows
  PROVE  /\ w[1] \in Before(k, s) /\ w[2] \notin Before(k, s) => s[2] # 1
         /\ s[1] <= Len(Called[k]) =>
              LET q == DOMAIN Called[k][s[1]][s[2]] IN
              /\ w[1] \in q => w[2] \notin q \cup Before(k, s)
              /\ w[2] \in q => w[1] \notin q /\ w[2] \notin Before(k, s)
<1> DEFINE i == IF w[1] = "new_today" THEN 1 ELSE FailedAt(k)
           j == IF w[1] = "new_today" THEN 2 ELSE 1
<1>0. s[1] \in Nat /\ s[2] \in Nat /\ i \in Nat /\ j \in Nat
  <2>1. i \in Nat /\ j \in Nat
    BY DEF FailedAt
  <2>2. s[1] \in Nat
    BY Functions DEF Valid
  <2>3. s[2] \in Nat
    BY DEF Valid
  <2>4. QED
    BY <2>1, <2>2, <2>3
<1>a. \/ w[1] = "new_today" /\ w[2] = "new_this_week"
      \/ w[1] = "failed_1h" /\ w[2] = "failed_24h"
  <2>1. CASE w = <<"new_today", "new_this_week">>
    BY <2>1
  <2>2. CASE w = <<"failed_1h", "failed_24h">>
    BY <2>2
  <2>3. QED
    BY <2>1, <2>2 DEF Windows
<1>1. \A a \in 1..Len(Called[k]) : \A b \in 1..Len(Called[k][a]) :
        /\ w[1] \in DOMAIN Called[k][a][b] => a = i /\ b = j
        /\ w[2] \in DOMAIN Called[k][a][b] => a = i /\ b = j + 1
  <2> SUFFICES ASSUME NEW a \in 1..Len(Called[k]), NEW b \in 1..Len(Called[k][a])
               PROVE  /\ w[1] \in DOMAIN Called[k][a][b] => a = i /\ b = j
                      /\ w[2] \in DOMAIN Called[k][a][b] => a = i /\ b = j + 1
    OBVIOUS
  <2>1. ASSUME NEW x \in DOMAIN Called[k][a][b]
        PROVE  /\ x = "new_today" => a = 1 /\ b = 2
               /\ x = "new_this_week" => a = 1 /\ b = 3
               /\ x = "failed_1h" => a = FailedAt(k) /\ b = 1
               /\ x = "failed_24h" => a = FailedAt(k) /\ b = 2
    <3>1. FieldIs(k, a, b, x)
      BY FieldAt
    <3>2. QED
      BY <3>1 DEF FieldIs
  <2>2. QED
    BY <1>a, <2>1
<1>2. ASSUME w[1] \in Before(k, s)
      PROVE  /\ i \in 1..Len(Called[k]) /\ j + 1 \in 1..Len(Called[k][i])
             /\ w[2] \in DOMAIN Called[k][i][j + 1] /\ w[2] \in DOMAIN RowsOf
             /\ i < s[1] \/ (i = s[1] /\ j < s[2])
  <2> PICK a \in 1..Len(Called[k]) : \E b \in 1..Len(Called[k][a]) :
        w[1] \in DOMAIN Called[k][a][b] /\ (a < s[1] \/ (a = s[1] /\ b < s[2]))
    BY <1>2 DEF Before
  <2>1. PICK b \in 1..Len(Called[k][a]) :
          w[1] \in DOMAIN Called[k][a][b] /\ (a < s[1] \/ (a = s[1] /\ b < s[2]))
    OBVIOUS
  <2>2. a = i /\ b = j
    BY <1>1, <2>1
  <2>3. CASE w[1] = "new_today"
    <3>1. k \in {"overview", "summary"} /\ w[2] = "new_this_week"
      <4>1. "new_today" \in DOMAIN Called[k][a][b] /\ "new_today" \in Stats
        BY <2>1, <2>3 DEF Stats
      <4>2. QED
        BY <1>a, <2>3, <4>1, FieldAt DEF FieldIs
    <3>2. Called[k][1] = GetUserMetrics
      BY <3>1, CalledAre
    <3>3. QED
      BY <2>1, <2>2, <2>3, <3>1, <3>2, Lengths, SelectsAre DEF Selects
  <2>4. CASE w[1] = "failed_1h"
    <3>1. k \in {"alerts", "summary"} /\ w[2] = "failed_24h"
      <4>1. "failed_1h" \in DOMAIN Called[k][a][b]
        BY <2>1, <2>4
      <4>2. QED
        BY <1>a, <2>4, <4>1, FieldAt DEF FieldIs
    <3>2. Called[k][i] = GetFailedUnlockStats
      BY <2>4, <3>1, CalledAre DEF FailedAt
    <3>3. QED
      BY <2>1, <2>2, <2>4, <3>1, <3>2, Lengths, SelectsAre DEF Selects
  <2>5. QED
    BY <1>a, <2>3, <2>4
<1>3. w[2] \in Before(k, s) => i < s[1] \/ (i = s[1] /\ j + 1 < s[2])
  BY <1>1 DEF Before
<1>4. ASSUME w[1] \in Before(k, s), w[2] \notin Before(k, s)
      PROVE  s[2] # 1
  <2>1. ~(i < s[1] \/ (i = s[1] /\ j + 1 < s[2]))
    BY <1>2, <1>4 DEF Before
  <2>2. i = s[1] /\ j < s[2]
    BY <1>0, <1>2, <1>4, <2>1
  <2>3. j >= 1
    OBVIOUS
  <2>4. QED
    BY <1>0, <2>2, <2>3
<1>5. ASSUME s[1] <= Len(Called[k])
      PROVE  LET q == DOMAIN Called[k][s[1]][s[2]] IN
             /\ w[1] \in q => w[2] \notin q \cup Before(k, s)
             /\ w[2] \in q => w[1] \notin q /\ w[2] \notin Before(k, s)
  <2>1. s[1] \in 1..Len(Called[k]) /\ s[2] \in 1..Len(Called[k][s[1]])
    BY <1>5, Functions DEF Valid
  <2>2. /\ w[1] \in DOMAIN Called[k][s[1]][s[2]] => s[1] = i /\ s[2] = j
        /\ w[2] \in DOMAIN Called[k][s[1]][s[2]] => s[1] = i /\ s[2] = j + 1
    BY <1>1, <2>1
  <2> HIDE DEF i, j
  <2>3. QED
    BY <1>0, <1>3, <2>2
<1>6. QED
  BY <1>4, <1>5

-----------------------------------------------------------------------------
\* The rows that a field counts are some of a finite number of kinds.
LEMMA RowsFinite ==
  /\ IsFiniteSet(AllRows)
  /\ \A x \in DOMAIN RowsOf : RowsOf[x] \subseteq AllRows
<1>1. IsFiniteSet(AllRows)
  <2>1. \A x : IsFiniteSet({x})
    BY FS_Singleton
  <2>2. /\ UserRows = {"user_today"} \cup {"user_week"} \cup {"user_before"}
        /\ VaultRows = {"vault_pin"} \cup {"vault_bare"}
        /\ LogRows = {"failed_hour"} \cup {"lockout_hour"} \cup {"lockout_day"}
                       \cup {"failed_day"} \cup {"other_day"}
    BY DEF UserRows, VaultRows, LogRows, FailedRows, HourRows, LockoutRows
  <2>3. IsFiniteSet(UserRows) /\ IsFiniteSet(VaultRows) /\ IsFiniteSet(LogRows)
    BY <2>1, <2>2, FS_Union
  <2>4. QED
    BY <2>1, <2>3, FS_Union DEF AllRows
<1>2. \A x \in DOMAIN RowsOf : RowsOf[x] \subseteq AllRows
  BY DEF RowsOf, AllRows, UserRows, VaultRows, LogRows, FailedRows, HourRows, LockoutRows
<1>3. QED
  BY <1>1, <1>2

\* The numbers of rows of each kind, and what a SELECT returns for them.
LEMMA Totals ==
  ASSUME NEW g \in [AllRows -> Nat], NEW T \in SUBSET AllRows
  PROVE  /\ SumOf(g, T) \in Nat
         /\ \A S \in SUBSET T : SumOf(g, S) <= SumOf(g, T)
         /\ \A r \in T : g[r] <= SumOf(g, T)
<1>1. IsFiniteSet(T)
  BY RowsFinite, FS_Subset
<1>2. SumOf(g, T) \in Nat
  BY <1>1, SumIsNat
<1>3. ASSUME NEW S \in SUBSET T
      PROVE  SumOf(g, S) <= SumOf(g, T)
  <2>1. \A x \in S : g[x] \in Nat /\ g[x] <= g[x]
    OBVIOUS
  <2>2. QED
    BY <1>1, <2>1, SumMonotone
<1>4. ASSUME NEW r \in T
      PROVE  g[r] <= SumOf(g, T)
  <2>1. SumOf(g, T) = g[r] + SumOf(g, T \ {r})
    BY <1>1, SumRemove
  <2>2. IsFiniteSet(T \ {r}) /\ T \ {r} \in SUBSET AllRows
    BY <1>1, FS_Subset
  <2>3. SumOf(g, T \ {r}) \in Nat /\ g[r] \in Nat
    BY <2>2, SumIsNat
  <2>4. QED
    BY <2>1, <2>3
<1>5. QED
  BY <1>2, <1>3, <1>4

\* A row more, one that moves from a kind to another, and rows that go.
LEMMA RowAdded ==
  ASSUME NEW g \in [AllRows -> Nat], NEW r \in AllRows
  PROVE  LET h == [g EXCEPT ![r] = @ + 1] IN
         /\ h \in [AllRows -> Nat] /\ SumOf(h, AllRows) = SumOf(g, AllRows) + 1
         /\ \A S \in SUBSET AllRows : SumOf(g, S) <= SumOf(h, S)
<1> DEFINE h == [g EXCEPT ![r] = @ + 1]
<1>1. g[r] \in Nat /\ g[r] + 1 \in Nat /\ h = [g EXCEPT ![r] = g[r] + 1]
  OBVIOUS
<1>2. h \in [AllRows -> Nat] /\ \A x \in AllRows : g[x] <= h[x]
  OBVIOUS
<1>0. h[r] = g[r] + 1 /\ \A y \in AllRows \ {r} : h[y] = g[y]
  OBVIOUS
<1> HIDE DEF h
<1>3. SumOf(h, AllRows) + g[r] = SumOf(g, AllRows) + (g[r] + 1)
  BY <1>0, <1>2, RowsFinite, SumUpdate
<1>4. SumOf(h, AllRows) \in Nat /\ SumOf(g, AllRows) \in Nat
  BY <1>2, Totals
<1>5. ASSUME NEW S \in SUBSET AllRows
      PROVE  SumOf(g, S) <= SumOf(h, S)
  <2>1. IsFiniteSet(S) /\ S \in SUBSET S /\ \A x \in S : g[x] <= h[x]
    BY <1>2, RowsFinite, FS_Subset
  <2>2. QED
    BY <1>2, <2>1, SumMonotone
<1>6. SumOf(h, AllRows) = SumOf(g, AllRows) + 1
  BY <1>1, <1>3, <1>4
<1>7. QED
  BY <1>2, <1>5, <1>6 DEF h

\* Rows are deleted.
LEMMA RowsGone ==
  ASSUME NEW g \in [AllRows -> Nat], NEW h \in [AllRows -> Nat], \A x \in AllRows : h[x] <= g[x]
  PROVE  /\ SumOf(h, AllRows) <= SumOf(g, AllRows)
         /\ \A S \in SUBSET AllRows : (\A x \in S : h[x] = g[x]) => SumOf(h, S) = SumOf(g, S)
<1>1. SumOf(h, AllRows) <= SumOf(g, AllRows)
  BY RowsFinite, SumMonotone
<1>2. ASSUME NEW S \in SUBSET AllRows, \A x \in S : h[x] = g[x]
      PROVE  SumOf(h, S) = SumOf(g, S)
  <2>1. IsFiniteSet(S)
    BY RowsFinite, FS_Subset
  <2>2. QED
    BY <1>2, <2>1, SumSame
<1>3. QED
  BY <1>1, <1>2

\* A row grows older, or changes its kind.
LEMMA RowMoved ==
  ASSUME NEW g \in [AllRows -> Nat], NEW from \in AllRows, NEW to \in AllRows, from # to, g[from] > 0
  PROVE  LET h == [g EXCEPT ![from] = @ - 1, ![to] = @ + 1] IN
         /\ h \in [AllRows -> Nat] /\ SumOf(h, AllRows) = SumOf(g, AllRows)
         /\ \A S \in SUBSET AllRows : from \notin S => SumOf(g, S) <= SumOf(h, S)
<1> DEFINE e == [g EXCEPT ![from] = g[from] - 1]
           h == [e EXCEPT ![to] = @ + 1]
<1>1. g[from] \in Nat /\ g[from] - 1 \in Nat /\ e \in [AllRows -> Nat]
      /\ \A x \in AllRows : e[x] = IF x = from THEN g[from] - 1 ELSE g[x]
  OBVIOUS
<1>2. h = [g EXCEPT ![from] = @ - 1, ![to] = @ + 1]
  OBVIOUS
<1> HIDE DEF e
<1>3. SumOf(e, AllRows) + g[from] = SumOf(g, AllRows) + (g[from] - 1)
  <2>1. e[from] = g[from] - 1 /\ \A y \in AllRows \ {from} : e[y] = g[y]
    BY <1>1
  <2>2. QED
    BY <1>1, <2>1, RowsFinite, SumUpdate
<1>4. /\ h \in [AllRows -> Nat] /\ SumOf(h, AllRows) = SumOf(e, AllRows) + 1
      /\ \A S \in SUBSET AllRows : SumOf(e, S) <= SumOf(h, S)
  BY <1>1, RowAdded
<1> HIDE DEF h
<1>5. SumOf(h, AllRows) \in Nat /\ SumOf(g, AllRows) \in Nat /\ SumOf(e, AllRows) \in Nat
  BY <1>1, <1>4, Totals
<1>6. ASSUME NEW S \in SUBSET AllRows, from \notin S
      PROVE  SumOf(g, S) <= SumOf(h, S)
  <2>1. IsFiniteSet(S) /\ \A x \in S : e[x] = g[x]
    BY <1>1, <1>6, RowsFinite, FS_Subset
  <2>2. SumOf(e, S) = SumOf(g, S)
    BY <1>1, <2>1, SumSame
  <2>3. QED
    BY <1>4, <2>2
<1>7. SumOf(h, AllRows) = SumOf(g, AllRows)
  BY <1>1, <1>3, <1>4, <1>5
<1>8. h \in [AllRows -> Nat] /\ h = [g EXCEPT ![from] = @ - 1, ![to] = @ + 1]
  BY <1>2, <1>4
<1>9. QED
  BY <1>6, <1>7, <1>8

-----------------------------------------------------------------------------
\* Between the SELECTs of two windows there are at least as many rows in the outer one as
\* the inner one has been counted with.
Nested(w) ==
  w[1] \in DOMAIN report =>
    report[w[1]] <= IF w[2] \in DOMAIN report THEN report[w[2]] ELSE Total(RowsOf[w[2]])

UserWindow == <<"new_today", "new_this_week">>
FailedWindow == <<"failed_1h", "failed_24h">>

\* The inductive invariant: what has been counted are the fields before the next SELECT;
\* they fit the rows if nothing has changed; and the windows nest at every moment.
ReportsInv ==
  /\ rows \in [AllRows -> Nat] /\ Total(AllRows) <= MaxRows
  /\ kind \in Kinds /\ Valid(kind, step)
  /\ DOMAIN report = Before(kind, step)
  /\ \A x \in DOMAIN report : report[x] \in 0..MaxRows
  /\ changes \in 0..MaxChanges /\ deleted \in BOOLEAN
  /\ changes = 0 => \A x \in DOMAIN report : report[x] = Total(RowsOf[x])
  /\ Nested(UserWindow)
  /\ ~deleted => Nested(FailedWindow)

\* A report starts with no field counted.
LEMMA NothingCounted ==
  ASSUME NEW k \in Kinds
  PROVE  Valid(k, <<1, 1>>) /\ Before(k, <<1, 1>>) = {}
<1>1. \A i \in 1..Len(Called[k]), j \in Nat : j >= 1 => ~(i < 1 \/ (i = 1 /\ j < 1))
  BY Functions
<1>2. Len(Called[k]) \in {2, 3, 6}
  BY Lengths
<1>3. 1 \in 1..Len(Called[k]) /\ 1 \in 1..(Len(Called[k]) + 1) /\ ~(1 > Len(Called[k]))
  <2>1. \A n \in {2, 3, 6} : 1 \in 1..n /\ 1 \in 1..(n + 1) /\ ~(1 > n)
    OBVIOUS
  <2>2. QED
    BY <1>2, <2>1
<1>4. Len(Called[k][1]) \in 1..3
  BY <1>3, Functions
<1>5. \A l \in 1..3 : 1 \in 1..l
  OBVIOUS
<1>6. Valid(k, <<1, 1>>)
  BY <1>3, <1>4, <1>5 DEF Valid
<1>7. Before(k, <<1, 1>>) = {}
  BY Functions DEF Before
<1>8. QED
  BY <1>6, <1>7

LEMMA ReportsInvInit == ReportsInit => ReportsInv
<1> SUFFICES ASSUME ReportsInit
             PROVE  ReportsInv
  OBVIOUS
<1>1. rows \in [AllRows -> Nat] /\ \A r \in AllRows : rows[r] = 0
  BY DEF ReportsInit
<1>2. Total(AllRows) = 0
  BY <1>1, RowsFinite, SumOfZeros DEF Total
<1>3. "summary" \in Kinds /\ MaxRows \in Nat /\ MaxChanges \in Nat
  BY Lengths, ReportsAssumption
<1>4. DOMAIN report = {}
  BY DEF ReportsInit
<1>5. Valid(kind, step) /\ Before(kind, step) = {}
  BY <1>3, NothingCounted DEF ReportsInit
<1>6. Nested(UserWindow) /\ Nested(FailedWindow)
  BY <1>4 DEF Nested
<1>7. kind \in Kinds /\ changes \in 0..MaxChanges
  BY <1>3 DEF ReportsInit
<1>8. deleted \in BOOLEAN
  BY DEF ReportsInit
<1>9. QED
  BY <1>1, <1>2, <1>3, <1>4, <1>5, <1>6, <1>7, <1>8 DEF ReportsInv

\* The rows of an inner window are in the outer one.
LEMMA WindowRows ==
  ASSUME NEW w \in {UserWindow, FailedWindow}
  PROVE  /\ RowsOf[w[1]] \subseteq RowsOf[w[2]] /\ RowsOf[w[2]] \in SUBSET AllRows
         /\ w[2] \in DOMAIN RowsOf
<1>1. CASE w = UserWindow
  <2>1. w[1] = "new_today" /\ w[2] = "new_this_week"
    BY <1>1 DEF UserWindow
  <2>2. /\ RowsOf["new_today"] = {"user_today"} /\ "new_this_week" \in DOMAIN RowsOf
        /\ RowsOf["new_this_week"] = {"user_today", "user_week"}
    BY DEF RowsOf
  <2>3. QED
    BY <2>1, <2>2, RowsFinite
<1>2. CASE w = FailedWindow
  <2>1. w[1] = "failed_1h" /\ w[2] = "failed_24h"
    BY <1>2 DEF FailedWindow
  <2>2. /\ RowsOf["failed_1h"] = HourRows /\ "failed_24h" \in DOMAIN RowsOf
        /\ RowsOf["failed_24h"] = FailedRows
    BY DEF RowsOf
  <2>3. QED
    BY <2>1, <2>2, RowsFinite DEF FailedRows
<1>3. QED
  BY <1>1, <1>2

\* A SELECT of an outer window finds at least what Nested says; one of an inner window
\* establishes it.
LEMMA SelectStep == ReportsInv /\ Select => ReportsInv'
<1> SUFFICES ASSUME ReportsInv, Select
             PROVE  ReportsInv'
  OBVIOUS
<1> DEFINE f == Called[kind][step[1]]
           q == f[step[2]]
<1>1. /\ kind \in Kinds /\ Valid(kind, step) /\ rows \in [AllRows -> Nat] /\ MaxRows \in Nat
      /\ DOMAIN report = Before(kind, step)
  BY ReportsAssumption DEF ReportsInv
<1>2. step[1] <= Len(Called[kind])
  <2>1. ~(step[1] > Len(Called[kind])) /\ step[1] \in 1..(Len(Called[kind]) + 1)
    BY <1>1 DEF Select, Complete, Valid
  <2>2. Len(Called[kind]) \in Nat
    BY <1>1, Functions
  <2>3. QED
    BY <2>1, <2>2
<1>3. Valid(kind, step') /\ Before(kind, step') = Before(kind, step) \cup DOMAIN q
  BY <1>1, <1>2, NextSelect DEF Select
<1>4. /\ DOMAIN report' = DOMAIN report \cup DOMAIN q
      /\ \A x \in DOMAIN report' : report'[x] = IF x \in DOMAIN q THEN SumOf(rows, q[x]) ELSE report[x]
      /\ UNCHANGED <<rows, kind, changes, deleted>>
  BY DEF Select, Total
<1>5. \A x \in DOMAIN q : x \in DOMAIN RowsOf /\ q[x] = RowsOf[x] /\ RowsOf[x] \in SUBSET AllRows
  <2>1. step[1] \in 1..Len(Called[kind]) /\ step[2] \in 1..Len(f)
    BY <1>1, <1>2, Functions DEF Valid
  <2>2. \A x \in DOMAIN q : FieldIs(kind, step[1], step[2], x)
    BY <1>1, <2>1, FieldAt
  <2>3. QED
    BY <2>2, RowsFinite DEF FieldIs
<1> HIDE DEF q, f
<1>6. \A x \in DOMAIN q : report'[x] = SumOf(rows, RowsOf[x])
  BY <1>4, <1>5
<1>7. \A T \in SUBSET AllRows : SumOf(rows, T) \in 0..MaxRows
  <2>1. SumOf(rows, AllRows) <= MaxRows
    BY DEF ReportsInv, Total
  <2> SUFFICES ASSUME NEW T \in SUBSET AllRows
               PROVE  SumOf(rows, T) \in 0..MaxRows
    OBVIOUS
  <2>2. /\ SumOf(rows, T) \in Nat /\ SumOf(rows, AllRows) \in Nat
        /\ SumOf(rows, T) <= SumOf(rows, AllRows)
    BY <1>1, Totals
  <2>3. QED
    BY <1>1, <2>1, <2>2
<1>8. \A x \in DOMAIN report' : report'[x] \in 0..MaxRows
  BY <1>4, <1>5, <1>6, <1>7 DEF ReportsInv
<1>9. changes = 0 => \A x \in DOMAIN report' : report'[x] = SumOf(rows, RowsOf[x])
  BY <1>4, <1>6 DEF ReportsInv, Total
<1>10. ASSUME NEW w \in {UserWindow, FailedWindow}, Nested(w)
       PROVE  Nested(w)'
  <2>1. /\ w[1] \in DOMAIN report /\ w[2] \notin DOMAIN report => step[2] # 1
        /\ w[1] \in DOMAIN q => w[2] \notin DOMAIN q \cup DOMAIN report
        /\ w[2] \in DOMAIN q => w[1] \notin DOMAIN q /\ w[2] \notin DOMAIN report
    <3>1. w \in Windows
      BY DEF Windows, UserWindow, FailedWindow
    <3>2. QED
      BY <1>1, <1>2, <3>1, WindowsCounted DEF q, f
  <2>2. /\ RowsOf[w[1]] \subseteq RowsOf[w[2]] /\ RowsOf[w[2]] \in SUBSET AllRows
        /\ w[2] \in DOMAIN RowsOf
    BY WindowRows
  <2>3. SumOf(rows, RowsOf[w[1]]) <= SumOf(rows, RowsOf[w[2]])
    BY <1>1, <2>2, Totals
  <2>4. w[1] \in DOMAIN report' =>
          report'[w[1]] <= IF w[2] \in DOMAIN report' THEN report'[w[2]] ELSE SumOf(rows, RowsOf[w[2]])
    <3>1. CASE w[1] \in DOMAIN q
      BY <1>4, <1>6, <2>1, <2>3, <3>1
    <3>2. CASE w[1] \notin DOMAIN q /\ w[2] \in DOMAIN q
      BY <1>4, <1>6, <1>10, <2>1, <3>2 DEF Nested, Total
    <3>3. CASE w[1] \notin DOMAIN q /\ w[2] \notin DOMAIN q
      BY <1>4, <1>10, <3>3 DEF Nested, Total
    <3>4. QED
      BY <3>1, <3>2, <3>3
  <2>5. QED
    BY <1>4, <2>4 DEF Nested, Total
<1>11. Nested(UserWindow)' /\ (~deleted => Nested(FailedWindow)')
  BY <1>10 DEF ReportsInv
<1>12. QED
  BY <1>1, <1>3, <1>4, <1>8, <1>9, <1>11 DEF ReportsInv, Total

\* The rows change, but for a deletion not so that there are fewer in an outer window
\* between its SELECT and that of the inner one.
LEMMA ChangeStep ==
  ASSUME ReportsInv, rows' \in [AllRows -> Nat], SumOf(rows', AllRows) <= MaxRows,
         changes < MaxChanges, changes' = changes + 1, UNCHANGED <<kind, step, report>>,
         deleted' \in {deleted, TRUE},
         step[2] # 1 => SumOf(rows, RowsOf["new_this_week"]) <= SumOf(rows', RowsOf["new_this_week"]),
         step[2] # 1 /\ ~deleted' =>
           SumOf(rows, RowsOf["failed_24h"]) <= SumOf(rows', RowsOf["failed_24h"])
  PROVE  ReportsInv'
<1>1. /\ kind \in Kinds /\ Valid(kind, step) /\ rows \in [AllRows -> Nat]
      /\ DOMAIN report = Before(kind, step) /\ \A x \in DOMAIN report : report[x] \in 0..MaxRows
      /\ changes \in 0..MaxChanges /\ deleted \in BOOLEAN /\ MaxChanges \in Nat /\ MaxRows \in Nat
  BY ReportsAssumption DEF ReportsInv
<1>2. changes' \in 0..MaxChanges /\ changes' # 0
  BY <1>1
<1>7. deleted' \in BOOLEAN
  BY <1>1
<1>3. ASSUME NEW w \in {UserWindow, FailedWindow}, Nested(w),
             step[2] # 1 => SumOf(rows, RowsOf[w[2]]) <= SumOf(rows', RowsOf[w[2]])
      PROVE  Nested(w)'
  <2>1. w[1] \in DOMAIN report /\ w[2] \notin DOMAIN report => step[2] # 1
    <3>1. w \in Windows
      BY DEF Windows, UserWindow, FailedWindow
    <3>2. QED
      BY <1>1, <3>1, WindowsCounted
  <2>2. SumOf(rows, RowsOf[w[2]]) \in Nat /\ SumOf(rows', RowsOf[w[2]]) \in Nat
    BY <1>1, WindowRows, Totals
  <2>3. w[1] \in DOMAIN report =>
          report[w[1]] <= IF w[2] \in DOMAIN report THEN report[w[2]] ELSE SumOf(rows', RowsOf[w[2]])
    <3>1. CASE w[1] \in DOMAIN report /\ w[2] \notin DOMAIN report
      <4>1. report[w[1]] <= SumOf(rows, RowsOf[w[2]])
        BY <1>3, <3>1 DEF Nested, Total
      <4>2. SumOf(rows, RowsOf[w[2]]) <= SumOf(rows', RowsOf[w[2]])
        BY <1>3, <2>1, <3>1
      <4>3. report[w[1]] \in Nat
        BY <1>1, <3>1
      <4>4. QED
        BY <2>2, <3>1, <4>1, <4>2, <4>3
    <3>2. CASE w[1] \notin DOMAIN report \/ w[2] \in DOMAIN report
      BY <1>3, <3>2 DEF Nested
    <3>3. QED
      BY <3>1, <3>2
  <2>4. QED
    BY <2>3 DEF Nested, Total
<1>4. Nested(UserWindow)'
  <2>1. UserWindow[2] = "new_this_week" /\ Nested(UserWindow)
    BY DEF UserWindow, ReportsInv
  <2>2. QED
    BY <1>3, <2>1
<1>5. ~deleted' => Nested(FailedWindow)'
  <2>1. FailedWindow[2] = "failed_24h" /\ (~deleted' => Nested(FailedWindow))
    BY DEF FailedWindow, ReportsInv
  <2>2. QED
    BY <1>3, <2>1
<1>6. QED
  BY <1>1, <1>2, <1>4, <1>5, <1>7 DEF ReportsInv, Total

\* Each step keeps the invariant: a SELECT by SelectStep, the others by ChangeStep.
LEMMA ReportsInvStep == ReportsInv /\ [ReportsNext]_reportsVars => ReportsInv'
<1> SUFFICES ASSUME ReportsInv, [ReportsNext]_reportsVars
             PROVE  ReportsInv'
  OBVIOUS
<1> DEFINE week == RowsOf["new_this_week"]
           day == RowsOf["failed_24h"]
<1>0. /\ kind \in Kinds /\ Valid(kind, step) /\ rows \in [AllRows -> Nat]
      /\ changes \in 0..MaxChanges /\ deleted \in BOOLEAN /\ MaxChanges \in Nat /\ MaxRows \in Nat
      /\ SumOf(rows, AllRows) <= MaxRows /\ SumOf(rows, AllRows) \in Nat
  BY ReportsAssumption, Totals DEF ReportsInv, Total
<1>b. /\ week \in SUBSET AllRows /\ week = {"user_today", "user_week"}
       /\ day \in SUBSET AllRows /\ day = {"failed_hour", "lockout_hour", "lockout_day", "failed_day"}
  BY DEF RowsOf, AllRows, UserRows, VaultRows, LogRows, FailedRows, HourRows, LockoutRows
<1>c. AllRows = {"user_today", "user_week", "user_before", "vault_pin", "vault_bare", "member",
                   "failed_hour", "lockout_hour", "lockout_day", "failed_day", "other_day"}
  BY DEF AllRows, UserRows, VaultRows, LogRows, FailedRows, HourRows, LockoutRows
<1> HIDE DEF week, day
<1>1. CASE UNCHANGED reportsVars
  BY <1>1 DEF reportsVars, ReportsInv, Nested, Total
<1>2. CASE Select
  BY <1>2, SelectStep
<1>3. ASSUME NEW k \in Kinds, Answer(k)
      PROVE  ReportsInv'
  <2>1. /\ DOMAIN report' = {} /\ kind' = k /\ step' = <<1, 1>> /\ changes' = 0 /\ deleted' = FALSE
        /\ UNCHANGED rows
    BY <1>3 DEF Answer
  <2>2. Valid(k, step') /\ Before(k, step') = {}
    BY <2>1, NothingCounted
  <2>3. Nested(UserWindow)' /\ Nested(FailedWindow)'
    BY <2>1 DEF Nested
  <2>4. changes' \in 0..MaxChanges
    BY <1>0, <2>1
  <2>5. deleted' \in BOOLEAN
    BY <2>1
  <2>6. QED
    BY <1>0, <2>1, <2>2, <2>3, <2>4, <2>5 DEF ReportsInv, Total
\* A change that leaves no window smaller when it must not, by what it does to the rows.
<1>4. ASSUME NEW new, Change(new), deleted' \in {deleted, TRUE},
             new \in [AllRows -> Nat], SumOf(new, AllRows) <= SumOf(rows, AllRows) \/ SumOf(new, AllRows) <= MaxRows,
             step[2] # 1 => SumOf(rows, week) <= SumOf(new, week),
             step[2] # 1 /\ ~deleted' => SumOf(rows, day) <= SumOf(new, day)
      PROVE  ReportsInv'
  <2>1. /\ rows' = new /\ changes < MaxChanges /\ changes' = changes + 1
        /\ UNCHANGED <<kind, step, report>>
    BY <1>4 DEF Change
  <2>2. SumOf(new, AllRows) <= MaxRows
    <3>1. SumOf(new, AllRows) \in Nat
      BY <1>4, Totals
    <3>2. QED
      BY <1>0, <1>4, <3>1
  <2>3. QED
    BY <1>4, <2>1, <2>2, ChangeStep DEF week, day
<1>5. ASSUME NEW r \in AllRows, Insert(r)
      PROVE  ReportsInv'
  <2> DEFINE new == [rows EXCEPT ![r] = @ + 1]
  <2>1. Change(new) /\ deleted' = deleted /\ SumOf(rows, AllRows) < MaxRows
    BY <1>5 DEF Insert, Total
  <2>2. /\ new \in [AllRows -> Nat] /\ SumOf(new, AllRows) = SumOf(rows, AllRows) + 1
        /\ SumOf(rows, week) <= SumOf(new, week) /\ SumOf(rows, day) <= SumOf(new, day)
    BY <1>0, <1>b, RowAdded
  <2> HIDE DEF new
  <2>3. SumOf(new, AllRows) <= MaxRows
    BY <1>0, <2>1, <2>2
  <2>4. QED
    BY <1>4, <2>1, <2>2, <2>3
<1>6. ASSUME NEW from \in AllRows, NEW to \in AllRows, from # to, Move(from, to),
             step[2] # 1 => from \notin week \cup day
      PROVE  ReportsInv'
  <2> DEFINE new == [rows EXCEPT ![from] = @ - 1, ![to] = @ + 1]
  <2>1. Change(new) /\ deleted' = deleted /\ rows[from] > 0
    BY <1>6 DEF Move
  <2>2. /\ new \in [AllRows -> Nat] /\ SumOf(new, AllRows) = SumOf(rows, AllRows)
        /\ \A S \in SUBSET AllRows : from \notin S => SumOf(rows, S) <= SumOf(new, S)
    BY <1>0, <1>6, <2>1, RowMoved
  <2> HIDE DEF new
  <2>3. SumOf(new, AllRows) <= MaxRows
    BY <1>0, <2>2
  <2>4. QED
    BY <1>b, <1>4, <1>6, <2>1, <2>2, <2>3
\* Rows go, none of them of the users.
<1>7. ASSUME NEW new \in [AllRows -> Nat], NEW old \in [AllRows -> Nat], Change(new),
             deleted' \in {deleted, TRUE},
             SumOf(old, AllRows) <= SumOf(rows, AllRows), \A x \in AllRows : new[x] <= old[x],
             step[2] # 1 => \A x \in week : new[x] = rows[x],
             step[2] # 1 /\ ~deleted' => \A x \in day : new[x] = rows[x]
      PROVE  ReportsInv'
  <2>1. /\ IsFiniteSet(week) /\ IsFiniteSet(day)
        /\ week \in SUBSET AllRows /\ day \in SUBSET AllRows
    BY <1>b, RowsFinite, FS_Subset
  <2>0. SumOf(rows, week) \in Nat /\ SumOf(rows, day) \in Nat
    BY <1>0, <1>b, Totals
  <2>2. ASSUME step[2] # 1
        PROVE  SumOf(rows, week) <= SumOf(new, week)
    <3>1. \A x \in week : new[x] = rows[x]
      BY <1>7, <2>2
    <3>2. SumOf(new, week) = SumOf(rows, week)
      BY <1>0, <2>1, <3>1, SumSame
    <3>3. QED
      BY <2>0, <3>2
  <2>3. ASSUME step[2] # 1, ~deleted'
        PROVE  SumOf(rows, day) <= SumOf(new, day)
    <3>1. \A x \in day : new[x] = rows[x]
      BY <1>7, <2>3
    <3>2. SumOf(new, day) = SumOf(rows, day)
      BY <1>0, <2>1, <3>1, SumSame
    <3>3. QED
      BY <2>0, <3>2
  <2>4. /\ SumOf(new, AllRows) <= SumOf(old, AllRows) /\ SumOf(new, AllRows) \in Nat
        /\ SumOf(old, AllRows) \in Nat
    BY <1>7, RowsGone, Totals
  <2>5. SumOf(new, AllRows) <= SumOf(rows, AllRows)
    BY <1>0, <1>7, <2>4
  <2>6. QED
    BY <1>4, <1>7, <2>2, <2>3, <2>5
<1>8. CASE SetPIN
  <2>1. "vault_bare" \in AllRows /\ "vault_pin" \in AllRows /\ "vault_bare" \notin week \cup day
    BY <1>b, <1>c
  <2>2. QED
    BY <1>6, <1>8, <2>1 DEF SetPIN
<1>9. CASE RemovePIN
  <2>1. "vault_bare" \in AllRows /\ "vault_pin" \in AllRows /\ "vault_pin" \notin week \cup day
    BY <1>b, <1>c
  <2>2. QED
    BY <1>6, <1>9, <2>1 DEF RemovePIN
\* One row of a kind goes.
<1>10. ASSUME NEW r \in AllRows, rows[r] > 0, Change([rows EXCEPT ![r] = @ - 1]), UNCHANGED deleted,
              step[2] # 1 => r \notin week \cup day
       PROVE  ReportsInv'
  <2> DEFINE new == [rows EXCEPT ![r] = @ - 1]
  <2>1. rows[r] \in Nat /\ rows[r] - 1 \in Nat /\ rows[r] - 1 <= rows[r]
    BY <1>0, <1>10
  <2>2. /\ new \in [AllRows -> Nat] /\ \A x \in AllRows : new[x] = IF x = r THEN rows[r] - 1 ELSE rows[x]
    BY <1>0, <2>1
  <2>3. Change(new)
    BY <1>10
  <2> HIDE DEF new
  <2>4. \A x \in AllRows : new[x] <= rows[x]
    BY <1>0, <2>1, <2>2
  <2>5. step[2] # 1 => (\A x \in week : new[x] = rows[x]) /\ (\A x \in day : new[x] = rows[x])
    BY <1>b, <1>10, <2>2
  <2>6. SumOf(rows, AllRows) <= SumOf(rows, AllRows)
    BY <1>0
  <2>7. QED
    BY <1>0, <1>7, <1>10, <2>2, <2>3, <2>4, <2>5, <2>6
<1>11. CASE RemoveMember
  <2>1. "member" \in AllRows /\ "member" \notin week \cup day
    BY <1>b, <1>c
  <2>2. QED
    BY <1>10, <1>11, <2>1 DEF RemoveMember
<1>12. ASSUME NEW r \in AllRows, GrowOlder(r)
       PROVE  ReportsInv'
  <2>1. step[2] = 1
    BY <1>12 DEF GrowOlder
  <2>2. CASE \E to \in AllRows : to # r /\ Move(r, to)
    BY <1>6, <2>1, <2>2
  <2>3. CASE rows[r] > 0 /\ Change([rows EXCEPT ![r] = @ - 1]) /\ UNCHANGED deleted
    BY <1>10, <2>1, <2>3
  <2>4. QED
    BY <1>c, <1>12, <2>2, <2>3 DEF GrowOlder
\* The rows of some kinds go, and one of a vault's.
<1>13. ASSUME NEW gone \in SUBSET (LogRows \cup {"member"}), deleted' = TRUE,
              NEW new \in [AllRows -> Nat], Change(new), \A x \in AllRows : new[x] <= rows[x],
              \A x \in AllRows \ (gone \cup VaultRows) : new[x] = rows[x]
       PROVE  ReportsInv'
  <2>1. \A x \in week : new[x] = rows[x]
    <3>1. week \cap (gone \cup VaultRows) = {}
      BY <1>b DEF VaultRows, LogRows, FailedRows, HourRows, LockoutRows
    <3>2. QED
      BY <1>b, <1>13, <3>1
  <2>2. SumOf(rows, AllRows) <= SumOf(rows, AllRows)
    BY <1>0
  <2>3. QED
    BY <1>0, <1>7, <1>13, <2>1, <2>2
<1>14. ASSUME NEW v \in VaultRows, NEW gone \in Owned(LogRows \cup {"member"}), DeleteVault(v, gone)
       PROVE  ReportsInv'
  <2> DEFINE new == [r \in AllRows |-> IF r = v THEN rows[r] - 1 ELSE IF r \in gone THEN 0 ELSE rows[r]]
  <2>1. v \in AllRows /\ gone \in SUBSET (LogRows \cup {"member"})
    BY DEF AllRows, Owned, Present
  <2>2. rows[v] > 0 /\ rows[v] \in Nat /\ rows[v] - 1 \in Nat /\ rows[v] - 1 <= rows[v]
    BY <1>0, <1>14, <2>1 DEF DeleteVault
  <2>3. Change(new) /\ deleted' = TRUE
    BY <1>14 DEF DeleteVault
  <2>4. new \in [AllRows -> Nat]
    BY <1>0, <2>2
  <2>5. \A x \in AllRows : new[x] <= rows[x]
    BY <1>0, <2>2
  <2>6. \A x \in AllRows \ (gone \cup VaultRows) : new[x] = rows[x]
    OBVIOUS
  <2> HIDE DEF new
  <2>7. QED
    BY <1>13, <2>1, <2>3, <2>4, <2>5, <2>6
<1>15. ASSUME NEW gone \in Owned(LogRows), DeleteLog(gone)
       PROVE  ReportsInv'
  <2> DEFINE new == [r \in AllRows |-> IF r \in gone THEN 0 ELSE rows[r]]
  <2>1. gone \in SUBSET (LogRows \cup {"member"})
    BY DEF Owned, Present
  <2>2. Change(new) /\ deleted' = TRUE
    BY <1>15 DEF DeleteLog
  <2>3. /\ new \in [AllRows -> Nat] /\ \A x \in AllRows : new[x] <= rows[x]
        /\ \A x \in AllRows \ (gone \cup VaultRows) : new[x] = rows[x]
    BY <1>0
  <2> HIDE DEF new
  <2>4. QED
    BY <1>13, <2>1, <2>2, <2>3
\* A reset that deletes no log moves a vault's row or changes no row.
<1>16. ASSUME UNCHANGED <<rows, kind, step, report, changes, deleted>>
       PROVE  ReportsInv'
  BY <1>16 DEF ReportsInv, Nested, Total
<1>17. ASSUME NEW v \in VaultRows, ResetVault(v)
       PROVE  ReportsInv'
  <2>1. CASE Move("vault_pin", "vault_bare")
    <3>1. "vault_bare" \in AllRows /\ "vault_pin" \in AllRows /\ "vault_pin" \notin week \cup day
      BY <1>b, <1>c
    <3>2. QED
      BY <1>6, <2>1, <3>1
  <2>2. QED
    BY <1>16, <1>17, <2>1 DEF ResetVault
<1>18. QED
  BY <1>1, <1>2, <1>3, <1>5, <1>8, <1>9, <1>11, <1>12, <1>14, <1>15, <1>16, <1>17
     DEF ReportsNext, DeleteLogFails

LEMMA ReportsInvariance == ReportsSpec => []ReportsInv
BY ReportsInvInit, ReportsInvStep, PTL DEF ReportsSpec

\* The rows, the report that is being made and its fields are well typed.
THEOREM ReportsTypesHold == ReportsSpec => []ReportsTypeOK
<1>1. ReportsInv /\ resetting \in BOOLEAN => ReportsTypeOK
  <2> SUFFICES ASSUME ReportsInv, resetting \in BOOLEAN
               PROVE  ReportsTypeOK
    OBVIOUS
  <2>1. rows \in [AllRows -> Nat] /\ SumOf(rows, AllRows) <= MaxRows /\ MaxRows \in Nat
    BY ReportsAssumption DEF ReportsInv, Total
  <2>2. \A r \in AllRows : rows[r] \in 0..MaxRows
    <3> SUFFICES ASSUME NEW r \in AllRows
                 PROVE  rows[r] \in 0..MaxRows
      OBVIOUS
    <3>1. rows[r] <= SumOf(rows, AllRows) /\ SumOf(rows, AllRows) \in Nat /\ rows[r] \in Nat
      BY <2>1, Totals
    <3>2. QED
      BY <2>1, <3>1
  <2>3. rows \in [AllRows -> 0..MaxRows]
    BY <2>1, <2>2
  <2>4. step[1] \in 1..(Len(Called[kind]) + 1)
    BY DEF ReportsInv, Valid
  <2>5. QED
    BY <2>3, <2>4 DEF ReportsInv, ReportsTypeOK
<1>2. ReportsInit => resetting \in BOOLEAN
  BY DEF ReportsInit
<1>3. resetting \in BOOLEAN /\ [ReportsNext]_reportsVars => (resetting \in BOOLEAN)'
  BY DEF ReportsNext, reportsVars, Select, Answer, Insert, GrowOlder, SetPIN, RemovePIN, RemoveMember,
         DeleteVault, ResetVault, DeleteLog, DeleteLogFails
<1>4. QED
  BY <1>1, <1>2, <1>3, ReportsInvariance, PTL DEF ReportsSpec

\* The fields of an overview, a summary, the alerts or an activity report fit together,
\* whatever changes between the SELECTs that count them.
THEOREM CountsHold == ReportsSpec => []CountsNested
<1>1. ReportsInv => CountsNested
  <2> SUFFICES ASSUME ReportsInv
               PROVE  CountsNested
    OBVIOUS
  <2> DEFINE D == DOMAIN report
  <2>1. /\ rows \in [AllRows -> Nat] /\ kind \in Kinds /\ Valid(kind, step) /\ D = Before(kind, step)
    BY DEF ReportsInv
  <2>2. {"new_today", "new_this_week"} \subseteq D => report["new_today"] <= report["new_this_week"]
    BY DEF ReportsInv, Nested, UserWindow
  <2>3. {"failed_1h", "failed_24h"} \subseteq D => report["failed_1h"] <= report["failed_24h"] \/ deleted
    BY DEF ReportsInv, Nested, FailedWindow
  <2>4. ASSUME Complete, changes = 0
        PROVE  /\ {"users", "members"} \subseteq D => /\ report["new_this_week"] <= report["users"]
                                                      /\ report["with_pin"] <= report["vaults"]
                                                      /\ report["by_status"] = report["vaults"]
                                                      /\ report["by_role"] = report["members"]
               /\ {"failed_24h"} \subseteq D => report["lockouts_24h"] <= report["failed_24h"]
               /\ {"events"} \subseteq D => report["failed_unlocks"] <= report["events"]
               /\ {"entries"} \subseteq D => report["entries"] = report["events"]
               /\ kind = "summary" => report["failed_unlocks"] = report["failed_24h"]
    <3>1. \A x \in D : report[x] = SumOf(rows, RowsOf[x])
      BY <2>4 DEF ReportsInv, Total
    <3>2. /\ kind \in {"overview", "summary"} => Stats \subseteq D
          /\ kind \in {"alerts", "summary"} => {"failed_1h", "failed_24h", "lockouts_24h"} \subseteq D
          /\ kind \in {"activity", "summary"} => {"events", "failed_unlocks"} \subseteq D
          /\ kind = "activity" => "entries" \in D
      BY <2>1, <2>4, AllCounted DEF Complete
    <3>3. ASSUME NEW x \in D
          PROVE  /\ x \in Stats => kind \in {"overview", "summary"}
                 /\ x = "failed_24h" => kind \in {"alerts", "summary"}
                 /\ x = "entries" => kind = "activity"
                 /\ x = "events" => kind \in {"activity", "summary"}
      <4> PICK i \in 1..Len(Called[kind]) : \E j \in 1..Len(Called[kind][i]) : x \in DOMAIN Called[kind][i][j]
        BY <2>1 DEF Before
      <4>1. PICK j \in 1..Len(Called[kind][i]) : x \in DOMAIN Called[kind][i][j]
        OBVIOUS
      <4>2. FieldIs(kind, i, j, x)
        BY <2>1, <4>1, FieldAt
      <4>3. QED
        BY <4>2 DEF FieldIs
    <3>4. /\ RowsOf["new_this_week"] \subseteq RowsOf["users"] /\ RowsOf["with_pin"] \subseteq RowsOf["vaults"]
          /\ RowsOf["by_status"] = RowsOf["vaults"] /\ RowsOf["by_role"] = RowsOf["members"]
          /\ RowsOf["lockouts_24h"] \subseteq RowsOf["failed_24h"]
          /\ RowsOf["failed_unlocks"] \subseteq RowsOf["events"]
          /\ RowsOf["entries"] = RowsOf["events"] /\ RowsOf["failed_unlocks"] = RowsOf["failed_24h"]
      BY DEF RowsOf, UserRows, VaultRows, LogRows, FailedRows
    <3>5. \A T \in SUBSET AllRows : \A S \in SUBSET T : SumOf(rows, S) <= SumOf(rows, T)
      BY <2>1, Totals
    <3>6. /\ RowsOf["users"] \in SUBSET AllRows /\ RowsOf["vaults"] \in SUBSET AllRows
          /\ RowsOf["failed_24h"] \in SUBSET AllRows /\ RowsOf["events"] \in SUBSET AllRows
      BY DEF RowsOf, AllRows, UserRows, VaultRows, LogRows, FailedRows, HourRows, LockoutRows
    <3>7. /\ SumOf(rows, RowsOf["new_this_week"]) <= SumOf(rows, RowsOf["users"])
          /\ SumOf(rows, RowsOf["with_pin"]) <= SumOf(rows, RowsOf["vaults"])
          /\ SumOf(rows, RowsOf["lockouts_24h"]) <= SumOf(rows, RowsOf["failed_24h"])
          /\ SumOf(rows, RowsOf["failed_unlocks"]) <= SumOf(rows, RowsOf["events"])
      BY <3>4, <3>5, <3>6
    <3>8. "users" \in D => Stats \subseteq D
      BY <3>2, <3>3 DEF Stats
    <3>9. "failed_24h" \in D => "lockouts_24h" \in D
      BY <3>2, <3>3
    <3>10. "events" \in D => "failed_unlocks" \in D
      BY <3>2, <3>3
    <3>11. "entries" \in D => "events" \in D
      BY <3>2, <3>3
    <3>12. kind = "summary" => "failed_unlocks" \in D /\ "failed_24h" \in D
      BY <3>2
    <3> HIDE DEF D
    <3>13. {"users", "members"} \subseteq D => /\ report["new_this_week"] <= report["users"]
                                                /\ report["with_pin"] <= report["vaults"]
                                                /\ report["by_status"] = report["vaults"]
                                                /\ report["by_role"] = report["members"]
      BY <3>1, <3>4, <3>7, <3>8 DEF Stats
    <3>14. /\ {"failed_24h"} \subseteq D => report["lockouts_24h"] <= report["failed_24h"]
           /\ {"events"} \subseteq D => report["failed_unlocks"] <= report["events"]
      BY <3>1, <3>7, <3>9, <3>10
    <3>15. /\ {"entries"} \subseteq D => report["entries"] = report["events"]
           /\ kind = "summary" => report["failed_unlocks"] = report["failed_24h"]
      BY <3>1, <3>4, <3>11, <3>12
    <3>16. QED
      BY <3>13, <3>14, <3>15
  <2>5. QED
    BY <2>2, <2>3, <2>4 DEF CountsNested
<1>2. QED
  BY <1>1, ReportsInvariance, PTL

\* The alerts endpoint and the summary make the same of the same counts, whatever they are.
LEMMA SeverityHolds ==
  ASSUME NEW failed \in Nat, NEW lockouts \in Nat
  PROVE  LET alerts == ActiveAlerts(failed, lockouts) IN
         /\ SecurityStatus(failed, lockouts) = DetermineStatus(alerts)
         /\ AlertCount(failed, lockouts) = Len(alerts)
<1> DEFINE a == FailedUnlockAlert(failed)
           b == PinLockoutAlert(lockouts)
<1> DEFINE Levels == {"critical", "high", "medium"}
<1>1. /\ \/ failed >= 20 /\ a = <<"critical">>
         \/ failed >= 5 /\ ~(failed >= 20) /\ a = <<"high">>
         \/ ~(failed >= 5) /\ a = <<>>
      /\ \/ lockouts >= 10 /\ b = <<"critical">>
         \/ lockouts >= 3 /\ ~(lockouts >= 10) /\ b = <<"medium">>
         \/ ~(lockouts >= 3) /\ b = <<>>
  BY DEF FailedUnlockAlert, PinLockoutAlert, FailedUnlockCritical, FailedUnlockWarning,
         PinLockoutCritical, PinLockoutWarning
<1>2. a \in Seq(Levels) /\ b \in Seq(Levels)
  <2>1. \A S : \A x \in S : <<x>> \in Seq(S)
    OBVIOUS
  <2>2. \A S : <<>> \in Seq(S)
    OBVIOUS
  <2> HIDE DEF a, b
  <2>3. QED
    BY <1>1, <2>1, <2>2
<1> HIDE DEF a, b
<1>3. /\ a \o b \in Seq(Levels) /\ Len(a \o b) = Len(a) + Len(b)
      /\ \A i \in 1..(Len(a) + Len(b)) : (a \o b)[i] = IF i <= Len(a) THEN a[i] ELSE b[i - Len(a)]
  BY <1>2
<1>4. /\ Len(a) = IF failed >= 5 THEN 1 ELSE 0
      /\ Len(b) = IF lockouts >= 3 THEN 1 ELSE 0
      /\ failed >= 5 => a[1] = IF failed >= 20 THEN "critical" ELSE "high"
      /\ lockouts >= 3 => b[1] = IF lockouts >= 10 THEN "critical" ELSE "medium"
  BY <1>1
<1>5. Len(a \o b) = (IF failed >= 5 THEN 1 ELSE 0) + (IF lockouts >= 3 THEN 1 ELSE 0)
  BY <1>3, <1>4
<1>6. a \o b = <<>> <=> ~(failed >= 5) /\ ~(lockouts >= 3)
  <2>1. a \o b = <<>> <=> Len(a \o b) = 0
    BY <1>3
  <2>2. QED
    BY <1>5, <2>1
<1>7. (\E i \in 1..Len(a \o b) : (a \o b)[i] = "critical") <=> failed >= 20 \/ lockouts >= 10
  <2>1. ASSUME failed >= 20
        PROVE  1 \in 1..Len(a \o b) /\ (a \o b)[1] = "critical"
    <3>1. failed >= 5 /\ Len(a) = 1 /\ a[1] = "critical" /\ Len(b) \in Nat
      BY <1>4, <2>1
    <3>2. QED
      BY <1>3, <3>1
  <2>2. ASSUME lockouts >= 10
        PROVE  Len(a) + 1 \in 1..Len(a \o b) /\ (a \o b)[Len(a) + 1] = "critical"
    <3>1. lockouts >= 3 /\ Len(b) = 1 /\ b[1] = "critical" /\ Len(a) \in Nat
      BY <1>4, <2>2
    <3>2. QED
      BY <1>3, <3>1
  <2>3. ASSUME NEW i \in 1..Len(a \o b), (a \o b)[i] = "critical"
        PROVE  failed >= 20 \/ lockouts >= 10
    <3>1. (a \o b)[i] = IF i <= Len(a) THEN a[i] ELSE b[i - Len(a)]
      BY <1>3
    <3>2. CASE i <= Len(a)
      <4>1. failed >= 5 /\ i = 1
        BY <1>4, <3>2
      <4>2. QED
        BY <1>4, <2>3, <3>1, <3>2, <4>1
    <3>3. CASE ~(i <= Len(a))
      <4>1. lockouts >= 3 /\ i - Len(a) = 1
        BY <1>3, <1>4, <3>3
      <4>2. QED
        BY <1>4, <2>3, <3>1, <3>3, <4>1
    <3>4. QED
      BY <3>2, <3>3
  <2>4. QED
    BY <2>1, <2>2, <2>3
<1>8. ActiveAlerts(failed, lockouts) = a \o b
  BY DEF ActiveAlerts, a, b
<1>9. AlertCount(failed, lockouts) = Len(a \o b)
  BY <1>5 DEF AlertCount, FailedUnlockWarning, PinLockoutWarning
<1>10. SecurityStatus(failed, lockouts) = DetermineStatus(a \o b)
  BY <1>6, <1>7 DEF SecurityStatus, DetermineStatus, FailedUnlockCritical, FailedUnlockWarning,
                    PinLockoutCritical, PinLockoutWarning
<1>11. QED
  BY <1>8, <1>9, <1>10

\* The alerts endpoint (alerts.py) and the summary (summary.py) come to the same status and
\* number of alerts, however many counts are compared.
THEOREM SeverityAlwaysAgrees == SeverityAgrees
<1>1. 0..MaxShown \subseteq Nat
  BY ReportsAssumption
<1>2. QED
  BY <1>1, SeverityHolds DEF SeverityAgrees

-----------------------------------------------------------------------------
LEMMA IntervalFinite ==
  \A a, b \in Nat : IsFiniteSet(a..b)
<1> TAKE a, b \in Nat
<1>1. a \in Int /\ b \in Int
  OBVIOUS
<1>2. QED
  BY <1>1, FS_Interval

\* The length of a function on 1..n.
LEMMA LenIs ==
  ASSUME NEW n \in Nat, NEW s \in [1..n -> Nat]
  PROVE  Len(s) = n
<1>1. s \in Seq(Nat)
  OBVIOUS
<1>2. Len(s) \in Nat /\ DOMAIN s = 1..Len(s) /\ DOMAIN s = 1..n
  BY <1>1
<1>3. QED
  BY <1>2

\* A series of counts has a first day with the highest count.
LEMMA PeakExists ==
  ASSUME NEW n \in Nat, n >= 1, NEW s \in [1..n -> Nat]
  PROVE  \E i \in 1..n : \A j \in 1..n : s[i] >= s[j] /\ (j < i => s[i] > s[j])
<1> DEFINE Highest(i, k) == \A j \in 1..n : j <= k => s[i] >= s[j] /\ (j < i => s[i] > s[j])
           P == {k \in Nat : k + 1 <= n => \E i \in 1..n : i <= k + 1 /\ Highest(i, k + 1)}
<1>1. 0 \in P
  <2>1. 1 \in 1..n /\ Highest(1, 1)
    OBVIOUS
  <2>2. QED
    BY <2>1
<1>2. ASSUME NEW k \in P
      PROVE  k + 1 \in P
  <2> SUFFICES ASSUME k + 2 <= n
               PROVE  \E i \in 1..n : i <= k + 2 /\ Highest(i, k + 2)
    OBVIOUS
  <2>1. PICK i \in 1..n : i <= k + 1 /\ Highest(i, k + 1)
    OBVIOUS
  <2>2. CASE s[k + 2] > s[i]
    <3>1. k + 2 \in 1..n
      OBVIOUS
    <3>2. Highest(k + 2, k + 2)
      BY <2>1, <2>2, <3>1
    <3>3. QED
      BY <3>1, <3>2
  <2>3. CASE ~(s[k + 2] > s[i])
    <3>1. Highest(i, k + 2)
      BY <2>1, <2>3
    <3>2. QED
      BY <2>1, <3>1
  <2>4. QED
    BY <2>2, <2>3
<1>3. P = Nat
  <2> HIDE DEF P
  <2>1. P \subseteq Nat
    BY DEF P
  <2>2. QED
    BY <1>1, <1>2, <2>1, SetInduction
<1>4. n - 1 \in Nat /\ (n - 1) + 1 = n
  OBVIOUS
<1>5. n - 1 \in P
  BY <1>3, <1>4
<1>6. QED
  BY <1>4, <1>5

\* A window lies in the days that rows are created on, and the series has their counts.
LEMMA DailyIs ==
  ASSUME NEW created \in [0..MaxDay -> 0..MaxDaily], NEW today \in 0..MaxDay,
         NEW days \in 1..(today + 1)
  PROVE  LET a == today - (days - 1)
             daily == ZeroFill(Grouped(created, a), a, today)
         IN /\ a \in 0..MaxDay /\ days \in Nat /\ days >= 1
            /\ daily \in [1..days -> Nat]
            /\ \A i \in 1..days : a + i - 1 \in 0..MaxDay /\ daily[i] = created[a + i - 1]
<1> DEFINE a == today - (days - 1)
           counts == Grouped(created, a)
           daily == ZeroFill(counts, a, today)
<1>1. a \in Nat /\ a \in 0..MaxDay /\ days \in Nat /\ days >= 1 /\ today - a + 1 = days
  BY TrendsAssumption
<1>2. \A i \in 1..days : a + i - 1 \in 0..MaxDay /\ a + i - 1 >= a
  BY <1>1, TrendsAssumption
<1>3. \A d \in 0..MaxDay : created[d] \in Nat
  BY TrendsAssumption
<1>4. \A d \in 0..MaxDay : d >= a =>
        (IF d \in DOMAIN counts THEN counts[d] ELSE 0) = created[d]
  BY <1>3 DEF Grouped
<1> HIDE DEF a, counts
<1>5. daily = [i \in 1..days |-> IF a + i - 1 \in DOMAIN counts THEN counts[a + i - 1] ELSE 0]
  BY <1>1 DEF ZeroFill
<1> HIDE DEF daily
<1>6. \A i \in 1..days : daily[i] = created[a + i - 1] /\ daily[i] \in Nat
  BY <1>2, <1>3, <1>4, <1>5
<1>7. daily \in [1..days -> Nat]
  <2>1. daily = [i \in 1..days |-> daily[i]]
    BY <1>5
  <2>2. QED
    BY <1>6, <2>1
<1>8. QED
  BY <1>1, <1>2, <1>6, <1>7 DEF a, counts, daily

\* The halves of a series: what they add up to, and their order when it is read backwards.
LEMMA Halves ==
  ASSUME NEW n \in Nat, n >= 1, NEW s \in [1..n -> Nat]
  PROVE  /\ n \div 2 \in Nat
         /\ SumOf(s, 1..(n \div 2)) \in Nat
         /\ SumOf(s, (n \div 2 + 1)..n) \in Nat
         /\ SumOf(s, 1..n) = SumOf(s, 1..(n \div 2)) + SumOf(s, (n \div 2 + 1)..n)
<1> DEFINE m == n \div 2
<1>1. m \in Nat /\ m <= n
  OBVIOUS
<1> HIDE DEF m
<1>2. 1..m \in SUBSET (1..n) /\ (m + 1)..n \in SUBSET (1..n)
  BY <1>1
<1>3. 1..m \cap (m + 1)..n = {} /\ 1..m \cup (m + 1)..n = 1..n
  BY <1>1
<1>4. IsFiniteSet(1..m) /\ IsFiniteSet((m + 1)..n)
  BY <1>1, IntervalFinite
<1>5. SumOf(s, 1..m) \in Nat /\ SumOf(s, (m + 1)..n) \in Nat
  BY <1>2, <1>4, SumIsNat
<1>6. SumOf(s, 1..n) = SumOf(s, 1..m) + SumOf(s, (m + 1)..n)
  <2> DEFINE A == 1..m
             B == (m + 1)..n
             D == 1..n
  <2>1. s \in [D -> Nat] /\ A \in SUBSET D /\ B \in SUBSET D /\ A \cap B = {} /\ D = A \cup B
    BY <1>2, <1>3
  <2>2. IsFiniteSet(A) /\ IsFiniteSet(B)
    BY <1>4
  <2> HIDE DEF A, B, D
  <2>3. Splits(D, s, D, A, B)
    BY <2>1, <2>2 DEF Splits
  <2>4. SumOf(s, D) = SumOf(s, A) + SumOf(s, B)
    BY <2>3, SumSplit
  <2>5. QED
    BY <2>4 DEF A, B, D
<1>7. QED
  BY <1>1, <1>5, <1>6 DEF m

LEMMA ReversedHalves ==
  ASSUME NEW n \in Nat, n >= 1, NEW s \in [1..n -> Nat],
         NEW back, back = [i \in 1..n |-> s[n + 1 - i]]
  PROVE  /\ back \in [1..n -> Nat]
         /\ SumOf(back, 1..(n \div 2)) <= SumOf(s, (n \div 2 + 1)..n)
         /\ SumOf(s, 1..(n \div 2)) <= SumOf(back, (n \div 2 + 1)..n)
         /\ n % 2 = 0 => /\ SumOf(back, 1..(n \div 2)) = SumOf(s, (n \div 2 + 1)..n)
                         /\ SumOf(back, (n \div 2 + 1)..n) = SumOf(s, 1..(n \div 2))
<1> DEFINE m == n \div 2
<1>1. m \in Nat /\ m <= n /\ m + m <= n /\ (n % 2 = 0 => n = m + m)
  OBVIOUS
<1> HIDE DEF m
<1>2. back \in [1..n -> Nat]
  OBVIOUS
<1>3. ASSUME NEW a \in Nat, NEW b \in Nat, 1 <= a, b <= n
      PROVE  SumOf(back, a..b) = SumOf(s, (n + 1 - b)..(n + 1 - a))
  <2> DEFINE h == [i \in a..b |-> n + 1 - i]
  <2>1. a..b \in SUBSET (1..n) /\ IsFiniteSet(a..b)
    BY <1>3, IntervalFinite
  <2>2. h \in [a..b -> 1..n]
    BY <1>3
  <2>3. /\ \A x, y \in a..b : h[x] = h[y] => x = y
        /\ \A x \in a..b : back[x] = s[h[x]]
    BY <1>3, <2>1
  <2>4. {h[x] : x \in a..b} = (n + 1 - b)..(n + 1 - a)
    <3>1. \A d \in (n + 1 - b)..(n + 1 - a) : n + 1 - d \in a..b /\ d = h[n + 1 - d]
      OBVIOUS
    <3>2. \A x \in a..b : h[x] \in (n + 1 - b)..(n + 1 - a)
      OBVIOUS
    <3> HIDE DEF h
    <3>3. QED
      BY <3>1, <3>2
  <2> HIDE DEF h
  <2> DEFINE A == a..b
             D == 1..n
  <2>5. /\ A \in SUBSET D /\ IsFiniteSet(A) /\ h \in [A -> D]
        /\ \A x, y \in A : h[x] = h[y] => x = y
        /\ \A x \in A : back[x] = s[h[x]]
        /\ s \in [D -> Nat] /\ back \in [D -> Nat]
    BY <1>2, <2>1, <2>2, <2>3
  <2> HIDE DEF A, D
  <2>6. Renames(D, back, A, D, s, (n + 1 - b)..(n + 1 - a), h)
    BY <2>4, <2>5 DEF A, Renames
  <2>7. SumOf(back, A) = SumOf(s, (n + 1 - b)..(n + 1 - a))
    BY <2>6, SumRenamed
  <2>8. QED
    BY <2>7 DEF A
<1>4. SumOf(back, 1..m) = SumOf(s, (n + 1 - m)..(n + 1 - 1))
  BY <1>1, <1>3
<1>5. SumOf(back, (m + 1)..n) = SumOf(s, (n + 1 - n)..(n + 1 - (m + 1)))
  BY <1>1, <1>3
<1>6. n + 1 - 1 = n /\ n + 1 - n = 1 /\ n + 1 - (m + 1) = n - m
  BY <1>1
<1>7. SumOf(back, 1..m) <= SumOf(s, (m + 1)..n)
  <2>1. SumOf(s, (n + 1 - m)..n) <= SumOf(s, (m + 1)..n)
    <3>1. /\ (n + 1 - m)..n \in SUBSET ((m + 1)..n) /\ (m + 1)..n \in SUBSET (1..n)
          /\ IsFiniteSet((m + 1)..n)
      BY <1>1, IntervalFinite
    <3>2. \A x \in (n + 1 - m)..n : s[x] <= s[x]
      BY <1>1
    <3>3. QED
      BY <3>1, <3>2, SumMonotone
  <2>2. QED
    BY <1>4, <1>6, <2>1
<1>8. SumOf(s, 1..m) <= SumOf(back, (m + 1)..n)
  <2>1. SumOf(s, 1..m) <= SumOf(s, 1..(n - m))
    <3>1. /\ 1..m \in SUBSET (1..(n - m)) /\ 1..(n - m) \in SUBSET (1..n)
          /\ IsFiniteSet(1..(n - m))
      BY <1>1, IntervalFinite
    <3>2. \A x \in 1..m : s[x] <= s[x]
      BY <1>1
    <3>3. QED
      BY <3>1, <3>2, SumMonotone
  <2>2. QED
    BY <1>5, <1>6, <2>1
<1>9. n % 2 = 0 => n + 1 - m = m + 1 /\ n - m = m
  BY <1>1
<1>10. QED
  BY <1>2, <1>4, <1>5, <1>6, <1>7, <1>8, <1>9 DEF m

\* The rows of the window are those of its days.
LEMMA WindowTotal ==
  ASSUME NEW created \in [0..MaxDay -> Nat], NEW n \in Nat, NEW a \in Nat,
         NEW s \in [1..n -> Nat],
         \A i \in 1..n : a + i - 1 \in 0..MaxDay /\ s[i] = created[a + i - 1]
  PROVE  SumOf(s, 1..n) = SumOf(created, a..(a + n - 1))
<1> DEFINE h == [i \in 1..n |-> a + i - 1]
<1>1. IsFiniteSet(1..n)
  BY IntervalFinite
<1>2. h \in [1..n -> 0..MaxDay]
  OBVIOUS
<1>3. /\ \A x, y \in 1..n : h[x] = h[y] => x = y
      /\ \A x \in 1..n : s[x] = created[h[x]]
  OBVIOUS
<1>4. {h[x] : x \in 1..n} = a..(a + n - 1)
  <2>1. \A d \in a..(a + n - 1) : d - a + 1 \in 1..n /\ d = h[d - a + 1]
    OBVIOUS
  <2>2. \A x \in 1..n : h[x] \in a..(a + n - 1)
    OBVIOUS
  <2> HIDE DEF h
  <2>3. QED
    BY <2>1, <2>2
<1> HIDE DEF h
<1> DEFINE D == 1..n
           E == 0..MaxDay
<1>5. /\ D \in SUBSET D /\ IsFiniteSet(D) /\ h \in [D -> E]
      /\ \A x, y \in D : h[x] = h[y] => x = y
      /\ \A x \in D : s[x] = created[h[x]]
      /\ s \in [D -> Nat] /\ created \in [E -> Nat]
  BY <1>1, <1>2, <1>3
<1> HIDE DEF D, E
<1>6. Renames(D, s, D, E, created, a..(a + n - 1), h)
  BY <1>4, <1>5 DEF D, Renames
<1>7. SumOf(s, D) = SumOf(created, a..(a + n - 1))
  BY <1>6, SumRenamed
<1>8. QED
  BY <1>7 DEF D

\* _build_series and _zero_fill (business_trends.py): for every window and any rows a series
\* has the days and the rows of its window, and its figures fit them.
THEOREM SeriesAlwaysFilled == SeriesFilled
<1> SUFFICES ASSUME NEW created \in [0..MaxDay -> 0..MaxDaily], NEW today \in 0..MaxDay,
                    NEW days \in 1..(today + 1)
             PROVE  LET s == Trend(created, days, today)
                        back == [i \in 1..days |-> s.daily[days + 1 - i]]
                    IN /\ Len(s.daily) = days
                       /\ s.total = SumOf(created, (today - days + 1)..today)
                       /\ s.peak # 0 => created[today - days + s.peak] > 0
                       /\ s.change = "none" <=> (days = 1 \/ s.total = 0)
                       /\ s.change = "down" => Change_pct(back) = "up"
                       /\ days % 2 = 0 => (s.change = "up" <=> Change_pct(back) = "down")
  BY DEF SeriesFilled
<1> DEFINE a == today - (days - 1)
           daily == ZeroFill(Grouped(created, a), a, today)
           s == Trend(created, days, today)
           back == [i \in 1..days |-> daily[days + 1 - i]]
           m == days \div 2
           first == SumOf(daily, 1..m)
           second == SumOf(daily, (m + 1)..days)
<1>1. /\ a \in 0..MaxDay /\ days \in Nat /\ days >= 1
      /\ daily \in [1..days -> Nat]
      /\ \A i \in 1..days : a + i - 1 \in 0..MaxDay /\ daily[i] = created[a + i - 1]
  BY DailyIs
<1>2. s = BuildSeries(daily)
  BY DEF Trend, Window
<1>3. a + days - 1 = today /\ a = today - days + 1
  BY TrendsAssumption
<1> HIDE DEF a, daily, s
<1>4. Len(daily) = days
  BY <1>1, LenIs
<1>5. /\ s.daily = daily
      /\ s.total = SumOf(daily, 1..days)
      /\ s.change = Change_pct(daily)
  BY <1>2, <1>4 DEF BuildSeries
<1>6. s.total = SumOf(created, (today - days + 1)..today)
  <2>1. created \in [0..MaxDay -> Nat] /\ a \in Nat
    BY <1>1, TrendsAssumption
  <2>2. SumOf(daily, 1..days) = SumOf(created, a..(a + days - 1))
    BY <1>1, <2>1, WindowTotal, ZenonT(30)
  <2>3. QED
    BY <1>3, <1>5, <2>2
<1>7. s.peak # 0 => created[today - days + s.peak] > 0
  <2> DEFINE peaks == {i \in 1..days : \A j \in 1..days :
                         daily[i] >= daily[j] /\ (j < i => daily[i] > daily[j])}
             peak == CHOOSE i \in peaks : TRUE
  <2>1. peak \in 1..days
    <3>1. \E i \in 1..days : i \in peaks
      BY <1>1, PeakExists
    <3>2. QED
      BY <3>1
  <2>2. s.peak = IF daily[peak] > 0 THEN peak ELSE 0
    BY <1>2, <1>4 DEF BuildSeries
  <2> HIDE DEF peak
  <2>3. a + peak - 1 = today - days + peak
    BY <1>1, <1>3, <2>1
  <2>4. QED
    BY <1>1, <2>1, <2>2, <2>3
<1>8. /\ m \in Nat /\ first \in Nat /\ second \in Nat
      /\ SumOf(daily, 1..days) = first + second
  BY <1>1, Halves
<1>9. Change_pct(daily) =
        IF days < 2 \/ (first = 0 /\ second = 0) THEN "none"
        ELSE IF second > first THEN "up" ELSE IF second < first THEN "down" ELSE "flat"
  BY <1>4 DEF Change_pct
<1>10. s.change = "none" <=> (days = 1 \/ s.total = 0)
  <2> HIDE DEF first, second, m
  <2>1. \A x, y \in Nat : x + y = 0 <=> (x = 0 /\ y = 0)
    OBVIOUS
  <2>2. days < 2 <=> days = 1
    BY <1>1
  <2>3. QED
    BY <1>5, <1>8, <1>9, <2>1, <2>2
<1>11. /\ s.change = "down" => Change_pct(back) = "up"
       /\ days % 2 = 0 => (s.change = "up" <=> Change_pct(back) = "down")
  <2> DEFINE early == SumOf(back, 1..m)
             late == SumOf(back, (m + 1)..days)
  <2>1. /\ back \in [1..days -> Nat]
        /\ early <= second /\ first <= late
        /\ days % 2 = 0 => early = second /\ late = first
    BY <1>1, ReversedHalves
  <2>2. early \in Nat /\ late \in Nat
    BY <1>1, <2>1, Halves
  <2> HIDE DEF back
  <2>3. Len(back) = days
    BY <1>1, <2>1, LenIs
  <2>4. Change_pct(back) =
          IF days < 2 \/ (early = 0 /\ late = 0) THEN "none"
          ELSE IF late > early THEN "up" ELSE IF late < early THEN "down" ELSE "flat"
    BY <2>1, <2>3 DEF Change_pct
  <2> HIDE DEF first, second, m, early, late
  <2>5. s.change = "down" => ~(days < 2) /\ second < first
    BY <1>5, <1>8, <1>9
  <2>6. second < first => early < late
    BY <1>8, <2>1, <2>2
  <2>7. s.change = "down" => Change_pct(back) = "up"
    BY <2>2, <2>4, <2>5, <2>6
  <2>8. days % 2 = 0 => (s.change = "up" <=> Change_pct(back) = "down")
    BY <1>5, <1>8, <1>9, <2>1, <2>4
  <2>9. QED
    BY <2>7, <2>8
<1>12. Len(s.daily) = days
  BY <1>4, <1>5
<1>13. back = [i \in 1..days |-> s.daily[days + 1 - i]]
  BY <1>5
<1> HIDE DEF back
<1>14. QED
  BY <1>6, <1>7, <1>10, <1>11, <1>12, <1>13 DEF s

-----------------------------------------------------------------------------
\* A screen gets four sets of data at most.
LEMMA FewGets ==
  ASSUME NEW s \in Screens
  PROVE  Len(Gets[s]) \in 1..4
BY DEF Screens, Gets, DashboardLoads, SecurityLoads, DiagnosticsLoads, ActivityLoads,
       AuditLoads, SessionsLoads, APIKeysLoads, TrendsLoads, NotificationsLoads

\* A key is created once and revoked for good.
LEMMA Ranks ==
  /\ DOMAIN Rank = {"none", "active", "revoked"}
  /\ Rank["none"] = 0 /\ Rank["active"] = 1 /\ Rank["revoked"] = 2
BY DEF Rank

\* The keys of s are at least as far in their lives as those of t.
NotBefore(s, t) == \A k \in Keys : Rank[s[k]] >= Rank[t[k]]

LEMMA NotBeforeOrder ==
  /\ NoKeys \in KeyTable
  /\ \A s \in KeyTable : NotBefore(s, s) /\ NotBefore(s, NoKeys)
  /\ \A s, t, u \in KeyTable : NotBefore(s, t) /\ NotBefore(t, u) => NotBefore(s, u)
<1>1. \A r \in DOMAIN Rank : Rank[r] \in Nat /\ Rank[r] >= Rank["none"]
  BY Ranks
<1>2. NoKeys \in KeyTable
  BY Ranks DEF NoKeys, KeyTable
<1>3. \A s \in KeyTable, k \in Keys : s[k] \in DOMAIN Rank
  BY DEF KeyTable
<1>4. QED
  BY <1>1, <1>2, <1>3 DEF NotBefore, NoKeys

-----------------------------------------------------------------------------
\* A screen that shows "Loading..." is being loaded; the line is shown while the load that
\* was started alone goes on, which is the only one then.
Loading ==
  /\ view = "loading" => \E l \in Starters : loads[l].at # "off"
  /\ clean => \A l \in Starters : loads[l].at # "off" =>
       view = "loading" /\ \A m \in Starters \ {l} : loads[m].at = "off"

\* The choice that a load was made for is the operator's last, unless another load waits.
LastChoice ==
  clean /\ queue = 0 =>
    /\ \A l \in Starters : loads[l].at # "off" => loads[l].want = choice
    /\ view = "content" => shown.want = choice

\* What a handler was answered is in the table, and what the console was told of is in
\* what is read or shown after it.
Answers ==
  /\ request.to = "none" => request.for = {}
  /\ request.at = "done" => \A k \in request.for : Rank[keys[k]] >= Rank[request.to]
  /\ NotBefore(keys, own)
  /\ clean => /\ \A l \in Starters : loads[l].at = "served" => NotBefore(loads[l].keys, own)
              /\ view = "content" => NotBefore(shown.keys, own)

ConsoleInv == ConsoleTypeOK /\ Loading /\ LastChoice /\ Answers

LEMMA ConsoleInvInit == ConsoleInit => ConsoleInv
<1> SUFFICES ASSUME ConsoleInit
             PROVE  ConsoleInv
  OBVIOUS
<1>1. NoKeys \in KeyTable /\ NotBefore(NoKeys, NoKeys) /\ "none" \in DOMAIN Rank
  BY NotBeforeOrder, Ranks
<1>2. First \in Options /\ MaxQueue \in Nat
  BY ConsoleAssumption
<1>3. /\ Asked(1, First) \in Load /\ Asked(1, First).at = "asked" /\ Asked(1, First).want = First
      /\ NoLoad \in Load /\ NoLoad.at = "off"
  BY <1>1, <1>2 DEF Asked, NoLoad, Load
<1>4. /\ loads \in [Starters -> Load]
      /\ \A l \in Starters : loads[l] = IF l = "mount" THEN Asked(1, First) ELSE NoLoad
  BY <1>3 DEF ConsoleInit
<1>5. ConsoleTypeOK
  BY <1>1, <1>2, <1>4 DEF ConsoleInit, ConsoleTypeOK, NoShow, NoRequest, Request
<1>6. Loading
  BY <1>3, <1>4 DEF ConsoleInit, Loading, Starters
<1>7. LastChoice
  BY <1>3, <1>4 DEF ConsoleInit, LastChoice
<1>8. Answers
  BY <1>1, <1>3, <1>4 DEF ConsoleInit, Answers, NoRequest
<1>9. QED
  BY <1>5, <1>6, <1>7, <1>8 DEF ConsoleInv

\* A load that is started.
LEMMA BeginStep ==
  ASSUME ConsoleInv, NEW l \in Starters, NEW c \in Options, Begin(l, c), choice' = c,
         queue' \in 0..MaxQueue, UNCHANGED <<screen, shown, keys>>,
         own' \in KeyTable, NotBefore(keys, own'), request' \in {request, NoRequest}
  PROVE  ConsoleInv'
<1> DEFINE a == Asked(1, c)
<1>1. a \in Load /\ a.at = "asked" /\ a.want = c
  BY NotBeforeOrder DEF Asked, Load
<1> HIDE DEF a
<1>2. /\ loads' \in [Starters -> Load]
      /\ \A m \in Starters : loads'[m] = IF m = l THEN a ELSE loads[m]
  BY <1>1 DEF Begin, ConsoleInv, ConsoleTypeOK, a
<1>3. view' = "loading" /\ clean' = \A m \in Starters \ {l} : loads[m].at = "off"
  BY DEF Begin
<1>4. NoRequest \in Request /\ NoRequest.to = "none" /\ NoRequest.for = {} /\ NoRequest.at = "off"
  BY Ranks DEF NoRequest, Request
<1>5. ConsoleTypeOK'
  BY <1>2, <1>3, <1>4 DEF ConsoleInv, ConsoleTypeOK
<1>6. Loading'
  BY <1>1, <1>2, <1>3 DEF Loading
<1>7. LastChoice'
  BY <1>1, <1>2, <1>3 DEF LastChoice
<1>8. Answers'
  BY <1>1, <1>2, <1>3, <1>4 DEF ConsoleInv, Answers, NotBefore
<1>9. QED
  BY <1>5, <1>6, <1>7, <1>8 DEF ConsoleInv

\* Each step keeps the invariant: one that starts a load by BeginStep, the others one by one.
LEMMA ConsoleInvStep == ConsoleInv /\ [ConsoleNext]_consoleVars => ConsoleInv'
<1> SUFFICES ASSUME ConsoleInv, [ConsoleNext]_consoleVars
             PROVE  ConsoleInv'
  OBVIOUS
<1>0. /\ screen \in Screens /\ choice \in Options /\ loads \in [Starters -> Load]
      /\ queue \in 0..MaxQueue /\ keys \in KeyTable /\ own \in KeyTable /\ request \in Request
      /\ MaxQueue \in Nat /\ First \in Options
      /\ "mount" \in Starters /\ "refresh" \in Starters /\ "later" \in Starters /\ "button" \in Starters
  BY ConsoleAssumption DEF ConsoleInv, ConsoleTypeOK, Starters
<1>00. /\ NoLoad \in Load /\ NoLoad.at = "off" /\ NoRequest \in Request /\ NoRequest.at = "off"
       /\ NoRequest.to = "none" /\ NoRequest.for = {}
  BY <1>0, NotBeforeOrder, Ranks DEF NoLoad, Asked, Load, NoRequest, Request
<1>1. CASE UNCHANGED consoleVars
  BY <1>1 DEF consoleVars, ConsoleInv, ConsoleTypeOK, Loading, LastChoice, Answers, NotBefore
<1>2. ASSUME NEW l \in Starters, Serve(l)
      PROVE  ConsoleInv'
  <2> DEFINE a == [loads[l] EXCEPT !.at = "served", !.keys = keys]
  <2>1. a \in Load /\ a.at = "served" /\ a.keys = keys /\ a.want = loads[l].want
    BY <1>0 DEF Load
  <2>2. loads' = [loads EXCEPT ![l] = a] /\ loads[l].at # "off"
    BY <1>0, <1>2 DEF Serve
  <2> HIDE DEF a
  <2>3. /\ loads' \in [Starters -> Load]
        /\ \A m \in Starters : loads'[m] = IF m = l THEN a ELSE loads[m]
    BY <1>0, <2>1, <2>2
  <2>4. ConsoleTypeOK'
    BY <1>2, <2>3 DEF ConsoleInv, ConsoleTypeOK, Serve
  <2>5. Loading'
    BY <1>2, <2>1, <2>2, <2>3 DEF ConsoleInv, Loading, Serve
  <2>6. LastChoice'
    BY <1>2, <2>1, <2>2, <2>3 DEF ConsoleInv, LastChoice, Serve
  <2>7. Answers'
    BY <1>2, <2>1, <2>3 DEF ConsoleInv, Answers, NotBefore, Serve
  <2>8. QED
    BY <2>4, <2>5, <2>6, <2>7 DEF ConsoleInv
<1>3. ASSUME NEW l \in Starters, Answered(l), loads[l].get < Len(Gets[screen])
      PROVE  ConsoleInv'
  <2> DEFINE a == Asked(loads[l].get + 1, loads[l].want)
  <2>1. loads[l].get + 1 \in 1..4 /\ loads[l].want \in Options
    <3>1. loads[l].get \in 1..4 /\ loads[l].want \in Options
      BY <1>0 DEF Load
    <3>2. Len(Gets[screen]) \in 1..4
      BY <1>0, FewGets
    <3>3. \A g, n \in 1..4 : g < n => g + 1 \in 1..4
      OBVIOUS
    <3>4. QED
      BY <1>3, <3>1, <3>2, <3>3
  <2>2. a \in Load /\ a.at = "asked" /\ a.want = loads[l].want
    BY <2>1, NotBeforeOrder DEF Load, Asked
  <2>3. loads' = [loads EXCEPT ![l] = a] /\ loads[l].at # "off"
    BY <1>3 DEF Answered
  <2> HIDE DEF a
  <2>4. /\ loads' \in [Starters -> Load]
        /\ \A m \in Starters : loads'[m] = IF m = l THEN a ELSE loads[m]
    BY <1>0, <2>2, <2>3
  <2>5. UNCHANGED <<screen, choice, queue, shown, view, request, keys, own, clean>>
    BY <1>3 DEF Answered
  <2>6. ConsoleTypeOK'
    BY <2>4, <2>5 DEF ConsoleInv, ConsoleTypeOK
  <2>7. Loading'
    BY <2>2, <2>3, <2>4, <2>5 DEF ConsoleInv, Loading
  <2>8. LastChoice'
    BY <2>2, <2>3, <2>4, <2>5 DEF ConsoleInv, LastChoice
  <2>9. Answers'
    BY <2>2, <2>4, <2>5 DEF ConsoleInv, Answers, NotBefore
  <2>10. QED
    BY <2>6, <2>7, <2>8, <2>9 DEF ConsoleInv
\* A load that ends, with its data or without.
<1>4. ASSUME NEW l \in Starters, loads[l].at # "off", End(l),
             UNCHANGED <<screen, choice, queue, request, keys, own, clean>>,
             \/ /\ loads[l].at = "served" /\ view' = "content"
                /\ shown' = [ever |-> TRUE, want |-> loads[l].want, keys |-> loads[l].keys]
             \/ /\ UNCHANGED shown
                /\ view' \in {"content", "error"} /\ (view' = "content" => view = "content")
      PROVE  ConsoleInv'
  <2>1. /\ loads' \in [Starters -> Load]
        /\ \A m \in Starters : loads'[m] = IF m = l THEN NoLoad ELSE loads[m]
    BY <1>0, <1>00, <1>4 DEF End
  <2>2. loads[l].want \in Options /\ loads[l].keys \in KeyTable
    BY <1>0 DEF Load
  <2>3. shown' \in [ever : BOOLEAN, want : Options, keys : KeyTable]
    <3>1. shown \in [ever : BOOLEAN, want : Options, keys : KeyTable]
      BY DEF ConsoleInv, ConsoleTypeOK
    <3>2. [ever |-> TRUE, want |-> loads[l].want, keys |-> loads[l].keys]
            \in [ever : BOOLEAN, want : Options, keys : KeyTable]
      BY <2>2
    <3>3. QED
      BY <1>4, <3>1, <3>2
  <2>4. view' \in {"content", "error"}
    BY <1>4
  <2>5. ConsoleTypeOK'
    BY <1>4, <2>1, <2>3, <2>4 DEF ConsoleInv, ConsoleTypeOK
  <2>6. Loading'
    BY <1>00, <1>4, <2>1, <2>4 DEF ConsoleInv, Loading
  <2>7. LastChoice'
    BY <1>00, <1>4, <2>1 DEF ConsoleInv, LastChoice
  <2>8. Answers'
    <3>1. ASSUME clean, view' = "content"
          PROVE  NotBefore(shown'.keys, own)
      BY <1>4, <3>1 DEF ConsoleInv, Answers
    <3>2. QED
      BY <1>00, <1>4, <2>1, <3>1 DEF ConsoleInv, Answers, NotBefore
  <2>9. QED
    BY <2>5, <2>6, <2>7, <2>8 DEF ConsoleInv
<1>5. ASSUME NEW l \in Starters, Answered(l)
      PROVE  ConsoleInv'
  <2>1. CASE loads[l].get < Len(Gets[screen])
    BY <1>3, <1>5, <2>1
  <2>2. CASE ~(loads[l].get < Len(Gets[screen]))
    BY <1>4, <1>5, <2>2 DEF Answered
  <2>3. QED
    BY <2>1, <2>2
<1>6. ASSUME NEW l \in Starters, Fail(l)
      PROVE  ConsoleInv'
  BY <1>4, <1>6 DEF Fail
<1>7. ASSUME NEW c \in Options, Refresh(c)
      PROVE  ConsoleInv'
  BY <1>0, <1>7, BeginStep DEF Refresh, ConsoleInv, Answers
<1>8. ASSUME NEW c \in Options, Choose(c)
      PROVE  ConsoleInv'
  <2>1. queue' \in 0..MaxQueue /\ queue' # 0 /\ choice' \in Options
    BY <1>0, <1>8 DEF Choose
  <2>2. UNCHANGED <<screen, loads, shown, view, request, keys, own, clean>>
    BY <1>8 DEF Choose
  <2>3. QED
    BY <2>1, <2>2 DEF ConsoleInv, ConsoleTypeOK, Loading, LastChoice, Answers, NotBefore
<1>9. CASE RunLater
  <2>1. queue' \in 0..MaxQueue
    BY <1>0, <1>9 DEF RunLater
  <2>2. QED
    BY <1>0, <1>9, <2>1, BeginStep DEF RunLater, ConsoleInv, Answers
\* A step of the operator's request, which leaves the loads.
<1>10. ASSUME request' \in Request, request'.at # "done", request'.to = "none" => request'.for = {},
              UNCHANGED <<screen, choice, loads, queue, shown, view, keys, own, clean>>
       PROVE  ConsoleInv'
  BY <1>10 DEF ConsoleInv, ConsoleTypeOK, Loading, LastChoice, Answers, NotBefore
<1>11. ASSUME NEW to \in DOMAIN Rank, NEW for \in SUBSET Keys, to = "none" => for = {}, Press(to, for)
       PROVE  ConsoleInv'
  <2>1. /\ request' \in Request /\ request'.at = "sent" /\ request'.to = to /\ request'.for = for
    BY <1>11 DEF Press, Request
  <2>2. QED
    BY <1>10, <1>11, <2>1 DEF Press
<1>12. CASE RevokeSessions
  <2>1. "none" \in DOMAIN Rank /\ {} \in SUBSET Keys
    BY Ranks
  <2>2. QED
    BY <1>11, <1>12, <2>1 DEF RevokeSessions
<1>13. ASSUME NEW k \in Keys, CreateKey(k) \/ RevokeSelectedKey(k)
       PROVE  ConsoleInv'
  <2>1. "active" \in DOMAIN Rank /\ "revoked" \in DOMAIN Rank /\ {k} \in SUBSET Keys
    BY Ranks
  <2>2. CASE CreateKey(k)
    BY <1>11, <2>1, <2>2 DEF CreateKey
  <2>3. CASE RevokeSelectedKey(k)
    BY <1>11, <2>1, <2>3 DEF RevokeSelectedKey
  <2>4. QED
    BY <1>13, <2>2, <2>3
<1>14. CASE ReplyLost
  BY <1>00, <1>10, <1>14 DEF ReplyLost
<1>15. CASE RevokeNothing
  <2>1. loads' \in [Starters -> Load] /\ \A l \in Starters : loads'[l] = NoLoad
    BY <1>00, <1>15 DEF RevokeNothing
  <2>2. queue' \in 0..MaxQueue /\ view' = "ended" /\ shown' = NoShow
        /\ UNCHANGED <<screen, choice, request, keys, own, clean>>
    BY <1>0, <1>15 DEF RevokeNothing
  <2>3. NoShow \in [ever : BOOLEAN, want : Options, keys : KeyTable]
    BY <1>0, NotBeforeOrder DEF NoShow
  <2>4. ConsoleTypeOK'
    BY <2>1, <2>2, <2>3 DEF ConsoleInv, ConsoleTypeOK
  <2>5. QED
    BY <1>00, <2>1, <2>2, <2>4 DEF ConsoleInv, Loading, LastChoice, Answers, NotBefore
<1>16. CASE Start
  BY <1>0, <1>16, BeginStep DEF Start, ConsoleInv, Answers
<1>17. ASSUME keys' \in KeyTable, NotBefore(keys', keys), request' \in Request,
              request'.to = request.to, request'.for = request.for,
              request'.at = "done" => \A k \in request.for : Rank[keys'[k]] >= Rank[request.to],
              UNCHANGED <<screen, choice, loads, queue, shown, view, own, clean>>
       PROVE  ConsoleInv'
  <2>1. NotBefore(keys', own)
    BY <1>0, <1>17, NotBeforeOrder DEF ConsoleInv, Answers
  <2>2. QED
    BY <1>17, <2>1 DEF ConsoleInv, ConsoleTypeOK, Loading, LastChoice, Answers, NotBefore
<1>18. CASE Commit
  <2>1. request.to \in DOMAIN Rank /\ request.for \subseteq Keys
    BY <1>0 DEF Request
  <2>2. /\ request' \in Request /\ request'.to = request.to /\ request'.for = request.for
    BY <1>0, <1>18 DEF Commit, Request
  <2>3. /\ keys' \in KeyTable
        /\ \A k \in Keys : keys'[k] = IF k \in request.for THEN request.to ELSE keys[k]
    BY <1>0, <1>18, <2>1 DEF Commit, KeyTable
  <2>4. \A k \in request.for : Rank[keys'[k]] >= Rank[request.to]
    BY <2>1, <2>3, Ranks
  <2>5. ASSUME NEW k \in Keys
        PROVE  Rank[keys'[k]] >= Rank[keys[k]]
    <3>1. keys[k] \in DOMAIN Rank
      BY <1>0 DEF KeyTable
    <3>2. k \in request.for => request.to # "none" /\ (request.to = "active" => keys[k] = "none")
      BY <1>18 DEF ConsoleInv, Answers, Commit
    <3>3. QED
      BY <2>1, <2>3, <3>1, <3>2, Ranks
  <2>6. QED
    BY <1>17, <1>18, <2>2, <2>3, <2>4, <2>5 DEF Commit, NotBefore
<1>19. CASE Reply
  <2>1. request.to \in DOMAIN Rank /\ request.for \subseteq Keys
    BY <1>0 DEF Request
  <2>2. /\ own' \in KeyTable
        /\ \A k \in Keys : own'[k] = IF k \in request.for THEN request.to ELSE own[k]
    BY <1>0, <1>19, <2>1 DEF Reply, KeyTable
  <2>3. NotBefore(keys, own')
    BY <1>19, <2>2 DEF ConsoleInv, Answers, Reply, NotBefore
  <2>4. QED
    BY <1>0, <1>19, <2>2, <2>3, BeginStep DEF Reply
<1>20. ASSUME NEW k \in Keys, OtherChange(k)
       PROVE  ConsoleInv'
  <2>1. PICK r \in {"active", "revoked"} : /\ keys' = [keys EXCEPT ![k] = r]
                                           /\ Rank[r] >= Rank[keys[k]]
    BY <1>20, Ranks DEF OtherChange
  <2>2. keys' \in KeyTable /\ \A j \in Keys : keys'[j] = IF j = k THEN r ELSE keys[j]
    BY <1>0, <2>1, Ranks DEF KeyTable
  <2>3. NotBefore(keys', keys)
    BY <1>0, <2>1, <2>2, NotBeforeOrder DEF NotBefore
  <2>4. request.at = "done" => \A j \in request.for : Rank[keys'[j]] >= Rank[request.to]
    <3> SUFFICES ASSUME request.at = "done", NEW j \in request.for
                 PROVE  Rank[keys'[j]] >= Rank[request.to]
      OBVIOUS
    <3>1. j \in Keys /\ request.to \in DOMAIN Rank /\ keys[j] \in DOMAIN Rank /\ keys'[j] \in DOMAIN Rank
      BY <1>0, <2>2 DEF Request, KeyTable
    <3>2. Rank[keys[j]] >= Rank[request.to] /\ Rank[keys'[j]] >= Rank[keys[j]]
      BY <2>3, <3>1 DEF ConsoleInv, Answers, NotBefore
    <3>3. QED
      BY <3>1, <3>2, Ranks
  <2>5. QED
    BY <1>0, <1>17, <1>20, <2>2, <2>3, <2>4 DEF OtherChange
<1>21. QED
  BY <1>1, <1>2, <1>5, <1>6, <1>7, <1>8, <1>9, <1>12, <1>13, <1>14, <1>15, <1>16, <1>18, <1>19,
     <1>20 DEF ConsoleNext

LEMMA ConsoleInvariance == ConsoleSpec => []ConsoleInv
BY ConsoleInvInit, ConsoleInvStep, PTL DEF ConsoleSpec

\* The loads of a screen, what it shows and the request of its buttons are well typed.
THEOREM ConsoleTypesHold == ConsoleSpec => []ConsoleTypeOK
BY ConsoleInvariance, PTL DEF ConsoleInv

\* However load_data, refresh and call_later overlap, are cancelled or fail, a screen on
\* which nothing is under way does not go on saying "Loading...".
THEOREM AnswersHold == ConsoleSpec => []QuietMeansAnswered
<1>1. ConsoleInv => QuietMeansAnswered
  BY DEF ConsoleInv, Loading, QuietMeansAnswered, Quiet
<1>2. QED
  BY <1>1, ConsoleInvariance, PTL

\* A screen whose loads did not overlap shows the operator's last choice, and the API keys
\* at least as the answers to create and revoke told the console that they are.
THEOREM OwnChangesHold == ConsoleSpec => []OwnChangesShown
<1>1. ConsoleInv => OwnChangesShown
  BY DEF ConsoleInv, LastChoice, Answers, NotBefore, OwnChangesShown, Quiet
<1>2. QED
  BY <1>1, ConsoleInvariance, PTL

-----------------------------------------------------------------------------
\* The composition: a behaviour of the parts together is one of each.
LEMMA AdminImplements ==
  AdminSpec => SessionsSpec /\ ReportsSpec /\ ConsoleSpec
<1>1. AdminInit => SessionsInit /\ ReportsInit /\ ConsoleInit
  BY DEF AdminInit
<1>2. [AdminNext]_<<part, sessionsVars, reportsVars, consoleVars>> =>
        /\ [SessionsNext]_sessionsVars /\ [ReportsNext]_reportsVars /\ [ConsoleNext]_consoleVars
  BY DEF AdminNext
<1>3. QED
  BY <1>1, <1>2, PTL DEF AdminSpec, SessionsSpec, ReportsSpec, ConsoleSpec

\* The three parts (refresh tokens and the limiter, the queries of the admin API, the
\* console's screens) are well typed in their composition.
THEOREM AdminTypesHold == AdminSpec => []AdminTypeOK
BY AdminImplements, SessionsTypesHold, ReportsTypesHold, ConsoleTypesHold, PTL DEF AdminTypeOK

\* In the composition the reports' figures agree, for every count that the alerts may be
\* raised for and every series of days (alerts.py and the console's summary, trends.py).
THEOREM FiguresHold == AdminSpec => []FiguresAgree
<1>1. FiguresAgree
  BY SeverityAlwaysAgrees, SeriesAlwaysFilled DEF FiguresAgree
<1>2. QED
  BY <1>1, PTL

\* In the composition a session keeps one token and what a revocation leaves was stored
\* after it began; the counts of a report nest; and a quiet screen shows what it was answered and
\* the operator's own changes.
THEOREM AdminPartsHold ==
  AdminSpec => /\ []OneTokenPerSession /\ []RevocationSweeps
               /\ []CountsNested
               /\ []QuietMeansAnswered /\ []OwnChangesShown
BY AdminImplements, OneTokenHolds, RevocationHolds, CountsHold, AnswersHold, OwnChangesHold, PTL
=============================================================================
