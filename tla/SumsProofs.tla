------------------------------- MODULE SumsProofs -------------------------------
(* The laws of sums over finite sets. A sum is a fold, that is a recursive     *)
(* function, so what it returns has to be found by induction over the set: the *)
(* subsets of a finite set are well founded under inclusion, and a smallest    *)
(* counterexample to a law is refuted (MinimalSubset). From the recursive      *)
(* equation (SumAny) follow the laws the other modules cite: SumRemove, SumAdd *)
(* and SumChange for one element, SumCongruent, SumPlus, SumMonotone, SumZero  *)
(* and SumAppend for the whole, and MaxOf for the greatest number of a set.    *)
EXTENDS Sums, FiniteSetTheorems, TLAPS

Picked(s) == CHOOSE x \in s : TRUE
Step(f, g, s) == IF s = {} THEN 0 ELSE f[Picked(s)] + g[s \ {Picked(s)}]
Solves(f, g, S) == \A s \in SUBSET S : g[s] = Step(f, g, s)
IsSum(f, g, S) == g = [s \in SUBSET S |-> Step(f, g, s)]
TheSum(f, S) == CHOOSE g : IsSum(f, g, S)

(* A sum over S is the value at S of the recursive function behind it.        *)
LEMMA Unfold == ASSUME NEW f, NEW S PROVE SumOver(f, S) = TheSum(f, S)[S]
  BY DEF SumOver, MapThenSumSet, MapThenFoldSet, TheSum, IsSum, Step, Picked

(* Among some subsets of a finite set there is one that contains none of the  *)
(* others. Every induction over data in these modules is an appeal to it: a   *)
(* smallest counterexample cannot be.                                         *)
LEMMA MinimalSubset ==
    ASSUME NEW S, IsFiniteSet(S), NEW Bad, Bad \subseteq SUBSET S, Bad # {}
    PROVE  \E T \in Bad : \A U \in Bad : U \subseteq T => U = T
<1>1. IsWellFoundedOn(StrictSubsetOrdering(S), SUBSET S)
  BY FS_StrictSubsetOrderingWellFounded, FS_FiniteSubsetsOfFinite
<1>2. PICK T \in Bad : \A U \in Bad : <<U, T>> \notin StrictSubsetOrdering(S)
  BY <1>1, WFMin
<1>. QED BY <1>2 DEF StrictSubsetOrdering

(* The recursive equation of a sum has at most one solution on the subsets of *)
(* S.                                                                         *)
LEMMA SumsAgree ==
    ASSUME NEW S, IsFiniteSet(S), NEW f, NEW g, NEW h, Solves(f, g, S), Solves(f, h, S)
    PROVE  \A s \in SUBSET S : g[s] = h[s]
<1>. DEFINE Bad == {s \in SUBSET S : g[s] # h[s]}
<1>. SUFFICES ASSUME Bad # {} PROVE FALSE
  OBVIOUS
<1>0. Bad \subseteq SUBSET S
  OBVIOUS
<1>. HIDE DEF Bad
<1>1. PICK T \in Bad : \A U \in Bad : U \subseteq T => U = T
  BY <1>0, MinimalSubset
<1>2. T \in SUBSET S /\ g[T] # h[T]
  BY <1>1 DEF Bad
<1>3. T # {}
  BY <1>2 DEF Step, Solves
<1>4. Picked(T) \in T
  BY <1>3 DEF Picked
<1>5. T \ {Picked(T)} \notin Bad
  BY <1>1, <1>4
<1>6. g[T \ {Picked(T)}] = h[T \ {Picked(T)}]
  BY <1>2, <1>5 DEF Bad
<1>. QED BY <1>2, <1>3, <1>6 DEF Step, Solves

(* ... and it has one, so what CHOOSE picks solves it.                        *)
LEMMA SumExists == ASSUME NEW S, IsFiniteSet(S), NEW f PROVE \E g : IsSum(f, g, S)
<1>. DEFINE Bad == {s \in SUBSET S : ~\E g : IsSum(f, g, s)}
<1>. SUFFICES ASSUME Bad # {} PROVE FALSE
  BY S \in SUBSET S
<1>0. Bad \subseteq SUBSET S
  OBVIOUS
<1>. HIDE DEF Bad
<1>1. PICK T \in Bad : \A U \in Bad : U \subseteq T => U = T
  BY <1>0, MinimalSubset
<1>. USE DEF Bad
<1>. DEFINE G(s) == CHOOSE g : IsSum(f, g, s)
            g == [s \in SUBSET T |->
                    IF s # T THEN G(s)[s] ELSE IF T = {} THEN 0 ELSE f[Picked(T)] + G(T \ {Picked(T)})[T \ {Picked(T)}]]
<1>2. T \in SUBSET S /\ ~\E x : IsSum(f, x, T)
  BY <1>1
<1>3. ASSUME NEW s \in SUBSET T, s # T PROVE IsFiniteSet(s) /\ IsSum(f, G(s), s)
  <2>1. s \notin Bad
    BY <1>1, <1>3
  <2>2. \E x : IsSum(f, x, s)
    BY <2>1, <1>2
  <2>3. IsFiniteSet(s)
    BY <1>2, FS_Subset
  <2>. QED BY <2>2, <2>3
<1>. HIDE DEF G
<1>4. ASSUME NEW s \in SUBSET T, s # T, NEW u \in SUBSET s PROVE G(s)[u] = G(u)[u]
  <2>1. u # T
    BY <1>4
  <2>2. Solves(f, G(s), u)
    BY <1>3, <1>4 DEF IsSum, Solves
  <2>3. Solves(f, G(u), u)
    BY <1>3, <1>4, <2>1 DEF IsSum, Solves
  <2>4. IsFiniteSet(u)
    BY <1>3, <2>1
  <2>5. \A x \in SUBSET u : G(s)[x] = G(u)[x]
    BY <2>2, <2>3, <2>4, SumsAgree
  <2>. QED BY <2>5
<1>5. ASSUME NEW s \in SUBSET T PROVE g[s] = Step(f, g, s)
  <2>1. CASE s = {}
    <3>1. CASE T = {}
      BY <2>1, <3>1 DEF Step
    <3>2. CASE T # {}
      BY <2>1, <3>2, <1>3 DEF Step, IsSum
    <3>. QED BY <3>1, <3>2
  <2>2. CASE s # {}
    <3>1. Picked(s) \in s /\ s \ {Picked(s)} \in SUBSET T /\ s \ {Picked(s)} # T
      BY <2>2 DEF Picked
    <3>2. g[s \ {Picked(s)}] = G(s \ {Picked(s)})[s \ {Picked(s)}]
      BY <3>1
    <3>3. CASE s = T
      BY <2>2, <3>2, <3>3 DEF Step
    <3>4. CASE s # T
      <4>1. G(s)[s] = f[Picked(s)] + G(s)[s \ {Picked(s)}]
        BY <1>3, <2>2, <3>4 DEF IsSum, Step
      <4>2. G(s)[s \ {Picked(s)}] = G(s \ {Picked(s)})[s \ {Picked(s)}]
        BY <1>4, <3>4, s \ {Picked(s)} \in SUBSET s
      <4>. QED BY <4>1, <4>2, <3>2, <3>4, <2>2 DEF Step
    <3>. QED BY <3>3, <3>4
  <2>. QED BY <2>1, <2>2
<1>6. IsSum(f, g, T)
  <2>. HIDE DEF g
  <2>1. g = [s \in SUBSET T |-> g[s]]
    BY DEF g
  <2>. QED BY <1>5, <2>1 DEF IsSum
<1>. QED BY <1>2, <1>6

(* The function that sums S sums each subset of S as well.                    *)
LEMMA SumOfSubset ==
    ASSUME NEW S, IsFiniteSet(S), NEW f
    PROVE  \A s \in SUBSET S : SumOver(f, s) = TheSum(f, S)[s]
<1>1. \A s \in SUBSET S : IsFiniteSet(s)
  BY FS_Subset
<1>2. \A s \in SUBSET S : IsSum(f, TheSum(f, s), s)
  BY <1>1, SumExists DEF TheSum
<1>. SUFFICES ASSUME NEW s \in SUBSET S PROVE TheSum(f, s)[s] = TheSum(f, S)[s]
  BY Unfold
<1>3. Solves(f, TheSum(f, s), s)
  BY <1>2 DEF IsSum, Solves
<1>4. Solves(f, TheSum(f, S), s)
  BY <1>2, S \in SUBSET S DEF IsSum, Solves
<1>5. \A x \in SUBSET s : TheSum(f, s)[x] = TheSum(f, S)[x]
  BY <1>1, <1>3, <1>4, SumsAgree
<1>. QED BY <1>5

(* Nothing sums to zero.                                                      *)
THEOREM SumEmpty == ASSUME NEW f PROVE SumOver(f, {}) = 0
<1>1. IsSum(f, TheSum(f, {}), {})
  BY FS_EmptySet, SumExists DEF TheSum
<1>. QED BY <1>1, Unfold DEF IsSum, Step

(* A sum is the term of the element CHOOSE picks, and the sum of the others.  *)
LEMMA SumAny ==
    ASSUME NEW S, IsFiniteSet(S), S # {}, NEW f
    PROVE  Picked(S) \in S /\ SumOver(f, S) = f[Picked(S)] + SumOver(f, S \ {Picked(S)})
<1>1. IsSum(f, TheSum(f, S), S)
  BY SumExists DEF TheSum
<1>2. TheSum(f, S)[S] = f[Picked(S)] + TheSum(f, S)[S \ {Picked(S)}]
  BY <1>1 DEF IsSum, Step
<1>. QED BY <1>2, SumOfSubset DEF Picked

\* A sum of integers is one.
THEOREM SumType ==
    ASSUME NEW S, IsFiniteSet(S), NEW f, \A x \in S : f[x] \in Int
    PROVE  SumOver(f, S) \in Int
<1>. DEFINE Bad == {s \in SUBSET S : SumOver(f, s) \notin Int}
<1>. SUFFICES ASSUME Bad # {} PROVE FALSE
  BY S \in SUBSET S
<1>0. Bad \subseteq SUBSET S
  OBVIOUS
<1>. HIDE DEF Bad
<1>1. PICK T \in Bad : \A U \in Bad : U \subseteq T => U = T
  BY <1>0, MinimalSubset
<1>2. T \in SUBSET S /\ IsFiniteSet(T)
  BY <1>0, FS_Subset
<1>3. T # {}
  <2>1. SumOver(f, {}) = 0
    BY SumEmpty
  <2>2. SumOver(f, T) \notin Int
    BY <1>1 DEF Bad
  <2>3. T = {} => SumOver(f, T) = 0
    BY <2>1, Zenon
  <2>4. 0 \in Int /\ 0 = 0 + 0 /\ 0 <= 0
    OBVIOUS
  <2>. QED BY <2>2, <2>3, <2>4
<1>4. Picked(T) \in T /\ SumOver(f, T) = f[Picked(T)] + SumOver(f, T \ {Picked(T)})
  BY <1>2, <1>3, SumAny
<1>5. T \ {Picked(T)} \notin Bad
  BY <1>1, <1>4
<1>. QED BY <1>1, <1>2, <1>4, <1>5 DEF Bad

\* Sums look at the function on the set only.
THEOREM SumCongruent ==
    ASSUME NEW S, IsFiniteSet(S), NEW f, NEW g, \A x \in S : f[x] = g[x]
    PROVE  SumOver(f, S) = SumOver(g, S)
<1>. DEFINE Bad == {s \in SUBSET S : SumOver(f, s) # SumOver(g, s)}
<1>. SUFFICES ASSUME Bad # {} PROVE FALSE
  BY S \in SUBSET S
<1>0. Bad \subseteq SUBSET S
  OBVIOUS
<1>. HIDE DEF Bad
<1>1. PICK T \in Bad : \A U \in Bad : U \subseteq T => U = T
  BY <1>0, MinimalSubset
<1>2. T \in SUBSET S /\ IsFiniteSet(T)
  BY <1>0, FS_Subset
<1>3. T # {}
  <2>1. SumOver(f, {}) = 0 /\ SumOver(g, {}) = 0
    BY SumEmpty
  <2>. QED BY <1>1, <2>1 DEF Bad
<1>4. Picked(T) \in T /\ SumOver(f, T) = f[Picked(T)] + SumOver(f, T \ {Picked(T)})
                  /\ SumOver(g, T) = g[Picked(T)] + SumOver(g, T \ {Picked(T)})
  BY <1>2, <1>3, SumAny
<1>5. T \ {Picked(T)} \notin Bad
  BY <1>1, <1>4
<1>. QED BY <1>1, <1>2, <1>4, <1>5 DEF Bad

\* Any element may be taken out of a sum, whatever the order of the fold.
THEOREM SumRemove ==
    ASSUME NEW S, IsFiniteSet(S), NEW f, \A x \in S : f[x] \in Int
    PROVE  \A x \in S : SumOver(f, S) = f[x] + SumOver(f, S \ {x})
<1>. DEFINE Bad == {s \in SUBSET S : \E x \in s : SumOver(f, s) # f[x] + SumOver(f, s \ {x})}
<1>. SUFFICES ASSUME Bad # {} PROVE FALSE
  BY S \in SUBSET S
<1>0. Bad \subseteq SUBSET S
  OBVIOUS
<1>. HIDE DEF Bad
<1>1. PICK T \in Bad : \A U \in Bad : U \subseteq T => U = T
  BY <1>0, MinimalSubset
<1>2. T \in SUBSET S /\ IsFiniteSet(T)
  BY <1>0, FS_Subset
<1>3. PICK x \in T : SumOver(f, T) # f[x] + SumOver(f, T \ {x})
  BY <1>1 DEF Bad
<1>. DEFINE c == Picked(T)
<1>4. c \in T /\ SumOver(f, T) = f[c] + SumOver(f, T \ {c})
  BY <1>2, <1>3, SumAny
<1>. HIDE DEF c
<1>5. c # x
  BY <1>3, <1>4
<1>6. T \ {c} \notin Bad /\ T \ {x} \notin Bad
  BY <1>1, <1>4, <1>3
<1>7. SumOver(f, T \ {c}) = f[x] + SumOver(f, (T \ {c}) \ {x})
  BY <1>2, <1>3, <1>5, <1>6 DEF Bad
<1>8. SumOver(f, T \ {x}) = f[c] + SumOver(f, (T \ {x}) \ {c})
  BY <1>2, <1>4, <1>5, <1>6 DEF Bad
<1>9. SumOver(f, (T \ {x}) \ {c}) = SumOver(f, (T \ {c}) \ {x})
  <2>1. (T \ {x}) \ {c} = (T \ {c}) \ {x}
    OBVIOUS
  <2>. QED BY <2>1
<1>10. SumOver(f, (T \ {c}) \ {x}) \in Int
  <2>1. IsFiniteSet((T \ {c}) \ {x}) /\ \A y \in (T \ {c}) \ {x} : f[y] \in Int
    BY <1>2, FS_Subset
  <2>. QED BY <2>1, SumType
<1>11. f[c] \in Int /\ f[x] \in Int
  BY <1>2, <1>3, <1>4
<1>. QED BY <1>3, <1>4, <1>7, <1>8, <1>9, <1>10, <1>11

(* A sum grows by the term of an element that joins.                          *)
THEOREM SumAdd ==
    ASSUME NEW S, IsFiniteSet(S), NEW x, x \notin S, NEW f, \A y \in S \cup {x} : f[y] \in Int
    PROVE  SumOver(f, S \cup {x}) = f[x] + SumOver(f, S)
<1>1. IsFiniteSet(S \cup {x}) /\ (S \cup {x}) \ {x} = S
  BY FS_AddElement
<1>. QED BY <1>1, SumRemove

\* A function that changes at one place.
THEOREM SumChange ==
    ASSUME NEW S, IsFiniteSet(S), NEW f, NEW g, NEW x \in S,
           \A y \in S : f[y] \in Int, \A y \in S \ {x} : g[y] = f[y], g[x] \in Int
    PROVE  SumOver(g, S) = SumOver(f, S) + (g[x] - f[x])
<1>1. IsFiniteSet(S \ {x})
  BY FS_Subset
<1>2. \A y \in S : g[y] \in Int
  OBVIOUS
<1>3. SumOver(f, S) = f[x] + SumOver(f, S \ {x}) /\ SumOver(g, S) = g[x] + SumOver(g, S \ {x})
  BY <1>2, SumRemove
<1>4. SumOver(g, S \ {x}) = SumOver(f, S \ {x})
  BY <1>1, SumCongruent
<1>5. SumOver(f, S \ {x}) \in Int
  BY <1>1, SumType
<1>6. f[x] \in Int
  OBVIOUS
<1>. QED BY <1>3, <1>4, <1>5, <1>6

\* The sum of a sum of functions.
THEOREM SumPlus ==
    ASSUME NEW S, IsFiniteSet(S), NEW f, NEW g, NEW h,
           \A x \in S : f[x] \in Int /\ g[x] \in Int /\ h[x] = f[x] + g[x]
    PROVE  SumOver(h, S) = SumOver(f, S) + SumOver(g, S)
<1>. DEFINE Bad == {s \in SUBSET S : SumOver(h, s) # SumOver(f, s) + SumOver(g, s)}
<1>. SUFFICES ASSUME Bad # {} PROVE FALSE
  BY S \in SUBSET S
<1>0. Bad \subseteq SUBSET S
  OBVIOUS
<1>. HIDE DEF Bad
<1>1. PICK T \in Bad : \A U \in Bad : U \subseteq T => U = T
  BY <1>0, MinimalSubset
<1>2. T \in SUBSET S /\ IsFiniteSet(T)
  BY <1>0, FS_Subset
<1>3. T # {}
  <2>1. SumOver(f, {}) = 0 /\ SumOver(g, {}) = 0 /\ SumOver(h, {}) = 0
    BY SumEmpty
  <2>2. SumOver(h, T) # SumOver(f, T) + SumOver(g, T)
    BY <1>1 DEF Bad
  <2>3. T = {} => SumOver(f, T) = 0 /\ SumOver(g, T) = 0 /\ SumOver(h, T) = 0
    BY <2>1, Zenon
  <2>4. 0 \in Int /\ 0 = 0 + 0 /\ 0 <= 0
    OBVIOUS
  <2>. QED BY <2>2, <2>3, <2>4
<1>4. Picked(T) \in T /\ SumOver(f, T) = f[Picked(T)] + SumOver(f, T \ {Picked(T)})
                  /\ SumOver(g, T) = g[Picked(T)] + SumOver(g, T \ {Picked(T)})
                  /\ SumOver(h, T) = h[Picked(T)] + SumOver(h, T \ {Picked(T)})
  BY <1>2, <1>3, SumAny
<1>5. T \ {Picked(T)} \notin Bad
  BY <1>1, <1>4
<1>6. SumOver(h, T \ {Picked(T)}) = SumOver(f, T \ {Picked(T)}) + SumOver(g, T \ {Picked(T)})
  BY <1>2, <1>5 DEF Bad
<1>7. SumOver(f, T \ {Picked(T)}) \in Int /\ SumOver(g, T \ {Picked(T)}) \in Int
  <2>1. IsFiniteSet(T \ {Picked(T)}) /\ \A y \in T \ {Picked(T)} : f[y] \in Int /\ g[y] \in Int
    BY <1>2, FS_Subset
  <2>. QED BY <2>1, SumType
<1>8. f[Picked(T)] \in Int /\ g[Picked(T)] \in Int /\ h[Picked(T)] = f[Picked(T)] + g[Picked(T)]
  BY <1>2, <1>4
<1>9. SumOver(h, T) # SumOver(f, T) + SumOver(g, T)
  BY <1>1 DEF Bad
<1>. QED BY <1>4, <1>6, <1>7, <1>8, <1>9

\* A function that is nowhere greater has no greater sum.
THEOREM SumMonotone ==
    ASSUME NEW S, IsFiniteSet(S), NEW f, NEW g,
           \A x \in S : f[x] \in Int /\ g[x] \in Int /\ f[x] <= g[x]
    PROVE  SumOver(f, S) <= SumOver(g, S)
<1>. DEFINE Bad == {s \in SUBSET S : ~(SumOver(f, s) <= SumOver(g, s))}
<1>. SUFFICES ASSUME Bad # {} PROVE FALSE
  BY S \in SUBSET S
<1>0. Bad \subseteq SUBSET S
  OBVIOUS
<1>. HIDE DEF Bad
<1>1. PICK T \in Bad : \A U \in Bad : U \subseteq T => U = T
  BY <1>0, MinimalSubset
<1>2. T \in SUBSET S /\ IsFiniteSet(T)
  BY <1>0, FS_Subset
<1>3. T # {}
  <2>1. SumOver(f, {}) = 0 /\ SumOver(g, {}) = 0
    BY SumEmpty
  <2>2. ~(SumOver(f, T) <= SumOver(g, T))
    BY <1>1 DEF Bad
  <2>3. T = {} => SumOver(f, T) = 0 /\ SumOver(g, T) = 0
    BY <2>1, Zenon
  <2>4. 0 \in Int /\ 0 = 0 + 0 /\ 0 <= 0
    OBVIOUS
  <2>. QED BY <2>2, <2>3, <2>4
<1>4. Picked(T) \in T /\ SumOver(f, T) = f[Picked(T)] + SumOver(f, T \ {Picked(T)})
                  /\ SumOver(g, T) = g[Picked(T)] + SumOver(g, T \ {Picked(T)})
  BY <1>2, <1>3, SumAny
<1>5. T \ {Picked(T)} \notin Bad
  BY <1>1, <1>4
<1>6. SumOver(f, T \ {Picked(T)}) <= SumOver(g, T \ {Picked(T)})
  BY <1>2, <1>5 DEF Bad
<1>7. SumOver(f, T \ {Picked(T)}) \in Int /\ SumOver(g, T \ {Picked(T)}) \in Int
  <2>1. IsFiniteSet(T \ {Picked(T)}) /\ \A y \in T \ {Picked(T)} : f[y] \in Int /\ g[y] \in Int
    BY <1>2, FS_Subset
  <2>. QED BY <2>1, SumType
<1>8. f[Picked(T)] \in Int /\ g[Picked(T)] \in Int /\ f[Picked(T)] <= g[Picked(T)]
  BY <1>2, <1>4
<1>9. ~(SumOver(f, T) <= SumOver(g, T))
  BY <1>1 DEF Bad
<1>. QED BY <1>4, <1>6, <1>7, <1>8, <1>9

\* Nothing adds up to nothing.
THEOREM SumZero ==
    ASSUME NEW S, IsFiniteSet(S), NEW f, \A x \in S : f[x] = 0
    PROVE  SumOver(f, S) = 0
<1>1. SumOver(f, S) \in Int
  <2>1. \A x \in S : f[x] \in Int
    OBVIOUS
  <2>. QED BY <2>1, SumType
<1>2. SumOver(f, S) = SumOver(f, S) + SumOver(f, S)
  <2>1. \A x \in S : f[x] \in Int /\ f[x] \in Int /\ f[x] = f[x] + f[x]
    OBVIOUS
  <2>. QED BY <2>1, SumPlus
<1>. QED BY <1>1, <1>2

(* A sum with one term is that term.                                          *)
THEOREM SumOne ==
    ASSUME NEW S, IsFiniteSet(S), NEW f, NEW x \in S, f[x] \in Int, \A y \in S \ {x} : f[y] = 0
    PROVE  SumOver(f, S) = f[x]
<1>1. IsFiniteSet(S \ {x})
  BY FS_Subset
<1>2. SumOver(f, S \ {x}) = 0
  BY <1>1, SumZero
<1>3. \A y \in S : f[y] \in Int
  OBVIOUS
<1>. QED BY <1>2, <1>3, SumRemove

(* Terms that are no less than zero have such a sum.                          *)
THEOREM SumNat ==
    ASSUME NEW S, IsFiniteSet(S), NEW f, \A x \in S : f[x] \in Nat
    PROVE  SumOver(f, S) \in Nat
<1>. DEFINE zero == [x \in S |-> 0]
<1>1. SumOver(zero, S) = 0
  <2>1. \A x \in S : zero[x] = 0
    OBVIOUS
  <2>. QED BY <2>1, SumZero
<1>2. SumOver(zero, S) <= SumOver(f, S)
  <2>1. \A x \in S : zero[x] \in Int /\ f[x] \in Int /\ zero[x] <= f[x]
    OBVIOUS
  <2>. HIDE DEF zero
  <2>. QED BY <2>1, SumMonotone
<1>3. SumOver(f, S) \in Int
  BY SumType
<1>. QED BY <1>1, <1>2, <1>3


\* A sequence of terms that grows at its end.
THEOREM SumAppend ==
    ASSUME NEW n \in Nat, NEW f, NEW g, \A i \in 1..n : f[i] \in Int /\ g[i] = f[i], g[n + 1] \in Int
    PROVE  SumOver(g, 1..(n + 1)) = SumOver(f, 1..n) + g[n + 1]
<1>1. IsFiniteSet(1..n) /\ n + 1 \notin 1..n
  <2>1. IsFiniteSet(1..n)
    BY FS_Interval
  <2>2. n + 1 \notin 1..n
    OBVIOUS
  <2>. QED BY <2>1, <2>2
<1>2. SumOver(g, (1..n) \cup {n + 1}) = g[n + 1] + SumOver(g, 1..n)
  <2>1. \A y \in (1..n) \cup {n + 1} : g[y] \in Int
    OBVIOUS
  <2>. QED BY <1>1, <2>1, SumAdd
<1>3. SumOver(g, 1..n) = SumOver(f, 1..n)
  BY <1>1, SumCongruent
<1>4. SumOver(f, 1..n) \in Int
  BY <1>1, SumType
<1>5. SumOver(g, 1..(n + 1)) = SumOver(g, (1..n) \cup {n + 1})
  <2>1. 1..(n + 1) = (1..n) \cup {n + 1}
    OBVIOUS
  <2>. QED BY <2>1, Zenon
<1>. QED BY <1>2, <1>3, <1>4, <1>5

\* Two sequences of terms, one after the other.
THEOREM SumConcat ==
    ASSUME NEW n \in Nat, NEW m \in Nat, NEW f, NEW g, NEW h,
           \A i \in 1..n : f[i] \in Int /\ h[i] = f[i],
           \A i \in 1..m : g[i] \in Int /\ h[n + i] = g[i]
    PROVE  SumOver(h, 1..(n + m)) = SumOver(f, 1..n) + SumOver(g, 1..m)
<1>. DEFINE Wrong(k) == SumOver(h, 1..(n + k)) # SumOver(f, 1..n) + SumOver(g, 1..k)
            Bad == {s \in SUBSET (1..m) : \E k \in 0..m : s = 1..k /\ Wrong(k)}
<1>0. IsFiniteSet(1..m) /\ IsFiniteSet(1..n) /\ \A k \in 0..m : IsFiniteSet(1..k)
  BY FS_Interval
<1>1. SumOver(f, 1..n) \in Int /\ SumOver(h, 1..n) = SumOver(f, 1..n)
  BY <1>0, SumType, SumCongruent
<1>2. Bad = {}
  <2>. SUFFICES ASSUME Bad # {} PROVE FALSE
    OBVIOUS
  <2>0. Bad \subseteq SUBSET (1..m)
    OBVIOUS
  <2>. HIDE DEF Bad
  <2>. DEFINE Up == 1..m
  <2>a. IsFiniteSet(Up) /\ Bad \subseteq SUBSET Up
    BY <1>0, <2>0
  <2>. HIDE DEF Up
  <2>1. PICK T \in Bad : \A U \in Bad : U \subseteq T => U = T
    BY <2>a, MinimalSubset
  <2>2. PICK k \in 0..m : T = 1..k /\ Wrong(k)
    BY <2>1 DEF Bad
  <2>3. k # 0
    <3>. SUFFICES ASSUME k = 0 PROVE FALSE
      OBVIOUS
    <3>1. 1..k = {} /\ n + k = n
      OBVIOUS
    <3>2. SumOver(g, 1..k) = 0
      BY <3>1, SumEmpty
    <3>. QED BY <3>1, <3>2, <2>2, <1>1
  <2>. DEFINE j == k - 1
  <2>4. j \in 0..m /\ k = j + 1 /\ j \in Nat /\ n + j \in Nat /\ n + k = (n + j) + 1
    BY <2>3
  <2>. HIDE DEF j
  <2>5. 1..j \in SUBSET (1..m) /\ 1..j \subseteq T /\ 1..j # T
    <3>1. k \in 1..k /\ k \notin 1..j
      BY <2>4
    <3>. QED BY <3>1, <2>2, <2>4
  <2>6. ~Wrong(j)
    BY <2>1, <2>4, <2>5 DEF Bad
  <2>7. SumOver(h, 1..((n + j) + 1)) = SumOver(h, 1..(n + j)) + h[(n + j) + 1]
    <3>1. \A i \in 1..(n + j) : h[i] \in Int
      <4>. SUFFICES ASSUME NEW i \in 1..(n + j) PROVE h[i] \in Int
        OBVIOUS
      <4>1. CASE i \in 1..n
        BY <4>1
      <4>2. CASE i \notin 1..n
        <5>1. i - n \in 1..m /\ n + (i - n) = i
          BY <4>2, <2>4
        <5>. QED BY <5>1
      <4>. QED BY <4>1, <4>2
    <3>2. h[(n + j) + 1] \in Int
      <4>1. k \in 1..m /\ n + k = (n + j) + 1
        BY <2>3, <2>4
      <4>. QED BY <4>1
    <3>. QED BY <3>1, <3>2, <2>4, SumAppend
  <2>8. SumOver(g, 1..(j + 1)) = SumOver(g, 1..j) + g[j + 1]
    <3>1. \A i \in 1..j : g[i] \in Int
      BY <2>4
    <3>2. g[j + 1] \in Int
      BY <2>3, <2>4
    <3>. QED BY <3>1, <3>2, <2>4, SumAppend
  <2>9. h[(n + j) + 1] = g[j + 1] /\ g[j + 1] \in Int
    <3>1. k \in 1..m
      BY <2>3
    <3>. QED BY <3>1, <2>4
  <2>10. SumOver(g, 1..j) \in Int
    <3>1. \A i \in 1..j : g[i] \in Int
      BY <2>4
    <3>. QED BY <3>1, <1>0, <2>4, SumType
  <2>. QED BY <2>2, <2>4, <2>6, <2>7, <2>8, <2>9, <2>10, <1>1
<1>3. 1..m \in SUBSET (1..m) /\ m \in 0..m
  OBVIOUS
<1>. QED BY <1>2, <1>3

(* A finite set of integers that is not empty has a greatest element.         *)
LEMMA GreatestThere ==
    ASSUME NEW S, IsFiniteSet(S), \A x \in S : x \in Int, S # {}
    PROVE  \E x \in S : \A y \in S : x >= y
<1>. DEFINE Bad == {s \in SUBSET S : s # {} /\ ~\E x \in s : \A y \in s : x >= y}
<1>. SUFFICES ASSUME Bad # {} PROVE FALSE
  BY S \in SUBSET S
<1>0. Bad \subseteq SUBSET S
  OBVIOUS
<1>. HIDE DEF Bad
<1>1. PICK T \in Bad : \A U \in Bad : U \subseteq T => U = T
  BY <1>0, MinimalSubset
<1>2. PICK z \in T : TRUE
  BY <1>1 DEF Bad
<1>3. T \ {z} \notin Bad /\ T \ {z} \in SUBSET S
  BY <1>0, <1>1, <1>2
<1>4. CASE T \ {z} = {}
  BY <1>0, <1>1, <1>2, <1>4 DEF Bad
<1>5. CASE T \ {z} # {}
  <2>1. PICK x \in T \ {z} : \A y \in T \ {z} : x >= y
    BY <1>3, <1>5 DEF Bad
  <2>2. x \in Int /\ z \in Int /\ \A y \in T : y \in Int
    BY <1>0, <1>1, <1>2, <2>1
  <2>3. \/ \A y \in T : x >= y
        \/ \A y \in T : z >= y
    BY <2>1, <2>2
  <2>. QED BY <1>1, <1>2, <2>1, <2>3 DEF Bad
<1>. QED BY <1>4, <1>5

\* A finite set of integers has a greatest one.
THEOREM MaxOf ==
    ASSUME NEW S, IsFiniteSet(S), \A x \in S : x \in Int, S # {}
    PROVE  Max(S) \in S /\ \A x \in S : x <= Max(S)
<1>1. \E x \in S : \A y \in S : x >= y
  BY GreatestThere
<1>2. Max(S) \in S /\ \A x \in S : Max(S) >= x
  BY <1>1 DEF Max
<1>. QED BY <1>2

\* Terms outside a part of the set count for nothing.
THEOREM SumFilter ==
    ASSUME NEW S, IsFiniteSet(S), NEW T \in SUBSET S, NEW f, NEW g, \A x \in T : f[x] \in Int,
           \A x \in S : g[x] = IF x \in T THEN f[x] ELSE 0
    PROVE  SumOver(g, S) = SumOver(f, T)
<1>. DEFINE Bad == {s \in SUBSET S : SumOver(g, s) # SumOver(f, s \cap T)}
<1>0. Bad \subseteq SUBSET S
  OBVIOUS
<1>1. Bad = {}
  <2>. SUFFICES ASSUME Bad # {} PROVE FALSE
    OBVIOUS
  <2>. HIDE DEF Bad
  <2>1. PICK s \in Bad : \A U \in Bad : U \subseteq s => U = s
    BY <1>0, MinimalSubset
  <2>2. s \in SUBSET S /\ IsFiniteSet(s) /\ IsFiniteSet(s \cap T)
    BY <1>0, <2>1, FS_Subset
  <2>3. SumOver(g, s) # SumOver(f, s \cap T)
    BY <2>1 DEF Bad
  <2>4. s # {}
    <3>. SUFFICES ASSUME s = {} PROVE FALSE
      OBVIOUS
    <3>1. s \cap T = {} /\ s = {}
      OBVIOUS
    <3>. QED BY <3>1, <2>3, SumEmpty, Zenon
  <2>. DEFINE c == Picked(s)
             r == s \ {c}
  <2>5. c \in s /\ SumOver(g, s) = g[c] + SumOver(g, r)
    BY <2>2, <2>4, SumAny
  <2>. HIDE DEF c
  <2>6. r \notin Bad /\ r \in SUBSET S
    BY <2>1, <2>2, <2>5
  <2>7. SumOver(g, r) = SumOver(f, r \cap T)
    BY <2>6 DEF Bad
  <2>8. SumOver(f, r \cap T) \in Int
    <3>1. IsFiniteSet(r \cap T) /\ \A x \in r \cap T : f[x] \in Int
      BY <2>2, FS_Subset
    <3>. QED BY <3>1, SumType
  <2>9. CASE c \in T
    <3>1. c \in s \cap T /\ r \cap T = (s \cap T) \ {c} /\ \A x \in s \cap T : f[x] \in Int
      BY <2>5, <2>9
    <3>2. SumOver(f, s \cap T) = f[c] + SumOver(f, r \cap T)
      BY <3>1, <2>2, SumRemove
    <3>3. g[c] = f[c]
      BY <2>2, <2>5, <2>9
    <3>. QED BY <3>2, <3>3, <2>3, <2>5, <2>7
  <2>10. CASE c \notin T
    <3>1. r \cap T = s \cap T /\ g[c] = 0
      BY <2>2, <2>5, <2>10
    <3>2. SumOver(f, r \cap T) = SumOver(f, s \cap T)
      BY <3>1, Zenon
    <3>. HIDE DEF r
    <3>. QED BY <3>1, <3>2, <2>3, <2>5, <2>7, <2>8
  <2>. QED BY <2>9, <2>10
<1>2. S \in SUBSET S /\ S \cap T = T
  OBVIOUS
<1>. QED BY <1>1, <1>2

\* The other sign.
THEOREM SumNegate ==
    ASSUME NEW S, IsFiniteSet(S), NEW f, NEW g, \A x \in S : f[x] \in Int /\ g[x] = -f[x]
    PROVE  SumOver(g, S) = -SumOver(f, S)
<1>. DEFINE zero == [x \in S |-> 0]
<1>1. SumOver(zero, S) = 0
  BY SumZero
<1>2. \A x \in S : f[x] \in Int /\ g[x] \in Int /\ zero[x] = f[x] + g[x]
  OBVIOUS
<1>. HIDE DEF zero
<1>3. SumOver(zero, S) = SumOver(f, S) + SumOver(g, S)
  BY <1>2, SumPlus
<1>4. SumOver(f, S) \in Int /\ SumOver(g, S) \in Int
  BY <1>2, SumType
<1>. QED BY <1>1, <1>3, <1>4

\* Two sets apart.
THEOREM SumUnion ==
    ASSUME NEW S, IsFiniteSet(S), NEW T, IsFiniteSet(T), S \cap T = {}, NEW f, \A x \in S \cup T : f[x] \in Int
    PROVE  SumOver(f, S \cup T) = SumOver(f, S) + SumOver(f, T)
<1>. DEFINE U == S \cup T
            inS == [x \in U |-> IF x \in S THEN f[x] ELSE 0]
            inT == [x \in U |-> IF x \in T THEN f[x] ELSE 0]
<1>1. IsFiniteSet(U)
  BY FS_Union
<1>2. S \in SUBSET U /\ T \in SUBSET U
  OBVIOUS
<1>3. \A x \in U : inS[x] = IF x \in S THEN f[x] ELSE 0
  OBVIOUS
<1>4. \A x \in U : inT[x] = IF x \in T THEN f[x] ELSE 0
  OBVIOUS
<1>5. \A x \in U : inS[x] \in Int /\ inT[x] \in Int /\ f[x] = inS[x] + inT[x]
  OBVIOUS
<1>. HIDE DEF U, inS, inT
<1>6. SumOver(f, U) = SumOver(inS, U) + SumOver(inT, U)
  BY <1>1, <1>5, SumPlus
<1>7. SumOver(inS, U) = SumOver(f, S)
  BY <1>1, <1>2, <1>3, SumFilter
<1>8. SumOver(inT, U) = SumOver(f, T)
  BY <1>1, <1>2, <1>4, SumFilter
<1>. QED BY <1>6, <1>7, <1>8 DEF U

\* Ones add up to the number of elements.
THEOREM SumOfOnes ==
    ASSUME NEW S, IsFiniteSet(S), NEW f, \A x \in S : f[x] = 1
    PROVE  SumOver(f, S) = Cardinality(S)
<1>. DEFINE Bad == {s \in SUBSET S : SumOver(f, s) # Cardinality(s)}
<1>. SUFFICES ASSUME Bad # {} PROVE FALSE
  BY S \in SUBSET S
<1>0. Bad \subseteq SUBSET S
  OBVIOUS
<1>. HIDE DEF Bad
<1>1. PICK s \in Bad : \A U \in Bad : U \subseteq s => U = s
  BY <1>0, MinimalSubset
<1>2. s \in SUBSET S /\ IsFiniteSet(s)
  BY <1>0, <1>1, FS_Subset
<1>3. s # {}
  BY <1>1, SumEmpty, FS_EmptySet DEF Bad
<1>. DEFINE c == Picked(s)
<1>4. c \in s /\ SumOver(f, s) = f[c] + SumOver(f, s \ {c})
  BY <1>2, <1>3, SumAny
<1>. HIDE DEF c
<1>5. s \ {c} \notin Bad /\ s \ {c} \in SUBSET S
  BY <1>1, <1>2, <1>4
<1>6. SumOver(f, s \ {c}) = Cardinality(s \ {c})
  BY <1>5 DEF Bad
<1>7. Cardinality(s \ {c}) = Cardinality(s) - 1 /\ Cardinality(s) \in Nat
  BY <1>2, <1>4, FS_RemoveElement, FS_CardinalityType
<1>8. f[c] = 1
  BY <1>2, <1>4
<1>. QED BY <1>1, <1>4, <1>6, <1>7, <1>8 DEF Bad

\* Terms that are off by one at most, and only on a part of the set.
THEOREM SumBounded ==
    ASSUME NEW S, IsFiniteSet(S), NEW T \in SUBSET S, NEW f,
           \A x \in S : f[x] \in Int /\ (x \notin T => f[x] = 0) /\ -1 <= f[x] /\ f[x] <= 1
    PROVE  SumOver(f, S) <= Cardinality(T) /\ -SumOver(f, S) <= Cardinality(T)
<1>. DEFINE one == [x \in T |-> 1]
            up == [x \in S |-> IF x \in T THEN one[x] ELSE 0]
            neg == [x \in S |-> -f[x]]
<1>1. IsFiniteSet(T)
  BY FS_Subset
<1>2. SumOver(one, T) = Cardinality(T)
  BY <1>1, SumOfOnes
<1>3. \A x \in S : up[x] \in Int /\ f[x] <= up[x] /\ neg[x] \in Int /\ neg[x] <= up[x] /\ neg[x] = -f[x]
  OBVIOUS
<1>4. SumOver(up, S) = SumOver(one, T)
  <2>1. \A x \in T : one[x] \in Int
    OBVIOUS
  <2>2. \A x \in S : up[x] = IF x \in T THEN one[x] ELSE 0
    OBVIOUS
  <2>. HIDE DEF one, up
  <2>. QED BY <2>1, <2>2, SumFilter
<1>. HIDE DEF one, up, neg
<1>5. SumOver(f, S) <= SumOver(up, S)
  BY <1>3, SumMonotone
<1>6. SumOver(neg, S) <= SumOver(up, S)
  BY <1>3, SumMonotone
<1>7. SumOver(neg, S) = -SumOver(f, S)
  BY <1>3, SumNegate
<1>. QED BY <1>2, <1>4, <1>5, <1>6, <1>7

\* A table adds up the same by rows and by columns.
THEOREM SumSwap ==
    ASSUME NEW S, IsFiniteSet(S), NEW T, IsFiniteSet(T), NEW f, \A x \in S : \A y \in T : f[x][y] \in Int,
           NEW col, \A y \in T : \A x \in S : col[y][x] = f[x][y],
           NEW r, \A x \in S : r[x] = SumOver(f[x], T),
           NEW c, \A y \in T : c[y] = SumOver(col[y], S)
    PROVE  SumOver(r, S) = SumOver(c, T)
<1>. DEFINE cols(s) == [y \in T |-> SumOver(col[y], s)]
            Bad == {s \in SUBSET S : SumOver(r, s) # SumOver(cols(s), T)}
<1>0. Bad \subseteq SUBSET S
  OBVIOUS
<1>1. Bad = {}
  <2>. SUFFICES ASSUME Bad # {} PROVE FALSE
    OBVIOUS
  <2>. HIDE DEF Bad
  <2>1. PICK s \in Bad : \A U \in Bad : U \subseteq s => U = s
    BY <1>0, MinimalSubset
  <2>2. s \in SUBSET S /\ IsFiniteSet(s)
    BY <1>0, <2>1, FS_Subset
  <2>3. SumOver(r, s) # SumOver(cols(s), T)
    BY <2>1 DEF Bad
  <2>4. s # {}
    <3>. SUFFICES ASSUME s = {} PROVE FALSE
      OBVIOUS
    <3>1. SumOver(r, s) = 0
      BY SumEmpty
    <3>2. \A y \in T : cols(s)[y] = 0
      BY SumEmpty
    <3>3. SumOver(cols(s), T) = 0
      BY <3>2, SumZero
    <3>. QED BY <3>1, <3>3, <2>3
  <2>. DEFINE p == Picked(s)
             q == s \ {p}
  <2>5. p \in s /\ SumOver(r, s) = r[p] + SumOver(r, q)
    BY <2>2, <2>4, SumAny
  <2>. HIDE DEF p
  <2>6. q \notin Bad /\ q \in SUBSET S /\ IsFiniteSet(q)
    BY <2>1, <2>2, <2>5, FS_Subset
  <2>7. SumOver(r, q) = SumOver(cols(q), T)
    BY <2>6 DEF Bad
  <2>8. \A y \in T : SumOver(col[y], s) = f[p][y] + SumOver(col[y], q) /\ SumOver(col[y], q) \in Int
    <3>. SUFFICES ASSUME NEW y \in T
         PROVE SumOver(col[y], s) = f[p][y] + SumOver(col[y], q) /\ SumOver(col[y], q) \in Int
      OBVIOUS
    <3>1. (\A x \in s : col[y][x] \in Int) /\ (\A x \in q : col[y][x] \in Int) /\ col[y][p] = f[p][y]
      BY <2>2, <2>5
    <3>2. SumOver(col[y], s) = col[y][p] + SumOver(col[y], q)
      BY <3>1, <2>2, <2>5, SumRemove
    <3>3. SumOver(col[y], q) \in Int
      BY <3>1, <2>6, SumType
    <3>. QED BY <3>1, <3>2, <3>3
  <2>9. \A y \in T : f[p][y] \in Int /\ cols(q)[y] \in Int /\ cols(s)[y] = f[p][y] + cols(q)[y]
    BY <2>8, <2>2, <2>5
  <2>. DEFINE line == f[p]
             g == cols(q)
             h == cols(s)
  <2>10. SumOver(cols(s), T) = SumOver(line, T) + SumOver(cols(q), T)
    <3>1. \A y \in T : line[y] \in Int /\ g[y] \in Int /\ h[y] = line[y] + g[y]
      BY <2>9
    <3>. HIDE DEF line, g, h
    <3>2. SumOver(h, T) = SumOver(line, T) + SumOver(g, T)
      BY <3>1, SumPlus
    <3>. QED BY <3>2 DEF g, h
  <2>11. r[p] = SumOver(line, T)
    BY <2>2, <2>5
  <2>. QED BY <2>3, <2>5, <2>7, <2>10, <2>11
<1>2. SumOver(r, S) = SumOver(cols(S), T)
  <2>1. S \in SUBSET S
    OBVIOUS
  <2>. QED BY <2>1, <1>1
<1>3. \A y \in T : cols(S)[y] = c[y]
  OBVIOUS
<1>4. SumOver(cols(S), T) = SumOver(c, T)
  BY <1>3, SumCongruent
<1>. QED BY <1>2, <1>4

(* A set of numbers that is not empty has a least element.                    *)
THEOREM LeastOf ==
    ASSUME NEW n \in Nat, NEW S \in SUBSET (1..n), S # {}
    PROVE  \E x \in S : \A y \in S : x <= y
<1>. DEFINE neg == {m \in (-n)..(-1) : -m \in S}
<1>1. IsFiniteSet(neg)
  <2>1. -n \in Int /\ -1 \in Int /\ neg \subseteq (-n)..(-1)
    OBVIOUS
  <2>2. IsFiniteSet((-n)..(-1))
    BY <2>1, FS_Interval
  <2>. QED BY <2>1, <2>2, FS_Subset
<1>2. PICK x \in S : TRUE
  OBVIOUS
<1>3. -x \in neg /\ \A m \in neg : m \in Int
  BY <1>2
<1>4. neg # {}
  BY <1>3
<1>5. \A y \in S : -y \in neg
  OBVIOUS
<1>6. \A m \in neg : -m \in S
  OBVIOUS
<1>. HIDE DEF neg
<1>7. PICK m \in neg : \A k \in neg : m >= k
  BY <1>1, <1>3, <1>4, GreatestThere
<1>8. \A y \in S : -m <= y
  BY <1>3, <1>5, <1>7
<1>. QED BY <1>6, <1>7, <1>8

\* A part of the set, and the rest.
THEOREM SumSplit ==
    ASSUME NEW S, IsFiniteSet(S), NEW T \in SUBSET S, NEW f, \A x \in S : f[x] \in Int
    PROVE  /\ SumOver(f, S) = SumOver(f, T) + SumOver(f, S \ T)
           /\ SumOver(f, T) \in Int /\ SumOver(f, S \ T) \in Int /\ IsFiniteSet(T) /\ IsFiniteSet(S \ T)
<1>1. IsFiniteSet(T) /\ IsFiniteSet(S \ T) /\ T \cap (S \ T) = {} /\ S = T \cup (S \ T)
  BY FS_Subset
<1>. DEFINE R == S \ T
<1>2. (\A x \in T : f[x] \in Int) /\ (\A x \in R : f[x] \in Int) /\ \A x \in T \cup R : f[x] \in Int
  OBVIOUS
<1>3. IsFiniteSet(R) /\ T \cap R = {} /\ S = T \cup R
  BY <1>1
<1>. HIDE DEF R
<1>4. SumOver(f, T \cup R) = SumOver(f, T) + SumOver(f, R)
  BY <1>1, <1>2, <1>3, SumUnion
<1>5. SumOver(f, T) \in Int /\ SumOver(f, R) \in Int
  BY <1>1, <1>2, <1>3, SumType
<1>. QED BY <1>1, <1>3, <1>4, <1>5 DEF R

================================================================================
