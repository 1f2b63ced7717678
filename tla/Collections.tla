---------------------------- MODULE Collections ----------------------------
(***************************************************************************)
(* Facts about finite sets, sums and sequences, for the proofs about the   *)
(* bills, the reports and the line of queued orders: what a fold of + over *)
(* a finite set is, whichever element it takes first, and what RemoveFirst *)
(* leaves of a sequence without duplicates.                                *)
(*                                                                         *)
(* Induction is stated over sets: a property is the set of what has it.    *)
(***************************************************************************)
EXTENDS Integers, FiniteSetsExt, Functions, SequencesExt, FiniteSetTheorems, TLAPS

\* Every set of natural numbers that is not empty has a least one.
LEMMA LeastOf ==
    ASSUME NEW T \in SUBSET Nat, T # {}
    PROVE  \E x \in T : \A y \in T : x <= y
<1>1. PICK x \in T : \A y \in T : ~(<<y, x>> \in OpToRel(<, Nat))
    BY NatLessThanWellFounded, WFMin
<1>2. ASSUME NEW y \in T, y < x
      PROVE  FALSE
    BY <1>1, <1>2 DEF OpToRel
<1> QED
    BY <1>2

\* Induction over the natural numbers.
LEMMA NatSetInduction ==
    ASSUME NEW G, 0 \in G, \A n \in Nat : n \in G => n + 1 \in G
    PROVE  Nat \subseteq G
<1> SUFFICES ASSUME Nat \ G # {} PROVE FALSE
    OBVIOUS
<1>1. PICK x \in Nat \ G : \A y \in Nat \ G : x <= y
    BY LeastOf
<1>2. x - 1 \in Nat /\ x - 1 \in G
    BY <1>1
<1> QED
    BY <1>1, <1>2

\* Induction over the subsets of a finite set, one element more at a time.
LEMMA FiniteSetInduction ==
    ASSUME NEW S, IsFiniteSet(S), NEW G, {} \in G,
           \A T \in SUBSET S : \A x \in S \ T : T \in G => T \cup {x} \in G
    PROVE  S \in G
<1> SUFFICES ASSUME S \notin G PROVE FALSE
    OBVIOUS
<1> DEFINE Bad == {T \in SUBSET S : T \notin G}
<1>1. /\ IsWellFoundedOn(StrictSubsetOrdering(S), SUBSET S)
      /\ Bad \subseteq SUBSET S /\ Bad # {}
    BY FS_StrictSubsetOrderingWellFounded, FS_FiniteSubsetsOfFinite
<1>2. PICK T \in Bad : \A U \in Bad : ~(<<U, T>> \in StrictSubsetOrdering(S))
    BY <1>1, WFMin
<1>3. PICK x \in T : TRUE
    BY <1>2
<1>4. T \ {x} \notin Bad
    BY <1>2, <1>3 DEF StrictSubsetOrdering
<1>5. T = (T \ {x}) \cup {x} /\ T \ {x} \in SUBSET S /\ x \in S \ (T \ {x})
    BY <1>3
<1> QED
    BY <1>2, <1>4, <1>5

-----------------------------------------------------------------------------
(* Least and greatest *)

\* The smaller of two numbers.
LEMMA MinOfTwo ==
    ASSUME NEW a \in Int, NEW b \in Int
    PROVE  Min({a, b}) = IF a <= b THEN a ELSE b
<1>1. \E x \in {a, b} : \A y \in {a, b} : x <= y
    OBVIOUS
<1>2. Min({a, b}) \in {a, b} /\ \A y \in {a, b} : Min({a, b}) <= y
    BY <1>1 DEF Min
<1> QED
    BY <1>2

\* The larger of two numbers.
LEMMA MaxOfTwo ==
    ASSUME NEW a \in Int, NEW b \in Int
    PROVE  Max({a, b}) = IF a >= b THEN a ELSE b
<1>1. \E x \in {a, b} : \A y \in {a, b} : x >= y
    OBVIOUS
<1>2. Max({a, b}) \in {a, b} /\ \A y \in {a, b} : Max({a, b}) >= y
    BY <1>1 DEF Max
<1> QED
    BY <1>2

\* The smallest of a set of natural numbers.
LEMMA MinOfSet ==
    ASSUME NEW S \in SUBSET Nat, S # {}
    PROVE  Min(S) \in S /\ \A y \in S : Min(S) <= y
<1>1. \E x \in S : \A y \in S : x <= y
    BY LeastOf
<1> QED
    BY <1>1 DEF Min

\* The largest of a finite set of natural numbers.
LEMMA MaxOfSet ==
    ASSUME NEW S \in SUBSET Nat, IsFiniteSet(S), S # {}
    PROVE  Max(S) \in S /\ \A y \in S : y <= Max(S)
<1> DEFINE G == {T \in SUBSET S : T = {} \/ \E x \in T : \A y \in T : y <= x}
<1>1. {} \in G
    OBVIOUS
<1>2. ASSUME NEW T \in SUBSET S, NEW x \in S \ T, T \in G
      PROVE  T \cup {x} \in G
    <2>1. x \in Nat /\ T \subseteq Nat
        OBVIOUS
    <2>2. CASE T = {}
        BY <2>1, <2>2
    <2>3. CASE T # {}
        <3>1. PICK m \in T : \A y \in T : y <= m
            BY <1>2, <2>3
        <3>2. CASE m <= x
            <4>1. \A y \in T \cup {x} : y <= x
                BY <2>1, <3>1, <3>2
            <4> QED
                BY <4>1
        <3>3. CASE ~(m <= x)
            <4>1. \A y \in T \cup {x} : y <= m
                BY <2>1, <3>1, <3>3
            <4> QED
                BY <3>1, <4>1
        <3> QED
            BY <3>2, <3>3
    <2> QED
        BY <2>2, <2>3
<1> HIDE DEF G
<1>3. S \in G
    BY <1>1, <1>2, FiniteSetInduction
<1>4. PICK x \in S : \A y \in S : y <= x
    BY <1>3 DEF G
<1>5. \A y \in S : x >= y
    BY <1>4
<1>6. Max(S) \in S /\ \A y \in S : Max(S) >= y
    BY <1>4, <1>5 DEF Max
<1> QED
    BY <1>6

\* A finite set of natural numbers can be listed in their order.
LEMMA Ascending ==
    ASSUME NEW S \in SUBSET Nat, IsFiniteSet(S)
    PROVE  \E q \in [1..Cardinality(S) -> S] : \A i, j \in DOMAIN q : i < j => q[i] < q[j]
<1> DEFINE G == {n \in Nat : \A T \in SUBSET S : Cardinality(T) = n =>
                    \E q \in [1..n -> T] : \A i, j \in DOMAIN q : i < j => q[i] < q[j]}
<1>1. 0 \in G
    <2>1. SUFFICES ASSUME NEW T \in SUBSET S, Cardinality(T) = 0
                   PROVE  \E q \in [1..0 -> T] : \A i, j \in DOMAIN q : i < j => q[i] < q[j]
        OBVIOUS
    <2> DEFINE q == [i \in 1..0 |-> i]
    <2>2. q \in [1..0 -> T] /\ \A i, j \in DOMAIN q : i < j => q[i] < q[j]
        OBVIOUS
    <2> QED
        BY <2>2
<1>2. ASSUME NEW n \in Nat, n \in G
      PROVE  n + 1 \in G
    <2>1. SUFFICES ASSUME NEW T \in SUBSET S, Cardinality(T) = n + 1
                   PROVE  \E q \in [1..(n + 1) -> T] : \A i, j \in DOMAIN q : i < j => q[i] < q[j]
        OBVIOUS
    <2>2. IsFiniteSet(T) /\ T \in SUBSET Nat
        BY FS_Subset
    <2>3. T # {}
        BY <2>1, FS_EmptySet
    <2> DEFINE m == Max(T)
               U == T \ {m}
    <2>4. m \in T /\ \A y \in T : y <= m
        BY <2>2, <2>3, MaxOfSet
    <2> HIDE DEF m
    <2>5. U \in SUBSET S /\ Cardinality(U) = n
        <3>1. Cardinality(U) = Cardinality(T) - 1
            BY <2>2, <2>4, FS_RemoveElement
        <3>2. U \in SUBSET S
            OBVIOUS
        <3> HIDE DEF U
        <3> QED
            BY <2>1, <3>1, <3>2
    <2>6. PICK q \in [1..n -> U] : \A i, j \in DOMAIN q : i < j => q[i] < q[j]
        BY <1>2, <2>5
    <2>7. \A i \in 1..n : q[i] \in T /\ q[i] < m
        <3>1. \A y \in U : y \in T /\ y <= m /\ y # m /\ y \in Nat /\ m \in Nat
            BY <2>2, <2>4
        <3>2. \A y \in U : y \in T /\ y < m
            BY <3>1
        <3> HIDE DEF U
        <3> QED
            BY <2>6, <3>2
    <2> HIDE DEF U
    <2> DEFINE r == [i \in 1..(n + 1) |-> IF i = n + 1 THEN m ELSE q[i]]
    <2>8. /\ DOMAIN r = 1..(n + 1)
          /\ r[n + 1] = m
          /\ \A i \in 1..n : r[i] = q[i]
          /\ \A i \in 1..(n + 1) : i = n + 1 \/ i \in 1..n
        OBVIOUS
    <2>9. r \in [1..(n + 1) -> T]
        BY <2>4, <2>7, <2>8
    <2> HIDE DEF r
    <2>10. ASSUME NEW i \in DOMAIN r, NEW j \in DOMAIN r, i < j
           PROVE  r[i] < r[j]
        <3>1. i \in 1..n
            BY <2>8, <2>10
        <3>2. CASE j = n + 1
            BY <2>7, <2>8, <3>1, <3>2
        <3>3. CASE j \in 1..n
            BY <2>6, <2>8, <2>10, <3>1, <3>3
        <3> QED
            BY <2>8, <3>2, <3>3
    <2> QED
        BY <2>9, <2>10
<1> HIDE DEF G
<1>3. Nat \subseteq G
    BY <1>1, <1>2, NatSetInduction
<1>4. Cardinality(S) \in G
    BY <1>3, FS_CardinalityType
<1> QED
    BY <1>4 DEF G

-----------------------------------------------------------------------------
(* The recursive function behind SumFunction *)

Sums(iter, f, S) ==
    iter = [s \in SUBSET S |->
              IF s = {} THEN 0
              ELSE f[CHOOSE x \in s : TRUE] + iter[s \ {CHOOSE x \in s : TRUE}]]

\* The element a sum takes out is one of the set.
LEMMA Taken ==
    ASSUME NEW s, s # {}
    PROVE  (CHOOSE x \in s : TRUE) \in s
OBVIOUS

\* Two such functions agree where both are defined.
LEMMA SumsAgree ==
    ASSUME NEW S, IsFiniteSet(S), NEW T, IsFiniteSet(T), NEW f, NEW g,
           NEW k, NEW m, Sums(k, f, S), Sums(m, g, T), S \subseteq T,
           \A x \in S : f[x] = g[x]
    PROVE  k[S] = m[S]
<1> DEFINE Bad == {U \in SUBSET S : k[U] # m[U]}
<1> SUFFICES ASSUME Bad # {} PROVE FALSE
    OBVIOUS
<1>1. /\ IsWellFoundedOn(StrictSubsetOrdering(S), SUBSET S)
      /\ Bad \subseteq SUBSET S
    BY FS_StrictSubsetOrderingWellFounded, FS_FiniteSubsetsOfFinite
<1>2. PICK U \in Bad : \A V \in Bad : ~(<<V, U>> \in StrictSubsetOrdering(S))
    BY <1>1, WFMin
<1> DEFINE c == CHOOSE x \in U : TRUE
<1>3. k[U] = IF U = {} THEN 0 ELSE f[c] + k[U \ {c}]
    BY <1>2 DEF Sums
<1>4. m[U] = IF U = {} THEN 0 ELSE g[c] + m[U \ {c}]
    BY <1>2 DEF Sums
<1>5. U # {} /\ c \in U
    BY <1>2, <1>3, <1>4
<1> HIDE DEF c
<1>6. U \ {c} \in SUBSET S /\ U \in SUBSET S /\ U \ {c} # U
    BY <1>2, <1>5
<1>7. <<U \ {c}, U>> \in StrictSubsetOrdering(S)
    BY <1>6 DEF StrictSubsetOrdering
<1>8. U \ {c} \notin Bad
    BY <1>2, <1>7
<1> QED
    BY <1>3, <1>4, <1>2, <1>5, <1>6, <1>8

\* There is such a function for every finite set.
LEMMA SumsExist ==
    ASSUME NEW S, IsFiniteSet(S), NEW f
    PROVE  \E iter : Sums(iter, f, S)
<1> DEFINE Bad == {U \in SUBSET S : ~\E iter : Sums(iter, f, U)}
<1> SUFFICES ASSUME Bad # {} PROVE FALSE
    OBVIOUS
<1>1. /\ IsWellFoundedOn(StrictSubsetOrdering(S), SUBSET S)
      /\ Bad \subseteq SUBSET S
    BY FS_StrictSubsetOrderingWellFounded, FS_FiniteSubsetsOfFinite
<1>2. PICK T \in Bad : \A V \in Bad : ~(<<V, T>> \in StrictSubsetOrdering(S))
    BY <1>1, WFMin
<1>3. \A U \in SUBSET T : U # T => \E iter : Sums(iter, f, U)
    BY <1>2 DEF StrictSubsetOrdering
<1> DEFINE of == [U \in SUBSET T |-> CHOOSE iter : Sums(iter, f, U)]
           c(s) == CHOOSE x \in s : TRUE
           iter == [s \in SUBSET T |-> IF s = {} THEN 0 ELSE f[c(s)] + of[s \ {c(s)}][s \ {c(s)}]]
<1>4. \A U \in SUBSET T : U # T => Sums(of[U], f, U)
    BY <1>3
<1>5. ASSUME NEW s \in SUBSET T, s # T
      PROVE  iter[s] = of[s][s]
    <2>1. Sums(of[s], f, s)
        BY <1>4, <1>5
    <2>2. of[s][s] = IF s = {} THEN 0 ELSE f[c(s)] + of[s][s \ {c(s)}]
        BY <2>1 DEF Sums
    <2>3. ASSUME s # {}
          PROVE  of[s][s \ {c(s)}] = of[s \ {c(s)}][s \ {c(s)}]
        <3>1. c(s) \in s
            BY <2>3
        <3> DEFINE rest == s \ {c(s)}
        <3>2. rest \in SUBSET T /\ rest # T /\ rest \subseteq s
            BY <3>1
        <3>3. IsFiniteSet(s) /\ IsFiniteSet(rest)
            BY <1>2, FS_Subset
        <3>4. Sums(of[rest], f, rest)
            BY <1>4, <3>2
        <3> HIDE DEF rest, of, c, iter
        <3>5. of[rest][rest] = of[s][rest]
            BY <2>1, <3>2, <3>3, <3>4, SumsAgree
        <3> QED
            BY <3>5 DEF rest
    <2>4. iter[s] = IF s = {} THEN 0 ELSE f[c(s)] + of[s \ {c(s)}][s \ {c(s)}]
        OBVIOUS
    <2> HIDE DEF iter, of, c
    <2> QED
        BY <2>2, <2>3, <2>4
<1>6. ASSUME NEW s \in SUBSET T, s # {}
      PROVE  iter[s] = f[c(s)] + iter[s \ {c(s)}]
    <2>1. c(s) \in s
        BY <1>6
    <2>2. s \ {c(s)} \in SUBSET T /\ s \ {c(s)} # T
        BY <2>1
    <2>3. iter[s \ {c(s)}] = of[s \ {c(s)}][s \ {c(s)}]
        BY <1>5, <2>2
    <2>4. iter[s] = f[c(s)] + of[s \ {c(s)}][s \ {c(s)}]
        BY <1>6
    <2> HIDE DEF iter, of, c
    <2> QED
        BY <2>3, <2>4
<1>7. iter[{}] = 0 /\ DOMAIN iter = SUBSET T
    OBVIOUS
<1>8. iter = [s \in SUBSET T |-> iter[s]]
    OBVIOUS
<1>9. Sums(iter, f, T)
    <2> HIDE DEF iter, of
    <2>1. \A s \in SUBSET T : iter[s] = IF s = {} THEN 0 ELSE f[c(s)] + iter[s \ {c(s)}]
        BY <1>6, <1>7
    <2> QED
        BY <1>8, <2>1 DEF Sums
<1> QED
    BY <1>2, <1>9

-----------------------------------------------------------------------------
(* Sums of functions *)

(* The sum of f over S, which any function as above computes. *)
Total(f, S) == (CHOOSE iter : Sums(iter, f, S))[S]

\* Whatever sums f computes its total.
LEMMA SumsTotal ==
    ASSUME NEW S, IsFiniteSet(S), NEW f, NEW g, NEW iter, Sums(iter, f, S),
           \A x \in S : f[x] = g[x]
    PROVE  iter[S] = Total(g, S)
<1> DEFINE other == CHOOSE k : Sums(k, g, S)
<1>1. Sums(other, g, S)
    BY SumsExist
<1>2. Total(g, S) = other[S]
    BY DEF Total
<1> HIDE DEF other
<1> QED
    BY <1>1, <1>2, SumsAgree

\* It is the sum of the community modules.
LEMMA SumIsTotal ==
    ASSUME NEW f, IsFiniteSet(DOMAIN f)
    PROVE  SumFunction(f) = Total(f, DOMAIN f)
BY DEF SumFunction, SumFunctionOnSet, FoldFunctionOnSet, MapThenFoldSet, Total, Sums

\* Nothing adds up to nothing.
LEMMA TotalOfNone == ASSUME NEW f PROVE Total(f, {}) = 0
<1>1. IsFiniteSet({})
    BY FS_EmptySet
<1>2. PICK iter : Sums(iter, f, {})
    BY <1>1, SumsExist
<1>3. iter[{}] = 0
    BY <1>2 DEF Sums
<1> QED
    BY <1>1, <1>2, <1>3, SumsTotal

\* A total takes out the element that its CHOOSE takes first.
LEMMA TotalFirst ==
    ASSUME NEW S, IsFiniteSet(S), NEW f, S # {}
    PROVE  \E x \in S : Total(f, S) = f[x] + Total(f, S \ {x})
<1>1. PICK iter : Sums(iter, f, S)
    BY SumsExist
<1> DEFINE x == CHOOSE y \in S : TRUE
<1>2. x \in S /\ iter[S] = f[x] + iter[S \ {x}]
    BY <1>1 DEF Sums
<1> HIDE DEF x
<1>3. IsFiniteSet(S \ {x})
    BY FS_RemoveElement
<1>4. PICK rest : Sums(rest, f, S \ {x})
    BY <1>3, SumsExist
<1>5. rest[S \ {x}] = iter[S \ {x}]
    BY <1>1, <1>3, <1>4, SumsAgree
<1>6. iter[S] = Total(f, S) /\ rest[S \ {x}] = Total(f, S \ {x})
    BY <1>1, <1>3, <1>4, SumsTotal
<1> QED
    BY <1>2, <1>5, <1>6

\* A total of integers is one, and takes out whichever element is asked for.
LEMMA TotalTakes ==
    ASSUME NEW S, IsFiniteSet(S), NEW f, \A x \in S : f[x] \in Int
    PROVE  /\ Total(f, S) \in Int
           /\ \A x \in S : Total(f, S) = f[x] + Total(f, S \ {x})
<1> DEFINE Good(T) == /\ Total(f, T) \in Int
                      /\ \A x \in T : Total(f, T) = f[x] + Total(f, T \ {x})
           Bad == {T \in SUBSET S : ~Good(T)}
<1> SUFFICES ASSUME Bad # {} PROVE FALSE
    OBVIOUS
<1>1. /\ IsWellFoundedOn(StrictSubsetOrdering(S), SUBSET S)
      /\ Bad \subseteq SUBSET S
    BY FS_StrictSubsetOrderingWellFounded, FS_FiniteSubsetsOfFinite
<1>2. PICK T \in Bad : \A V \in Bad : ~(<<V, T>> \in StrictSubsetOrdering(S))
    BY <1>1, WFMin
<1>3. \A U \in SUBSET T : U # T => Good(U)
    BY <1>2 DEF StrictSubsetOrdering
<1>4. T # {}
    <2>1. Total(f, {}) = 0
        BY TotalOfNone
    <2>2. Good({})
        BY <2>1
    <2> HIDE DEF Good
    <2> QED
        BY <1>2, <2>2
<1>5. IsFiniteSet(T)
    BY <1>2, FS_Subset
<1>6. PICK c \in T : Total(f, T) = f[c] + Total(f, T \ {c})
    BY <1>4, <1>5, TotalFirst
<1>7. Good(T \ {c})
    BY <1>3, <1>6
<1>8. ASSUME NEW x \in T, x # c
      PROVE  Total(f, T) = f[x] + Total(f, T \ {x})
    <2>1. Good(T \ {x}) /\ c \in T \ {x} /\ x \in T \ {c}
        BY <1>3, <1>6, <1>8
    <2>2. (T \ {c}) \ {x} = (T \ {x}) \ {c}
        OBVIOUS
    <2> DEFINE both == (T \ {x}) \ {c}
    <2>3. Good(both)
        BY <1>3, <1>6
    <2>4. Total(f, T \ {c}) = f[x] + Total(f, both)
        BY <1>7, <2>1, <2>2
    <2>5. Total(f, T \ {x}) = f[c] + Total(f, both)
        BY <2>1
    <2>6. f[x] \in Int /\ f[c] \in Int /\ Total(f, both) \in Int
        BY <1>2, <1>6, <1>8, <2>3
    <2> HIDE DEF both, Good
    <2> QED
        BY <1>6, <2>4, <2>5, <2>6
<1>9. Total(f, T) \in Int
    <2>1. f[c] \in Int /\ Total(f, T \ {c}) \in Int
        BY <1>2, <1>6, <1>7
    <2> QED
        BY <1>6, <2>1
<1> QED
    BY <1>2, <1>6, <1>8, <1>9

\* One element more.
LEMMA TotalAdds ==
    ASSUME NEW S, IsFiniteSet(S), NEW f, NEW x, x \notin S, \A y \in S \cup {x} : f[y] \in Int
    PROVE  Total(f, S \cup {x}) = f[x] + Total(f, S)
<1>1. IsFiniteSet(S \cup {x}) /\ (S \cup {x}) \ {x} = S
    BY FS_AddElement
<1> QED
    BY <1>1, TotalTakes

\* Functions that agree on a set have the same total.
LEMMA TotalSame ==
    ASSUME NEW S, IsFiniteSet(S), NEW f, NEW g, \A x \in S : f[x] = g[x]
    PROVE  Total(f, S) = Total(g, S)
<1>1. PICK iter : Sums(iter, f, S)
    BY SumsExist
<1> QED
    BY <1>1, SumsTotal

\* The total of sums is the sum of the totals.
LEMMA TotalOfSum ==
    ASSUME NEW S, IsFiniteSet(S), NEW f, NEW g, NEW h,
           \A x \in S : f[x] \in Int /\ g[x] \in Int /\ h[x] = f[x] + g[x]
    PROVE  Total(h, S) = Total(f, S) + Total(g, S)
<1> DEFINE G == {T \in SUBSET S : Total(h, T) = Total(f, T) + Total(g, T)}
<1>1. {} \in G
    BY TotalOfNone
<1>2. ASSUME NEW T \in SUBSET S, NEW x \in S \ T, T \in G
      PROVE  T \cup {x} \in G
    <2>1. IsFiniteSet(T)
        BY FS_Subset
    <2>2. \A y \in T \cup {x} : f[y] \in Int /\ g[y] \in Int /\ h[y] \in Int
        OBVIOUS
    <2>3. /\ Total(f, T \cup {x}) = f[x] + Total(f, T)
          /\ Total(g, T \cup {x}) = g[x] + Total(g, T)
          /\ Total(h, T \cup {x}) = h[x] + Total(h, T)
        BY <2>1, <2>2, TotalAdds
    <2>4. Total(f, T) \in Int /\ Total(g, T) \in Int /\ Total(h, T) \in Int
        BY <2>1, <2>2, TotalTakes
    <2>5. Total(h, T) = Total(f, T) + Total(g, T) /\ h[x] = f[x] + g[x]
        BY <1>2
    <2>6. f[x] \in Int /\ g[x] \in Int
        OBVIOUS
    <2>7. Total(h, T \cup {x}) = Total(f, T \cup {x}) + Total(g, T \cup {x})
        BY <2>3, <2>4, <2>5, <2>6
    <2> QED
        BY <2>7
<1> HIDE DEF G
<1>3. S \in G
    BY <1>1, <1>2, FiniteSetInduction
<1> QED
    BY <1>3 DEF G

\* A total of natural numbers is one.
LEMMA TotalNat ==
    ASSUME NEW S, IsFiniteSet(S), NEW f, \A x \in S : f[x] \in Nat
    PROVE  Total(f, S) \in Nat
<1> DEFINE G == {T \in SUBSET S : Total(f, T) \in Nat}
<1>1. {} \in G
    BY TotalOfNone
<1>2. ASSUME NEW T \in SUBSET S, NEW x \in S \ T, T \in G
      PROVE  T \cup {x} \in G
    <2>1. IsFiniteSet(T) /\ \A y \in T \cup {x} : f[y] \in Int
        BY FS_Subset
    <2>2. Total(f, T \cup {x}) = f[x] + Total(f, T)
        BY <2>1, TotalAdds
    <2> QED
        BY <1>2, <2>2
<1> HIDE DEF G
<1>3. S \in G
    BY <1>1, <1>2, FiniteSetInduction
<1> QED
    BY <1>3 DEF G

-----------------------------------------------------------------------------
(* Sequences without duplicates *)

(* No element stands twice in a sequence. *)
Distinct(q) == \A i, j \in DOMAIN q : q[i] = q[j] => i = j

\* Where the elements of two sequences in a row come from.
LEMMA Joined ==
    ASSUME NEW S, NEW a \in Seq(S), NEW b \in Seq(S)
    PROVE  /\ a \o b \in Seq(S)
           /\ Len(a \o b) = Len(a) + Len(b)
           /\ \A i \in 1..Len(a) : (a \o b)[i] = a[i]
           /\ \A i \in 1..Len(b) : (a \o b)[Len(a) + i] = b[i]
<1>1. Len(a) \in Nat /\ Len(b) \in Nat
    OBVIOUS
<1>2. a \o b \in Seq(S) /\ Len(a \o b) = Len(a) + Len(b)
    OBVIOUS
<1>3. \A i \in 1..Len(a) : (a \o b)[i] = a[i]
    OBVIOUS
<1>4. ASSUME NEW i \in 1..Len(b)
      PROVE  (a \o b)[Len(a) + i] = b[i]
    BY <1>1
<1> QED
    BY <1>2, <1>3, <1>4

\* The index where RemoveFirst cuts, and what is left.
LEMMA Cut ==
    ASSUME NEW S, NEW q \in Seq(S), NEW e, NEW k \in DOMAIN q, q[k] = e, Distinct(q)
    PROVE  /\ RemoveFirst(q, e) \in Seq(S)
           /\ Len(RemoveFirst(q, e)) = Len(q) - 1
           /\ \A i \in 1..(Len(q) - 1) :
                 RemoveFirst(q, e)[i] = IF i < k THEN q[i] ELSE q[i + 1]
<1> DEFINE I == {i \in 1..Len(q) : q[i] = e}
           r == RemoveAt(q, k)
<1>1. I = {k}
    BY DEF Distinct
<1>2. Min(I) = k
    BY <1>1 DEF Min
<1>3. RemoveFirst(q, e) = RemoveAt(q, Min(I))
    BY <1>1 DEF RemoveFirst, SelectInSeq
<1>4. RemoveFirst(q, e) = r
    BY <1>2, <1>3
<1>5. k \in 1..Len(q) /\ Len(q) \in Nat
    OBVIOUS
<1>6. /\ SubSeq(q, 1, k - 1) \in Seq(S) /\ Len(SubSeq(q, 1, k - 1)) = k - 1
      /\ \A i \in 1..(k - 1) : SubSeq(q, 1, k - 1)[i] = q[i]
    BY <1>5
<1>7. /\ SubSeq(q, k + 1, Len(q)) \in Seq(S) /\ Len(SubSeq(q, k + 1, Len(q))) = Len(q) - k
      /\ \A i \in 1..(Len(q) - k) : SubSeq(q, k + 1, Len(q))[i] = q[k + i]
    BY <1>5
<1>8. r = SubSeq(q, 1, k - 1) \o SubSeq(q, k + 1, Len(q))
    BY DEF RemoveAt
<1> DEFINE a == SubSeq(q, 1, k - 1)
           b == SubSeq(q, k + 1, Len(q))
<1> HIDE DEF a, b, r
<1> DEFINE n == Len(q)
<1>9. /\ r = a \o b /\ a \in Seq(S) /\ b \in Seq(S)
      /\ Len(a) = k - 1 /\ Len(b) = n - k
    BY <1>5, <1>6, <1>7, <1>8 DEF a, b
<1>n. n \in Nat /\ k \in Nat /\ 1 <= k /\ k <= n
    BY <1>5
<1>10. /\ \A i \in 1..(k - 1) : a[i] = q[i]
       /\ \A i \in 1..(n - k) : b[i] = q[k + i]
    BY <1>6, <1>7 DEF a, b
<1>11. /\ r \in Seq(S)
       /\ Len(r) = Len(a) + Len(b)
       /\ \A i \in 1..Len(a) : r[i] = a[i]
       /\ \A i \in 1..Len(b) : r[Len(a) + i] = b[i]
    <2>1. a \in Seq(S) /\ b \in Seq(S)
        BY <1>9
    <2>2. /\ a \o b \in Seq(S)
          /\ Len(a \o b) = Len(a) + Len(b)
          /\ \A i \in 1..Len(a) : (a \o b)[i] = a[i]
          /\ \A i \in 1..Len(b) : (a \o b)[Len(a) + i] = b[i]
        BY <2>1, Joined
    <2> QED
        BY <1>9, <2>2
<1> HIDE DEF n
<1>12. r \in Seq(S) /\ Len(r) = n - 1
    BY <1>9, <1>n, <1>11
<1>13. ASSUME NEW i \in 1..(n - 1)
       PROVE  r[i] = IF i < k THEN q[i] ELSE q[i + 1]
    <2>1. CASE i < k
        <3>1. i \in 1..(k - 1)
            BY <1>n, <2>1
        <3>2. r[i] = a[i]
            BY <1>9, <1>11, <3>1
        <3> QED
            BY <1>10, <2>1, <3>1, <3>2
    <2>2. CASE ~(i < k)
        <3> DEFINE m == i - k + 1
        <3>1. m \in 1..(n - k) /\ (k - 1) + m = i /\ k + m = i + 1
            <4>1. i \in Nat /\ i <= n - 1
                BY <1>n
            <4> QED
                BY <1>n, <2>2, <4>1
        <3> HIDE DEF m
        <3>2. r[Len(a) + m] = b[m]
            BY <1>9, <1>11, <3>1
        <3>3. r[i] = b[m] /\ b[m] = q[i + 1]
            BY <1>9, <1>10, <3>1, <3>2
        <3> QED
            BY <2>2, <3>3
    <2> QED
        BY <2>1, <2>2
<1> QED
    BY <1>4, <1>12, <1>13 DEF n

\* RemoveFirst takes one element out of a sequence without duplicates.
LEMMA TakenOut ==
    ASSUME NEW S, NEW q \in Seq(S), NEW e, Distinct(q)
    PROVE  /\ RemoveFirst(q, e) \in Seq(S)
           /\ Distinct(RemoveFirst(q, e))
           /\ ToSet(RemoveFirst(q, e)) = ToSet(q) \ {e}
<1> DEFINE r == RemoveFirst(q, e)
           n == Len(q)
<1>0. n \in Nat /\ DOMAIN q = 1..n
    OBVIOUS
<1>1. CASE \A i \in DOMAIN q : q[i] # e
    <2>1. r = q
        BY <1>1 DEF RemoveFirst
    <2>2. e \notin ToSet(q)
        BY <1>1 DEF ToSet
    <2> HIDE DEF r
    <2> QED
        BY <2>1, <2>2 DEF r
<1>2. ASSUME NEW k \in DOMAIN q, q[k] = e
      PROVE  r \in Seq(S) /\ Distinct(r) /\ ToSet(r) = ToSet(q) \ {e}
    <2>1. /\ r \in Seq(S) /\ Len(r) = n - 1
          /\ \A i \in 1..(n - 1) : r[i] = IF i < k THEN q[i] ELSE q[i + 1]
        BY <1>2, Cut
    <2> HIDE DEF r
    <2> DEFINE from(i) == IF i < k THEN i ELSE i + 1
    <2>2. k \in 1..n
        BY <1>0, <1>2
    <2>3. DOMAIN r = 1..(n - 1)
        BY <2>1
    <2> HIDE DEF n
    <2>4. \A i \in 1..(n - 1) : from(i) \in 1..n \ {k} /\ r[i] = q[from(i)]
        BY <1>0, <2>1, <2>2
    <2>5. \A i, j \in 1..(n - 1) : from(i) = from(j) => i = j
        BY <1>0, <2>2
    <2>6. \A m \in 1..n \ {k} : \E i \in 1..(n - 1) : from(i) = m
        <3> TAKE m \in 1..n \ {k}
        <3>1. CASE m < k
            <4>1. m \in 1..(n - 1) /\ from(m) = m
                BY <1>0, <2>2, <3>1
            <4> QED
                BY <4>1
        <3>2. CASE m > k
            <4>1. m - 1 \in 1..(n - 1) /\ from(m - 1) = m
                BY <1>0, <2>2, <3>2
            <4> QED
                BY <4>1
        <3> QED
            BY <1>0, <2>2, <3>1, <3>2
    <2> HIDE DEF from
    <2>7. Distinct(r)
        BY <1>0, <2>3, <2>4, <2>5 DEF Distinct
    <2>8. ToSet(r) \subseteq ToSet(q) \ {e}
        <3> SUFFICES ASSUME NEW i \in 1..(n - 1)
                     PROVE  r[i] \in ToSet(q) \ {e}
            BY <2>3 DEF ToSet
        <3>1. from(i) \in DOMAIN q /\ from(i) # k /\ r[i] = q[from(i)]
            BY <1>0, <2>4
        <3>2. r[i] # e
            BY <1>2, <3>1 DEF Distinct
        <3> QED
            BY <3>1, <3>2 DEF ToSet
    <2>9. ToSet(q) \ {e} \subseteq ToSet(r)
        <3> SUFFICES ASSUME NEW m \in DOMAIN q, q[m] # e
                     PROVE  q[m] \in ToSet(r)
            BY DEF ToSet
        <3>1. m \in 1..n \ {k}
            BY <1>0, <1>2
        <3>2. PICK i \in 1..(n - 1) : from(i) = m
            BY <2>6, <3>1
        <3>3. r[i] = q[m] /\ i \in DOMAIN r
            BY <2>3, <2>4, <3>2
        <3> QED
            BY <3>3 DEF ToSet
    <2> QED
        BY <2>1, <2>7, <2>8, <2>9
<1> QED
    BY <1>1, <1>2

\* A new element at the end of a sequence without duplicates.
LEMMA PutLast ==
    ASSUME NEW S, NEW q \in Seq(S), NEW e, Distinct(q), e \notin ToSet(q)
    PROVE  /\ Append(q, e) \in Seq(S \cup {e})
           /\ Distinct(Append(q, e))
           /\ ToSet(Append(q, e)) = ToSet(q) \cup {e}
<1> DEFINE r == Append(q, e)
           n == Len(q)
<1>1. /\ n \in Nat /\ DOMAIN q = 1..n /\ DOMAIN r = 1..(n + 1)
      /\ \A i \in 1..n : r[i] = q[i]
      /\ r[n + 1] = e
    OBVIOUS
<1>2. r \in Seq(S \cup {e})
    <2>1. q \in Seq(S \cup {e})
        OBVIOUS
    <2> QED
        BY <2>1
<1> HIDE DEF n, r
<1>3. \A i \in 1..n : q[i] # e
    BY <1>1 DEF ToSet
<1>4. \A i \in 1..(n + 1) : i \in 1..n \/ i = n + 1
    BY <1>1
<1>5. Distinct(r)
    BY <1>1, <1>3, <1>4 DEF Distinct
<1>6. ToSet(r) = ToSet(q) \cup {e}
    <2>1. ToSet(q) \subseteq ToSet(r)
        BY <1>1 DEF ToSet
    <2>2. e \in ToSet(r)
        BY <1>1 DEF ToSet
    <2>3. ToSet(r) \subseteq ToSet(q) \cup {e}
        BY <1>1, <1>4 DEF ToSet
    <2> QED
        BY <2>1, <2>2, <2>3
<1> QED
    BY <1>2, <1>5, <1>6 DEF r

\* Its elements are as many as it is long.
LEMMA AsManyAsLong ==
    ASSUME NEW S, NEW q \in Seq(S), Distinct(q)
    PROVE  IsFiniteSet(ToSet(q)) /\ Cardinality(ToSet(q)) = Len(q)
<1> DEFINE n == Len(q)
           D == 1..n
           T == ToSet(q)
<1>1. n \in Nat /\ DOMAIN q = D
    OBVIOUS
<1>2. IsFiniteSet(D) /\ Cardinality(D) = n
    <2>1. IsFiniteSet(1..n) /\ Cardinality(1..n) = IF 1 > n THEN 0 ELSE n - 1 + 1
        BY <1>1, FS_Interval
    <2> QED
        BY <1>1, <2>1
<1>3. q \in [D -> T]
    BY <1>1 DEF ToSet
<1>4. q \in Surjection(D, T)
    BY <1>1, <1>3 DEF ToSet, Surjection
<1>5. q \in Injection(D, T)
    BY <1>1, <1>3 DEF Distinct, Injection, IsInjective
<1> HIDE DEF D, T, n
<1> QED
    BY <1>2, <1>4, <1>5, FS_Surjection DEF T, n
=============================================================================
