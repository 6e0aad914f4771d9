----------------------------- MODULE SumTheorems -----------------------------
(***************************************************************************)
(* Theorems about the sums of FiniteSetsExt, which fold over a finite set  *)
(* with the choice of a recursive function, for the models that count.     *)
(* Induction is cited as WFMin, which takes a set and no operator.         *)
(***************************************************************************)
EXTENDS Integers, FiniteSetsExt, TLAPS, WellFoundedInduction, FiniteSetTheorems

\* The sum of the numbers that f has for the members of S.
Sum(f, S) == MapThenSumSet(LAMBDA k : f[k], S)

\* f has a number for every member of S.
Numbers(f, S) == \A k \in S : f[k] \in Int

\* The member that the fold over a set takes first.
Taken(s) == CHOOSE k \in s : TRUE

\* g is the sum of f for every set in D.
SumsUp(f, g, D) ==
    g = [s \in D |-> IF s = {} THEN 0 ELSE f[Taken(s)] + g[s \ {Taken(s)}]]

\* A sum is the last value of the fold that the community modules define.
LEMMA SumIs ==
  ASSUME NEW f, NEW S
  PROVE  Sum(f, S) = (CHOOSE g : SumsUp(f, g, SUBSET S))[S]
BY DEF Sum, MapThenSumSet, MapThenFoldSet, SumsUp, Taken

\* A set has the member that is taken first.
LEMMA TakenIs == ASSUME NEW s, s # {} PROVE Taken(s) \in s
BY DEF Taken

\* The subsets of S of at most n members.
UpTo(S, n) == {s \in SUBSET S : Cardinality(s) <= n}

\* Whatever holds of the least number that it might fail for, holds.
LEMMA LeastFailure ==
  ASSUME NEW T \in SUBSET Nat, 0 \in T, \A n \in Nat : n \in T => n + 1 \in T
  PROVE  T = Nat
<1> DEFINE Below == OpToRel(<, Nat)
<1>1. IsWellFoundedOn(Below, Nat)
  BY NatLessThanWellFounded
<1> SUFFICES ASSUME Nat \ T # {} PROVE FALSE
  OBVIOUS
<1>2. PICK n \in Nat \ T : \A m \in Nat \ T : ~(<<m, n>> \in Below)
  BY <1>1, WFMin
<1>3. n # 0 /\ n - 1 \in Nat
  OBVIOUS
<1>4. <<n - 1, n>> \in Below
  <2>1. <<n - 1, n>> \in Nat \X Nat /\ <<n - 1, n>>[1] < <<n - 1, n>>[2]
    BY <1>3
  <2> QED
    BY <2>1 DEF OpToRel
<1>5. n - 1 \in T
  BY <1>2, <1>3, <1>4
<1> QED
  BY <1>3, <1>5

\* A member less is one less to sum.
LEMMA OneLess ==
  ASSUME NEW S, IsFiniteSet(S), NEW n \in Nat, NEW s \in UpTo(S, n + 1), NEW k \in s
  PROVE  s \ {k} \in UpTo(S, n)
<1>1. IsFiniteSet(s) /\ s \in SUBSET S /\ Cardinality(s) <= n + 1
  BY FS_Subset DEF UpTo
<1>2. Cardinality(s \ {k}) = Cardinality(s) - 1 /\ Cardinality(s) \in Nat
  BY <1>1, FS_RemoveElement, FS_CardinalityType
<1> QED
  BY <1>1, <1>2 DEF UpTo

\* The members of UpTo grow with n, and S has none beyond its own size.
LEMMA UpToGrows ==
  ASSUME NEW S, IsFiniteSet(S)
  PROVE  /\ UpTo(S, 0) = {{}}
         /\ \A n \in Nat : UpTo(S, n) \subseteq UpTo(S, n + 1)
         /\ UpTo(S, Cardinality(S)) = SUBSET S
         /\ Cardinality(S) \in Nat
<1>1. \A s \in SUBSET S : /\ IsFiniteSet(s) /\ Cardinality(s) \in Nat
                          /\ Cardinality(s) <= Cardinality(S)
                          /\ Cardinality(s) = 0 => s = {}
  BY FS_Subset, FS_CardinalityType, FS_EmptySet
<1>2. Cardinality({}) = 0
  BY FS_EmptySet
<1>3. UpTo(S, 0) = {{}}
  BY <1>1, <1>2 DEF UpTo
<1>4. \A n \in Nat : UpTo(S, n) \subseteq UpTo(S, n + 1)
  BY <1>1 DEF UpTo
<1>5. UpTo(S, Cardinality(S)) = SUBSET S
  BY <1>1 DEF UpTo
<1> QED
  BY <1>3, <1>4, <1>5, FS_CardinalityType

\* The fold exists: every set is summed after those that are smaller.
LEMMA SumsExist ==
  ASSUME NEW f, NEW S, IsFiniteSet(S)
  PROVE  \E g : SumsUp(f, g, SUBSET S)
<1> DEFINE Ok == {n \in Nat : \E g : SumsUp(f, g, UpTo(S, n))}
           Base == [s \in UpTo(S, 0) |-> 0]
<1>1. 0 \in Ok
  <2>1. SumsUp(f, Base, UpTo(S, 0))
    BY UpToGrows DEF SumsUp
  <2> QED
    BY <2>1
<1>2. ASSUME NEW n \in Nat, n \in Ok PROVE n + 1 \in Ok
  <2>1. PICK g : SumsUp(f, g, UpTo(S, n))
    BY <1>2
  <2> DEFINE Value(e, s) == IF s = {} THEN 0 ELSE f[Taken(s)] + e[s \ {Taken(s)}]
             h == [s \in UpTo(S, n + 1) |-> Value(g, s)]
  <2>2. \A s \in UpTo(S, n) : g[s] = Value(g, s) /\ h[s] = Value(g, s)
    BY <2>1, UpToGrows DEF SumsUp
  <2>3. ASSUME NEW s \in UpTo(S, n + 1) PROVE Value(g, s) = Value(h, s)
    <3>1. CASE s = {}
      BY <3>1
    <3>2. CASE s # {}
      <4>1. s \ {Taken(s)} \in UpTo(S, n)
        BY <3>2, TakenIs, OneLess
      <4>2. g[s \ {Taken(s)}] = h[s \ {Taken(s)}]
        <5> DEFINE r == s \ {Taken(s)}
        <5> HIDE DEF r, h, Value
        <5>1. g[r] = h[r]
          BY <4>1, <2>2 DEF r
        <5> QED
          BY <5>1 DEF r
      <4> QED
        BY <4>2
    <3> QED
      BY <3>1, <3>2
  <2>4. h = [s \in UpTo(S, n + 1) |-> Value(h, s)]
    BY <2>3
  <2>5. SumsUp(f, h, UpTo(S, n + 1))
    BY <2>4 DEF SumsUp
  <2> QED
    BY <2>5
<1>3. Ok = Nat
  <2> HIDE DEF Ok
  <2>1. Ok \in SUBSET Nat
    BY DEF Ok
  <2> QED
    BY <1>1, <1>2, <2>1, LeastFailure
<1>4. Cardinality(S) \in Ok /\ UpTo(S, Cardinality(S)) = SUBSET S
  <2> HIDE DEF Ok
  <2> QED
    BY <1>3, UpToGrows
<1> QED
  BY <1>4

\* Two folds agree on the sets that both are about, and their sums are numbers.
LEMMA SumsAgree ==
  ASSUME NEW f, NEW S, Numbers(f, S), IsFiniteSet(S),
         NEW R \in SUBSET S,
         NEW g, SumsUp(f, g, SUBSET S), NEW h, SumsUp(f, h, SUBSET R)
  PROVE  \A s \in SUBSET R : g[s] = h[s] /\ g[s] \in Int
<1>1. IsFiniteSet(R)
  BY FS_Subset
<1> DEFINE Ok == {n \in Nat : \A s \in UpTo(R, n) : g[s] = h[s] /\ g[s] \in Int}
<1>2. \A s \in SUBSET R :
        /\ g[s] = IF s = {} THEN 0 ELSE f[Taken(s)] + g[s \ {Taken(s)}]
        /\ h[s] = IF s = {} THEN 0 ELSE f[Taken(s)] + h[s \ {Taken(s)}]
  BY DEF SumsUp
<1>3. 0 \in Ok
  <2>1. \A s \in SUBSET R : s = {} => g[s] = 0 /\ h[s] = 0
    BY <1>2
  <2>2. \A s \in UpTo(R, 0) : s = {} /\ s \in SUBSET R
    BY <1>1, UpToGrows
  <2> QED
    BY <2>1, <2>2
<1>4. ASSUME NEW n \in Nat, n \in Ok PROVE n + 1 \in Ok
  <2> SUFFICES ASSUME NEW s \in UpTo(R, n + 1) PROVE g[s] = h[s] /\ g[s] \in Int
    OBVIOUS
  <2>0. s \in SUBSET R
    BY DEF UpTo
  <2>1. CASE s = {}
    <3>1. g[s] = 0 /\ h[s] = 0
      BY <2>0, <2>1, <1>2
    <3> QED
      BY <3>1
  <2>2. CASE s # {}
    <3>1. Taken(s) \in s /\ Taken(s) \in S
      BY <2>0, <2>2, TakenIs
    <3>2. s \ {Taken(s)} \in UpTo(R, n)
      BY <1>1, <3>1, OneLess
    <3>3. f[Taken(s)] \in Int
      BY <3>1 DEF Numbers
    <3>4. g[s \ {Taken(s)}] = h[s \ {Taken(s)}] /\ g[s \ {Taken(s)}] \in Int
      BY <3>2, <1>4
    <3>5. /\ g[s] = f[Taken(s)] + g[s \ {Taken(s)}]
          /\ h[s] = f[Taken(s)] + h[s \ {Taken(s)}]
      BY <2>0, <2>2, <1>2
    <3> QED
      BY <3>3, <3>4, <3>5
  <2> QED
    BY <2>1, <2>2
<1>5. Ok = Nat
  <2> HIDE DEF Ok
  <2>1. Ok \in SUBSET Nat
    BY DEF Ok
  <2> QED
    BY <1>3, <1>4, <2>1, LeastFailure
<1> QED
  BY <1>1, <1>5, UpToGrows

\* Hence a sum is the value of any fold over a larger set.
LEMMA SumOf ==
  ASSUME NEW f, NEW S, Numbers(f, S), IsFiniteSet(S),
         NEW g, SumsUp(f, g, SUBSET S)
  PROVE  \A s \in SUBSET S : Sum(f, s) = g[s] /\ Sum(f, s) \in Int
<1> SUFFICES ASSUME NEW s \in SUBSET S PROVE Sum(f, s) = g[s] /\ Sum(f, s) \in Int
  OBVIOUS
<1> DEFINE h == CHOOSE h : SumsUp(f, h, SUBSET s)
<1>1. IsFiniteSet(s)
  BY FS_Subset
<1>2. SumsUp(f, h, SUBSET s)
  BY <1>1, SumsExist
<1>3. Sum(f, s) = h[s]
  BY SumIs
<1> HIDE DEF h
<1>4. g[s] = h[s] /\ g[s] \in Int
  BY <1>2, SumsAgree
<1> QED
  BY <1>3, <1>4

\* The sum does not depend on the order: any member may be taken first.
LEMMA AnyFirst ==
  ASSUME NEW f, NEW S, Numbers(f, S), IsFiniteSet(S),
         NEW g, SumsUp(f, g, SUBSET S), NEW i \in S
  PROVE  g[S] = f[i] + g[S \ {i}]
<1> DEFINE Ok == {n \in Nat : \A s \in UpTo(S, n) : \A k \in s : g[s] = f[k] + g[s \ {k}]}
<1>1. \A s \in SUBSET S : g[s] \in Int
  BY SumOf
<1>2. \A s \in SUBSET S : s # {} => g[s] = f[Taken(s)] + g[s \ {Taken(s)}]
  BY DEF SumsUp
<1>3. 0 \in Ok
  BY UpToGrows
<1>4. ASSUME NEW n \in Nat, n \in Ok PROVE n + 1 \in Ok
  <2> SUFFICES ASSUME NEW s \in UpTo(S, n + 1), NEW k \in s
               PROVE  g[s] = f[k] + g[s \ {k}]
    OBVIOUS
  <2> DEFINE x == Taken(s)
  <2>1. s \in SUBSET S /\ x \in s
    BY TakenIs DEF UpTo
  <2> HIDE DEF x
  <2>2. g[s] = f[x] + g[s \ {x}]
    BY <2>1, <1>2 DEF x
  <2>3. CASE x = k
    BY <2>2, <2>3
  <2>4. CASE x # k
    <3>1. s \ {x} \in UpTo(S, n) /\ s \ {k} \in UpTo(S, n)
      BY <2>1, OneLess
    <3>2. g[s \ {x}] = f[k] + g[(s \ {x}) \ {k}]
      BY <3>1, <2>4, <1>4
    <3>3. g[s \ {k}] = f[x] + g[(s \ {k}) \ {x}]
      BY <3>1, <2>1, <2>4, <1>4
    <3>4. (s \ {x}) \ {k} = (s \ {k}) \ {x} /\ (s \ {k}) \ {x} \in SUBSET S
      BY <2>1
    <3>5. g[(s \ {k}) \ {x}] \in Int /\ f[k] \in Int /\ f[x] \in Int
      BY <3>4, <1>1, <2>1 DEF Numbers
    <3>6. g[s] = f[x] + (f[k] + g[(s \ {k}) \ {x}])
      BY <2>2, <3>2, <3>4
    <3> QED
      BY <3>3, <3>5, <3>6
  <2> QED
    BY <2>3, <2>4
<1>5. Ok = Nat
  <2> HIDE DEF Ok
  <2>1. Ok \in SUBSET Nat
    BY DEF Ok
  <2> QED
    BY <1>3, <1>4, <2>1, LeastFailure
<1>6. Cardinality(S) \in Ok /\ UpTo(S, Cardinality(S)) = SUBSET S
  <2> HIDE DEF Ok
  <2> QED
    BY <1>5, UpToGrows
<1> QED
  BY <1>6

\* Nothing sums up to nothing.
LEMMA SumOfNone == ASSUME NEW f PROVE Sum(f, {}) = 0
<1>0. Numbers(f, {})
  BY DEF Numbers
<1>1. PICK g : SumsUp(f, g, SUBSET {})
  BY SumsExist, FS_EmptySet
<1>2. g[{}] = 0
  BY <1>1 DEF SumsUp
<1> QED
  BY <1>0, <1>1, <1>2, SumOf, FS_EmptySet

\* One member more adds its number.
LEMMA SumAdds ==
  ASSUME NEW f, NEW S, Numbers(f, S), IsFiniteSet(S),
         NEW k, k \notin S, f[k] \in Int
  PROVE  Sum(f, S \cup {k}) = Sum(f, S) + f[k] /\ Sum(f, S) \in Int
<1> DEFINE R == S \cup {k}
<1>1. IsFiniteSet(R) /\ Numbers(f, R) /\ S \in SUBSET R /\ R \in SUBSET R
  BY FS_AddElement DEF Numbers
<1>2. PICK g : SumsUp(f, g, SUBSET R)
  BY <1>1, SumsExist
<1>3. g[R] = f[k] + g[R \ {k}]
  <2>1. k \in R
    OBVIOUS
  <2>2. Numbers(f, R) /\ IsFiniteSet(R) /\ SumsUp(f, g, SUBSET R)
    BY <1>1, <1>2
  <2> HIDE DEF R
  <2>3. \A i \in R : g[R] = f[i] + g[R \ {i}]
    BY <2>2, AnyFirst
  <2> QED
    BY <2>1, <2>3
<1>4. R \ {k} = S
  OBVIOUS
<1>5. Sum(f, R) = g[R] /\ Sum(f, S) = g[S] /\ Sum(f, S) \in Int
  <2> HIDE DEF R
  <2>1. \A s \in SUBSET R : Sum(f, s) = g[s] /\ Sum(f, s) \in Int
    BY <1>1, <1>2, SumOf
  <2> QED
    BY <1>1, <2>1
<1>6. f[k] \in Int
  OBVIOUS
<1>7. g[R] = f[k] + g[S]
  BY <1>3, <1>4
<1>8. g[S] \in Int
  BY <1>5
<1>9. Sum(f, R) = Sum(f, S) + f[k]
  BY <1>5, <1>6, <1>7, <1>8
<1> QED
  BY <1>5, <1>9

\* A sum depends on the members only.
LEMMA SumDepends ==
  ASSUME NEW f, NEW S, Numbers(f, S), IsFiniteSet(S), NEW h, \A i \in S : f[i] = h[i]
  PROVE  Sum(f, S) = Sum(h, S)
<1>1. PICK g : SumsUp(f, g, SUBSET S)
  BY SumsExist
<1>2. \A s \in SUBSET S : s # {} => f[Taken(s)] = h[Taken(s)]
  BY TakenIs
<1>3. SumsUp(h, g, SUBSET S) /\ Numbers(h, S)
  BY <1>1, <1>2 DEF SumsUp, Numbers
<1>4. Sum(f, S) = g[S]
  BY <1>1, SumOf
<1>5. Sum(h, S) = g[S]
  BY <1>3, SumOf
<1> QED
  BY <1>4, <1>5

\* One number less by n and another one more by n leave the sum as it was.
LEMMA SumKept ==
  ASSUME NEW S, IsFiniteSet(S), NEW f, NEW h, NEW n \in Int,
         NEW i \in S, NEW j \in S, i # j, \A k \in S : f[k] \in Int,
         h[i] = f[i] - n, h[j] = f[j] + n, \A k \in S \ {i, j} : h[k] = f[k]
  PROVE  Sum(h, S) = Sum(f, S)
<1> DEFINE R == S \ {i, j}
<1>1. /\ \A k \in R : h[k] = f[k]
      /\ \A k \in S : f[k] \in Int /\ h[k] \in Int
  OBVIOUS
<1>2. /\ IsFiniteSet(R) /\ IsFiniteSet(R \cup {i})
      /\ i \notin R /\ j \notin R \cup {i}
      /\ (R \cup {i}) \cup {j} = S
  BY FS_Subset
<1> HIDE DEF R
<1>3. /\ Numbers(f, R) /\ Numbers(f, R \cup {i})
      /\ Numbers(h, R) /\ Numbers(h, R \cup {i})
  <2>1. \A k \in R \cup {i} : k \in S
    BY DEF R
  <2> QED
    BY <1>1, <2>1 DEF Numbers
<1>4. Sum(f, R) = Sum(h, R)
  BY <1>1, <1>2, <1>3, SumDepends
<1>5. /\ Sum(f, R \cup {i}) = Sum(f, R) + f[i] /\ Sum(f, R) \in Int
      /\ Sum(h, R \cup {i}) = Sum(h, R) + h[i]
  BY <1>1, <1>2, <1>3, SumAdds
<1>6. /\ Sum(f, S) = Sum(f, R \cup {i}) + f[j]
      /\ Sum(h, S) = Sum(h, R \cup {i}) + h[j]
  <2>1. /\ Sum(f, (R \cup {i}) \cup {j}) = Sum(f, R \cup {i}) + f[j]
        /\ Sum(h, (R \cup {i}) \cup {j}) = Sum(h, R \cup {i}) + h[j]
    BY <1>1, <1>2, <1>3, SumAdds
  <2> QED
    BY <1>2, <2>1
<1>7. f[i] \in Int /\ f[j] \in Int
  BY <1>1
<1> QED
  BY <1>4, <1>5, <1>6, <1>7

\* Sums grow with what is summed.
LEMMA SumMonotone ==
  ASSUME NEW S, IsFiniteSet(S), NEW f, NEW h,
         \A k \in S : f[k] \in Nat /\ h[k] \in Nat /\ f[k] <= h[k]
  PROVE  Sum(f, S) \in Nat /\ Sum(h, S) \in Nat /\ Sum(f, S) <= Sum(h, S)
<1> DEFINE Good(s) == Sum(f, s) \in Nat /\ Sum(h, s) \in Nat /\ Sum(f, s) <= Sum(h, s)
           Ok == {n \in Nat : \A s \in UpTo(S, n) : Good(s)}
<1>1. Good({})
  BY SumOfNone
<1>2. 0 \in Ok
  <2>1. \A s \in UpTo(S, 0) : s = {}
    BY UpToGrows
  <2> HIDE DEF Good
  <2> QED
    BY <1>1, <2>1
<1>3. ASSUME NEW n \in Nat, n \in Ok PROVE n + 1 \in Ok
  <2> SUFFICES ASSUME NEW s \in UpTo(S, n + 1) PROVE Good(s)
    OBVIOUS
  <2>1. CASE s = {}
    <3> HIDE DEF Good
    <3> QED
      BY <1>1, <2>1
  <2>2. CASE s # {}
    <3> DEFINE k == Taken(s)
               r == s \ {k}
    <3>1. k \in s /\ s \in SUBSET S /\ r \in UpTo(S, n)
      BY <2>2, TakenIs, OneLess DEF UpTo
    <3>2. k \in S /\ k \notin r /\ r \cup {k} = s /\ IsFiniteSet(r) /\ r \in SUBSET S
      BY <3>1, FS_Subset
    <3>3. Good(r)
      <4> HIDE DEF Good, r
      <4> QED
        BY <1>3, <3>1
    <3> HIDE DEF r, k
    <3>4. Numbers(f, r) /\ Numbers(h, r) /\ f[k] \in Int /\ h[k] \in Int
      BY <3>2 DEF Numbers
    <3>5. Sum(f, r \cup {k}) = Sum(f, r) + f[k] /\ Sum(h, r \cup {k}) = Sum(h, r) + h[k]
      BY <3>2, <3>4, SumAdds
    <3>6. Sum(f, s) = Sum(f, r) + f[k] /\ Sum(h, s) = Sum(h, r) + h[k]
      BY <3>2, <3>5
    <3>7. f[k] \in Nat /\ h[k] \in Nat /\ f[k] <= h[k]
      BY <3>2
    <3> QED
      BY <3>3, <3>6, <3>7
  <2> QED
    BY <2>1, <2>2
<1>4. Ok = Nat
  <2> HIDE DEF Ok
  <2>1. Ok \in SUBSET Nat
    BY DEF Ok
  <2> QED
    BY <1>2, <1>3, <2>1, LeastFailure
<1>5. Cardinality(S) \in Ok /\ UpTo(S, Cardinality(S)) = SUBSET S
  <2> HIDE DEF Ok
  <2> QED
    BY <1>4, UpToGrows
<1>6. S \in UpTo(S, Cardinality(S))
  BY <1>5
<1>7. Good(S)
  <2> HIDE DEF Good
  <2> QED
    BY <1>5, <1>6
<1> QED
  BY <1>7

\* A sum of zeros is zero.
LEMMA SumOfZeros ==
  ASSUME NEW S, IsFiniteSet(S), NEW f, \A k \in S : f[k] = 0
  PROVE  Sum(f, S) = 0
<1> DEFINE Ok == {n \in Nat : \A s \in UpTo(S, n) : Sum(f, s) = 0}
<1>1. 0 \in Ok
  <2>1. \A s \in UpTo(S, 0) : s = {}
    BY UpToGrows
  <2> QED
    BY <2>1, SumOfNone
<1>2. ASSUME NEW n \in Nat, n \in Ok PROVE n + 1 \in Ok
  <2> SUFFICES ASSUME NEW s \in UpTo(S, n + 1), s # {} PROVE Sum(f, s) = 0
    BY SumOfNone
  <2> DEFINE k == Taken(s)
             r == s \ {k}
  <2>1. k \in s /\ s \in SUBSET S /\ r \in UpTo(S, n)
    BY TakenIs, OneLess DEF UpTo
  <2>2. k \in S /\ k \notin r /\ r \cup {k} = s /\ IsFiniteSet(r) /\ r \in SUBSET S
    BY <2>1, FS_Subset
  <2>3. Sum(f, r) = 0
    <3> HIDE DEF r
    <3> QED
      BY <1>2, <2>1
  <2> HIDE DEF r, k
  <2>4. Numbers(f, r) /\ f[k] \in Int
    BY <2>2 DEF Numbers
  <2>5. Sum(f, r \cup {k}) = Sum(f, r) + f[k]
    BY <2>2, <2>4, SumAdds
  <2> QED
    BY <2>2, <2>3, <2>5
<1>3. Ok = Nat
  <2> HIDE DEF Ok
  <2>1. Ok \in SUBSET Nat
    BY DEF Ok
  <2> QED
    BY <1>1, <1>2, <2>1, LeastFailure
<1>4. Cardinality(S) \in Ok /\ UpTo(S, Cardinality(S)) = SUBSET S
  <2> HIDE DEF Ok
  <2> QED
    BY <1>3, UpToGrows
<1> QED
  BY <1>4

\* A sum that only two members add to is theirs.
LEMMA SumOfTwo ==
  ASSUME NEW S, IsFiniteSet(S), NEW f, NEW i, NEW j, i # j, f[i] \in Int, f[j] \in Int,
         \A k \in S \ {i, j} : f[k] = 0
  PROVE  Sum(f, S) = (IF i \in S THEN f[i] ELSE 0) + (IF j \in S THEN f[j] ELSE 0)
<1> DEFINE R == S \ {i, j}
           T == IF i \in S THEN R \cup {i} ELSE R
<1>1. /\ IsFiniteSet(R) /\ Numbers(f, R) /\ i \notin R
      /\ IsFiniteSet(T) /\ Numbers(f, T) /\ j \notin T
  BY FS_Subset, FS_AddElement DEF Numbers
<1>2. Sum(f, R) = 0
  BY <1>1, SumOfZeros
<1>3. Sum(f, R \cup {i}) = Sum(f, R) + f[i]
  <2> HIDE DEF R
  <2> QED
    BY <1>1, SumAdds
<1>4. Sum(f, T) = IF i \in S THEN f[i] ELSE 0
  BY <1>2, <1>3
<1>5. Sum(f, T \cup {j}) = Sum(f, T) + f[j]
  <2> HIDE DEF T
  <2> QED
    BY <1>1, SumAdds
<1>6. S = IF j \in S THEN T \cup {j} ELSE T
  OBVIOUS
<1> HIDE DEF T, R
<1>7. CASE j \in S
  <2>1. Sum(f, S) = Sum(f, T) + f[j]
    BY <1>5, <1>6, <1>7
  <2> QED
    BY <1>4, <1>7, <2>1
<1>8. CASE j \notin S
  <2>1. S = T
    BY <1>6, <1>8
  <2>2. Sum(f, S) = Sum(f, T)
    BY <2>1
  <2> QED
    BY <1>4, <1>8, <2>2
<1> QED
  BY <1>7, <1>8

\* One of finitely many has the greatest number.
LEMMA GreatestExists ==
  ASSUME NEW S, IsFiniteSet(S), S # {}, NEW f, Numbers(f, S)
  PROVE  \E k \in S : \A l \in S : f[k] >= f[l]
<1> DEFINE Ok == {n \in Nat : \A s \in UpTo(S, n) :
                                 s # {} => \E k \in s : \A l \in s : f[k] >= f[l]}
<1>1. 0 \in Ok
  BY UpToGrows
<1>2. ASSUME NEW n \in Nat, n \in Ok PROVE n + 1 \in Ok
  <2> SUFFICES ASSUME NEW s \in UpTo(S, n + 1), s # {}
               PROVE  \E k \in s : \A l \in s : f[k] >= f[l]
    OBVIOUS
  <2>1. PICK i \in s : TRUE
    OBVIOUS
  <2>2. s \ {i} \in UpTo(S, n)
    BY OneLess
  <2>3. \A l \in s : f[l] \in Int
    BY DEF UpTo, Numbers
  <2>4. CASE s \ {i} = {}
    BY <2>1, <2>3, <2>4
  <2>5. CASE s \ {i} # {}
    <3>1. PICK k \in s \ {i} : \A l \in s \ {i} : f[k] >= f[l]
      BY <1>2, <2>2, <2>5
    <3> QED
      BY <2>1, <2>3, <3>1
  <2> QED
    BY <2>4, <2>5
<1>3. Ok = Nat
  <2> HIDE DEF Ok
  <2>1. Ok \in SUBSET Nat
    BY DEF Ok
  <2> QED
    BY <1>1, <1>2, <2>1, LeastFailure
<1>4. Cardinality(S) \in Ok /\ UpTo(S, Cardinality(S)) = SUBSET S
  <2> HIDE DEF Ok
  <2> QED
    BY <1>3, UpToGrows
<1> QED
  BY <1>4
=============================================================================
