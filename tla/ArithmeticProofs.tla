---------------------------- MODULE ArithmeticProofs ----------------------------
(***************************************************************************)
(* The numbers of the models: sums over finite sets of rows (balances,     *)
(* allowances), rounding to a unit, and the prices of FxQuote for all      *)
(* legal fees and amounts.                                                 *)
(***************************************************************************)
EXTENDS FxQuote, FiniteSets, FiniteSetsExt, FiniteSetTheorems, WellFoundedInduction, TLAPS

-----------------------------------------------------------------------------
(* Least counterexamples, in the place of induction.                       *)

\* Among sets of subsets of a finite set there is one no other is inside of: the
\* counterexample to start from in what would be an induction on finite sets.
LEMMA LeastSubset ==
    ASSUME NEW S, IsFiniteSet(S), NEW Bad \in SUBSET (SUBSET S), Bad # {}
    PROVE  \E T \in Bad : \A U \in SUBSET T : U # T => U \notin Bad
<1> DEFINE R == StrictSubsetOrdering(S)
<1>1. IsWellFoundedOn(R, SUBSET S)
  BY FS_StrictSubsetOrderingWellFounded, FS_FiniteSubsetsOfFinite
<1>2. PICK T \in Bad : \A U \in Bad : <<U, T>> \notin R
  <2> HIDE DEF R
  <2> QED
    BY <1>1, WFMin
<1>3. ASSUME NEW U \in SUBSET T, U # T, U \in Bad PROVE FALSE
  <2>1. <<U, T>> \in R
    BY <1>3 DEF StrictSubsetOrdering
  <2> QED
    BY <1>2, <1>3, <2>1
<1> QED
  BY <1>3

\* The same of numbers.
LEMMA LeastNumber ==
    ASSUME NEW Bad \in SUBSET Nat, Bad # {}
    PROVE  \E m \in Bad : \A n \in Nat : n < m => n \notin Bad
<1> DEFINE R == OpToRel(<, Nat)
<1>1. PICK m \in Bad : \A n \in Bad : <<n, m>> \notin R
  <2>1. IsWellFoundedOn(R, Nat)
    BY NatLessThanWellFounded
  <2> HIDE DEF R
  <2> QED
    BY <2>1, WFMin
<1>2. ASSUME NEW n \in Nat, n < m, n \in Bad PROVE FALSE
  <2>1. <<n, m>> \in R
    BY <1>2 DEF OpToRel
  <2> QED
    BY <1>1, <1>2, <2>1
<1> QED
  BY <1>2

-----------------------------------------------------------------------------
(* Sums over finite sets, as the community modules fold them.              *)

Chosen(s) == CHOOSE x \in s : TRUE
SumBody(f, g, s) == IF s = {} THEN 0 ELSE f[Chosen(s)] + g[s \ {Chosen(s)}]
\* g sums f over every subset of S.
Sums(f, S, g) == g = [s \in SUBSET S |-> SumBody(f, g, s)]

LEMMA ChosenIn == ASSUME NEW s, s # {} PROVE Chosen(s) \in s
BY DEF Chosen

\* The fold of the community modules is well defined ...
LEMMA SumsExist ==
    ASSUME NEW S, IsFiniteSet(S), NEW f
    PROVE  \E g : Sums(f, S, g)
<1> DEFINE Small(n) == {s \in SUBSET S : Cardinality(s) <= n}
           SumsTo(n, g) == g = [s \in Small(n) |-> SumBody(f, g, s)]
           Bad == {n \in Nat : ~\E g : SumsTo(n, g)}
<1>0. \A s \in SUBSET S : IsFiniteSet(s) /\ Cardinality(s) \in Nat /\ Cardinality(s) <= Cardinality(S)
  BY FS_Subset, FS_CardinalityType
<1>1. SumsTo(0, [s \in {{}} |-> 0])
  <2>1. Small(0) = {{}}
    BY <1>0, FS_EmptySet
  <2> QED
    BY <2>1 DEF SumBody
<1>2. ASSUME NEW n \in Nat, NEW g, SumsTo(n, g) PROVE \E h : SumsTo(n + 1, h)
  <2> DEFINE h == [s \in Small(n + 1) |-> SumBody(f, g, s)]
  <2>1. ASSUME NEW s \in Small(n + 1), s # {} PROVE s \ {Chosen(s)} \in Small(n)
    <3>1. Cardinality(s \ {Chosen(s)}) = Cardinality(s) - 1
      BY <1>0, <2>1, ChosenIn, FS_RemoveElement
    <3> QED
      BY <1>0, <2>1, <3>1
  <2>2. ASSUME NEW s \in Small(n) PROVE s \in Small(n + 1) /\ h[s] = g[s]
    <3>1. s \in Small(n + 1)
      BY <1>0, <2>2
    <3> QED
      BY <1>2, <2>2, <3>1
  <2>3. ASSUME NEW s \in Small(n + 1) PROVE SumBody(f, g, s) = SumBody(f, h, s)
    <3>1. CASE s = {}
      BY <3>1 DEF SumBody
    <3>2. CASE s # {}
      <4>1. h[s \ {Chosen(s)}] = g[s \ {Chosen(s)}]
        BY <2>1, <2>2, <3>2
      <4> HIDE DEF h
      <4> QED
        BY <4>1 DEF SumBody
    <3> QED
      BY <3>1, <3>2
  <2>4. h = [s \in Small(n + 1) |-> SumBody(f, h, s)]
    <3>1. h = [s \in Small(n + 1) |-> SumBody(f, g, s)]
      OBVIOUS
    <3> HIDE DEF h, Small
    <3> QED
      BY <2>3, <3>1
  <2> QED
    BY <2>4
<1>3. Bad = {}
  <2> SUFFICES ASSUME Bad # {} PROVE FALSE
    OBVIOUS
  <2>1. PICK m \in Bad : \A n \in Nat : n < m => n \notin Bad
    BY LeastNumber
  <2>2. m \in Nat /\ ~\E g : SumsTo(m, g)
    OBVIOUS
  <2>3. m # 0
    BY <1>1, <2>2
  <2>4. m - 1 \in Nat /\ m - 1 < m /\ (m - 1) + 1 = m
    BY <2>2, <2>3
  <2>5. PICK g : SumsTo(m - 1, g)
    BY <2>1, <2>4
  <2> QED
    <3>1. \E h : SumsTo((m - 1) + 1, h)
      <4> HIDE DEF SumsTo
      <4> QED
        BY <1>2, <2>4, <2>5
    <3> HIDE DEF SumsTo
    <3> QED
      BY <2>2, <2>4, <3>1
<1>4. PICK g : SumsTo(Cardinality(S), g)
  BY <1>0, <1>3
<1>5. Small(Cardinality(S)) = SUBSET S
  BY <1>0
<1> QED
  BY <1>4, <1>5 DEF Sums

LEMMA SumIs ==
    ASSUME NEW S, NEW f
    PROVE  SumFunctionOnSet(f, S) = (CHOOSE g : Sums(f, S, g))[S]
BY DEF SumFunctionOnSet, FoldFunctionOnSet, MapThenFoldSet, Sums, SumBody, Chosen

\* Whatever set it started from, the recursion gives a subset the same sum.
LEMMA SumsAgree ==
    ASSUME NEW S, IsFiniteSet(S), NEW f, NEW g, Sums(f, S, g),
           NEW T \in SUBSET S, NEW h, Sums(f, T, h)
    PROVE  h[T] = g[T]
<1> DEFINE Bad == {s \in SUBSET T : h[s] # g[s]}
<1>1. ASSUME NEW s \in Bad PROVE \E u \in SUBSET s : u # s /\ u \in Bad
  <2>1. s \in SUBSET T /\ s \in SUBSET S /\ h[s] # g[s]
    OBVIOUS
  <2>2. h[s] = SumBody(f, h, s) /\ g[s] = SumBody(f, g, s)
    BY <2>1 DEF Sums
  <2>3. s # {} /\ h[s \ {Chosen(s)}] # g[s \ {Chosen(s)}]
    BY <2>1, <2>2 DEF SumBody
  <2>4. Chosen(s) \in s
    BY <2>3, ChosenIn
  <2> QED
    BY <2>1, <2>3, <2>4
<1>2. IsFiniteSet(T)
  BY FS_Subset
<1>3. Bad = {}
  <2> HIDE DEF Bad
  <2>1. Bad \in SUBSET (SUBSET T)
    BY DEF Bad
  <2> QED
    BY <1>1, <1>2, <2>1, LeastSubset
<1> QED
  BY <1>3

LEMMA SumValue ==
    ASSUME NEW S, IsFiniteSet(S), NEW f
    PROVE  \E g : /\ Sums(f, S, g)
                  /\ \A T \in SUBSET S : g[T] = SumFunctionOnSet(f, T)
<1>1. PICK g : g = CHOOSE x : Sums(f, S, x)
  OBVIOUS
<1>2. Sums(f, S, g)
  BY <1>1, SumsExist
<1>3. ASSUME NEW T \in SUBSET S PROVE g[T] = SumFunctionOnSet(f, T)
  <2>1. PICK h : h = CHOOSE x : Sums(f, T, x)
    OBVIOUS
  <2>2. IsFiniteSet(T)
    BY FS_Subset
  <2>3. Sums(f, T, h)
    BY <2>1, <2>2, SumsExist
  <2>4. SumFunctionOnSet(f, T) = h[T]
    BY <2>1, SumIs
  <2> QED
    BY <1>2, <2>3, <2>4, SumsAgree
<1> QED
  BY <1>2, <1>3

\* The defining equation of the sum.
LEMMA SumStep ==
    ASSUME NEW S, IsFiniteSet(S), NEW f
    PROVE  SumFunctionOnSet(f, S) =
             IF S = {} THEN 0
             ELSE f[Chosen(S)] + SumFunctionOnSet(f, S \ {Chosen(S)})
<1>1. PICK g : Sums(f, S, g) /\ \A T \in SUBSET S : g[T] = SumFunctionOnSet(f, T)
  BY SumValue
<1>2. g[S] = SumBody(f, g, S)
  BY <1>1 DEF Sums
<1>3. g[S] = SumFunctionOnSet(f, S) /\ g[S \ {Chosen(S)}] = SumFunctionOnSet(f, S \ {Chosen(S)})
  BY <1>1
<1> QED
  BY <1>2, <1>3 DEF SumBody

LEMMA SumEmpty == ASSUME NEW f PROVE SumFunctionOnSet(f, {}) = 0
BY SumStep, FS_EmptySet

LEMMA SumInt ==
    ASSUME NEW S, IsFiniteSet(S), NEW f, \A x \in S : f[x] \in Int
    PROVE  SumFunctionOnSet(f, S) \in Int
<1> DEFINE Bad == {T \in SUBSET S : SumFunctionOnSet(f, T) \notin Int}
<1>1. ASSUME NEW T \in Bad PROVE \E U \in SUBSET T : U # T /\ U \in Bad
  <2>1. T \in SUBSET S /\ IsFiniteSet(T) /\ SumFunctionOnSet(f, T) \notin Int
    BY FS_Subset
  <2>2. T # {}
    BY <2>1, SumEmpty
  <2>3. Chosen(T) \in T /\ f[Chosen(T)] \in Int
    BY <2>1, <2>2, ChosenIn
  <2>4. SumFunctionOnSet(f, T) = f[Chosen(T)] + SumFunctionOnSet(f, T \ {Chosen(T)})
    BY <2>1, <2>2, SumStep
  <2>5. SumFunctionOnSet(f, T \ {Chosen(T)}) \notin Int
    BY <2>1, <2>3, <2>4
  <2> QED
    BY <2>1, <2>3, <2>5
<1>2. Bad = {}
  <2> HIDE DEF Bad
  <2>1. Bad \in SUBSET (SUBSET S)
    BY DEF Bad
  <2> QED
    BY <1>1, <2>1, LeastSubset
<1> QED
  BY <1>2

\* The order of the elements does not matter: any one can be taken out.
LEMMA SumRemove ==
    ASSUME NEW S, IsFiniteSet(S), NEW f, \A x \in S : f[x] \in Int, NEW e \in S
    PROVE  SumFunctionOnSet(f, S) = f[e] + SumFunctionOnSet(f, S \ {e})
<1> DEFINE Sum(T) == SumFunctionOnSet(f, T)
           Bad == {T \in SUBSET S : \E x \in T : Sum(T) # f[x] + Sum(T \ {x})}
<1>0. \A T \in SUBSET S : IsFiniteSet(T) /\ Sum(T) \in Int
  BY FS_Subset, SumInt
<1>1. ASSUME NEW T \in Bad PROVE \E U \in SUBSET T : U # T /\ U \in Bad
  <2> SUFFICES ASSUME \A U \in SUBSET T : U # T => U \notin Bad PROVE FALSE
    OBVIOUS
  <2>1. PICK x \in T : Sum(T) # f[x] + Sum(T \ {x})
    OBVIOUS
  <2> DEFINE c == Chosen(T)
  <2>2. c \in T /\ Sum(T) = f[c] + Sum(T \ {c})
    BY <1>0, <2>1, ChosenIn, SumStep
  <2>3. c # x
    BY <2>1, <2>2
  <2>4. /\ T \ {x} \in SUBSET T /\ T \ {x} # T /\ c \in T \ {x}
        /\ T \ {c} \in SUBSET T /\ T \ {c} # T /\ x \in T \ {c}
    BY <2>2, <2>3
  <2>5. /\ Sum(T \ {x}) = f[c] + Sum((T \ {x}) \ {c})
        /\ Sum(T \ {c}) = f[x] + Sum((T \ {c}) \ {x})
    BY <2>4
  <2>6. (T \ {x}) \ {c} = (T \ {c}) \ {x}
    OBVIOUS
  <2> DEFINE a == f[x]
             b == f[c]
             rest == Sum((T \ {x}) \ {c})
  <2>7. a \in Int /\ b \in Int /\ rest \in Int
    BY <1>0, <2>2
  <2>8. Sum(T) = b + (a + rest) /\ Sum(T) # a + (b + rest)
    BY <2>1, <2>2, <2>5, <2>6
  <2> HIDE DEF a, b, rest
  <2> QED
    BY <2>7, <2>8
<1>2. Bad = {}
  <2> HIDE DEF Bad
  <2>1. Bad \in SUBSET (SUBSET S)
    BY DEF Bad
  <2> QED
    BY <1>1, <2>1, LeastSubset
<1> QED
  BY <1>2

LEMMA SumAdd ==
    ASSUME NEW S, IsFiniteSet(S), NEW f, \A x \in S : f[x] \in Int, NEW e, e \notin S, f[e] \in Int
    PROVE  IsFiniteSet(S \cup {e}) /\ SumFunctionOnSet(f, S \cup {e}) = SumFunctionOnSet(f, S) + f[e]
<1>1. IsFiniteSet(S \cup {e}) /\ (S \cup {e}) \ {e} = S
  BY FS_AddElement
<1>2. SumFunctionOnSet(f, S \cup {e}) = f[e] + SumFunctionOnSet(f, (S \cup {e}) \ {e})
  BY <1>1, SumRemove
<1> DEFINE a == SumFunctionOnSet(f, S)
           b == f[e]
<1>3. a \in Int /\ b \in Int /\ SumFunctionOnSet(f, S \cup {e}) = b + a
  BY <1>1, <1>2, SumInt
<1>4. SumFunctionOnSet(f, S \cup {e}) = a + b
  <2> HIDE DEF a, b
  <2> QED
    BY <1>3
<1> QED
  BY <1>1, <1>4

LEMMA SumNat ==
    ASSUME NEW S, IsFiniteSet(S), NEW f, \A x \in S : f[x] \in Nat
    PROVE  SumFunctionOnSet(f, S) \in Nat
<1> DEFINE Bad == {T \in SUBSET S : SumFunctionOnSet(f, T) \notin Nat}
<1>1. ASSUME NEW T \in Bad PROVE \E U \in SUBSET T : U # T /\ U \in Bad
  <2>1. T \in SUBSET S /\ IsFiniteSet(T) /\ SumFunctionOnSet(f, T) \notin Nat
    BY FS_Subset
  <2>2. T # {}
    BY <2>1, SumEmpty
  <2>3. Chosen(T) \in T /\ f[Chosen(T)] \in Nat
    BY <2>1, <2>2, ChosenIn
  <2>4. SumFunctionOnSet(f, T) = f[Chosen(T)] + SumFunctionOnSet(f, T \ {Chosen(T)})
    BY <2>1, <2>2, SumStep
  <2>5. SumFunctionOnSet(f, T \ {Chosen(T)}) \notin Nat
    BY <2>1, <2>3, <2>4
  <2> QED
    BY <2>1, <2>3, <2>5
<1>2. Bad = {}
  <2> HIDE DEF Bad
  <2>1. Bad \in SUBSET (SUBSET S)
    BY DEF Bad
  <2> QED
    BY <1>1, <2>1, LeastSubset
<1> QED
  BY <1>2

\* Fewer rows with smaller figures sum to no more.
LEMMA SumMonotone ==
    ASSUME NEW S, IsFiniteSet(S), NEW f, \A x \in S : f[x] \in Nat,
           NEW T \in SUBSET S, NEW g, \A x \in T : g[x] \in Nat /\ g[x] <= f[x]
    PROVE  SumFunctionOnSet(g, T) <= SumFunctionOnSet(f, S)
<1> DEFINE Bad == {U \in SUBSET S : ~(SumFunctionOnSet(g, T \cap U) <= SumFunctionOnSet(f, U))}
<1>1. ASSUME NEW U \in Bad PROVE \E V \in SUBSET U : V # U /\ V \in Bad
  <2>1. /\ U \in SUBSET S /\ IsFiniteSet(U) /\ IsFiniteSet(T \cap U)
        /\ ~(SumFunctionOnSet(g, T \cap U) <= SumFunctionOnSet(f, U))
    BY FS_Subset
  <2>2. U # {}
    <3>1. SumFunctionOnSet(g, {}) = 0 /\ SumFunctionOnSet(f, {}) = 0 /\ T \cap {} = {}
      BY SumEmpty
    <3>2. SumFunctionOnSet(g, T \cap {}) <= SumFunctionOnSet(f, {})
      BY <3>1
    <3> QED
      BY <2>1, <3>2
  <2>3. PICK x : x \in U
    BY <2>2
  <2> DEFINE V == U \ {x}
  <2>4. IsFiniteSet(V) /\ IsFiniteSet(T \cap V)
    BY <2>1, FS_Subset
  <2>5. SumFunctionOnSet(f, V) \in Nat /\ SumFunctionOnSet(g, T \cap V) \in Nat
    BY <2>1, <2>4, SumNat
  <2>6. SumFunctionOnSet(f, U) = f[x] + SumFunctionOnSet(f, V) /\ f[x] \in Nat
    BY <2>1, <2>3, SumRemove
  <2>7. CASE x \in T
    <3>1. (T \cap U) \ {x} = T \cap V /\ x \in T \cap U
      BY <2>3, <2>7
    <3>2. SumFunctionOnSet(g, T \cap U) = g[x] + SumFunctionOnSet(g, T \cap V)
      BY <2>1, <3>1, SumRemove
    <3>3. g[x] \in Nat /\ g[x] <= f[x]
      BY <2>7
    <3>4. ~(SumFunctionOnSet(g, T \cap V) <= SumFunctionOnSet(f, V))
      <4> HIDE DEF V
      <4> QED
        BY <2>1, <2>5, <2>6, <3>2, <3>3
    <3> QED
      BY <2>1, <2>3, <3>4
  <2>8. CASE x \notin T
    <3>1. T \cap U = T \cap V
      BY <2>8
    <3>2. ~(SumFunctionOnSet(g, T \cap V) <= SumFunctionOnSet(f, V))
      <4> HIDE DEF V
      <4> QED
        BY <2>1, <2>5, <2>6, <3>1
    <3> QED
      BY <2>1, <2>3, <3>2
  <2> QED
    BY <2>7, <2>8
<1>2. Bad = {}
  <2> HIDE DEF Bad
  <2>1. Bad \in SUBSET (SUBSET S)
    BY DEF Bad
  <2> QED
    BY <1>1, <2>1, LeastSubset
<1>3. T \cap S = T
  OBVIOUS
<1> QED
  BY <1>2, <1>3

-----------------------------------------------------------------------------
(* Products and rounding.                                                  *)

LEMMA ProductIsNat ==
    ASSUME NEW a \in Nat, NEW b \in Nat PROVE a * b \in Nat
OBVIOUS

LEMMA ProductGrows ==
    ASSUME NEW a \in Int, NEW b \in Int, a <= b, NEW c \in Nat PROVE a * c <= b * c
<1>1. (b - a) * c \in Nat
  BY ProductIsNat
<1>2. (b - a) * c = b * c - a * c
  OBVIOUS
<1> DEFINE x == a * c
           y == b * c
<1>3. x \in Int /\ y \in Int
  OBVIOUS
<1> HIDE DEF x, y
<1>4. y - x \in Nat
  BY <1>1, <1>2 DEF x, y
<1>5. x <= y
  BY <1>3, <1>4
<1> QED
  BY <1>5 DEF x, y

LEMMA FactorOut ==
    ASSUME NEW q \in Int, NEW r \in Int, NEW b \in Nat \ {0}, q * b < r * b + b
    PROVE  q <= r
<1> SUFFICES ASSUME r + 1 <= q PROVE FALSE
  OBVIOUS
<1>1. (r + 1) * b <= q * b
  BY ProductGrows
<1>2. (r + 1) * b = r * b + b
  OBVIOUS
<1> QED
  BY <1>1, <1>2

LEMMA Quotient ==
    ASSUME NEW a \in Int, NEW b \in Nat \ {0}
    PROVE  /\ a \div b \in Int /\ b * (a \div b) <= a /\ a < b * (a \div b) + b
           /\ a >= 0 => a \div b >= 0
OBVIOUS

LEMMA RoundedNat ==
    ASSUME NEW a \in Nat, NEW b \in Nat \ {0}
    PROVE  /\ Rounded(a, b) \in Nat
           /\ 2 * (Rounded(a, b) * b) <= 2 * a + b
           /\ 2 * a + b < 2 * (Rounded(a, b) * b) + 2 * b
<1> DEFINE q == (2 * a + b) \div (2 * b)
<1>1. 2 * b \in Nat \ {0} /\ 2 * a + b \in Int /\ 2 * a + b >= 0
  OBVIOUS
<1>2. q \in Int /\ q >= 0 /\ (2 * b) * q <= 2 * a + b /\ 2 * a + b < (2 * b) * q + 2 * b
  BY <1>1, Quotient
<1>3. Rounded(a, b) = q
  BY DEF Rounded
<1> HIDE DEF q
<1>4. (2 * b) * q = 2 * (q * b)
  BY <1>2
<1> QED
  BY <1>2, <1>3, <1>4

\* Rounding is odd, and its sign is that of the quotient.
LEMMA RoundedOdd ==
    ASSUME NEW a \in Int, NEW b \in Nat \ {0}
    PROVE  Rounded(-a, b) = -Rounded(a, b) /\ (a <= 0 => Rounded(a, b) <= 0)
<1>1. Rounded(0, b) = 0
  <2>1. Rounded(0, b) \in Nat /\ 2 * (Rounded(0, b) * b) <= 2 * 0 + b
    BY RoundedNat
  <2>2. Rounded(0, b) * b < 0 * b + b
    <3> DEFINE r == Rounded(0, b) * b
    <3>1. r \in Int
      BY <2>1
    <3> HIDE DEF r
    <3>2. 2 * r <= b
      BY <2>1 DEF r
    <3>3. r < b
      BY <3>1, <3>2
    <3> QED
      BY <3>3 DEF r
  <2> QED
    BY <2>1, <2>2, FactorOut
<1>2. ASSUME NEW x \in Nat, x > 0 PROVE Rounded(-x, b) = -Rounded(x, b)
  BY <1>2 DEF Rounded
<1>3. ASSUME NEW x \in Nat PROVE Rounded(x, b) \in Nat
  BY RoundedNat
<1>4. CASE a = 0
  BY <1>1, <1>4
<1>5. CASE a > 0
  BY <1>2, <1>5
<1>6. CASE a < 0
  <2>1. -a \in Nat /\ -a > 0 /\ -(-a) = a
    BY <1>6
  <2>2. Rounded(a, b) = -Rounded(-a, b) /\ Rounded(-a, b) \in Nat
    BY <1>2, <1>3, <2>1
  <2> QED
    BY <2>2
<1> QED
  BY <1>4, <1>5, <1>6

LEMMA RoundedInt ==
    ASSUME NEW a \in Int, NEW b \in Nat \ {0}
    PROVE  Rounded(a, b) \in Int
<1>1. CASE a >= 0
  BY <1>1, RoundedNat
<1>2. CASE a < 0
  <2>1. -a \in Nat /\ -(-a) = a
    BY <1>2
  <2>2. Rounded(-a, b) \in Nat /\ Rounded(-a, b) = -Rounded(a, b)
    BY <2>1, RoundedNat, RoundedOdd
  <2>3. Rounded(-(-a), b) = -Rounded(-a, b)
    BY <2>1, RoundedOdd
  <2> QED
    BY <2>1, <2>2, <2>3
<1> QED
  BY <1>1, <1>2

\* It adds whole units exactly, and is monotone.
LEMMA RoundedShift ==
    ASSUME NEW a \in Nat, NEW b \in Nat \ {0}, NEW k \in Nat, NEW x \in Nat, x <= a + k * b
    PROVE  Rounded(x, b) <= Rounded(a, b) + k
<1> DEFINE r == Rounded(a, b)
           s == Rounded(x, b)
<1>1. r \in Nat /\ 2 * a + b < 2 * (r * b) + 2 * b
  BY RoundedNat
<1>2. s \in Nat /\ 2 * (s * b) <= 2 * x + b
  BY RoundedNat
<1> HIDE DEF r, s
<1>3. (r + k) * b = r * b + k * b
  BY <1>1
<1> DEFINE rb == r * b
           sb == s * b
           kb == k * b
<1>4. rb \in Int /\ sb \in Int /\ kb \in Int
  BY <1>1, <1>2
<1>5. x <= a + kb /\ 2 * a + b < 2 * rb + 2 * b /\ 2 * sb <= 2 * x + b
  BY <1>1, <1>2
<1>6. sb < (rb + kb) + b
  <2> HIDE DEF rb, sb, kb
  <2> QED
    BY <1>4, <1>5
<1>7. s * b < (r + k) * b + b
  BY <1>3, <1>6
<1>8. s <= r + k
  BY <1>1, <1>2, <1>7, FactorOut
<1> QED
  BY <1>8 DEF r, s

LEMMA RoundedMonotone ==
    ASSUME NEW a \in Nat, NEW b \in Nat \ {0}, NEW x \in Nat, x <= a
    PROVE  Rounded(x, b) <= Rounded(a, b)
<1>1. 0 * b = 0
  OBVIOUS
<1>2. x <= a + 0 * b
  BY <1>1
<1>3. Rounded(x, b) <= Rounded(a, b) + 0
  BY <1>2, RoundedShift
<1>4. Rounded(a, b) \in Nat
  BY RoundedNat
<1> QED
  BY <1>3, <1>4

\* A whole number of units is not rounded at all.
LEMMA RoundedExact ==
    ASSUME NEW n \in Nat, NEW b \in Nat \ {0}
    PROVE  Rounded(n * b, b) = n
<1> DEFINE a == n * b
           r == Rounded(a, b)
<1>1. a \in Nat
  BY ProductIsNat
<1>2. r \in Nat /\ 2 * (r * b) <= 2 * a + b /\ 2 * a + b < 2 * (r * b) + 2 * b
  BY <1>1, RoundedNat
<1> DEFINE rb == r * b
<1>3. rb \in Int /\ 2 * rb <= 2 * a + b /\ 2 * a + b < 2 * rb + 2 * b
  BY <1>2
<1>4. rb < a + b /\ a < rb + b
  <2> HIDE DEF rb, a
  <2> QED
    BY <1>1, <1>3
<1>5. r * b < n * b + b /\ n * b < r * b + b
  BY <1>4
<1> HIDE DEF r
<1>6. r <= n /\ n <= r
  BY <1>2, <1>5, FactorOut
<1> QED
  BY <1>2, <1>6 DEF r, a

\* Rounding is to the nearest integer.
LEMMA RoundedNearest ==
    ASSUME NEW a \in Int, NEW b \in Nat \ {0}
    PROVE  /\ Rounded(a, b) \in Int
           /\ a >= 0 => Rounded(a, b) >= 0
           /\ 2 * (Rounded(a, b) * b - a) <= b
           /\ 2 * (a - Rounded(a, b) * b) <= b
<1>1. 2 * b \in Nat \ {0}
  OBVIOUS
<1>2. ASSUME NEW x \in Nat, NEW q \in Int, q = (2 * x + b) \div (2 * b)
      PROVE  q >= 0 /\ 2 * (q * b - x) <= b /\ 2 * (x - q * b) <= b
  <2>1. 2 * x + b \in Int /\ 2 * x + b >= 0
    OBVIOUS
  <2>2. q >= 0 /\ (2 * b) * q <= 2 * x + b /\ 2 * x + b < (2 * b) * q + 2 * b
    BY <1>1, <1>2, <2>1, Quotient
  <2>3. (2 * b) * q = 2 * (q * b)
    OBVIOUS
  <2> QED
    BY <2>2, <2>3
<1>3. CASE a >= 0
  <2> DEFINE q == (2 * a + b) \div (2 * b)
  <2>1. q \in Int
    BY <1>1, Quotient
  <2>2. Rounded(a, b) = q
    BY <1>3 DEF Rounded
  <2> QED
    BY <1>2, <1>3, <2>1, <2>2
<1>4. CASE a < 0
  <2> DEFINE q == (2 * (-a) + b) \div (2 * b)
  <2>1. q \in Int
    BY <1>1, Quotient
  <2>2. Rounded(a, b) = -q
    BY <1>4 DEF Rounded
  <2>3. 2 * (q * b - (-a)) <= b /\ 2 * ((-a) - q * b) <= b
    BY <1>2, <1>4, <2>1
  <2>4. (-q) * b = -(q * b)
    BY <2>1
  <2> HIDE DEF q
  <2> QED
    BY <1>4, <2>1, <2>2, <2>3, <2>4
<1> QED
  BY <1>3, <1>4

-----------------------------------------------------------------------------
(* Prices, for all legal fees.                                             *)

LEMMA UnitsArePositive ==
    /\ ZarUnit \in Nat \ {0} /\ Unit \in Nat \ {0} /\ PctUnit \in Nat \ {0}
    /\ Unit * Unit \in Nat \ {0}
BY UnitsAssumption

LEMMA SendTypes ==
    ASSUME NEW c, LegalConfig(c), NEW zar \in Nat
    PROVE  /\ c.fixed \in Nat /\ c.pct \in Nat /\ c.margin \in Nat /\ c.market \in Nat
           /\ c.minSend \in Nat
           /\ c.fixed * PctUnit + c.pct * zar \in Nat
           /\ TransactionFee(c, zar) \in Nat
           /\ EffectiveRate(c) \in Nat
           /\ NetZar(c, zar) \in Int /\ NetZar(c, zar) <= zar
<1>1. /\ c.fixed \in Nat /\ c.pct \in Nat /\ c.margin \in Nat /\ c.market \in Nat
      /\ c.minSend \in Nat /\ PctUnit \in Nat \ {0}
  BY UnitsArePositive DEF LegalConfig
<1>2. /\ c.fixed * PctUnit \in Nat /\ c.pct * zar \in Nat
      /\ c.market * (PctUnit + c.margin) \in Nat
  BY <1>1
<1>3. c.fixed * PctUnit + c.pct * zar \in Nat
  BY <1>2
<1>4. TransactionFee(c, zar) \in Nat /\ EffectiveRate(c) \in Nat
  BY <1>1, <1>2, <1>3, RoundedNat DEF TransactionFee, EffectiveRate
<1>5. NetZar(c, zar) \in Int /\ NetZar(c, zar) <= zar
  BY <1>4 DEF NetZar
<1> QED
  BY <1>1, <1>3, <1>4, <1>5

\* The rate asked is at least the market's.
LEMMA RateAboveMarket ==
    ASSUME NEW c, LegalConfig(c)
    PROVE  c.market <= EffectiveRate(c)
<1>1. c.market \in Nat /\ c.margin \in Nat /\ PctUnit \in Nat \ {0}
  BY UnitsArePositive DEF LegalConfig
<1>2. c.market * PctUnit \in Nat /\ c.market * c.margin \in Nat
  BY <1>1
<1>3. c.market * (PctUnit + c.margin) = c.market * PctUnit + c.market * c.margin
  BY <1>1
<1>4. /\ c.market * (PctUnit + c.margin) \in Nat
      /\ c.market * PctUnit <= c.market * (PctUnit + c.margin)
  BY <1>2, <1>3
<1>5. Rounded(c.market * PctUnit, PctUnit) <= Rounded(c.market * (PctUnit + c.margin), PctUnit)
  BY <1>1, <1>2, <1>4, RoundedMonotone
<1> QED
  BY <1>1, <1>5, RoundedExact DEF EffectiveRate

LEMMA NetGrows ==
    ASSUME NEW c, LegalConfig(c), c.pct <= PctUnit,
           NEW a \in Nat, NEW b \in Nat, a <= b
    PROVE  NetZar(c, a) <= NetZar(c, b)
<1> DEFINE x == c.fixed * PctUnit + c.pct * a
           y == c.fixed * PctUnit + c.pct * b
           k == b - a
<1>1. x \in Nat /\ y \in Nat /\ k \in Nat /\ c.pct \in Nat /\ c.fixed \in Nat /\ PctUnit \in Nat \ {0}
  BY SendTypes, UnitsArePositive
<1>2. c.pct * k <= PctUnit * k
  BY <1>1, ProductGrows
<1>3. c.pct * b = c.pct * a + c.pct * k /\ PctUnit * k = k * PctUnit
  BY <1>1
<1>4. y <= x + k * PctUnit
  <2> DEFINE pa == c.pct * a
             pb == c.pct * b
             pk == c.pct * k
             uk == k * PctUnit
             fu == c.fixed * PctUnit
  <2>1. pa \in Int /\ pb \in Int /\ pk \in Int /\ uk \in Int /\ fu \in Int
    BY <1>1
  <2>2. pb = pa + pk /\ pk <= uk
    BY <1>2, <1>3
  <2>3. fu + pb <= (fu + pa) + uk
    <3> HIDE DEF pa, pb, pk, uk, fu
    <3> QED
      BY <2>1, <2>2
  <2> QED
    BY <2>3
<1>5. Rounded(y, PctUnit) <= Rounded(x, PctUnit) + k
  <2> HIDE DEF x, y, k
  <2> QED
    BY <1>1, <1>4, RoundedShift
<1>6. TransactionFee(c, b) <= TransactionFee(c, a) + (b - a)
  BY <1>5 DEF TransactionFee
<1>7. TransactionFee(c, a) \in Nat /\ TransactionFee(c, b) \in Nat
  BY SendTypes
<1> QED
  BY <1>6, <1>7 DEF NetZar

\* While the fee of a send is at most the send, a larger send is not refused where a
\* smaller one is not, and converts to no less (calculate_quote).
THEOREM QuotesAreMonotone ==
    ASSUME NEW c, LegalConfig(c), c.pct <= PctUnit,
           NEW a \in Nat, NEW b \in Nat, a <= b, Quotable(c, a)
    PROVE  Quotable(c, b) /\ Uctusd(c, a) <= Uctusd(c, b)
<1> DEFINE rate == EffectiveRate(c)
           m == NetZar(c, a)
           n == NetZar(c, b)
<1>1. /\ m \in Nat /\ m > 0 /\ n \in Nat /\ n > 0 /\ m <= n
      /\ rate \in Nat /\ rate > 0 /\ c.minSend \in Nat /\ a >= c.minSend
  <2>1. rate \in Nat /\ c.minSend \in Nat /\ m \in Int /\ n \in Int
    BY SendTypes
  <2>2. rate > 0 /\ m > 0 /\ a >= c.minSend
    BY DEF Quotable
  <2>3. m <= n
    BY NetGrows
  <2> HIDE DEF rate, m, n
  <2> QED
    BY <2>1, <2>2, <2>3
<1>2. ZarUnit \in Nat \ {0} /\ Unit \in Nat \ {0}
  BY UnitsArePositive
<1> HIDE DEF rate, m, n
<1>3. ZarUnit * rate \in Nat \ {0}
  BY <1>1, <1>2
<1>4. m * Unit <= n * Unit /\ m * Unit \in Nat /\ n * Unit \in Nat
  BY <1>1, <1>2, ProductGrows, ProductIsNat
<1>5. m * Unit * Unit <= n * Unit * Unit /\ m * Unit * Unit \in Nat /\ n * Unit * Unit \in Nat
  <2> DEFINE p == m * Unit
             q == n * Unit
  <2>1. p \in Nat /\ q \in Nat /\ p <= q
    BY <1>4
  <2> HIDE DEF p, q
  <2>2. p * Unit <= q * Unit /\ p * Unit \in Nat /\ q * Unit \in Nat
    BY <1>2, <2>1, ProductGrows, ProductIsNat
  <2> QED
    BY <2>2 DEF p, q
<1>6. Rounded(m * Unit * Unit, ZarUnit * rate) <= Rounded(n * Unit * Unit, ZarUnit * rate)
  BY <1>3, <1>5, RoundedMonotone
<1>7. Uctusd(c, a) <= Uctusd(c, b)
  BY <1>6 DEF Uctusd, m, n, rate
<1>8. Uctusd(c, a) \in Nat /\ Uctusd(c, b) \in Nat /\ Uctusd(c, a) > 0
  <2>1. Rounded(m * Unit * Unit, ZarUnit * rate) \in Nat /\ Rounded(n * Unit * Unit, ZarUnit * rate) \in Nat
    BY <1>3, <1>5, RoundedNat
  <2> QED
    BY <2>1 DEF Uctusd, m, n, rate, Quotable
<1>9. Uctusd(c, b) > 0
  BY <1>7, <1>8
<1>10. b >= c.minSend
  BY <1>1
<1> QED
  BY <1>1, <1>7, <1>9, <1>10 DEF Quotable, n, rate

LEMMA CashoutTypes ==
    ASSUME NEW c, LegalConfig(c), NEW u \in Nat
    PROVE  /\ c.coPct \in Nat /\ c.coMin \in Nat /\ c.market \in Nat
           /\ Larger(c.coPct * u, c.coMin * PctUnit) \in Nat
           /\ CashoutFee(c, u) \in Nat
<1>1. c.coPct \in Nat /\ c.coMin \in Nat /\ c.market \in Nat /\ PctUnit \in Nat \ {0}
  BY UnitsArePositive DEF LegalConfig
<1>2. c.coPct * u \in Nat /\ c.coMin * PctUnit \in Nat
  BY <1>1, ProductIsNat
<1>3. Larger(c.coPct * u, c.coMin * PctUnit) \in Nat
  BY <1>2 DEF Larger
<1>4. CashoutFee(c, u) \in Nat
  BY <1>1, <1>3, RoundedNat DEF CashoutFee
<1> QED
  BY <1>1, <1>3, <1>4

LEMMA CashoutNetGrows ==
    ASSUME NEW c, LegalConfig(c), c.coPct <= PctUnit,
           NEW u \in Nat, NEW v \in Nat, u <= v
    PROVE  u - CashoutFee(c, u) <= v - CashoutFee(c, v)
<1> DEFINE floor == c.coMin * PctUnit
           x == Larger(c.coPct * u, floor)
           y == Larger(c.coPct * v, floor)
           k == v - u
           pu == c.coPct * u
           pv == c.coPct * v
           pk == c.coPct * k
           uk == k * PctUnit
<1>1. x \in Nat /\ y \in Nat /\ k \in Nat /\ c.coPct \in Nat /\ c.coMin \in Nat /\ PctUnit \in Nat \ {0}
  BY CashoutTypes, UnitsArePositive
<1>2. pu \in Nat /\ pv \in Nat /\ pk \in Nat /\ uk \in Nat /\ floor \in Nat
  BY <1>1, ProductIsNat
<1>3. c.coPct * k <= PctUnit * k
  BY <1>1, ProductGrows
<1>4. pv = pu + pk /\ pk <= uk
  BY <1>1, <1>3
<1>5. y <= x + uk
  <2>1. x = Larger(pu, floor) /\ y = Larger(pv, floor)
    OBVIOUS
  <2> HIDE DEF x, y, pu, pv, pk, uk, floor
  <2> QED
    BY <1>2, <1>4, <2>1 DEF Larger
<1>6. Rounded(y, PctUnit) <= Rounded(x, PctUnit) + k
  <2> HIDE DEF x, y, k
  <2> QED
    BY <1>1, <1>5, RoundedShift
<1>7. CashoutFee(c, v) <= CashoutFee(c, u) + (v - u)
  BY <1>6 DEF CashoutFee
<1>8. CashoutFee(c, u) \in Nat /\ CashoutFee(c, v) \in Nat
  BY CashoutTypes
<1> QED
  BY <1>7, <1>8

\* While the percentage of a cash-out is at most the whole, a larger cash-out is not
\* refused where a smaller one is not, and pays no less, in either currency
\* (cashout_payout, price_cashout).
THEOREM CashoutsAreMonotone ==
    ASSUME NEW c, LegalConfig(c), c.coPct <= PctUnit,
           NEW u \in Nat, NEW v \in Nat, u <= v,
           NEW currency \in {"USD", "ZAR"}, CashoutQuotable(c, u, currency)
    PROVE  CashoutQuotable(c, v, currency) /\ Payout(c, u, currency) <= Payout(c, v, currency)
<1> DEFINE m == u - CashoutFee(c, u)
           n == v - CashoutFee(c, v)
           market == c.market
<1>1. m \in Int /\ n \in Int /\ m <= n /\ market \in Nat
  BY CashoutNetGrows, CashoutTypes
<1>2. CASE currency = "USD"
  <2>1. Payout(c, u, currency) = m /\ Payout(c, v, currency) = n
    BY <1>2 DEF Payout
  <2> HIDE DEF m, n
  <2> QED
    BY <1>1, <2>1 DEF CashoutQuotable
<1>3. CASE currency = "ZAR"
  <2>1. ZarUnit \in Nat \ {0} /\ Unit * Unit \in Nat \ {0}
    BY UnitsArePositive
  <2> DEFINE p == Rounded(m * market * ZarUnit, Unit * Unit)
             q == Rounded(n * market * ZarUnit, Unit * Unit)
  <2>2. Payout(c, u, currency) = p /\ Payout(c, v, currency) = q
    BY <1>3 DEF Payout
  <2>3. p > 0
    BY <2>2 DEF CashoutQuotable
  <2> HIDE DEF m, n, market
  <2>4. m * market \in Int /\ n * market \in Int /\ m * market <= n * market
    BY <1>1, ProductGrows
  <2>5. m * market * ZarUnit <= n * market * ZarUnit /\ m * market * ZarUnit \in Int /\ n * market * ZarUnit \in Int
    <3> DEFINE d == m * market
               e == n * market
    <3>1. d \in Int /\ e \in Int /\ d <= e
      BY <2>4
    <3> HIDE DEF d, e
    <3>2. d * ZarUnit <= e * ZarUnit /\ d * ZarUnit \in Int /\ e * ZarUnit \in Int
      BY <2>1, <3>1, ProductGrows
    <3> QED
      BY <3>2 DEF d, e
  <2>6. p <= q /\ p \in Int /\ q \in Int
    <3> DEFINE d == m * market * ZarUnit
               e == n * market * ZarUnit
    <3>1. d \in Int /\ e \in Int /\ d <= e /\ p = Rounded(d, Unit * Unit) /\ q = Rounded(e, Unit * Unit)
      BY <2>5
    <3> HIDE DEF d, e, p, q
    <3>2. CASE d <= 0
      <4>1. p <= 0
        BY <2>1, <3>1, <3>2, RoundedOdd
      <4>2. p \in Int
        BY <2>1, <3>1, RoundedInt
      <4> QED
        BY <2>3, <4>1, <4>2
    <3>3. CASE d > 0
      <4>1. d \in Nat /\ e \in Nat
        BY <3>1, <3>3
      <4> QED
        BY <2>1, <3>1, <4>1, RoundedMonotone, RoundedNat
    <3> QED
      BY <3>1, <3>2, <3>3
  <2>7. q > 0
    <3> HIDE DEF p, q
    <3> QED
      BY <2>3, <2>6
  <2> QED
    BY <2>2, <2>6, <2>7 DEF CashoutQuotable
<1> QED
  BY <1>2, <1>3

\* Sending rand and cashing the dollars out in rand, at one configuration, never
\* returns more than was sent net of the fee, as long as the smallest unit of the
\* dollar is worth less than the smallest of the rand.
THEOREM RoundTripLoses ==
    ASSUME NEW c, LegalConfig(c), c.market * ZarUnit < Unit * Unit,
           NEW a \in Nat, Quotable(c, a)
    PROVE  Payout(c, Uctusd(c, a), "ZAR") <= NetZar(c, a) /\ NetZar(c, a) <= a
<1> DEFINE rate == EffectiveRate(c)
           net == NetZar(c, a)
           u == Uctusd(c, a)
           market == c.market
           sq == Unit * Unit
           mz == market * ZarUnit
           rz == ZarUnit * rate
<1>1. rate \in Nat /\ rate > 0 /\ net \in Nat /\ net > 0 /\ market \in Nat /\ market <= rate
  BY SendTypes, RateAboveMarket DEF Quotable
<1>2. ZarUnit \in Nat \ {0} /\ sq \in Nat \ {0} /\ Unit \in Nat \ {0}
  BY UnitsArePositive
<1>3. net * Unit * Unit = net * sq
  <2> HIDE DEF net
  <2> QED
    BY <1>1, <1>2
<1>4. u = Rounded(net * sq, rz)
  BY <1>3 DEF Uctusd
<1>5. u > 0
  BY DEF Quotable
<1>6. mz < sq
  OBVIOUS
<1>7. CashoutFee(c, u) \in Nat /\ Payout(c, u, "ZAR") = Rounded((u - CashoutFee(c, u)) * market * ZarUnit, sq)
      /\ u \in Nat
  <2>1. net * sq \in Nat /\ rz \in Nat \ {0}
    <3> HIDE DEF net, rate, sq
    <3> QED
      BY <1>1, <1>2
  <2>2. u \in Nat
    <3> HIDE DEF u, net, sq, rz
    <3> QED
      BY <1>4, <2>1, RoundedNat
  <2> QED
    BY <2>2, CashoutTypes DEF Payout
<1> DEFINE fee == CashoutFee(c, u)
           w == u - fee
<1>8. NetZar(c, a) <= a
  BY SendTypes
<1> HIDE DEF rate, net, u, market, sq, fee
<1>9. mz \in Nat /\ rz \in Nat \ {0} /\ mz <= rz
  <2>1. market * ZarUnit <= rate * ZarUnit
    BY <1>1, <1>2, ProductGrows
  <2> QED
    BY <1>1, <1>2, <2>1
<1>10. net * sq \in Nat
  BY <1>1, <1>2
<1> DEFINE ns == net * sq
           ur == u * rz
           um == u * mz
           wm == w * mz
<1>11. 2 * ur <= 2 * ns + rz
  <2> HIDE DEF rz
  <2> QED
    BY <1>4, <1>9, <1>10, RoundedNat
\* (2u - 1) * mz <= (2u - 1) * rz <= 2 * net * sq
<1>12. 2 * um <= 2 * ns + mz
  <2>1. mz * (2 * u - 1) <= rz * (2 * u - 1)
    <3>1. 2 * u - 1 \in Nat
      BY <1>5, <1>7
    <3> HIDE DEF mz, rz
    <3> QED
      BY <1>9, <3>1, ProductGrows
  <2>2. mz * (2 * u - 1) = 2 * um - mz /\ rz * (2 * u - 1) = 2 * ur - rz
    <3> HIDE DEF mz, rz
    <3> QED
      BY <1>7, <1>9
  <2>3. um \in Int /\ ur \in Int
    <3> HIDE DEF mz, rz
    <3> QED
      BY <1>7, <1>9
  <2>4. 2 * um - mz <= 2 * ns
    <3>1. 2 * um - mz <= 2 * ur - rz
      BY <2>1, <2>2
    <3> HIDE DEF um, ur, ns, mz, rz
    <3>2. ns \in Int
      BY <1>10 DEF ns
    <3> QED
      BY <1>9, <1>11, <2>3, <3>1, <3>2
  <2> HIDE DEF um, ur, ns, mz, rz
  <2>5. ns \in Int
    BY <1>10 DEF ns
  <2> QED
    BY <1>9, <2>3, <2>4, <2>5
<1>13. w \in Int /\ w <= u /\ wm \in Int /\ um \in Nat /\ wm <= um
  <2>1. w \in Int /\ w <= u
    BY <1>7 DEF fee
  <2> HIDE DEF w, mz
  <2> QED
    BY <1>7, <1>9, <2>1, ProductGrows
<1>14. Payout(c, u, "ZAR") = Rounded(wm, sq)
  <2>1. w * market * ZarUnit = w * mz
    <3> HIDE DEF w
    <3> QED
      BY <1>1, <1>2, <1>13
  <2> QED
    BY <1>7, <2>1 DEF fee
<1> DEFINE p == Rounded(wm, sq)
<1> HIDE DEF w
<1>15. p <= net
  <2>1. CASE wm <= 0
    <3> HIDE DEF wm
    <3>1. p <= 0
      BY <1>2, <1>13, <2>1, RoundedOdd
    <3>2. p \in Int
      BY <1>2, <1>13, RoundedInt
    <3> HIDE DEF p
    <3> QED
      BY <1>1, <3>1, <3>2
  <2>2. CASE wm > 0
    <3> DEFINE ps == p * sq
    <3>1. p \in Nat /\ 2 * ps <= 2 * wm + sq
      <4> HIDE DEF wm
      <4>1. wm \in Nat
        BY <1>13, <2>2
      <4> QED
        BY <1>2, <4>1, RoundedNat
    <3> HIDE DEF p
    <3>2. ps \in Int
      BY <1>2, <3>1
    <3>3. ps < ns + sq
      <4>1. ns \in Int
        BY <1>10
      <4> HIDE DEF ps, wm, um, ns, mz
      <4> QED
        BY <1>2, <1>6, <1>9, <1>12, <1>13, <3>1, <3>2, <4>1
    <3>4. p * sq < net * sq + sq
      BY <3>3
    <3> QED
      BY <1>1, <1>2, <3>1, <3>4, FactorOut
  <2> QED
    BY <1>13, <2>1, <2>2
<1> QED
  BY <1>8, <1>14, <1>15 DEF net, u
=============================================================================
