----------------------- MODULE EvaluationDomain_proofs -----------------------
(***************************************************************************)
(* Facts about the score rules of EvaluationDomain for any finite set of    *)
(* sections and criteria.                                                   *)
(*                                                                          *)
(* Both totals are sums over a set, and the sum of Functions is a recursion *)
(* over subsets that takes out an arbitrary element at each level.  Its     *)
(* value is therefore proved by induction.  The induction theorems of the   *)
(* library take the hypothesis as an operator; here a proof looks instead   *)
(* at a smallest subset its claim fails for (SmallestSubset).               *)
(***************************************************************************)
EXTENDS EvaluationDomain, FiniteSetTheorems, WellFoundedInduction, TLAPS

-----------------------------------------------------------------------------
(* Induction over the subsets of a finite set.                              *)

\* A nonempty set of naturals has a least member.
LEMMA LeastNatural ==
    ASSUME NEW T \in SUBSET Nat, T # {}
    PROVE  \E m \in T : \A n \in T : m <= n
<1> DEFINE Less == {p \in Nat \X Nat : p[1] < p[2]}
<1>1. IsWellFoundedOn(Less, Nat)
  BY NatLessThanWellFounded DEF OpToRel
<1>2. \A m, n \in Nat : <<n, m>> \notin Less => m <= n
  OBVIOUS
<1> HIDE DEF Less
<1>3. \E m \in T : \A n \in T : <<n, m>> \notin Less
  BY <1>1, WFMin
<1> QED
  BY <1>2, <1>3

\* Among some subsets of a finite set there is one that no other of them is
\* one element short of.
LEMMA SmallestSubset ==
    ASSUME NEW S, IsFiniteSet(S), NEW Bad \in SUBSET (SUBSET S), Bad # {}
    PROVE  \E T \in Bad : \A x \in T : T \ {x} \notin Bad
<1> DEFINE Sizes == {Cardinality(T) : T \in Bad}
<1>1. \A T \in SUBSET S : IsFiniteSet(T) /\ Cardinality(T) \in Nat
  BY FS_Subset, FS_CardinalityType
<1>2. Sizes \in SUBSET Nat /\ Sizes # {}
  BY <1>1
<1>3. PICK m \in Sizes : \A n \in Sizes : m <= n
  <2> HIDE DEF Sizes
  <2> QED BY <1>2, LeastNatural
<1>4. PICK T \in Bad : m = Cardinality(T)
  BY <1>3
<1>5. ASSUME NEW x \in T, T \ {x} \in Bad PROVE FALSE
  <2>1. Cardinality(T \ {x}) = Cardinality(T) - 1
    BY <1>1, FS_RemoveElement
  <2>2. Cardinality(T) <= Cardinality(T \ {x})
    BY <1>3, <1>4, <1>5
  <2> QED BY <1>1, <2>1, <2>2
<1> QED BY <1>4, <1>5

-----------------------------------------------------------------------------
(* The recursion behind SumFunctionOnSet is well defined.                   *)

Chosen(s) == CHOOSE x \in s : TRUE
SumStep(fun, it, s) == IF s = {} THEN 0 ELSE fun[Chosen(s)] + it[s \ {Chosen(s)}]
IsSum(fun, S, it) == it = [s \in SUBSET S |-> SumStep(fun, it, s)]
Sums(fun, S) == CHOOSE it : IsSum(fun, S, it)

LEMMA ChosenMember == ASSUME NEW s, s # {} PROVE Chosen(s) \in s
BY DEF Chosen

LEMMA SumIsLast ==
    ASSUME NEW fun, NEW S
    PROVE  SumFunctionOnSet(fun, S) = Sums(fun, S)[S]
BY DEF SumFunctionOnSet, FoldFunctionOnSet, MapThenFoldSet, Sums, IsSum, SumStep, Chosen

\* Some function satisfies the recursion: one that does so up to the sets of n
\* elements extends to those of n + 1.
LEMMA SumExists ==
    ASSUME NEW fun, NEW S, IsFiniteSet(S)
    PROVE  \E it : IsSum(fun, S, it)
<1> DEFINE UpTo(n, it) == /\ it = [s \in SUBSET S |-> it[s]]
                          /\ \A s \in SUBSET S : Cardinality(s) <= n =>
                                it[s] = SumStep(fun, it, s)
           Bad == {n \in Nat : ~ \E it : UpTo(n, it)}
<1>1. \A s \in SUBSET S : IsFiniteSet(s) /\ Cardinality(s) \in Nat
  BY FS_Subset, FS_CardinalityType
<1>2. UpTo(0, [s \in SUBSET S |-> 0])
  <2>1. \A s \in SUBSET S : Cardinality(s) <= 0 => s = {}
    BY <1>1, FS_EmptySet
  <2> QED BY <2>1 DEF SumStep
<1>3. ASSUME NEW n \in Nat, NEW g, UpTo(n, g)
      PROVE  \E it : UpTo(n + 1, it)
  <2> DEFINE h == [s \in SUBSET S |-> SumStep(fun, g, s)]
  <2>1. ASSUME NEW s \in SUBSET S, Cardinality(s) <= n + 1
        PROVE  h[s] = SumStep(fun, h, s)
    <3>1. CASE s = {}
      BY <3>1 DEF SumStep
    <3>2. CASE s # {}
      <4> DEFINE t == s \ {Chosen(s)}
      <4>1. Chosen(s) \in s
        BY <3>2, ChosenMember
      <4>2. t \in SUBSET S /\ Cardinality(t) <= n
        BY <1>1, <2>1, <4>1, FS_RemoveElement
      <4>3. h[t] = g[t]
        BY <1>3, <4>2
      <4> QED BY <3>2, <4>3 DEF SumStep
    <3> QED BY <3>1, <3>2
  <2>2. UpTo(n + 1, h)
    BY <2>1
  <2> QED BY <2>2
<1>4. Bad = {}
  <2> SUFFICES ASSUME Bad # {} PROVE FALSE
    OBVIOUS
  <2>1. PICK m \in Bad : \A n \in Bad : m <= n
    <3>1. Bad \in SUBSET Nat
      OBVIOUS
    <3> HIDE DEF Bad
    <3> QED BY <3>1, LeastNatural
  <2>2. m \in Nat /\ ~ \E it : UpTo(m, it)
    BY <2>1
  <2> HIDE DEF UpTo
  <2>3. m # 0
    BY <1>2, <2>2
  <2>4. m - 1 \in Nat /\ m - 1 \notin Bad
    BY <2>1, <2>2, <2>3
  <2>5. \E it : UpTo(m - 1, it)
    BY <2>4
  <2>6. \E it : UpTo((m - 1) + 1, it)
    BY <1>3, <2>4, <2>5
  <2>7. (m - 1) + 1 = m
    BY <2>2
  <2> QED BY <2>2, <2>6, <2>7
<1>5. PICK it : UpTo(Cardinality(S), it)
  <2> HIDE DEF UpTo
  <2> QED BY <1>1, <1>4
<1>6. \A s \in SUBSET S : Cardinality(s) <= Cardinality(S)
  BY FS_Subset
<1>7. it = [s \in SUBSET S |-> SumStep(fun, it, s)]
  BY <1>5, <1>6
<1> QED BY <1>7 DEF IsSum

LEMMA SumRecursion ==
    ASSUME NEW fun, NEW S, IsFiniteSet(S), NEW s \in SUBSET S
    PROVE  Sums(fun, S)[s] = SumStep(fun, Sums(fun, S), s)
<1>1. IsSum(fun, S, Sums(fun, S))
  BY SumExists DEF Sums
<1> QED BY <1>1 DEF IsSum

\* What the recursion gives for a subset does not depend on the set it was
\* defined over.
LEMMA SumOfSubset ==
    ASSUME NEW fun, NEW S, IsFiniteSet(S), NEW T \in SUBSET S
    PROVE  Sums(fun, S)[T] = SumFunctionOnSet(fun, T)
<1> DEFINE Bad == {U \in SUBSET T : Sums(fun, S)[U] # Sums(fun, T)[U]}
<1>1. IsFiniteSet(T)
  BY FS_Subset
<1>2. Bad = {}
  <2> SUFFICES ASSUME Bad # {} PROVE FALSE
    OBVIOUS
  <2>1. PICK U \in Bad : \A x \in U : U \ {x} \notin Bad
    <3>1. Bad \in SUBSET (SUBSET T)
      OBVIOUS
    <3> HIDE DEF Bad
    <3> QED BY <1>1, <3>1, SmallestSubset
  <2>2. U \in SUBSET T /\ Sums(fun, S)[U] # Sums(fun, T)[U]
    BY <2>1
  <2>3. /\ Sums(fun, S)[U] = SumStep(fun, Sums(fun, S), U)
        /\ Sums(fun, T)[U] = SumStep(fun, Sums(fun, T), U)
    BY <1>1, <2>2, SumRecursion
  <2>4. U # {}
    BY <2>2, <2>3 DEF SumStep
  <2>5. Chosen(U) \in U
    BY <2>4, ChosenMember
  <2>6. Sums(fun, S)[U \ {Chosen(U)}] = Sums(fun, T)[U \ {Chosen(U)}]
    BY <2>1, <2>2, <2>5
  <2> QED BY <2>2, <2>3, <2>6 DEF SumStep
<1>3. Sums(fun, S)[T] = Sums(fun, T)[T]
  BY <1>2
<1> QED BY <1>3, SumIsLast

-----------------------------------------------------------------------------
(* Sums.                                                                    *)

LEMMA SumEmpty == ASSUME NEW fun PROVE SumFunctionOnSet(fun, {}) = 0
<1>1. IsFiniteSet({})
  BY FS_EmptySet
<1>2. Sums(fun, {})[{}] = SumStep(fun, Sums(fun, {}), {})
  BY <1>1, SumRecursion
<1> QED BY <1>2, SumIsLast DEF SumStep

LEMMA SumChosen ==
    ASSUME NEW fun, NEW S, IsFiniteSet(S), S # {}
    PROVE  SumFunctionOnSet(fun, S)
              = fun[Chosen(S)] + SumFunctionOnSet(fun, S \ {Chosen(S)})
<1>1. Sums(fun, S)[S] = fun[Chosen(S)] + Sums(fun, S)[S \ {Chosen(S)}]
  BY SumRecursion DEF SumStep
<1>2. Sums(fun, S)[S \ {Chosen(S)}] = SumFunctionOnSet(fun, S \ {Chosen(S)})
  <2>1. S \ {Chosen(S)} \in SUBSET S
    OBVIOUS
  <2> QED BY <2>1, SumOfSubset
<1> QED BY <1>1, <1>2, SumIsLast

\* A sum of integers is an integer, of naturals a natural number, of zeros zero.
LEMMA SumType ==
    ASSUME NEW fun, NEW S, IsFiniteSet(S),
           NEW N, N \in {Int, Nat, {0}}, \A i \in S : fun[i] \in N
    PROVE  SumFunctionOnSet(fun, S) \in N
<1> DEFINE Bad == {T \in SUBSET S : SumFunctionOnSet(fun, T) \notin N}
<1>1. Bad = {}
  <2> SUFFICES ASSUME Bad # {} PROVE FALSE
    OBVIOUS
  <2>1. PICK T \in Bad : \A x \in T : T \ {x} \notin Bad
    <3>1. Bad \in SUBSET (SUBSET S)
      OBVIOUS
    <3> HIDE DEF Bad
    <3> QED BY <3>1, SmallestSubset
  <2>2. T \in SUBSET S /\ SumFunctionOnSet(fun, T) \notin N
    BY <2>1
  <2>3. T # {}
    BY <2>2, SumEmpty
  <2>4. Chosen(T) \in T
    BY <2>3, ChosenMember
  <2>5. SumFunctionOnSet(fun, T \ {Chosen(T)}) \in N /\ fun[Chosen(T)] \in N
    BY <2>1, <2>2, <2>4
  <2>6. SumFunctionOnSet(fun, T) = fun[Chosen(T)] + SumFunctionOnSet(fun, T \ {Chosen(T)})
    BY <2>2, <2>3, FS_Subset, SumChosen
  <2> QED BY <2>2, <2>5, <2>6
<1> QED BY <1>1

\* Any element may be taken out, not only the one the recursion chooses.
LEMMA SumRemove ==
    ASSUME NEW fun, NEW S, IsFiniteSet(S), \A i \in S : fun[i] \in Int, NEW y \in S
    PROVE  SumFunctionOnSet(fun, S) = fun[y] + SumFunctionOnSet(fun, S \ {y})
<1> DEFINE Sum(T) == SumFunctionOnSet(fun, T)
           Holds(T) == \A z \in T : Sum(T) = fun[z] + Sum(T \ {z})
           Bad == {T \in SUBSET S : ~ Holds(T)}
<1>1. \A T \in SUBSET S : IsFiniteSet(T) /\ Sum(T) \in Int
  BY FS_Subset, SumType
<1>2. Bad = {}
  <2> SUFFICES ASSUME Bad # {} PROVE FALSE
    OBVIOUS
  <2>1. PICK T \in Bad : \A x \in T : T \ {x} \notin Bad
    <3>1. Bad \in SUBSET (SUBSET S)
      OBVIOUS
    <3> HIDE DEF Bad
    <3> QED BY <3>1, SmallestSubset
  <2>2. T \in SUBSET S /\ \A x \in T : Holds(T \ {x})
    BY <2>1
  <2>3. PICK z \in T : Sum(T) # fun[z] + Sum(T \ {z})
    BY <2>1
  <2> DEFINE x == Chosen(T)
  <2>4. x \in T
    BY <2>3, ChosenMember
  <2>5. Sum(T) = fun[x] + Sum(T \ {x})
    BY <1>1, <2>2, <2>3, SumChosen
  <2>6. x # z
    BY <2>3, <2>5
  <2> HIDE DEF x, Sum
  <2>7. Sum(T \ {x}) = fun[z] + Sum((T \ {x}) \ {z})
    BY <2>2, <2>3, <2>4, <2>6
  <2>8. Sum(T \ {z}) = fun[x] + Sum((T \ {z}) \ {x})
    BY <2>2, <2>3, <2>4, <2>6
  <2>9. (T \ {x}) \ {z} = (T \ {z}) \ {x}
    OBVIOUS
  <2> DEFINE rest == Sum((T \ {z}) \ {x})
  <2>10. rest \in Int /\ fun[x] \in Int /\ fun[z] \in Int
    <3>1. (T \ {z}) \ {x} \in SUBSET S
      BY <2>2
    <3> QED BY <1>1, <2>2, <2>3, <2>4, <3>1
  <2>11. Sum(T) = fun[x] + (fun[z] + rest)
    BY <2>5, <2>7, <2>9
  <2>12. fun[z] + Sum(T \ {z}) = fun[z] + (fun[x] + rest)
    BY <2>8
  <2> HIDE DEF rest
  <2> QED BY <2>3, <2>10, <2>11, <2>12
<1> QED BY <1>2

\* A sum grows with its terms.
LEMMA SumGrows ==
    ASSUME NEW f, NEW g, NEW S, IsFiniteSet(S),
           \A i \in S : f[i] \in Int /\ g[i] \in Int /\ f[i] <= g[i]
    PROVE  SumFunctionOnSet(f, S) <= SumFunctionOnSet(g, S)
<1> DEFINE Bad == {T \in SUBSET S :
                      ~(SumFunctionOnSet(f, T) <= SumFunctionOnSet(g, T))}
<1>1. Bad = {}
  <2> SUFFICES ASSUME Bad # {} PROVE FALSE
    OBVIOUS
  <2>1. PICK T \in Bad : \A x \in T : T \ {x} \notin Bad
    <3>1. Bad \in SUBSET (SUBSET S)
      OBVIOUS
    <3> HIDE DEF Bad
    <3> QED BY <3>1, SmallestSubset
  <2>2. T \in SUBSET S /\ ~(SumFunctionOnSet(f, T) <= SumFunctionOnSet(g, T))
    BY <2>1
  <2>3. IsFiniteSet(T) /\ T # {}
    <3>1. T # {}
      <4>1. SumFunctionOnSet(f, {}) = 0 /\ SumFunctionOnSet(g, {}) = 0
        BY SumEmpty
      <4> QED BY <2>2, <4>1
    <3> QED BY <2>2, <3>1, FS_Subset
  <2> DEFINE x == Chosen(T)
             F == SumFunctionOnSet(f, T \ {x})
             G == SumFunctionOnSet(g, T \ {x})
  <2>4. x \in T
    BY <2>3, ChosenMember
  <2>5. /\ SumFunctionOnSet(f, T) = f[x] + F
        /\ SumFunctionOnSet(g, T) = g[x] + G
    BY <2>3, SumChosen
  <2>6. F <= G
    BY <2>1, <2>2, <2>4
  <2>7. IsFiniteSet(T \ {x}) /\ T \ {x} \subseteq S
    BY <2>2, <2>3, FS_Subset
  <2>8. F \in Int /\ G \in Int
    BY <2>7, SumType
  <2>9. f[x] \in Int /\ g[x] \in Int /\ f[x] <= g[x]
    BY <2>2, <2>4
  <2> HIDE DEF x, F, G
  <2> QED BY <2>2, <2>5, <2>6, <2>8, <2>9
<1> QED BY <1>1

\* A sum of naturals over more elements is no smaller.
LEMMA SumMore ==
    ASSUME NEW f, NEW S, IsFiniteSet(S), \A i \in S : f[i] \in Nat, NEW T \in SUBSET S
    PROVE  SumFunctionOnSet(f, T) <= SumFunctionOnSet(f, S)
<1> DEFINE Sum(U) == SumFunctionOnSet(f, U)
           Bad == {D \in SUBSET (S \ T) : ~(Sum(T) <= Sum(T \cup D))}
<1>1. \A U \in SUBSET S : IsFiniteSet(U) /\ Sum(U) \in Nat
  BY FS_Subset, SumType
<1>2. Bad = {}
  <2> SUFFICES ASSUME Bad # {} PROVE FALSE
    OBVIOUS
  <2>1. PICK D \in Bad : \A x \in D : D \ {x} \notin Bad
    <3>1. Bad \in SUBSET (SUBSET (S \ T)) /\ IsFiniteSet(S \ T)
      BY FS_Subset
    <3> HIDE DEF Bad
    <3> QED BY <3>1, SmallestSubset
  <2>2. D \in SUBSET (S \ T) /\ ~(Sum(T) <= Sum(T \cup D))
    BY <2>1
  <2>3. PICK x \in D : TRUE
    <3>1. T \cup {} = T /\ Sum(T) <= Sum(T)
      BY <1>1
    <3> QED BY <2>2, <3>1
  <2>4. Sum(T) <= Sum(T \cup (D \ {x}))
    BY <2>1, <2>2, <2>3
  <2>5. (T \cup D) \ {x} = T \cup (D \ {x})
    BY <2>2, <2>3
  <2>6. T \cup D \in SUBSET S /\ x \in T \cup D /\ T \cup (D \ {x}) \in SUBSET S
    BY <2>2, <2>3
  <2> HIDE DEF Sum
  <2>7. Sum(T \cup D) = f[x] + Sum((T \cup D) \ {x})
    <3>1. \A i \in T \cup D : f[i] \in Int
      BY <2>6
    <3> QED BY <1>1, <2>6, <3>1, SumRemove DEF Sum
  <2>8. f[x] \in Nat /\ Sum(T) \in Nat /\ Sum(T \cup (D \ {x})) \in Nat
    BY <1>1, <2>2, <2>3, <2>6
  <2> QED BY <2>2, <2>4, <2>5, <2>7, <2>8
<1>3. T \cup (S \ T) = S
  OBVIOUS
<1> QED BY <1>2, <1>3

-----------------------------------------------------------------------------
(* The student's total and its class.                                       *)

\* The self-assessed total stays on the scale of 0 to 100.
LEMMA StudentTotalOnScale ==
    ASSUME NEW sections, IsFiniteSet(DOMAIN sections),
           \A s \in DOMAIN sections : sections[s] \in Nat
    PROVE  StudentTotal(sections) \in 0..100
<1>1. SumFunction(sections) \in Nat
  BY SumType DEF SumFunction
<1> QED BY <1>1 DEF StudentTotal

\* A form nobody has filled in has no points.
LEMMA NothingFilledIn ==
    ASSUME NEW sections, IsFiniteSet(DOMAIN sections),
           \A s \in DOMAIN sections : sections[s] = 0
    PROVE  StudentTotal(sections) = 0
<1>1. SumFunction(sections) \in {0}
  BY SumType DEF SumFunction
<1> QED BY <1>1 DEF StudentTotal

\* The classes from the worst to the best.
Level(rank) == CASE rank = "poor"    -> 0
                 [] rank = "weak"    -> 1
                 [] rank = "average" -> 2
                 [] rank = "fair"    -> 3
                 [] rank = "good"    -> 4
                 [] rank = "excellent" -> 5

\* The thresholds of calculateClassification are in order.
LEMMA HigherScoreNoWorseClass ==
    ASSUME NEW m \in Int, NEW n \in Int, m <= n
    PROVE  Level(Classify(m)) <= Level(Classify(n))
BY DEF Level, Classify

\* A section that gains points lowers neither the total nor the class, capped
\* or not (calculateScoreResult).
THEOREM MorePointsNeverWorse ==
    ASSUME NEW less, NEW more, IsFiniteSet(DOMAIN less), DOMAIN more = DOMAIN less,
           \A s \in DOMAIN less : /\ less[s] \in Int /\ more[s] \in Int
                                  /\ less[s] <= more[s]
    PROVE  /\ StudentTotal(less) <= StudentTotal(more)
           /\ Level(Classify(StudentTotal(less))) <= Level(Classify(StudentTotal(more)))
<1>1. SumFunction(less) <= SumFunction(more)
  BY SumGrows DEF SumFunction
<1>2. SumFunction(less) \in Int /\ SumFunction(more) \in Int
  BY SumType DEF SumFunction
<1>3. /\ StudentTotal(less) \in Int /\ StudentTotal(more) \in Int
      /\ StudentTotal(less) <= StudentTotal(more)
  BY <1>1, <1>2 DEF StudentTotal
<1> QED BY <1>3, HigherScoreNoWorseClass

-----------------------------------------------------------------------------
(* The reviewers' sheet.                                                    *)

LEMMA SheetTotalType ==
    ASSUME NEW sheet, IsFiniteSet(DOMAIN sheet),
           \A c \in DOMAIN sheet : sheet[c] \in Nat \cup {Null}
    PROVE  SheetTotal(sheet) \in Nat
<1>1. IsFiniteSet(Scored(sheet)) /\ \A c \in Scored(sheet) : sheet[c] \in Nat
  BY FS_Subset DEF Scored
<1> QED BY <1>1, SumType DEF SheetTotal

\* A sheet whose every criterion keeps to its maximum keeps to their sum.
LEMMA SheetWithinMaxima ==
    ASSUME NEW sheet, IsFiniteSet(DOMAIN sheet),
           \A c \in DOMAIN sheet : sheet[c] \in Nat \cup {Null},
           NEW max \in [DOMAIN sheet -> Nat],
           \A c \in Scored(sheet) : sheet[c] <= max[c]
    PROVE  SheetTotal(sheet) <= SumFunction(max)
<1> DEFINE S == Scored(sheet)
<1>1. IsFiniteSet(S) /\ S \subseteq DOMAIN sheet /\ \A c \in S : sheet[c] \in Nat
  BY FS_Subset DEF Scored
<1>2. \A c \in S : sheet[c] <= max[c]
  OBVIOUS
<1>3. DOMAIN max = DOMAIN sheet /\ \A c \in DOMAIN sheet : max[c] \in Nat
  OBVIOUS
<1>4. SheetTotal(sheet) = SumFunctionOnSet(sheet, S)
  BY DEF SheetTotal
<1> HIDE DEF S
<1>5. SumFunctionOnSet(sheet, S) <= SumFunctionOnSet(max, S)
  BY <1>1, <1>2, <1>3, SumGrows
<1>6. SumFunctionOnSet(max, S) <= SumFunction(max)
  BY <1>1, <1>3, SumMore DEF SumFunction
<1>7. /\ SumFunctionOnSet(sheet, S) \in Nat /\ SumFunctionOnSet(max, S) \in Nat
      /\ SumFunction(max) \in Nat
  BY <1>1, <1>3, SumType DEF SumFunction
<1> QED BY <1>4, <1>5, <1>6, <1>7

=============================================================================
