------------------------- MODULE OrderFigures_proofs -------------------------
(***************************************************************************)
(* Facts about OrderFigures, for any orders: what its sums, its orders and *)
(* its roundings answer, and how what two statements answer of the same    *)
(* orders hangs together.  Sums over finite sets come first.  Induction is *)
(* over sets: a set of numbers, or of subsets, that holds the first and    *)
(* the next one holds all.                                                 *)
(***************************************************************************)
EXTENDS OrderFigures, FiniteSetTheorems, WellFoundedInduction, TLAPS

-----------------------------------------------------------------------------
(* Induction *)

\* A set of numbers with zero, and with the next of each of its own, holds all.
LEMMA NumbersFrom ==
  ASSUME NEW T \in SUBSET Nat, 0 \in T, \A n \in T : n + 1 \in T
  PROVE  T = Nat
<1> SUFFICES ASSUME Nat \ T # {} PROVE FALSE  OBVIOUS
<1>1. PICK n \in Nat \ T : \A m \in Nat \ T : ~ (<<m, n>> \in OpToRel(<, Nat))
  BY WFMin, NatLessThanWellFounded
<1>2. \A m \in Nat \ T : ~ (m < n)
  <2> SUFFICES ASSUME NEW m \in Nat \ T, m < n PROVE FALSE  OBVIOUS
  <2>1. <<m, n>> \in Nat \X Nat  OBVIOUS
  <2>2. <<m, n>> \in OpToRel(<, Nat)  BY <2>1 DEF OpToRel
  <2> QED  BY <1>1, <2>2
<1>3. n # 0 /\ n \in Nat  OBVIOUS
<1>4. n - 1 \in Nat /\ n - 1 < n /\ (n - 1) + 1 = n  BY <1>3
<1>5. n - 1 \in T  BY <1>2, <1>4
<1> QED  BY <1>4, <1>5

\* A family that has a set whenever it has what is left without each member.
LEMMA SetsBelow ==
  ASSUME NEW S, IsFiniteSet(S), NEW F \in SUBSET SUBSET S, {} \in F,
         \A s \in SUBSET S : s # {} /\ (\A x \in s : s \ {x} \in F) => s \in F
  PROVE  \A s \in SUBSET S : s \in F
<1> DEFINE N == {n \in Nat : \A s \in SUBSET S : Cardinality(s) = n => s \in F}
<1>1. 0 \in N  BY FS_Subset, FS_EmptySet
<1>2. ASSUME NEW n \in N PROVE n + 1 \in N
  <2>1. ASSUME NEW s \in SUBSET S, Cardinality(s) = n + 1 PROVE s \in F
    <3>1. IsFiniteSet(s) /\ s # {}  BY <1>2, <2>1, FS_Subset, FS_EmptySet
    <3>0. n \in Nat  BY <1>2
    <3>2. ASSUME NEW x \in s PROVE Cardinality(s \ {x}) = n
      <4>1. Cardinality(s \ {x}) = Cardinality(s) - 1  BY <3>1, FS_RemoveElement
      <4> QED  BY <2>1, <3>0, <4>1
    <3>3. \A x \in s : s \ {x} \in F  BY <1>2, <3>2
    <3> QED  BY <3>1, <3>3
  <2>2. n + 1 \in Nat  BY <1>2
  <2> QED  BY <2>1, <2>2
<1>3. N = Nat  BY <1>1, <1>2, NumbersFrom
<1> QED  BY <1>3, FS_Subset, FS_CardinalityType

\* A family with the empty set, and with one more member of each of its own.
LEMMA SetsFrom ==
  ASSUME NEW S, IsFiniteSet(S), NEW F \in SUBSET SUBSET S, {} \in F,
         \A s \in F : \A x \in S \ s : s \cup {x} \in F
  PROVE  \A s \in SUBSET S : s \in F
<1>1. ASSUME NEW s \in SUBSET S, s # {}, \A x \in s : s \ {x} \in F PROVE s \in F
  <2>1. PICK x \in s : TRUE  BY <1>1
  <2>2. (s \ {x}) \cup {x} = s /\ x \in S \ (s \ {x})  OBVIOUS
  <2> DEFINE t == s \ {x}
  <2>3. t \in F  BY <1>1
  <2> HIDE DEF t
  <2>4. \A y \in S \ t : t \cup {y} \in F  BY <2>3
  <2>5. t \cup {x} \in F  BY <2>2, <2>4 DEF t
  <2> QED  BY <2>2, <2>5 DEF t
<1> QED  BY <1>1, SetsBelow

-----------------------------------------------------------------------------
(* What a fold over a set is *)

Pick(s) == CHOOSE x \in s : TRUE

\* g is what folds every subset of S: next[s] makes a value of s from one of s \ {Pick(s)}.
IsFold(g, S, base, next) ==
  \A s \in SUBSET S : g[s] = IF s = {} THEN base ELSE next[s][g[s \ {Pick(s)}]]

\* A function defined over the subsets of a finite set, one member at a time.
LEMMA FoldExists ==
  ASSUME NEW S, IsFiniteSet(S), NEW V, NEW base \in V, NEW next \in [SUBSET S -> [V -> V]]
  PROVE  \E g \in [SUBSET S -> V] : IsFold(g, S, base, next)
<1> DEFINE Up(n) == {s \in SUBSET S : Cardinality(s) <= n}
           On(g, n) == \A s \in Up(n) :
                         g[s] = IF s = {} THEN base ELSE next[s][g[s \ {Pick(s)}]]
           N == {n \in Nat : \E g \in [Up(n) -> V] : On(g, n)}
<1>1. \A s \in SUBSET S : IsFiniteSet(s) /\ Cardinality(s) \in Nat
  BY FS_Subset, FS_CardinalityType
<1>2. \A s \in SUBSET S : s # {} => /\ Pick(s) \in s /\ s \ {Pick(s)} \in SUBSET S
                                    /\ Cardinality(s \ {Pick(s)}) = Cardinality(s) - 1
  BY <1>1, FS_RemoveElement DEF Pick
<1>3. 0 \in N
  <2>1. \A s \in Up(0) : s = {}  BY <1>1, FS_EmptySet
  <2>2. [s \in Up(0) |-> base] \in [Up(0) -> V] /\ On([s \in Up(0) |-> base], 0)
    BY <2>1
  <2> QED  BY <2>2
<1>4. ASSUME NEW n \in N PROVE n + 1 \in N
  <2>1. PICK g \in [Up(n) -> V] : On(g, n)  OBVIOUS
  <2> DEFINE h == [s \in Up(n + 1) |-> IF s = {} THEN base ELSE next[s][g[s \ {Pick(s)}]]]
  <2>2. ASSUME NEW s \in Up(n + 1), s # {} PROVE s \ {Pick(s)} \in Up(n)
    BY <1>1, <1>2, <2>2
  <2>3. h \in [Up(n + 1) -> V]  BY <2>2
  <2>4. \A s \in Up(n) : s \in Up(n + 1) /\ h[s] = g[s]  BY <1>1, <2>1
  <2>5. On(h, n + 1)
    <3> SUFFICES ASSUME NEW s \in Up(n + 1)
                 PROVE  h[s] = IF s = {} THEN base ELSE next[s][h[s \ {Pick(s)}]]
      OBVIOUS
    <3>1. CASE s = {}  BY <3>1
    <3>2. CASE s # {}
      <4>1. h[s \ {Pick(s)}] = g[s \ {Pick(s)}]  BY <2>2, <2>4, <3>2
      <4> QED  BY <3>2, <4>1
    <3> QED  BY <3>1, <3>2
  <2>6. n + 1 \in Nat  OBVIOUS
  <2> HIDE DEF h, On, Up
  <2>7. \E f \in [Up(n + 1) -> V] : On(f, n + 1)  BY <2>3, <2>5
  <2> QED  BY <2>6, <2>7
<1>5. N = Nat  BY <1>3, <1>4, NumbersFrom
<1>6. Cardinality(S) \in N  BY <1>1, <1>5
<1>7. PICK g \in [Up(Cardinality(S)) -> V] : On(g, Cardinality(S))  BY <1>6
<1>8. Up(Cardinality(S)) = SUBSET S  BY <1>1, FS_Subset
<1> QED  BY <1>7, <1>8 DEF IsFold

-----------------------------------------------------------------------------
(* What SumFunction is *)

IntegerOn(f, S) == \A x \in S : f[x] \in Int

\* What SumFunctionOnSet answers is such a function.
LEMMA SumFold ==
  ASSUME NEW f, NEW S, IsFiniteSet(S), IntegerOn(f, S)
  PROVE  \E g \in [SUBSET S -> Int] : \A s \in SUBSET S :
           /\ g[s] = SumFunctionOnSet(f, s)
           /\ g[s] = IF s = {} THEN 0 ELSE f[Pick(s)] + g[s \ {Pick(s)}]
<1> DEFINE next == [s \in SUBSET S |->
                      [v \in Int |-> IF s = {} THEN v ELSE f[Pick(s)] + v]]
           Is(h, s) == h[s] = IF s = {} THEN 0 ELSE f[Pick(s)] + h[s \ {Pick(s)}]
<1>1. \A s \in SUBSET S : s # {} => Pick(s) \in s  BY DEF Pick
<1>2. next \in [SUBSET S -> [Int -> Int]]  BY <1>1 DEF IntegerOn
<1>3. PICK g \in [SUBSET S -> Int] : IsFold(g, S, 0, next)
  BY <1>2, FoldExists, 0 \in Int
<1>4. \A s \in SUBSET S : Is(g, s)
  <2> SUFFICES ASSUME NEW s \in SUBSET S, s # {} PROVE Is(g, s)  BY <1>3 DEF IsFold
  <2>1. g[s \ {Pick(s)}] \in Int  BY <1>3
  <2>2. g[s] = next[s][g[s \ {Pick(s)}]]  BY <1>3 DEF IsFold
  <2> QED  BY <2>1, <2>2
<1>5. ASSUME NEW T \in SUBSET S PROVE g[T] = SumFunctionOnSet(f, T)
  <2> DEFINE Made(h) == h = [s \in SUBSET T |-> IF s = {} THEN 0
                                                ELSE f[Pick(s)] + h[s \ {Pick(s)}]]
             i == CHOOSE h : Made(h)
  <2>1. Made([s \in SUBSET T |-> g[s]])
    <3> DEFINE h == [s \in SUBSET T |-> g[s]]
    <3>1. \A s \in SUBSET T : h[s] = g[s] /\ h[s \ {Pick(s)}] = g[s \ {Pick(s)}]  OBVIOUS
    <3>2. \A s \in SUBSET T : Is(g, s)  BY <1>4
    <3> QED  BY <3>1, <3>2
  <2>2. Made(i)  BY <2>1
  <2>3. SumFunctionOnSet(f, T) = i[T]
    BY DEF SumFunctionOnSet, FoldFunctionOnSet, MapThenFoldSet, Pick
  <2>4. \A s \in SUBSET T : Is(i, s)  BY <2>2
  <2> HIDE DEF i
  <2> DEFINE F == {s \in SUBSET T : g[s] = i[s]}
  <2>5. ASSUME NEW s \in SUBSET T, s # {}, \A x \in s : s \ {x} \in F PROVE s \in F
    <3>1. g[s \ {Pick(s)}] = i[s \ {Pick(s)}]  BY <1>1, <2>5
    <3>2. Is(g, s) /\ Is(i, s)  BY <1>4, <2>4
    <3> QED  BY <2>5, <3>1, <3>2
  <2>6. {} \in F  BY <1>4, <2>4
  <2>7. IsFiniteSet(T) /\ F \in SUBSET SUBSET T  BY FS_Subset
  <2>8. \A s \in F : g[s] = i[s]  OBVIOUS
  <2> HIDE DEF F
  <2>9. T \in F  BY <2>5, <2>6, <2>7, SetsBelow
  <2> QED  BY <2>3, <2>8, <2>9
<1> QED  BY <1>4, <1>5

\* The sum of nothing.
LEMMA SumOfNone ==
  ASSUME NEW f
  PROVE  SumFunctionOnSet(f, {}) = 0
BY SumFold, FS_EmptySet DEF IntegerOn

\* A sum of numbers is one.
LEMMA SumType ==
  ASSUME NEW f, NEW S, IsFiniteSet(S), IntegerOn(f, S)
  PROVE  SumFunctionOnSet(f, S) \in Int
<1>1. PICK g \in [SUBSET S -> Int] : \A s \in SUBSET S :
        /\ g[s] = SumFunctionOnSet(f, s)
        /\ g[s] = IF s = {} THEN 0 ELSE f[Pick(s)] + g[s \ {Pick(s)}]
  BY SumFold, ZenonT(60)
<1> QED  BY <1>1

\* Whichever member is taken first.
LEMMA SumSplit ==
  ASSUME NEW f, NEW S, IsFiniteSet(S), IntegerOn(f, S), NEW x \in S
  PROVE  SumFunctionOnSet(f, S) = f[x] + SumFunctionOnSet(f, S \ {x})
<1>1. PICK g \in [SUBSET S -> Int] : \A s \in SUBSET S :
        /\ g[s] = SumFunctionOnSet(f, s)
        /\ g[s] = IF s = {} THEN 0 ELSE f[Pick(s)] + g[s \ {Pick(s)}]
  BY SumFold, ZenonT(60)
<1> DEFINE F == {s \in SUBSET S : \A y \in s : g[s] = f[y] + g[s \ {y}]}
<1>2. ASSUME NEW s \in SUBSET S, s # {}, \A y \in s : s \ {y} \in F PROVE s \in F
  <2> SUFFICES ASSUME NEW y \in s PROVE g[s] = f[y] + g[s \ {y}]  OBVIOUS
  <2>1. g[s] = f[Pick(s)] + g[s \ {Pick(s)}] /\ Pick(s) \in s
    BY <1>1, <1>2 DEF Pick
  <2> DEFINE p == Pick(s)
             t == s \ {p, y}
  <2> HIDE DEF p
  <2>2. CASE y = p  BY <2>1, <2>2 DEF p
  <2>3. CASE y # p
    <3>0. (s \ {p}) \ {y} = t /\ (s \ {y}) \ {p} = t  OBVIOUS
    <3>1. g[s \ {p}] = f[y] + g[t]  BY <1>2, <2>1, <2>3, <3>0 DEF p
    <3>2. g[s \ {y}] = f[p] + g[t]  BY <1>2, <2>1, <2>3, <3>0 DEF p
    <3>3. f[p] \in Int /\ f[y] \in Int /\ g[t] \in Int  BY <1>1, <2>1 DEF IntegerOn, p
    <3>4. g[s] = f[p] + g[s \ {p}]  BY <2>1 DEF p
    <3> DEFINE a == g[t]
               b == g[s \ {p}]
               c == g[s \ {y}]
    <3> HIDE DEF t, a, b, c
    <3>5. b = f[y] + a /\ c = f[p] + a /\ a \in Int  BY <3>1, <3>2, <3>3 DEF a, b, c
    <3>6. g[s] = f[y] + c  BY <3>3, <3>4, <3>5 DEF b
    <3> QED  BY <3>6 DEF c
  <2> QED  BY <2>2, <2>3
<1>3. {} \in F  OBVIOUS
<1>4. F \in SUBSET SUBSET S /\ \A s \in F : \A y \in s : g[s] = f[y] + g[s \ {y}]
  OBVIOUS
<1> HIDE DEF F
<1>5. S \in F  BY <1>2, <1>3, <1>4, SetsBelow
<1> QED  BY <1>1, <1>4, <1>5

\* A sum with one more.
LEMMA SumAdd ==
  ASSUME NEW f, NEW S, IsFiniteSet(S), NEW x, x \notin S, IntegerOn(f, S \cup {x})
  PROVE  SumFunctionOnSet(f, S \cup {x}) = f[x] + SumFunctionOnSet(f, S)
<1>1. IsFiniteSet(S \cup {x})  BY FS_AddElement
<1>2. (S \cup {x}) \ {x} = S  OBVIOUS
<1> QED  BY <1>1, <1>2, SumSplit

-----------------------------------------------------------------------------
(* Laws *)

\* A sum depends on what it adds up alone.
LEMMA SumSame ==
  ASSUME NEW f, NEW g, NEW S, IsFiniteSet(S), IntegerOn(f, S), \A x \in S : f[x] = g[x]
  PROVE  SumFunctionOnSet(f, S) = SumFunctionOnSet(g, S)
<1> DEFINE F == {s \in SUBSET S : SumFunctionOnSet(f, s) = SumFunctionOnSet(g, s)}
<1>1. {} \in F  BY SumOfNone
<1>2. ASSUME NEW s \in F, NEW x \in S \ s PROVE s \cup {x} \in F
  <2>1. IsFiniteSet(s)  BY FS_Subset
  <2>2. IntegerOn(f, s \cup {x}) /\ IntegerOn(g, s \cup {x})  BY DEF IntegerOn
  <2>3. SumFunctionOnSet(f, s \cup {x}) = f[x] + SumFunctionOnSet(f, s)
    BY <2>1, <2>2, SumAdd
  <2>4. SumFunctionOnSet(g, s \cup {x}) = g[x] + SumFunctionOnSet(g, s)
    BY <2>1, <2>2, SumAdd
  <2> QED  BY <2>3, <2>4
<1>3. F \in SUBSET SUBSET S /\ \A s \in F : SumFunctionOnSet(f, s) = SumFunctionOnSet(g, s)
  OBVIOUS
<1> HIDE DEF F
<1>4. S \in F  BY <1>1, <1>2, <1>3, SetsFrom
<1> QED  BY <1>3, <1>4

\* A sum over two sets apart.
LEMMA SumUnion ==
  ASSUME NEW f, NEW S, NEW T, IsFiniteSet(S), IsFiniteSet(T), S \cap T = {},
         IntegerOn(f, S \cup T)
  PROVE  SumFunctionOnSet(f, S \cup T) = SumFunctionOnSet(f, S) + SumFunctionOnSet(f, T)
<1> DEFINE Q(t) == SumFunctionOnSet(f, S \cup t)
                     = SumFunctionOnSet(f, S) + SumFunctionOnSet(f, t)
           F == {t \in SUBSET T : Q(t)}
<1>0. IntegerOn(f, S)  BY DEF IntegerOn
<1>1. {} \in F
  <2>1. S \cup {} = S  OBVIOUS
  <2> QED  BY <1>0, <2>1, SumOfNone, SumType
<1>2. ASSUME NEW t \in F, NEW x \in T \ t PROVE t \cup {x} \in F
  <2>1. IsFiniteSet(t) /\ IsFiniteSet(S \cup t)  BY FS_Subset, FS_Union
  <2>2. IntegerOn(f, t \cup {x}) /\ IntegerOn(f, (S \cup t) \cup {x}) /\ IntegerOn(f, t)
    BY DEF IntegerOn
  <2>3. SumFunctionOnSet(f, t \cup {x}) = f[x] + SumFunctionOnSet(f, t)
    BY <2>1, <2>2, SumAdd
  <2> DEFINE u == S \cup t
  <2>4. SumFunctionOnSet(f, u \cup {x}) = f[x] + SumFunctionOnSet(f, u)
    <3>1. x \notin u /\ IsFiniteSet(u) /\ IntegerOn(f, u \cup {x})  BY <2>1, <2>2
    <3> HIDE DEF u
    <3> QED  BY <3>1, SumAdd
  <2>5. S \cup (t \cup {x}) = (S \cup t) \cup {x}  OBVIOUS
  <2>6. f[x] \in Int /\ SumFunctionOnSet(f, S) \in Int /\ SumFunctionOnSet(f, t) \in Int
    BY <1>0, <2>1, <2>2, SumType DEF IntegerOn
  <2>7. Q(t)  OBVIOUS
  <2>8. Q(t \cup {x})
    <3> DEFINE p == SumFunctionOnSet(f, S)
               q == SumFunctionOnSet(f, t)
               r == SumFunctionOnSet(f, u)
    <3>1. p \in Int /\ q \in Int /\ r = p + q /\ f[x] \in Int  BY <2>6, <2>7
    <3> HIDE DEF p, q, r
    <3>2. f[x] + r = p + (f[x] + q)  BY <3>1
    <3>3. SumFunctionOnSet(f, u \cup {x}) = p + SumFunctionOnSet(f, t \cup {x})
      BY <2>3, <2>4, <3>2 DEF q, r
    <3> QED  BY <2>5, <3>3 DEF p
  <2> QED  BY <2>8
<1>3. F \in SUBSET SUBSET T /\ \A t \in F : Q(t)  OBVIOUS
<1> HIDE DEF F
<1>4. T \in F  BY <1>1, <1>2, <1>3, SetsFrom
<1> QED  BY <1>3, <1>4

\* What is nothing outside a part sums up to that part.
LEMMA SumPart ==
  ASSUME NEW f, NEW S, IsFiniteSet(S), IntegerOn(f, S), NEW T \in SUBSET S,
         \A x \in S \ T : f[x] = 0
  PROVE  SumFunctionOnSet(f, S) = SumFunctionOnSet(f, T)
<1> DEFINE R == S \ T
           F == {s \in SUBSET R : SumFunctionOnSet(f, s) = 0}
<1>1. {} \in F  BY SumOfNone
<1>2. ASSUME NEW s \in F, NEW x \in R \ s PROVE s \cup {x} \in F
  <2>1. IsFiniteSet(s)  BY FS_Subset
  <2>2. IntegerOn(f, s \cup {x}) /\ f[x] = 0  BY DEF IntegerOn
  <2> QED  BY <2>1, <2>2, SumAdd
<1>3. IsFiniteSet(R) /\ IsFiniteSet(T) /\ T \cup R = S /\ T \cap R = {}  BY FS_Subset
<1>4. F \in SUBSET SUBSET R /\ \A s \in F : SumFunctionOnSet(f, s) = 0  OBVIOUS
<1>5. IntegerOn(f, T)  BY DEF IntegerOn
<1> HIDE DEF F, R
<1>6. R \in F  BY <1>1, <1>2, <1>3, <1>4, SetsFrom
<1>7. SumFunctionOnSet(f, R) = 0  BY <1>4, <1>6
<1>8. SumFunctionOnSet(f, T) \in Int  BY <1>3, <1>5, SumType
<1> QED  BY <1>3, <1>7, <1>8, SumUnion

\* A sum of no less is no less.
LEMMA SumLess ==
  ASSUME NEW f, NEW g, NEW S, IsFiniteSet(S), IntegerOn(f, S), IntegerOn(g, S),
         \A x \in S : f[x] <= g[x]
  PROVE  SumFunctionOnSet(f, S) <= SumFunctionOnSet(g, S)
<1> DEFINE F == {s \in SUBSET S : SumFunctionOnSet(f, s) <= SumFunctionOnSet(g, s)}
<1>1. {} \in F  BY SumOfNone
<1>2. ASSUME NEW s \in F, NEW x \in S \ s PROVE s \cup {x} \in F
  <2>1. IsFiniteSet(s)  BY FS_Subset
  <2>2. IntegerOn(f, s \cup {x}) /\ IntegerOn(g, s \cup {x}) /\ IntegerOn(f, s)
        /\ IntegerOn(g, s)
    BY DEF IntegerOn
  <2>3. SumFunctionOnSet(f, s \cup {x}) = f[x] + SumFunctionOnSet(f, s)
    BY <2>1, <2>2, SumAdd
  <2>4. SumFunctionOnSet(g, s \cup {x}) = g[x] + SumFunctionOnSet(g, s)
    BY <2>1, <2>2, SumAdd
  <2>5. SumFunctionOnSet(f, s) \in Int /\ SumFunctionOnSet(g, s) \in Int
    BY <2>1, <2>2, SumType
  <2>6. f[x] \in Int /\ g[x] \in Int /\ f[x] <= g[x]  BY DEF IntegerOn
  <2> QED  BY <2>3, <2>4, <2>5, <2>6
<1>3. F \in SUBSET SUBSET S /\ \A s \in F : SumFunctionOnSet(f, s) <= SumFunctionOnSet(g, s)
  OBVIOUS
<1> HIDE DEF F
<1>4. S \in F  BY <1>1, <1>2, <1>3, SetsFrom
<1> QED  BY <1>3, <1>4

\* A sum of a * f + b * g.
LEMMA SumLinear ==
  ASSUME NEW f, NEW g, NEW h, NEW S, IsFiniteSet(S), IntegerOn(f, S), IntegerOn(g, S),
         NEW a \in Int, NEW b \in Int, \A x \in S : h[x] = a * f[x] + b * g[x]
  PROVE  SumFunctionOnSet(h, S) = a * SumFunctionOnSet(f, S) + b * SumFunctionOnSet(g, S)
<1> DEFINE Q(s) == SumFunctionOnSet(h, s)
                     = a * SumFunctionOnSet(f, s) + b * SumFunctionOnSet(g, s)
           F == {s \in SUBSET S : Q(s)}
<1>1. {} \in F
  <2>1. a * 0 + b * 0 = 0  OBVIOUS
  <2> QED  BY <2>1, SumOfNone
<1>2. ASSUME NEW s \in F, NEW x \in S \ s PROVE s \cup {x} \in F
  <2>1. IsFiniteSet(s)  BY FS_Subset
  <2>2. /\ IntegerOn(f, s \cup {x}) /\ IntegerOn(g, s \cup {x})
        /\ IntegerOn(f, s) /\ IntegerOn(g, s)
    BY DEF IntegerOn
  <2>3. IntegerOn(h, s \cup {x})  BY <2>2 DEF IntegerOn
  <2>4. SumFunctionOnSet(f, s \cup {x}) = f[x] + SumFunctionOnSet(f, s)
    BY <2>1, <2>2, SumAdd
  <2>5. SumFunctionOnSet(g, s \cup {x}) = g[x] + SumFunctionOnSet(g, s)
    BY <2>1, <2>2, SumAdd
  <2>6. SumFunctionOnSet(h, s \cup {x}) = h[x] + SumFunctionOnSet(h, s)
    BY <2>1, <2>3, SumAdd
  <2> DEFINE p == SumFunctionOnSet(f, s)
             q == SumFunctionOnSet(g, s)
  <2>7. p \in Int /\ q \in Int
    BY <2>1, <2>2, SumType
  <2>8. f[x] \in Int /\ g[x] \in Int /\ h[x] = a * f[x] + b * g[x]  BY DEF IntegerOn
  <2>9. SumFunctionOnSet(h, s) = a * p + b * q  OBVIOUS
  <2> HIDE DEF p, q
  <2>10. (a * f[x] + b * g[x]) + (a * p + b * q) = a * (f[x] + p) + b * (g[x] + q)
    BY <2>7, <2>8
  <2>11. Q(s \cup {x})  BY <2>4, <2>5, <2>6, <2>8, <2>9, <2>10 DEF p, q
  <2> QED  BY <2>11
<1>3. F \in SUBSET SUBSET S /\ \A s \in F : Q(s)  OBVIOUS
<1> HIDE DEF F
<1>4. S \in F  BY <1>1, <1>2, <1>3, SetsFrom
<1> QED  BY <1>3, <1>4

\* A factor of every number is one of their sum.
LEMMA SumScaled ==
  ASSUME NEW f, NEW h, NEW S, IsFiniteSet(S), IntegerOn(f, S), NEW a \in Int,
         \A x \in S : h[x] = a * f[x]
  PROVE  SumFunctionOnSet(h, S) = a * SumFunctionOnSet(f, S)
<1> PICK b \in Int : b = 0  OBVIOUS
<1>1. \A x \in S : h[x] = a * f[x] + b * f[x]
  <2>1. \A x \in S : f[x] \in Int  BY DEF IntegerOn
  <2>2. \A i \in Int : b * i = 0 /\ a * i \in Int  OBVIOUS
  <2>3. \A i \in Int : a * i + 0 = a * i  OBVIOUS
  <2> QED  BY <2>1, <2>2, <2>3
<1>2. SumFunctionOnSet(h, S) = a * SumFunctionOnSet(f, S) + b * SumFunctionOnSet(f, S)
  BY <1>1, SumLinear
<1>3. SumFunctionOnSet(f, S) \in Int  BY SumType
<1> DEFINE s == SumFunctionOnSet(f, S)
<1> HIDE DEF s
<1>4. b * s = 0 /\ a * s \in Int  BY <1>3 DEF s
<1> QED  BY <1>2, <1>4 DEF s

\* A count is a sum of ones.
LEMMA SumOnes ==
  ASSUME NEW f, NEW S, IsFiniteSet(S), \A x \in S : f[x] = 1
  PROVE  SumFunctionOnSet(f, S) = Cardinality(S)
<1> DEFINE F == {s \in SUBSET S : SumFunctionOnSet(f, s) = Cardinality(s)}
<1>1. {} \in F  BY SumOfNone, FS_EmptySet
<1>2. ASSUME NEW s \in F, NEW x \in S \ s PROVE s \cup {x} \in F
  <2>1. IsFiniteSet(s)  BY FS_Subset
  <2>2. IntegerOn(f, s \cup {x})  BY DEF IntegerOn
  <2>3. SumFunctionOnSet(f, s \cup {x}) = f[x] + SumFunctionOnSet(f, s)
    BY <2>1, <2>2, SumAdd
  <2>4. Cardinality(s \cup {x}) = Cardinality(s) + 1 /\ Cardinality(s) \in Nat
    BY <2>1, FS_AddElement, FS_CardinalityType
  <2> QED  BY <2>3, <2>4
<1>3. F \in SUBSET SUBSET S /\ \A s \in F : SumFunctionOnSet(f, s) = Cardinality(s)
  OBVIOUS
<1> HIDE DEF F
<1>4. S \in F  BY <1>1, <1>2, <1>3, SetsFrom
<1> QED  BY <1>3, <1>4

\* A sum of the same number.
LEMMA SumConstant ==
  ASSUME NEW f, NEW S, IsFiniteSet(S), NEW a \in Int, \A x \in S : f[x] = a
  PROVE  SumFunctionOnSet(f, S) = a * Cardinality(S)
<1> DEFINE one == [x \in S |-> 1]
<1>1. \A x \in S : one[x] = 1  OBVIOUS
<1> HIDE DEF one
<1>2. IntegerOn(one, S) /\ \A x \in S : f[x] = a * one[x]  BY <1>1 DEF IntegerOn
<1>3. SumFunctionOnSet(one, S) = Cardinality(S)  BY <1>1, SumOnes
<1> QED  BY <1>2, <1>3, SumScaled

Fiber(k, S, b) == {x \in S : k[x] = b}

\* Sorted into buckets, summed by bucket, and the buckets summed up.
LEMMA SumFibers ==
  ASSUME NEW f, NEW S, IsFiniteSet(S), IntegerOn(f, S), NEW B, IsFiniteSet(B),
         NEW k, \A x \in S : k[x] \in B,
         NEW g, \A b \in B : g[b] = SumFunctionOnSet(f, Fiber(k, S, b))
  PROVE  SumFunctionOnSet(g, B) = SumFunctionOnSet(f, S)
<1> DEFINE Of(s) == [b \in B |-> SumFunctionOnSet(f, {x \in s : k[x] = b})]
           Q(s) == SumFunctionOnSet(Of(s), B) = SumFunctionOnSet(f, s)
           F == {s \in SUBSET S : Q(s)}
<1>1. ASSUME NEW s \in SUBSET S PROVE IntegerOn(Of(s), B)
  <2> SUFFICES ASSUME NEW b \in B PROVE SumFunctionOnSet(f, {x \in s : k[x] = b}) \in Int
    BY DEF IntegerOn
  <2> DEFINE T == {x \in s : k[x] = b}
  <2>1. IsFiniteSet(T) /\ IntegerOn(f, T)  BY FS_Subset DEF IntegerOn
  <2> QED  BY <2>1, SumType
<1>2. {} \in F
  <2>1. \A b \in B : Of({})[b] = 0
    <3> SUFFICES ASSUME NEW b \in B PROVE Of({})[b] = 0  OBVIOUS
    <3>1. {x \in {} : k[x] = b} = {}  OBVIOUS
    <3>2. Of({})[b] = SumFunctionOnSet(f, {x \in {} : k[x] = b})  OBVIOUS
    <3> QED  BY <3>1, <3>2, SumOfNone
  <2> DEFINE o == Of({})
  <2>2. IntegerOn(o, B) /\ \A b \in B \ {} : o[b] = 0  BY <2>1 DEF IntegerOn
  <2> HIDE DEF o
  <2>3. SumFunctionOnSet(o, B) = SumFunctionOnSet(o, {})  BY <2>2, SumPart
  <2> QED  BY <2>3, SumOfNone DEF o
<1>3. ASSUME NEW s \in F, NEW x \in S \ s PROVE s \cup {x} \in F
  <2> DEFINE t == s \cup {x}
             o == Of(s)
             n == Of(t)
             c == k[x]
  <2>1. c \in B /\ s \in SUBSET S /\ t \in SUBSET S /\ IsFiniteSet(s)  BY FS_Subset
  <2>2. IntegerOn(o, B) /\ IntegerOn(n, B)  BY <1>1, <2>1
  <2>3. n[c] = f[x] + o[c]
    <3> DEFINE T == {y \in s : k[y] = c}
    <3>1. {y \in t : k[y] = c} = T \cup {x}  OBVIOUS
    <3>2. IsFiniteSet(T) /\ IntegerOn(f, T \cup {x}) /\ x \notin T
      BY <2>1, FS_Subset DEF IntegerOn
    <3>3. o[c] = SumFunctionOnSet(f, T)  BY <2>1
    <3>4. n[c] = SumFunctionOnSet(f, T \cup {x})  BY <2>1, <3>1
    <3> HIDE DEF T, n, o
    <3> QED  BY <3>2, <3>3, <3>4, SumAdd
  <2>4. \A b \in B \ {c} : n[b] = o[b]
    <3> SUFFICES ASSUME NEW b \in B \ {c} PROVE n[b] = o[b]  OBVIOUS
    <3>1. {y \in t : k[y] = b} = {y \in s : k[y] = b}  OBVIOUS
    <3> QED  BY <3>1
  <2>5. SumFunctionOnSet(f, t) = f[x] + SumFunctionOnSet(f, s)
    <3>1. IntegerOn(f, s \cup {x})  BY DEF IntegerOn
    <3> QED  BY <2>1, <3>1, SumAdd
  <2>6. SumFunctionOnSet(o, B) = SumFunctionOnSet(f, s)  OBVIOUS
  <2>7. SumFunctionOnSet(f, s) \in Int /\ f[x] \in Int
    BY <2>1, SumType, FS_Subset DEF IntegerOn
  <2> HIDE DEF o, n, c, Of
  <2>8. IsFiniteSet(B \ {c}) /\ IntegerOn(n, B \ {c}) /\ IntegerOn(o, B \ {c})
    BY <2>2, FS_Subset DEF IntegerOn
  <2>9. SumFunctionOnSet(n, B \ {c}) = SumFunctionOnSet(o, B \ {c})
    BY <2>4, <2>8, SumSame
  <2>10. SumFunctionOnSet(n, B) = n[c] + SumFunctionOnSet(n, B \ {c})
    BY <2>1, <2>2, SumSplit
  <2>11. SumFunctionOnSet(o, B) = o[c] + SumFunctionOnSet(o, B \ {c})
    BY <2>1, <2>2, SumSplit
  <2>12. o[c] \in Int /\ SumFunctionOnSet(o, B \ {c}) \in Int
    BY <2>1, <2>2, <2>8, SumType DEF IntegerOn
  <2>13. SumFunctionOnSet(n, B) = f[x] + SumFunctionOnSet(o, B)
    BY <2>3, <2>7, <2>9, <2>10, <2>11, <2>12
  <2>14. Q(t)  BY <2>5, <2>6, <2>13 DEF n
  <2> QED  BY <2>1, <2>14
<1>4. F \in SUBSET SUBSET S /\ \A s \in F : Q(s)  OBVIOUS
<1>5. \A b \in B : Of(S)[b] = g[b]  BY DEF Fiber
<1>6. IntegerOn(Of(S), B)  BY <1>1
<1> HIDE DEF F, Of
<1>7. S \in F  BY <1>2, <1>3, <1>4, SetsFrom
<1>8. SumFunctionOnSet(Of(S), B) = SumFunctionOnSet(g, B)  BY <1>5, <1>6, SumSame
<1> QED  BY <1>4, <1>7, <1>8

\* A sum of a single number.
LEMMA SumOfOne ==
  ASSUME NEW f, NEW x, f[x] \in Int
  PROVE  SumFunctionOnSet(f, {x}) = f[x]
<1>1. {} \cup {x} = {x} /\ IsFiniteSet({}) /\ IntegerOn(f, {} \cup {x})
  BY FS_EmptySet DEF IntegerOn
<1>2. SumFunctionOnSet(f, {} \cup {x}) = f[x] + SumFunctionOnSet(f, {})
  BY <1>1, SumAdd
<1> QED  BY <1>1, <1>2, SumOfNone

\* A finite set has finitely many values.
LEMMA ImageFinite ==
  ASSUME NEW S, IsFiniteSet(S), NEW k
  PROVE  IsFiniteSet({k[x] : x \in S})
<1> DEFINE F == {s \in SUBSET S : IsFiniteSet({k[x] : x \in s})}
<1>1. {} \in F
  <2>1. {k[x] : x \in {}} = {}  OBVIOUS
  <2> QED  BY <2>1, FS_EmptySet
<1>2. ASSUME NEW s \in F, NEW x \in S \ s PROVE s \cup {x} \in F
  <2>1. {k[y] : y \in s \cup {x}} = {k[y] : y \in s} \cup {k[x]}  OBVIOUS
  <2>2. IsFiniteSet({k[y] : y \in s} \cup {k[x]})  BY FS_AddElement
  <2> QED  BY <2>1, <2>2
<1>3. F \in SUBSET SUBSET S /\ \A s \in F : IsFiniteSet({k[x] : x \in s})
  OBVIOUS
<1> HIDE DEF F
<1>4. S \in F  BY <1>1, <1>2, <1>3, SetsFrom
<1> QED  BY <1>3, <1>4

\* The same numbers under other names.
LEMMA SumRenamed ==
  ASSUME NEW f, NEW S, IsFiniteSet(S), IntegerOn(f, S),
         NEW g, NEW k, \A x, y \in S : k[x] = k[y] => x = y, \A x \in S : f[x] = g[k[x]]
  PROVE  SumFunctionOnSet(g, {k[x] : x \in S}) = SumFunctionOnSet(f, S)
<1> DEFINE B == {k[x] : x \in S}
<1>1. IsFiniteSet(B)  BY ImageFinite
<1>2. ASSUME NEW b \in B PROVE g[b] = SumFunctionOnSet(f, Fiber(k, S, b))
  <2>1. PICK x \in S : b = k[x]  OBVIOUS
  <2>4. \A y \in S : k[y] = b <=> y = x  BY <2>1
  <2> HIDE DEF B
  <2>2. {y \in S : k[y] = b} = {x}  BY <2>4
  <2>3. f[x] \in Int /\ f[x] = g[b]  BY <2>1 DEF IntegerOn
  <2> DEFINE T == {y \in S : k[y] = b}
  <2>5. T = {x}  BY <2>2
  <2> HIDE DEF T
  <2>6. SumFunctionOnSet(f, T) = g[b]  BY <2>3, <2>5, SumOfOne
  <2> QED  BY <2>6 DEF T, Fiber
<1>3. \A x \in S : k[x] \in B  OBVIOUS
<1>5. \A b \in B : g[b] = SumFunctionOnSet(f, Fiber(k, S, b))  BY <1>2
<1> HIDE DEF B
<1>4. SumFunctionOnSet(g, B) = SumFunctionOnSet(f, S)
  BY <1>1, <1>3, <1>5, SumFibers
<1> QED  BY <1>4 DEF B

-----------------------------------------------------------------------------
(* Members of members *)

Pairs(S, D) == UNION {{i} \X D[i] : i \in S}

\* What the pairs are.
LEMMA PairsOf ==
  ASSUME NEW S, NEW D
  PROVE  \A r : r \in Pairs(S, D) <=> \E i \in S : \E l \in D[i] : r = <<i, l>>
BY DEF Pairs

\* They are finitely many.
LEMMA PairsFinite ==
  ASSUME NEW S, IsFiniteSet(S), NEW D, \A i \in S : IsFiniteSet(D[i])
  PROVE  IsFiniteSet(Pairs(S, D))
<1> DEFINE F == {s \in SUBSET S : IsFiniteSet(Pairs(s, D))}
<1>1. {} \in F
  <2>1. Pairs({}, D) = {}  BY DEF Pairs
  <2> QED  BY <2>1, FS_EmptySet
<1>2. ASSUME NEW s \in F, NEW i \in S \ s PROVE s \cup {i} \in F
  <2>1. Pairs(s \cup {i}, D) = Pairs(s, D) \cup ({i} \X D[i])  BY DEF Pairs
  <2>2. IsFiniteSet({i} \X D[i])  BY FS_Singleton, FS_Product
  <2>3. IsFiniteSet(Pairs(s, D) \cup ({i} \X D[i]))  BY <2>2, FS_Union
  <2> QED  BY <2>1, <2>3
<1>3. F \in SUBSET SUBSET S /\ \A s \in F : IsFiniteSet(Pairs(s, D))  OBVIOUS
<1> HIDE DEF F
<1>4. S \in F  BY <1>1, <1>2, <1>3, SetsFrom
<1> QED  BY <1>3, <1>4

\* Summed member by member.
LEMMA SumPairs ==
  ASSUME NEW S, IsFiniteSet(S), NEW D, \A i \in S : IsFiniteSet(D[i]),
         NEW f, IntegerOn(f, Pairs(S, D)),
         NEW h, \A i \in S : \A l \in D[i] : h[i][l] = f[<<i, l>>],
         NEW g, \A i \in S : g[i] = SumFunctionOnSet(h[i], D[i])
  PROVE  SumFunctionOnSet(f, Pairs(S, D)) = SumFunctionOnSet(g, S)
<1> DEFINE R == Pairs(S, D)
           k == [r \in R |-> r[1]]
<1>1. IsFiniteSet(R)  BY PairsFinite
<1>2. \A r \in R : k[r] \in S  BY PairsOf
<1>3. ASSUME NEW i \in S PROVE g[i] = SumFunctionOnSet(f, Fiber(k, R, i))
  <2> DEFINE name == [l \in D[i] |-> <<i, l>>]
             fi == h[i]
             Di == D[i]
  <2>1. Fiber(k, R, i) = {name[l] : l \in Di}
    <3>1. ASSUME NEW r \in R, k[r] = i PROVE \E l \in Di : r = name[l]
      BY <3>1, PairsOf
    <3>2. ASSUME NEW l \in Di PROVE name[l] \in R /\ k[name[l]] = i
      BY PairsOf
    <3> HIDE DEF R, k, name, Di
    <3> QED  BY <3>1, <3>2 DEF Fiber
  <2>2. IntegerOn(fi, Di)  BY PairsOf DEF IntegerOn
  <2>3. \A x, y \in Di : name[x] = name[y] => x = y  OBVIOUS
  <2>4. \A x \in Di : fi[x] = f[name[x]]  OBVIOUS
  <2>5. IsFiniteSet(Di) /\ g[i] = SumFunctionOnSet(fi, Di)  OBVIOUS
  <2> HIDE DEF fi, Di, name, R, k
  <2>6. SumFunctionOnSet(f, {name[l] : l \in Di}) = SumFunctionOnSet(fi, Di)
    BY <2>2, <2>3, <2>4, <2>5, SumRenamed
  <2> QED  BY <2>1, <2>5, <2>6
<1> HIDE DEF R, k
<1>4. IntegerOn(f, R)  BY DEF R
<1>5. SumFunctionOnSet(g, S) = SumFunctionOnSet(f, R)
  BY <1>1, <1>2, <1>3, <1>4, SumFibers
<1> QED  BY <1>5 DEF R

\* A report has two sources at most.
LEMMA AtMostTwo ==
  ASSUME NEW B, B \subseteq {1, 2}
  PROVE  IsFiniteSet(B) /\ Cardinality(B) <= 2
<1>1. \A b \in Int : 1 <= b => IsFiniteSet(1..b) /\ Cardinality(1..b) = b
  <2> SUFFICES ASSUME NEW b \in Int, 1 <= b
               PROVE  IsFiniteSet(1..b) /\ Cardinality(1..b) = b
    OBVIOUS
  <2>1. IsFiniteSet(1..b) /\ Cardinality(1..b) = IF 1 > b THEN 0 ELSE b - 1 + 1
    BY FS_Interval
  <2> QED  BY <2>1
<1>2. PICK b \in Int : b = 2  OBVIOUS
<1> DEFINE D == 1..b
<1>3. B \in SUBSET D  BY <1>2
<1>4. IsFiniteSet(D) /\ Cardinality(D) = b
  <2>1. 1 <= b  BY <1>2
  <2> QED  BY <1>1, <2>1
<1> HIDE DEF D
<1>5. IsFiniteSet(B) /\ Cardinality(B) <= Cardinality(D)  BY <1>3, <1>4, FS_Subset
<1> QED  BY <1>2, <1>4, <1>5

-----------------------------------------------------------------------------
(* Sums along a sequence *)

\* A sum along a sequence, with one more element.
LEMMA SumNext ==
  ASSUME NEW f, NEW k \in Nat, IntegerOn(f, 1..(k + 1))
  PROVE  /\ SumFunctionOnSet(f, 1..(k + 1)) = f[k + 1] + SumFunctionOnSet(f, 1..k)
         /\ SumFunctionOnSet(f, 1..k) \in Int /\ f[k + 1] \in Int
<1>1. 1..(k + 1) = (1..k) \cup {k + 1} /\ k + 1 \notin 1..k  OBVIOUS
<1>2. IsFiniteSet(1..k)  BY FS_Interval
<1>3. IntegerOn(f, 1..k) /\ f[k + 1] \in Int  BY <1>1 DEF IntegerOn
<1>4. SumFunctionOnSet(f, (1..k) \cup {k + 1}) = f[k + 1] + SumFunctionOnSet(f, 1..k)
  BY <1>1, <1>2, SumAdd, ZenonT(30)
<1> QED  BY <1>1, <1>2, <1>3, <1>4, SumType

\* A product of two that are not negative.
LEMMA ProductOfSigns ==
  ASSUME NEW x \in Int, NEW y \in Int, x >= 0, y >= 0
  PROVE  x * y >= 0 /\ x * y \in Int
OBVIOUS

Rises(a, n) == \A i, j \in 1..n : i < j => a[i] <= a[j]

\* The next pair of two rising sequences, and what is still to be kept below it.
LEMMA Widened ==
  ASSUME NEW k \in Int, NEW P \in Int, NEW A \in Int, NEW B \in Int,
         NEW x \in Int, NEW y \in Int, NEW u \in Int, NEW v \in Int, x <= u, y <= v,
         P + k * (u * v) - u * B - v * A >= 0
  PROVE  (P + x * y) + (k + 1) * (u * v) - u * (B + y) - v * (A + x) >= 0
<1>1. (u - x) * (v - y) >= 0  BY ProductOfSigns
<1>2. (u - x) * (v - y) = u * v - u * y - x * v + x * y  OBVIOUS
<1>3. (k + 1) * (u * v) = k * (u * v) + u * v  OBVIOUS
<1>4. u * (B + y) = u * B + u * y /\ v * (A + x) = v * A + x * v  OBVIOUS
<1>5. /\ x * y \in Int /\ u * v \in Int /\ u * y \in Int /\ x * v \in Int /\ k * (u * v) \in Int
      /\ u * B \in Int /\ v * A \in Int
  OBVIOUS
<1> QED  BY <1>1, <1>2, <1>3, <1>4, <1>5

\* The same, when the next pair is added.
LEMMA Grown ==
  ASSUME NEW k \in Int, NEW P \in Int, NEW A \in Int, NEW B \in Int,
         NEW x \in Int, NEW y \in Int,
         P + k * (x * y) - x * B - y * A >= 0
  PROVE  (k + 1) * (P + x * y) - (A + x) * (B + y) >= k * P - A * B
<1>1. (k + 1) * (P + x * y) = k * P + P + k * (x * y) + x * y  OBVIOUS
<1>2. (A + x) * (B + y) = A * B + y * A + x * B + x * y  OBVIOUS
<1>3. /\ x * y \in Int /\ k * P \in Int /\ k * (x * y) \in Int /\ A * B \in Int
      /\ x * B \in Int /\ y * A \in Int
  OBVIOUS
<1> QED  BY <1>1, <1>2, <1>3

\* The case of two pairs.
LEMMA Doubled ==
  ASSUME NEW x \in Int, NEW y \in Int, NEW u \in Int, NEW v \in Int
  PROVE  2 * (u * v + x * y) - (u + x) * (v + y) = (u - x) * (v - y)
OBVIOUS

\* What rises together is at least as much together as apart (Chebyshev).
LEMMA RisingSums ==
  ASSUME NEW n \in Nat, n >= 2, NEW a, NEW b, NEW p,
         IntegerOn(a, 1..n), IntegerOn(b, 1..n), \A i \in 1..n : p[i] = a[i] * b[i],
         Rises(a, n), Rises(b, n)
  PROVE  LET A == SumFunctionOnSet(a, 1..n)
             B == SumFunctionOnSet(b, 1..n)
             P == SumFunctionOnSet(p, 1..n)
         IN  /\ A \in Int /\ B \in Int /\ P \in Int
             /\ n * P - A * B >= (a[2] - a[1]) * (b[2] - b[1])
             /\ a[2] - a[1] \in Int /\ a[2] - a[1] >= 0
             /\ b[2] - b[1] \in Int /\ b[2] - b[1] >= 0
<1> DEFINE A(k) == SumFunctionOnSet(a, 1..k)
           B(k) == SumFunctionOnSet(b, 1..k)
           P(k) == SumFunctionOnSet(p, 1..k)
           E(k, m) == P(k) + k * (a[m] * b[m]) - a[m] * B(k) - b[m] * A(k) >= 0
           D(k) == k * P(k) - A(k) * B(k)
           w == (a[2] - a[1]) * (b[2] - b[1])
<1>1. \A i \in 1..n : a[i] \in Int /\ b[i] \in Int /\ p[i] \in Int /\ p[i] = a[i] * b[i]
  BY DEF IntegerOn
<1>2. IntegerOn(p, 1..n)  BY <1>1 DEF IntegerOn
<1>3. ASSUME NEW k \in Nat, k <= n
      PROVE  A(k) \in Int /\ B(k) \in Int /\ P(k) \in Int
  <2>1. IsFiniteSet(1..k)  BY FS_Interval
  <2>2. 1..k \subseteq 1..n  BY <1>3
  <2>3. IntegerOn(a, 1..k) /\ IntegerOn(b, 1..k) /\ IntegerOn(p, 1..k)
    BY <1>1, <2>2 DEF IntegerOn
  <2> QED  BY <2>1, <2>3, SumType
<1>4. ASSUME NEW k \in Nat, k + 1 <= n
      PROVE  /\ A(k + 1) = A(k) + a[k + 1] /\ B(k + 1) = B(k) + b[k + 1]
             /\ P(k + 1) = P(k) + a[k + 1] * b[k + 1]
             /\ A(k) \in Int /\ B(k) \in Int /\ P(k) \in Int
             /\ a[k + 1] \in Int /\ b[k + 1] \in Int
  <2>1. 1..(k + 1) \subseteq 1..n /\ k + 1 \in 1..n  BY <1>4
  <2>2. IntegerOn(a, 1..(k + 1)) /\ IntegerOn(b, 1..(k + 1)) /\ IntegerOn(p, 1..(k + 1))
    BY <1>1, <2>1 DEF IntegerOn
  <2>3. /\ A(k + 1) = a[k + 1] + A(k) /\ B(k + 1) = b[k + 1] + B(k)
        /\ P(k + 1) = p[k + 1] + P(k)
        /\ A(k) \in Int /\ B(k) \in Int /\ P(k) \in Int
    BY <2>2, SumNext
  <2>4. a[k + 1] \in Int /\ b[k + 1] \in Int /\ p[k + 1] = a[k + 1] * b[k + 1]
        /\ p[k + 1] \in Int
    BY <1>1, <2>1
  <2> HIDE DEF A, B, P
  <2> QED  BY <2>3, <2>4, SMTT(30)
<1>5. A(0) = 0 /\ B(0) = 0 /\ P(0) = 0
  <2>1. 1..0 = {}  OBVIOUS
  <2> QED  BY <2>1, SumOfNone
<1> HIDE DEF A, B, P
<1>6. ASSUME NEW k \in Nat, NEW m \in (k + 1)..n PROVE E(k, m)
  <2> DEFINE T == {i \in Nat : \A j \in 1..n : i < j => E(i, j)}
  <2>1. 0 \in T
    <3> SUFFICES ASSUME NEW j \in 1..n PROVE E(0, j)  OBVIOUS
    <3>1. a[j] \in Int /\ b[j] \in Int  BY <1>1
    <3>2. 0 * (a[j] * b[j]) = 0 /\ a[j] * 0 = 0 /\ b[j] * 0 = 0  BY <3>1
    <3> QED  BY <1>5, <3>2
  <2>2. ASSUME NEW i \in T PROVE i + 1 \in T
    <3> SUFFICES ASSUME NEW j \in 1..n, i + 1 < j PROVE E(i + 1, j)  OBVIOUS
    <3>1. i \in Nat /\ E(i, j) /\ i + 1 <= n /\ i + 1 \in 1..n  OBVIOUS
    <3>2. a[i + 1] <= a[j] /\ b[i + 1] <= b[j]  BY <3>1 DEF Rises
    <3>3. a[j] \in Int /\ b[j] \in Int  BY <1>1
    <3>4. /\ A(i + 1) = A(i) + a[i + 1] /\ B(i + 1) = B(i) + b[i + 1]
          /\ P(i + 1) = P(i) + a[i + 1] * b[i + 1]
          /\ A(i) \in Int /\ B(i) \in Int /\ P(i) \in Int
          /\ a[i + 1] \in Int /\ b[i + 1] \in Int
      BY <1>4, <3>1
    <3>5. P(i) + i * (a[j] * b[j]) - a[j] * B(i) - b[j] * A(i) >= 0  BY <3>1
    <3>6. (P(i) + a[i + 1] * b[i + 1]) + (i + 1) * (a[j] * b[j])
            - a[j] * (B(i) + b[i + 1]) - b[j] * (A(i) + a[i + 1]) >= 0
      <4>1. i \in Int  BY <3>1
      <4> HIDE DEF T, E
      <4> QED  BY <3>2, <3>3, <3>4, <3>5, <4>1, Widened
    <3> QED  BY <3>4, <3>6
  <2>3. T \in SUBSET Nat  OBVIOUS
  <2>4. \A i \in T : \A j \in 1..n : i < j => E(i, j)  OBVIOUS
  <2> HIDE DEF T, E
  <2>5. T = Nat  BY <2>1, <2>2, <2>3, NumbersFrom
  <2>6. m \in 1..n /\ k < m  OBVIOUS
  <2> QED  BY <2>4, <2>5, <2>6
<1>7. a[1] \in Int /\ b[1] \in Int /\ a[2] \in Int /\ b[2] \in Int
      /\ a[1] <= a[2] /\ b[1] <= b[2]
  <2>1. 1 \in 1..n /\ 2 \in 1..n  OBVIOUS
  <2> QED  BY <1>1, <2>1 DEF Rises
<1>8. D(2) = w
  <2>1. A(1) = a[1] /\ B(1) = b[1] /\ P(1) = a[1] * b[1]
    <3>1. /\ A(0 + 1) = A(0) + a[0 + 1] /\ B(0 + 1) = B(0) + b[0 + 1]
          /\ P(0 + 1) = P(0) + a[0 + 1] * b[0 + 1]
      BY <1>4
    <3>2. a[1] * b[1] \in Int  BY <1>7
    <3> QED  BY <1>5, <1>7, <3>1, <3>2
  <2>2. A(2) = a[1] + a[2] /\ B(2) = b[1] + b[2] /\ P(2) = a[1] * b[1] + a[2] * b[2]
    <3>1. /\ A(1 + 1) = A(1) + a[1 + 1] /\ B(1 + 1) = B(1) + b[1 + 1]
          /\ P(1 + 1) = P(1) + a[1 + 1] * b[1 + 1]
      BY <1>4
    <3>2. 1 + 1 = 2  OBVIOUS
    <3> QED  BY <2>1, <3>1, <3>2
  <2>3. 2 * (a[1] * b[1] + a[2] * b[2]) - (a[1] + a[2]) * (b[1] + b[2])
          = (a[1] - a[2]) * (b[1] - b[2])
    BY <1>7, Doubled, SMTT(30)
  <2>4. (a[1] - a[2]) * (b[1] - b[2]) = w  BY <1>7
  <2> QED  BY <2>2, <2>3, <2>4
<1>9. ASSUME NEW k \in Nat, k + 1 <= n PROVE D(k + 1) >= D(k) /\ D(k) \in Int /\ D(k + 1) \in Int
  <2>1. k + 1 \in (k + 1)..n  BY <1>9
  <2>2. E(k, k + 1)  BY <1>6, <2>1
  <2> DEFINE x == a[k + 1]
             y == b[k + 1]
             AA == A(k)
             BB == B(k)
             PP == P(k)
  <2>3. /\ A(k + 1) = AA + x /\ B(k + 1) = BB + y
        /\ P(k + 1) = PP + x * y
        /\ AA \in Int /\ BB \in Int /\ PP \in Int
        /\ x \in Int /\ y \in Int
    BY <1>4, <1>9
  <2>4. PP + k * (x * y) - x * BB - y * AA >= 0  BY <2>2
  <2>5. D(k) = k * PP - AA * BB  OBVIOUS
  <2>6. D(k + 1) = (k + 1) * (PP + x * y) - (AA + x) * (BB + y)  BY <2>3
  <2>7. k \in Int  OBVIOUS
  <2> HIDE DEF x, y, AA, BB, PP, D
  <2>8. (k + 1) * (PP + x * y) - (AA + x) * (BB + y) >= k * PP - AA * BB
    BY <2>3, <2>4, <2>7, Grown
  <2>9. k * PP - AA * BB \in Int /\ (k + 1) * (PP + x * y) - (AA + x) * (BB + y) \in Int
    BY <2>3, <2>7
  <2> QED  BY <2>5, <2>6, <2>8, <2>9
<1>10. D(n) >= w
  <2> DEFINE T == {i \in Nat : i + 2 <= n => D(i + 2) >= w}
  <2>0. w \in Int  BY <1>7
  <2> HIDE DEF D, w
  <2>1. 0 \in T
    <3>1. 0 + 2 = 2  OBVIOUS
    <3> QED  BY <1>8, <2>0, <3>1
  <2>2. ASSUME NEW i \in T PROVE i + 1 \in T
    <3> SUFFICES ASSUME i + 1 + 2 <= n PROVE D(i + 1 + 2) >= w  OBVIOUS
    <3>1. i \in Nat /\ D(i + 2) >= w  OBVIOUS
    <3>2. i + 2 \in Nat /\ i + 2 + 1 <= n /\ i + 2 + 1 = i + 1 + 2  BY <3>1
    <3>3. D(i + 2 + 1) >= D(i + 2) /\ D(i + 2) \in Int /\ D(i + 2 + 1) \in Int
      BY <1>9, <3>2
    <3> QED  BY <2>0, <3>1, <3>2, <3>3
  <2>3. T \in SUBSET Nat  OBVIOUS
  <2>4. \A i \in T : i + 2 <= n => D(i + 2) >= w  OBVIOUS
  <2> HIDE DEF T
  <2>5. T = Nat  BY <2>1, <2>2, <2>3, NumbersFrom
  <2>6. PICK i \in Nat : i = n - 2  OBVIOUS
  <2>7. i + 2 = n /\ i + 2 <= n  BY <2>6
  <2>8. D(i + 2) >= w  BY <2>4, <2>5, <2>7
  <2> QED  BY <2>7, <2>8
<1>11. A(n) \in Int /\ B(n) \in Int /\ P(n) \in Int  BY <1>3
<1>12. /\ a[2] - a[1] \in Int /\ a[2] - a[1] >= 0
       /\ b[2] - b[1] \in Int /\ b[2] - b[1] >= 0
  BY <1>7
<1> QED  BY <1>10, <1>11, <1>12, Zenon DEF A, B, P

\* The numbers from 0 up to k.
LEMMA SumOfNumbers ==
  ASSUME NEW k \in Nat, NEW f, \A i \in 1..k : f[i] = i - 1
  PROVE  2 * SumFunctionOnSet(f, 1..k) = k * (k - 1) /\ SumFunctionOnSet(f, 1..k) \in Int
<1> DEFINE T == {n \in Nat : n <= k => 2 * SumFunctionOnSet(f, 1..n) = n * (n - 1)}
<1>1. 0 \in T
  <2>1. 1..0 = {}  OBVIOUS
  <2>2. SumFunctionOnSet(f, 1..0) = 0  BY <2>1, SumOfNone
  <2> QED  BY <2>2
<1>2. ASSUME NEW n \in T PROVE n + 1 \in T
  <2> SUFFICES ASSUME n + 1 <= k
               PROVE  2 * SumFunctionOnSet(f, 1..(n + 1)) = (n + 1) * ((n + 1) - 1)
    OBVIOUS
  <2>1. n \in Nat /\ 2 * SumFunctionOnSet(f, 1..n) = n * (n - 1)  OBVIOUS
  <2>2. 1..(n + 1) \subseteq 1..k /\ n + 1 \in 1..k  BY <2>1
  <2>3. IntegerOn(f, 1..(n + 1)) /\ f[n + 1] = n  BY <2>1, <2>2 DEF IntegerOn
  <2>4. /\ SumFunctionOnSet(f, 1..(n + 1)) = f[n + 1] + SumFunctionOnSet(f, 1..n)
        /\ SumFunctionOnSet(f, 1..n) \in Int
    BY <2>1, <2>3, SumNext
  <2>5. n * (n - 1) + 2 * n = (n + 1) * ((n + 1) - 1)  BY <2>1
  <2> DEFINE s == SumFunctionOnSet(f, 1..n)
             t == SumFunctionOnSet(f, 1..(n + 1))
  <2>6. n * (n - 1) \in Int /\ n \in Int  BY <2>1
  <2>7. t = n + s /\ s \in Int /\ 2 * s = n * (n - 1)  BY <2>1, <2>3, <2>4
  <2> HIDE DEF s, t
  <2>8. 2 * t = (n + 1) * ((n + 1) - 1)  BY <2>5, <2>6, <2>7
  <2> QED  BY <2>8 DEF t
<1>3. T \in SUBSET Nat  OBVIOUS
<1>4. \A n \in T : n <= k => 2 * SumFunctionOnSet(f, 1..n) = n * (n - 1)  OBVIOUS
<1> HIDE DEF T
<1>5. T = Nat  BY <1>1, <1>2, <1>3, NumbersFrom
<1>6. IsFiniteSet(1..k)  BY FS_Interval
<1>7. IntegerOn(f, 1..k)  BY DEF IntegerOn
<1> QED  BY <1>4, <1>5, <1>6, <1>7, SumType

Frac == Int \X (Int \ {0})

\* A product that is zero has a factor that is.
LEMMA NoZeroDivisors ==
  ASSUME NEW a \in Int, NEW b \in Int, a # 0, b # 0
  PROVE  a * b # 0
OBVIOUS

\* Fractions are added up, and divided, to fractions.
LEMMA FractionTypes ==
  ASSUME NEW x \in Frac, NEW y \in Frac
  PROVE  Plus(x, y) \in Frac /\ (y[1] # 0 => Over(x, y) \in Frac)
<1>1. x[2] * y[2] # 0 /\ (y[1] # 0 => x[2] * y[1] # 0)
  BY NoZeroDivisors DEF Frac
<1> QED  BY <1>1 DEF Frac, Plus, Over

\* A rounded quotient is an integer.
LEMMA RoundType ==
  ASSUME NEW n \in Int, NEW d \in Int, d > 0
  PROVE  RoundHalfUp(n, d) \in Int
BY DEF RoundHalfUp

\* A figure as told is an integer.
LEMMA QuantizedType ==
  ASSUME NEW x \in Frac
  PROVE  Quantized(x) \in Int
BY RoundType, SMTT(30) DEF Quantized, Frac

\* The quotient and the remainder of a division.
LEMMA DivBounds ==
  ASSUME NEW n \in Int, NEW d \in Int, d > 0
  PROVE  /\ n \div d \in Int
         /\ d * (n \div d) <= n
         /\ n < d * (n \div d) + d
OBVIOUS

\* A figure is rounded by no more than a half.
LEMMA RoundBounds ==
  ASSUME NEW n \in Int, NEW d \in Int, d > 0
  PROVE  /\ RoundHalfUp(n, d) \in Int
         /\ 2 * (d * RoundHalfUp(n, d)) - 2 * n \in - d .. d
<1> DEFINE e == 2 * d
<1>1. CASE n >= 0
  <2> DEFINE q == (2 * n + d) \div e
  <2>1. q \in Int /\ e * q <= 2 * n + d /\ 2 * n + d < e * q + e  BY DivBounds
  <2>2. RoundHalfUp(n, d) = q  BY <1>1 DEF RoundHalfUp
  <2> HIDE DEF q
  <2>3. e * q = 2 * (d * q) /\ d * q \in Int  BY <2>1
  <2> QED  BY <2>1, <2>2, <2>3
<1>2. CASE ~ n >= 0
  <2> DEFINE q == (d - 2 * n) \div e
  <2>1. q \in Int /\ e * q <= d - 2 * n /\ d - 2 * n < e * q + e  BY DivBounds
  <2>2. RoundHalfUp(n, d) = - q  BY <1>2 DEF RoundHalfUp
  <2> HIDE DEF q
  <2>3. e * q = 2 * (d * q) /\ d * (- q) = - (d * q) /\ d * q \in Int  BY <2>1
  <2> QED  BY <2>1, <2>2, <2>3
<1> QED  BY <1>1, <1>2

\* Rounding moves a quotient by no more than a half.
LEMMA RoundNear ==
  ASSUME NEW n \in Int, NEW d \in Int, d > 0
  PROVE  /\ RoundHalfUp(n, d) \in Int /\ d * RoundHalfUp(n, d) \in Int
         /\ 2 * (d * RoundHalfUp(n, d)) >= 2 * n - d
         /\ 2 * (d * RoundHalfUp(n, d)) <= 2 * n + d
<1> DEFINE r == RoundHalfUp(n, d)
<1>1. r \in Int /\ 2 * (d * r) - 2 * n \in - d .. d  BY RoundBounds
<1> HIDE DEF r
<1>2. d * r \in Int  BY <1>1
<1> QED  BY <1>1, <1>2 DEF r

\* A part is no more than a hundred hundredths of its whole.
LEMMA PartOfWhole ==
  ASSUME NEW n \in Int, NEW d \in Int, 0 <= n, n <= d, d > 0
  PROVE  Quantized(<<n, d>>) <= 100
<1> DEFINE R == RoundHalfUp(100 * n, d)
<1>1. R \in Int /\ 2 * (d * R) - 2 * (100 * n) <= d  BY RoundBounds
<1>2. Quantized(<<n, d>>) = R  BY DEF Quantized
<1> HIDE DEF R
<1>3. ASSUME R >= 101 PROVE FALSE
  <2>1. d * R >= d * 101  BY <1>1, <1>3
  <2> QED  BY <1>1, <2>1
<1> QED  BY <1>1, <1>2, <1>3

\* A whole figure is told without rounding.
LEMMA WholeQuantized ==
  ASSUME NEW n \in Int
  PROVE  Quantized(Whole(n)) = 100 * n
<1>1. PICK d \in Int : d = 1  OBVIOUS
<1>2. PICK e \in Int : e = 100 * n  OBVIOUS
<1> DEFINE R == RoundHalfUp(e, d)
<1>3. R \in Int /\ 2 * (d * R) - 2 * e >= - d /\ 2 * (d * R) - 2 * e <= d
  BY <1>1, RoundBounds
<1>4. Quantized(Whole(n)) = R  BY <1>1, <1>2 DEF Quantized, Whole
<1> HIDE DEF R
<1> QED  BY <1>1, <1>2, <1>3, <1>4

\* What is not negative does not round to less than zero.
LEMMA RoundSign ==
  ASSUME NEW n \in Int, NEW d \in Int, d > 0, n >= 0
  PROVE  RoundHalfUp(n, d) >= 0
<1> DEFINE R == RoundHalfUp(n, d)
<1>1. R \in Int /\ 2 * (d * R) - 2 * n >= - d  BY RoundBounds
<1> HIDE DEF R
<1>2. ASSUME R <= - 1 PROVE FALSE
  <2>1. d * R <= d * (- 1)  BY <1>1, <1>2
  <2> QED  BY <1>1, <2>1
<1>3. R >= 0  BY <1>1, <1>2
<1> QED  BY <1>3 DEF R

-----------------------------------------------------------------------------
(* SumOf, of finitely many fractions *)

IsRows(r) ==
  /\ r = [b \in DOMAIN r |-> r[b]]
  /\ IsFiniteSet(DOMAIN r)
  /\ DOMAIN r \subseteq Int
  /\ \A b \in DOMAIN r : r[b] \in Frac

FractionsOn(f) == IsFiniteSet(DOMAIN f) /\ \A x \in DOMAIN f : f[x] \in Frac

\* What SumOf answers is a fold over the subsets of the domain.
LEMMA SumOfFold ==
  ASSUME NEW f, FractionsOn(f)
  PROVE  \E g \in [SUBSET DOMAIN f -> Frac] :
           /\ g[DOMAIN f] = SumOf(f)
           /\ \A s \in SUBSET DOMAIN f :
                g[s] = IF s = {} THEN Whole(0) ELSE Plus(f[Pick(s)], g[s \ {Pick(s)}])
<1> DEFINE S == DOMAIN f
           next == [s \in SUBSET S |->
                      [v \in Frac |-> IF s = {} THEN v ELSE Plus(f[Pick(s)], v)]]
           Is(h, s) == h[s] = IF s = {} THEN Whole(0) ELSE Plus(f[Pick(s)], h[s \ {Pick(s)}])
           Made(h) == h = [s \in SUBSET S |-> IF s = {} THEN Whole(0)
                                              ELSE Plus(f[Pick(s)], h[s \ {Pick(s)}])]
           i == CHOOSE h : Made(h)
<1>1. \A s \in SUBSET S : s # {} => Pick(s) \in s  BY DEF Pick
<1>2. next \in [SUBSET S -> [Frac -> Frac]]  BY <1>1, FractionTypes DEF FractionsOn
<1>3. Whole(0) \in Frac  BY DEF Whole, Frac
<1>4. PICK g \in [SUBSET S -> Frac] : IsFold(g, S, Whole(0), next)
  BY <1>2, <1>3, FoldExists DEF FractionsOn
<1>5. \A s \in SUBSET S : Is(g, s)
  <2> SUFFICES ASSUME NEW s \in SUBSET S, s # {} PROVE Is(g, s)  BY <1>4 DEF IsFold
  <2>1. g[s \ {Pick(s)}] \in Frac  BY <1>4
  <2>2. g[s] = next[s][g[s \ {Pick(s)}]]  BY <1>4 DEF IsFold
  <2> QED  BY <2>1, <2>2
<1>6. Made(i)
  <2>1. \A s \in SUBSET S : s \ {Pick(s)} \in SUBSET S  OBVIOUS
  <2>2. Made(g)  BY <1>5, <2>1
  <2> QED  BY <2>2
<1>7. SumOf(f) = i[S]
  BY DEF SumOf, FoldFunction, FoldFunctionOnSet, MapThenFoldSet, Pick
<1>8. \A s \in SUBSET S : Is(i, s)  BY <1>6
<1> HIDE DEF i
<1> DEFINE F == {s \in SUBSET S : g[s] = i[s]}
<1>9. ASSUME NEW s \in SUBSET S, s # {}, \A x \in s : s \ {x} \in F PROVE s \in F
  <2>1. g[s \ {Pick(s)}] = i[s \ {Pick(s)}]  BY <1>1, <1>9
  <2>2. Is(g, s) /\ Is(i, s)  BY <1>5, <1>8
  <2> QED  BY <1>9, <2>1, <2>2
<1>10. {} \in F  BY <1>5, <1>8
<1>11. F \in SUBSET SUBSET S /\ \A s \in F : g[s] = i[s]  OBVIOUS
<1> HIDE DEF F
<1>14. IsFiniteSet(S)  BY DEF FractionsOn
<1>12. S \in F
  <2> HIDE DEF S
  <2> QED  BY <1>9, <1>10, <1>11, <1>14, SetsBelow
<1>13. g[S] = SumOf(f)  BY <1>7, <1>11, <1>12
<1> QED  BY <1>5, <1>13

\* Brought to one denominator, fractions are added by their numerators; what is
\* whole stays whole.
LEMMA SumOfFractions ==
  ASSUME NEW f, FractionsOn(f), NEW D \in Int, D # 0,
         NEW a, IntegerOn(a, DOMAIN f), \A x \in DOMAIN f : f[x][1] * D = a[x] * f[x][2]
  PROVE  /\ SumOf(f) \in Frac
         /\ SumOf(f)[1] * D = SumFunctionOnSet(a, DOMAIN f) * SumOf(f)[2]
         /\ (\A x \in DOMAIN f : f[x][2] = 1) => SumOf(f)[2] = 1
<1> DEFINE S == DOMAIN f
           A(s) == SumFunctionOnSet(a, s)
<1>1. PICK g \in [SUBSET S -> Frac] :
        /\ g[S] = SumOf(f)
        /\ \A s \in SUBSET S :
             g[s] = IF s = {} THEN Whole(0) ELSE Plus(f[Pick(s)], g[s \ {Pick(s)}])
  BY SumOfFold
<1> DEFINE Q(s) == /\ g[s][1] * D = A(s) * g[s][2]
                   /\ (\A x \in S : f[x][2] = 1) => g[s][2] = 1
           F == {s \in SUBSET S : Q(s)}
<1>2. {} \in F
  <2>1. g[{}] = <<0, 1>> /\ A({}) = 0  BY <1>1, SumOfNone DEF Whole
  <2>2. 0 * D = 0 /\ 0 * 1 = 0  OBVIOUS
  <2> QED  BY <2>1, <2>2
<1>3. ASSUME NEW s \in SUBSET S, s # {}, \A x \in s : s \ {x} \in F PROVE s \in F
  <2> DEFINE p == Pick(s)
             t == s \ {p}
             x == f[p]
             y == g[t]
  <2>1. p \in s /\ Q(t)  BY <1>3 DEF Pick
  <2>2. g[s] = Plus(x, y)  BY <1>1, <1>3
  <2>3. A(s) = a[p] + A(t)
    <3>1. IsFiniteSet(s) /\ IntegerOn(a, s)  BY FS_Subset DEF FractionsOn, IntegerOn
    <3> QED  BY <2>1, <3>1, SumSplit
  <2>4. x \in Frac /\ y \in Frac /\ a[p] \in Int
    BY <1>1, <2>1 DEF FractionsOn, IntegerOn
  <2>5. A(t) \in Int
    <3>1. IsFiniteSet(t) /\ IntegerOn(a, t)  BY FS_Subset DEF FractionsOn, IntegerOn
    <3> QED  BY <3>1, SumType
  <2>6. x[1] * D = a[p] * x[2]  BY <2>1
  <2>7. y[1] * D = A(t) * y[2]  BY <2>1
  <2>8. (\A z \in S : f[z][2] = 1) => x[2] = 1 /\ y[2] = 1  BY <2>1
  <2> DEFINE x1 == x[1]
             x2 == x[2]
             y1 == y[1]
             y2 == y[2]
             c == a[p]
             e == A(t)
  <2>9. x1 \in Int /\ x2 \in Int /\ y1 \in Int /\ y2 \in Int /\ c \in Int /\ e \in Int
    BY <2>4, <2>5 DEF Frac
  <2>10. x1 * D = c * x2 /\ y1 * D = e * y2  BY <2>6, <2>7
  <2>11. Plus(x, y) = IF x2 = y2 THEN <<x1 + y1, x2>> ELSE <<x1 * y2 + y1 * x2, x2 * y2>>
    BY DEF Plus
  <2> HIDE DEF x1, x2, y1, y2, c, e, x, y, t, p, A
  <2>12. CASE x2 = y2
    <3>1. (x1 + y1) * D = (c + e) * x2  BY <2>9, <2>10, <2>12
    <3> QED  BY <2>2, <2>3, <2>8, <2>11, <2>12, <3>1 DEF c, e, x2, y2
  <2>13. CASE x2 # y2
    <3>1. (x1 * y2) * D = (x1 * D) * y2 /\ (y1 * x2) * D = (y1 * D) * x2
      BY <2>9
    <3>2. (x1 * y2 + y1 * x2) * D = (x1 * y2) * D + (y1 * x2) * D
      BY <2>9
    <3>3. (c * x2) * y2 + (e * y2) * x2 = (c + e) * (x2 * y2)
      BY <2>9
    <3>4. (x1 * y2 + y1 * x2) * D = (c + e) * (x2 * y2)
      BY <2>10, <3>1, <3>2, <3>3
    <3> QED  BY <2>2, <2>3, <2>8, <2>11, <2>13, <3>4 DEF c, e, x2, y2
  <2> QED  BY <2>12, <2>13
<1>4. F \in SUBSET SUBSET S /\ \A s \in F : Q(s)  OBVIOUS
<1> HIDE DEF F
<1>14. IsFiniteSet(S)  BY DEF FractionsOn
<1>5. S \in F
  <2> HIDE DEF S
  <2> QED  BY <1>2, <1>3, <1>4, <1>14, SetsBelow
<1>6. Q(S)  BY <1>4, <1>5
<1> QED  BY <1>1, <1>6

\* The sum of whole figures.
LEMMA SumOfWholes ==
  ASSUME NEW f, IsFiniteSet(DOMAIN f), NEW a, IntegerOn(a, DOMAIN f),
         \A x \in DOMAIN f : f[x] = Whole(a[x])
  PROVE  SumOf(f) = Whole(SumFunctionOnSet(a, DOMAIN f))
<1>1. FractionsOn(f)  BY DEF FractionsOn, Frac, Whole, IntegerOn
<1>2. PICK D \in Int : D = 1  OBVIOUS
<1>3. \A x \in DOMAIN f : f[x][1] * D = a[x] * f[x][2]  BY <1>2 DEF Whole, IntegerOn
<1>4. \A x \in DOMAIN f : f[x][2] = 1  BY DEF Whole
<1>5. /\ SumOf(f) \in Frac
      /\ SumOf(f)[1] * D = SumFunctionOnSet(a, DOMAIN f) * SumOf(f)[2]
      /\ SumOf(f)[2] = 1
  BY <1>1, <1>2, <1>3, <1>4, SumOfFractions
<1>6. SumFunctionOnSet(a, DOMAIN f) \in Int  BY SumType
<1> QED  BY <1>2, <1>5, <1>6 DEF Whole, Frac

-----------------------------------------------------------------------------
(* InOrder *)

\* A finite set as a sequence has each member once.
LEMMA InSequence ==
  ASSUME NEW S, IsFiniteSet(S), NEW q \in SetToSeqs(S)
  PROVE  /\ Cardinality(S) \in Nat
         /\ q \in [1..Cardinality(S) -> S]
         /\ Len(q) = Cardinality(S)
         /\ \A i, j \in 1..Cardinality(S) : q[i] = q[j] => i = j
         /\ ToSet(q) = S
<1> DEFINE n == Cardinality(S)
<1>1. n \in Nat  BY FS_CardinalityType
<1>2. q \in [1..n -> S] /\ \A i, j \in 1..n : q[i] = q[j] => i = j
  BY DEF SetToSeqs
<1>3. Len(q) = n  BY <1>1, <1>2
<1>4. q \in Injection(1..n, S)  BY <1>2 DEF Injection, IsInjective
<1>5. IsFiniteSet(1..n) /\ Cardinality(1..n) = n  BY <1>1, FS_Interval
<1>6. q \in Surjection(1..n, S)  BY <1>4, <1>5, FS_Injection
<1>7. ToSet(q) = S  BY <1>2, <1>6 DEF Surjection, ToSet
<1> QED  BY <1>1, <1>2, <1>3, <1>7

IsOrder(rel, S) ==
  /\ \A a, b, c \in S : <<a, b>> \in rel /\ <<b, c>> \in rel => <<a, c>> \in rel
  /\ \A a, b \in S : a # b => <<a, b>> \in rel \/ <<b, a>> \in rel

\* A finite set has a first member in any order.
LEMMA LeastExists ==
  ASSUME NEW S, IsFiniteSet(S), S # {}, NEW rel, IsOrder(rel, S)
  PROVE  \E m \in S : \A a \in S \ {m} : <<m, a>> \in rel
<1> DEFINE Q(s) == s = {} \/ \E m \in s : \A a \in s \ {m} : <<m, a>> \in rel
           F == {s \in SUBSET S : Q(s)}
<1>1. {} \in F  OBVIOUS
<1>2. ASSUME NEW s \in F, NEW x \in S \ s PROVE s \cup {x} \in F
  <2>1. CASE s = {}  BY <2>1
  <2>2. CASE s # {}
    <3>1. PICK m \in s : \A a \in s \ {m} : <<m, a>> \in rel  BY <2>2
    <3>2. CASE <<m, x>> \in rel
      <4>1. \A a \in (s \cup {x}) \ {m} : <<m, a>> \in rel  BY <3>1, <3>2
      <4> QED  BY <4>1
    <3>3. CASE <<x, m>> \in rel
      <4>1. \A a \in (s \cup {x}) \ {x} : <<x, a>> \in rel  BY <3>1, <3>3 DEF IsOrder
      <4> QED  BY <4>1
    <3> QED  BY <3>2, <3>3 DEF IsOrder
  <2> QED  BY <2>1, <2>2
<1>3. F \in SUBSET SUBSET S /\ \A s \in F : Q(s)  OBVIOUS
<1> HIDE DEF F
<1>4. S \in F  BY <1>1, <1>2, <1>3, SetsFrom
<1> QED  BY <1>3, <1>4

\* Any order of a finite set is that of a sequence.
LEMMA OrderExists ==
  ASSUME NEW S, IsFiniteSet(S), NEW rel, IsOrder(rel, S)
  PROVE  \E q \in SetToSeqs(S) : \A i, j \in 1..Len(q) : i < j => <<q[i], q[j]>> \in rel
<1> DEFINE Q(s) == \E q \in SetToSeqs(s) :
                     \A i, j \in 1..Cardinality(s) : i < j => <<q[i], q[j]>> \in rel
           F == {s \in SUBSET S : Q(s)}
<1>1. {} \in F
  <2>1. Cardinality({}) = 0  BY FS_EmptySet
  <2>2. [i \in 1..0 |-> i] \in SetToSeqs({})  BY <2>1 DEF SetToSeqs
  <2> QED  BY <2>1, <2>2
<1>2. ASSUME NEW s \in SUBSET S, s # {}, \A x \in s : s \ {x} \in F PROVE s \in F
  <2>1. IsFiniteSet(s) /\ IsOrder(rel, s)  BY FS_Subset DEF IsOrder
  <2>0. s # {}  BY <1>2
  <2>2. PICK m \in s : \A a \in s \ {m} : <<m, a>> \in rel  BY <2>0, <2>1, LeastExists
  <2> DEFINE t == s \ {m}
             n == Cardinality(t)
  <2>3. IsFiniteSet(t) /\ n \in Nat /\ Cardinality(s) = n + 1
    <3>1. IsFiniteSet(t) /\ Cardinality(t) = Cardinality(s) - 1
      BY <2>1, <2>2, FS_RemoveElement
    <3>2. Cardinality(s) \in Nat /\ Cardinality(t) \in Nat
      BY <2>1, <3>1, FS_CardinalityType
    <3> QED  BY <3>1, <3>2
  <2>4. PICK q \in SetToSeqs(t) : \A i, j \in 1..n : i < j => <<q[i], q[j]>> \in rel
    BY <1>2, <2>2
  <2>5. q \in [1..n -> t] /\ \A i, j \in 1..n : q[i] = q[j] => i = j
    BY <2>3, <2>4, InSequence
  <2> DEFINE p == [i \in 1..(n + 1) |-> IF i = 1 THEN m ELSE q[i - 1]]
  <2> HIDE DEF n
  <2>6. ASSUME NEW i \in 1..(n + 1)
        PROVE  p[i] = IF i = 1 THEN m ELSE q[i - 1]
    OBVIOUS
  <2>7. ASSUME NEW i \in 1..(n + 1), i # 1
        PROVE  i - 1 \in 1..n /\ q[i - 1] \in t
    BY <2>3, <2>5, <2>7
  <2>8. p \in [1..(n + 1) -> s]  BY <2>2, <2>7
  <2>9. ASSUME NEW i \in 1..(n + 1), NEW j \in 1..(n + 1), i # j PROVE p[i] # p[j]
    <3>1. CASE i = 1  BY <2>3, <2>6, <2>7, <2>9, <3>1
    <3>2. CASE j = 1  BY <2>3, <2>6, <2>7, <2>9, <3>2
    <3>3. CASE i # 1 /\ j # 1
      <4>1. i - 1 \in 1..n /\ j - 1 \in 1..n /\ i - 1 # j - 1  BY <2>3, <2>7, <2>9, <3>3
      <4>2. p[i] = q[i - 1] /\ p[j] = q[j - 1]  BY <2>6, <3>3
      <4> QED  BY <2>5, <4>1, <4>2
    <3> QED  BY <3>1, <3>2, <3>3
  <2>10. ASSUME NEW i \in 1..(n + 1), NEW j \in 1..(n + 1), i < j
         PROVE  <<p[i], p[j]>> \in rel
    <3>1. j # 1 /\ p[j] = q[j - 1] /\ p[j] \in t /\ j - 1 \in 1..n
      BY <2>3, <2>6, <2>7, <2>10
    <3>2. CASE i = 1  BY <2>2, <2>6, <3>1, <3>2
    <3>3. CASE i # 1
      <4>1. i - 1 \in 1..n /\ i - 1 < j - 1  BY <2>3, <2>7, <2>10, <3>3
      <4>2. p[i] = q[i - 1]  BY <2>6, <3>3
      <4> QED  BY <2>4, <3>1, <4>1, <4>2
    <3> QED  BY <3>2, <3>3
  <2> HIDE DEF p
  <2>11. p \in SetToSeqs(s)  BY <2>3, <2>8, <2>9 DEF SetToSeqs, n
  <2>12. Q(s)  BY <2>3, <2>10, <2>11 DEF n
  <2> QED  BY <2>12
<1>3. F \in SUBSET SUBSET S /\ \A s \in F : Q(s)  OBVIOUS
<1> HIDE DEF F
<1>4. S \in F  BY <1>1, <1>2, <1>3, SetsBelow
<1> QED  BY <1>3, <1>4, InSequence

\* Numbers, from the smallest on.
LEMMA NumbersInOrder ==
  ASSUME NEW S, IsFiniteSet(S), S \subseteq Int
  PROVE  InOrder(S, <) \in SetToSeqs(S) /\ IsSorted(InOrder(S, <), <)
<1> DEFINE rel == {r \in S \X S : r[1] < r[2]}
<1>1. IsOrder(rel, S)  BY DEF IsOrder
<1>2. PICK q \in SetToSeqs(S) : \A i, j \in 1..Len(q) : i < j => <<q[i], q[j]>> \in rel
  BY <1>1, OrderExists
<1>3. IsSorted(q, <)  BY <1>2 DEF IsSorted
<1> QED  BY <1>3 DEF InOrder

-----------------------------------------------------------------------------
(* The rows of "orders" *)

IsOrders(os) == IsFiniteSet(DOMAIN os) /\ \A i \in DOMAIN os : IsRow(os[i])

Lines == [item : Int, category : Int, gross : Int, quantity : Int]

\* A nullable column of numbers, with zero for NULL.
LEMMA CoalescedType ==
  ASSUME NEW column, column \subseteq Int
  PROVE  Coalesced(column) \in Int
<1>1. CASE column = {}  BY <1>1 DEF Coalesced
<1>2. CASE column # {}
  <2>1. \E v \in column : TRUE  BY <1>2
  <2>2. (CHOOSE v \in column : TRUE) \in column  BY <2>1
  <2>3. Coalesced(column) = CHOOSE v \in column : TRUE  BY <1>2 DEF Coalesced
  <2> QED  BY <2>2, <2>3
<1> QED  BY <1>1, <1>2

\* What a row of "orders" is made of.
LEMMA RowType ==
  ASSUME NEW o, IsRow(o)
  PROVE  /\ SalesOf(o) \in Int /\ Coalesced(o.discount) \in Int
         /\ DOMAIN o.items = 1..Len(o.items) /\ Len(o.items) \in Nat
         /\ \A l \in DOMAIN o.items : o.items[l] \in Lines
         /\ DOMAIN o.payments = 1..Len(o.payments) /\ Len(o.payments) \in Nat
         /\ \A l \in DOMAIN o.payments : o.payments[l] \in [method : Int, amount : Int]
<1>1. o.final \subseteq Int /\ o.total \subseteq Int /\ o.discount \subseteq Int
  BY DEF IsRow, Nullable
<1>2. o.items \in Seq(Lines) /\ o.payments \in Seq([method : Int, amount : Int])
  BY DEF IsRow, Lines
<1>3. SalesOf(o) \in Int /\ Coalesced(o.discount) \in Int
  BY <1>1, CoalescedType DEF SalesOf
<1> DEFINE items == o.items
           payments == o.payments
           Payments == [method : Int, amount : Int]
<1>4. items \in Seq(Lines) /\ payments \in Seq(Payments)  BY <1>2
<1> HIDE DEF items, payments, Payments
<1>5. /\ DOMAIN items = 1..Len(items) /\ Len(items) \in Nat
      /\ \A l \in DOMAIN items : items[l] \in Lines
  BY <1>4
<1>6. /\ DOMAIN payments = 1..Len(payments) /\ Len(payments) \in Nat
      /\ \A l \in DOMAIN payments : payments[l] \in Payments
  BY <1>4
<1> QED  BY <1>3, <1>5, <1>6 DEF items, payments, Payments

\* An order has finitely many lines and payments.
LEMMA LinesFinite ==
  ASSUME NEW o, IsRow(o)
  PROVE  IsFiniteSet(DOMAIN o.items) /\ IsFiniteSet(DOMAIN o.payments)
BY RowType, FS_Interval, SMTT(30)

LinesOf(os, S) == [i \in S |-> DOMAIN os[i].items]

\* The lines of some orders.
LEMMA ItemRowsFinite ==
  ASSUME NEW os, IsOrders(os), NEW S \in SUBSET DOMAIN os
  PROVE  /\ IsFiniteSet(S)
         /\ ItemRows(os, S) = Pairs(S, LinesOf(os, S))
         /\ IsFiniteSet(ItemRows(os, S))
         /\ \A r \in ItemRows(os, S) :
              /\ r[1] \in S /\ r[2] \in DOMAIN os[r[1]].items
              /\ r = <<r[1], r[2]>> /\ ItemOf(os, r) \in Lines
<1>1. IsFiniteSet(S)  BY FS_Subset DEF IsOrders
<1>2. \A i \in S : LinesOf(os, S)[i] = DOMAIN os[i].items /\ IsRow(os[i])
  BY DEF LinesOf, IsOrders
<1>3. ItemRows(os, S) = Pairs(S, LinesOf(os, S))
  BY <1>2 DEF ItemRows, Pairs
<1>4. \A i \in S : IsFiniteSet(LinesOf(os, S)[i])  BY <1>2, LinesFinite
<1>5. IsFiniteSet(ItemRows(os, S))  BY <1>1, <1>3, <1>4, PairsFinite
<1>6. ASSUME NEW r \in ItemRows(os, S)
      PROVE  /\ r[1] \in S /\ r[2] \in DOMAIN os[r[1]].items
             /\ r = <<r[1], r[2]>> /\ ItemOf(os, r) \in Lines
  <2>0. PICK i \in S : \E l \in LinesOf(os, S)[i] : r = <<i, l>>  BY <1>3, PairsOf
  <2>1. PICK l \in LinesOf(os, S)[i] : r = <<i, l>>  BY <2>0
  <2>2. l \in DOMAIN os[i].items /\ IsRow(os[i])  BY <1>2
  <2>3. os[i].items[l] \in Lines  BY <2>2, RowType
  <2> QED  BY <2>1, <2>2, <2>3 DEF ItemOf
<1> QED  BY <1>1, <1>3, <1>5, <1>6

-----------------------------------------------------------------------------
(* What an order adds to a metric *)

QuantityOf(o) == [l \in DOMAIN o.items |-> o.items[l].quantity]

Weight(o, m) ==
  CASE m = "sales_total" -> SalesOf(o)
    [] m \in {"order_count", "completed_order_count"} -> 1
    [] m = "discount_amount" -> Coalesced(o.discount)
    [] m = "discounted_order_count" -> IF Coalesced(o.discount) > 0 THEN 1 ELSE 0
    [] m = "delivery_order_count" -> IF o.delivery = {TRUE} THEN 1 ELSE 0
    [] m = "dine_in_order_count" -> IF o.delivery # {TRUE} THEN 1 ELSE 0
    [] m = "quantity_sold" -> SumFunction(QuantityOf(o))

Weights(os, m) == [i \in DOMAIN os |-> Weight(os[i], m)]

\* The base metrics that the database answers.
LEMMA LiveMetrics ==
  LiveBaseMetrics = {"sales_total", "order_count", "quantity_sold", "completed_order_count",
                     "discounted_order_count", "discount_amount", "delivery_order_count",
                     "dine_in_order_count"}
BY DEF LiveBaseMetrics, BaseMetrics

\* How much is on the lines of an order.
LEMMA QuantityOfType ==
  ASSUME NEW o, IsRow(o)
  PROVE  /\ IntegerOn(QuantityOf(o), DOMAIN o.items)
         /\ SumFunction(QuantityOf(o)) = SumFunctionOnSet(QuantityOf(o), DOMAIN o.items)
         /\ SumFunction(QuantityOf(o)) \in Int
<1>1. IntegerOn(QuantityOf(o), DOMAIN o.items)
  BY RowType DEF IntegerOn, QuantityOf, Lines
<1>2. SumFunction(QuantityOf(o)) = SumFunctionOnSet(QuantityOf(o), DOMAIN o.items)
  BY DEF SumFunction, QuantityOf
<1> QED  BY <1>1, <1>2, SumType, LinesFinite

\* What an order counts for is a number.
LEMMA WeightType ==
  ASSUME NEW o, IsRow(o), NEW m \in LiveBaseMetrics
  PROVE  Weight(o, m) \in Int
BY LiveMetrics, RowType, QuantityOfType DEF Weight

\* The members of T, counted.
LEMMA SumCount ==
  ASSUME NEW f, NEW S, IsFiniteSet(S), NEW T \in SUBSET S,
         \A x \in S : f[x] = IF x \in T THEN 1 ELSE 0
  PROVE  SumFunctionOnSet(f, S) = Cardinality(T)
<1>1. IntegerOn(f, S) /\ \A x \in S \ T : f[x] = 0  BY DEF IntegerOn
<1>2. IsFiniteSet(T) /\ \A x \in T : f[x] = 1  BY FS_Subset
<1> QED  BY <1>1, <1>2, SumPart, SumOnes

\* What is sold on the lines is sold in the orders.
LEMMA QuantityByOrder ==
  ASSUME NEW os, IsOrders(os), NEW S \in SUBSET DOMAIN os
  PROVE  QuantitySold(os, ItemRows(os, S))
           = SumFunctionOnSet(Weights(os, "quantity_sold"), S)
<1> DEFINE R == ItemRows(os, S)
           f == [r \in R |-> ItemOf(os, r).quantity]
           h == [i \in S |-> QuantityOf(os[i])]
           g == Weights(os, "quantity_sold")
           D == LinesOf(os, S)
<1>1. IsFiniteSet(S) /\ R = Pairs(S, D)  BY ItemRowsFinite
<1>2. \A i \in S : IsRow(os[i]) /\ D[i] = DOMAIN os[i].items  BY DEF IsOrders, LinesOf
<1>3. \A i \in S : IsFiniteSet(D[i])  BY <1>2, LinesFinite
<1>4. IntegerOn(f, R)  BY ItemRowsFinite DEF IntegerOn, Lines
<1>5. ASSUME NEW i \in S, NEW l \in D[i] PROVE h[i][l] = f[<<i, l>>]
  <2>1. <<i, l>> \in R  BY <1>1, PairsOf
  <2>2. h[i][l] = os[i].items[l].quantity  BY <1>2 DEF QuantityOf
  <2> QED  BY <2>1, <2>2 DEF ItemOf
<1>6. ASSUME NEW i \in S PROVE g[i] = SumFunctionOnSet(h[i], D[i])
  <2>1. g[i] = SumFunction(QuantityOf(os[i]))  BY DEF Weights, Weight
  <2> QED  BY <1>2, <2>1, QuantityOfType
<1>7. QuantitySold(os, R) = SumFunctionOnSet(f, R)  BY DEF QuantitySold, SumFunction
<1> HIDE DEF R, f, h, g, D
<1>8. SumFunctionOnSet(f, Pairs(S, D)) = SumFunctionOnSet(g, S)
  BY <1>1, <1>3, <1>4, <1>5, <1>6, SumPairs
<1> QED  BY <1>1, <1>7, <1>8 DEF R, g

\* Every base metric is a sum over the orders.
LEMMA AggregateIsSum ==
  ASSUME NEW os, IsOrders(os), NEW S \in SUBSET DOMAIN os, NEW m \in LiveBaseMetrics
  PROVE  /\ IsFiniteSet(S) /\ IntegerOn(Weights(os, m), S)
         /\ Aggregate(os, m, S) = SumFunctionOnSet(Weights(os, m), S)
         /\ Aggregate(os, m, S) \in Int
<1> DEFINE w == Weights(os, m)
<1>1. IsFiniteSet(S) /\ \A i \in S : IsRow(os[i])  BY ItemRowsFinite DEF IsOrders
<1>2. IntegerOn(w, S)  BY <1>1, WeightType DEF IntegerOn, Weights
<1>3. SumFunctionOnSet(w, S) \in Int  BY <1>1, <1>2, SumType
<1>4. \A i \in S : w[i] = Weight(os[i], m)  BY DEF Weights
<1>5. CASE m = "sales_total"
  <2> DEFINE f == [i \in S |-> SalesOf(os[i])]
  <2>1. \A i \in S : f[i] = w[i]  BY <1>4, <1>5 DEF Weight
  <2>2. IntegerOn(f, S)  BY <1>2, <2>1 DEF IntegerOn
  <2>3. Aggregate(os, m, S) = SumFunctionOnSet(f, S)
    BY <1>5 DEF Aggregate, SumFunction
  <2> HIDE DEF f, w
  <2> QED  BY <1>1, <1>2, <1>3, <2>1, <2>2, <2>3, SumSame DEF w
<1>6. CASE m \in {"order_count", "completed_order_count"}
  <2>1. \A i \in S : w[i] = 1  BY <1>4, <1>6 DEF Weight
  <2>2. Aggregate(os, m, S) = Cardinality(S)  BY <1>6 DEF Aggregate
  <2> QED  BY <1>1, <1>2, <1>3, <2>1, <2>2, SumOnes
<1>7. CASE m = "discount_amount"
  <2> DEFINE f == [i \in S |-> Coalesced(os[i].discount)]
  <2>1. \A i \in S : f[i] = w[i]  BY <1>4, <1>7 DEF Weight
  <2>2. IntegerOn(f, S)  BY <1>2, <2>1 DEF IntegerOn
  <2>3. Aggregate(os, m, S) = SumFunctionOnSet(f, S)
    BY <1>7 DEF Aggregate, SumFunction
  <2> HIDE DEF f, w
  <2> QED  BY <1>1, <1>2, <1>3, <2>1, <2>2, <2>3, SumSame DEF w
<1>8. CASE m = "discounted_order_count"
  <2> DEFINE T == {i \in S : Coalesced(os[i].discount) > 0}
  <2>1. \A i \in S : w[i] = IF i \in T THEN 1 ELSE 0  BY <1>4, <1>8 DEF Weight
  <2>2. Aggregate(os, m, S) = Cardinality(T)  BY <1>8 DEF Aggregate
  <2>3. T \in SUBSET S  OBVIOUS
  <2> HIDE DEF T, w
  <2> QED  BY <1>1, <1>2, <1>3, <2>1, <2>2, <2>3, SumCount DEF w
<1>9. CASE m = "delivery_order_count"
  <2> DEFINE T == {i \in S : os[i].delivery = {TRUE}}
  <2>1. \A i \in S : w[i] = IF i \in T THEN 1 ELSE 0  BY <1>4, <1>9 DEF Weight
  <2>2. Aggregate(os, m, S) = Cardinality(T)  BY <1>9 DEF Aggregate
  <2>3. T \in SUBSET S  OBVIOUS
  <2> HIDE DEF T, w
  <2> QED  BY <1>1, <1>2, <1>3, <2>1, <2>2, <2>3, SumCount DEF w
<1>10. CASE m = "dine_in_order_count"
  <2> DEFINE T == {i \in S : os[i].delivery # {TRUE}}
  <2>1. \A i \in S : w[i] = IF i \in T THEN 1 ELSE 0  BY <1>4, <1>10 DEF Weight
  <2>2. Aggregate(os, m, S) = Cardinality(T)  BY <1>10 DEF Aggregate
  <2>3. T \in SUBSET S  OBVIOUS
  <2> HIDE DEF T, w
  <2> QED  BY <1>1, <1>2, <1>3, <2>1, <2>2, <2>3, SumCount DEF w
<1>11. CASE m = "quantity_sold"
  <2>1. Aggregate(os, m, S) = QuantitySold(os, ItemRows(os, S))  BY <1>11 DEF Aggregate
  <2> QED  BY <1>1, <1>2, <1>3, <1>11, <2>1, QuantityByOrder
<1> QED
  BY <1>5, <1>6, <1>7, <1>8, <1>9, <1>10, <1>11, LiveMetrics

\* The filters keep orders of the database.
LEMMA ChosenIn ==
  ASSUME NEW os, NEW scope, NEW period
  PROVE  Chosen(os, scope, period) \in SUBSET DOMAIN os
BY DEF Chosen

-----------------------------------------------------------------------------
(* Buckets *)

Single == {"none", "source", "day", "branch"}
Dims == Single \cup {"category", "payment_method"}

KeyOf(o, d) ==
  CASE d = "source" -> SourceBucket(o)
    [] d = "day"    -> IF o.day = {} THEN Unknown ELSE Coalesced(o.day)
    [] d = "branch" -> IF o.branch = {} THEN Unknown ELSE Coalesced(o.branch)
    [] OTHER        -> Everything

\* The source, the day and the branch have an order in one bucket.
LEMMA OneBucket ==
  ASSUME NEW o, IsRow(o), NEW d \in Single
  PROVE  BucketsOf(o, d) = {KeyOf(o, d)} /\ KeyOf(o, d) \in Int
<1>1. Coalesced(o.day) \in Int /\ Coalesced(o.branch) \in Int
  BY CoalescedType DEF IsRow, Nullable
<1>2. BucketsOf(o, d) = {KeyOf(o, d)}  BY DEF BucketsOf, KeyOf, Single
<1>3. KeyOf(o, d) \in Int
  BY <1>1 DEF KeyOf, Single, SourceBucket, Unknown, Everything
<1> QED  BY <1>2, <1>3

\* An order falls into finitely many buckets.
LEMMA BucketsFinite ==
  ASSUME NEW o, IsRow(o), NEW d \in Dims
  PROVE  IsFiniteSet(BucketsOf(o, d)) /\ BucketsOf(o, d) \subseteq Int
<1>1. CASE d \in Single
  <2>1. BucketsOf(o, d) = {KeyOf(o, d)} /\ KeyOf(o, d) \in Int  BY <1>1, OneBucket
  <2>2. IsFiniteSet({KeyOf(o, d)})  BY FS_Singleton
  <2> QED  BY <2>1, <2>2
<1>2. CASE d = "category"
  <2> DEFINE S == DOMAIN o.items
             k == [l \in S |-> o.items[l].category]
  <2>1. BucketsOf(o, d) = {k[l] : l \in S}  BY <1>2 DEF BucketsOf
  <2>2. \A l \in S : k[l] \in Int  BY RowType DEF Lines
  <2>3. IsFiniteSet(S)  BY LinesFinite
  <2> HIDE DEF S, k
  <2> QED  BY <2>1, <2>2, <2>3, ImageFinite
<1>3. CASE d = "payment_method"
  <2> DEFINE S == DOMAIN o.payments
             k == [l \in S |-> o.payments[l].method]
  <2>1. BucketsOf(o, d) = {k[l] : l \in S}  BY <1>3 DEF BucketsOf
  <2>2. \A l \in S : k[l] \in Int  BY RowType
  <2>3. IsFiniteSet(S)  BY LinesFinite
  <2> HIDE DEF S, k
  <2> QED  BY <2>1, <2>2, <2>3, ImageFinite
<1> QED  BY <1>1, <1>2, <1>3 DEF Dims

BucketsIn(os, J, d) == UNION {BucketsOf(os[i], d) : i \in J}
In(os, J, d, b) == {i \in J : b \in BucketsOf(os[i], d)}
Joined(os, m, S) == IF m = "quantity_sold" THEN {i \in S : os[i].items # <<>>} ELSE S

\* So do some orders.
LEMMA BucketsInFinite ==
  ASSUME NEW os, IsOrders(os), NEW J \in SUBSET DOMAIN os, NEW d \in Dims
  PROVE  IsFiniteSet(BucketsIn(os, J, d)) /\ BucketsIn(os, J, d) \subseteq Int
<1> DEFINE k == [i \in J |-> BucketsOf(os[i], d)]
           U == {k[i] : i \in J}
<1>1. BucketsIn(os, J, d) = UNION U  BY DEF BucketsIn
<1>2. IsFiniteSet(J)  BY ItemRowsFinite
<1>3. \A i \in J : IsFiniteSet(k[i]) /\ k[i] \subseteq Int  BY BucketsFinite DEF IsOrders
<1> HIDE DEF k
<1>4. IsFiniteSet(U) /\ \A T \in U : IsFiniteSet(T) /\ T \subseteq Int
  BY <1>2, <1>3, ImageFinite
<1> HIDE DEF U
<1> QED  BY <1>1, <1>4, FS_UNION

\* A join with the items leaves orders out and adds none.
LEMMA JoinedIn ==
  ASSUME NEW os, NEW m, NEW S
  PROVE  Joined(os, m, S) \in SUBSET S
BY DEF Joined

-----------------------------------------------------------------------------
(* Statement *)

CategoryRows(os, S, b) == {r \in ItemRows(os, S) : ItemOf(os, r).category = b}
PaidLines(o, b) == {l \in DOMAIN o.payments : o.payments[l].method = b}
PaymentRows(os, S, b) == UNION {{i} \X PaidLines(os[i], b) : i \in S}

\* The shape of the answer.
LEMMA StatementRows ==
  ASSUME NEW os, NEW m, NEW d \in Dims, NEW S
  PROVE  LET J == Joined(os, m, S)
         IN  /\ d = "none" => Statement(os, m, d, S)
                                = [b \in {Everything} |-> Whole(Aggregate(os, m, S))]
             /\ d \in Single \ {"none"} =>
                  Statement(os, m, d, S)
                    = [b \in BucketsIn(os, J, d) |-> Whole(Aggregate(os, m, In(os, J, d, b)))]
             /\ d = "category" =>
                  Statement(os, m, d, S)
                    = [b \in BucketsIn(os, J, d) |-> CategoryFigure(os, m, S, b)]
             /\ d = "payment_method" =>
                  Statement(os, m, d, S)
                    = [b \in BucketsIn(os, J, d) |-> PaymentFigure(os, m, S, b)]
BY DEF Statement, Joined, BucketsIn, In, Single, Dims

\* The figure of a category, with its rows named.
LEMMA CategoryFigureIs ==
  ASSUME NEW os, NEW m, NEW S, NEW b
  PROVE  LET rows == CategoryRows(os, S, b)
         IN  CategoryFigure(os, m, S, b)
               = IF m = "sales_total"
                   THEN SumOf([r \in rows |-> AllocatedSales(os[r[1]], ItemOf(os, r))])
                 ELSE IF m = "quantity_sold" THEN Whole(QuantitySold(os, rows))
                 ELSE Whole(Cardinality({r[1] : r \in rows}))
BY DEF CategoryFigure, CategoryRows

\* The figure of a payment method, with its rows named.
LEMMA PaymentFigureIs ==
  ASSUME NEW os, NEW m, NEW S, NEW b
  PROVE  LET rows == PaymentRows(os, S, b)
         IN  PaymentFigure(os, m, S, b)
               = IF m = "sales_total"
                   THEN Whole(SumFunction([r \in rows |-> os[r[1]].payments[r[2]].amount]))
                 ELSE Whole(Cardinality({r[1] : r \in rows}))
BY DEF PaymentFigure, PaymentRows, PaidLines

\* The orders of some rows, counted.
LEMMA FirstsFinite ==
  ASSUME NEW R, IsFiniteSet(R)
  PROVE  IsFiniteSet({r[1] : r \in R}) /\ Cardinality({r[1] : r \in R}) \in Nat
<1> DEFINE k == [r \in R |-> r[1]]
<1>1. {r[1] : r \in R} = {k[r] : r \in R}  OBVIOUS
<1> HIDE DEF k
<1>2. IsFiniteSet({k[r] : r \in R})  BY ImageFinite
<1> QED  BY <1>1, <1>2, FS_CardinalityType

\* The payments of some orders.
LEMMA PaymentRowsFinite ==
  ASSUME NEW os, IsOrders(os), NEW S \in SUBSET DOMAIN os, NEW b
  PROVE  /\ IsFiniteSet(PaymentRows(os, S, b))
         /\ \A r \in PaymentRows(os, S, b) :
              r[1] \in S /\ os[r[1]].payments[r[2]].amount \in Int
<1> DEFINE D == [i \in S |-> PaidLines(os[i], b)]
<1>1. PaymentRows(os, S, b) = Pairs(S, D)  BY DEF PaymentRows, Pairs
<1>2. \A i \in S : IsRow(os[i]) /\ D[i] = PaidLines(os[i], b)  BY DEF IsOrders
<1>3. \A i \in S : IsFiniteSet(D[i])  BY <1>2, LinesFinite, FS_Subset DEF PaidLines
<1> HIDE DEF D
<1>4. IsFiniteSet(Pairs(S, D))  BY <1>3, ItemRowsFinite, PairsFinite
<1>5. ASSUME NEW r \in Pairs(S, D)
      PROVE  r[1] \in S /\ os[r[1]].payments[r[2]].amount \in Int
  <2>1. PICK i \in S : \E l \in D[i] : r = <<i, l>>  BY PairsOf
  <2>2. PICK l \in D[i] : r = <<i, l>>  BY <2>1
  <2>3. l \in DOMAIN os[i].payments /\ IsRow(os[i])  BY <1>2 DEF PaidLines
  <2> QED  BY <2>2, <2>3, RowType
<1> QED  BY <1>1, <1>4, <1>5

GrossLines(o) == [l \in DOMAIN o.items |-> o.items[l].gross]

\* What the lines of an order cost.
LEMMA GrossType ==
  ASSUME NEW o, IsRow(o)
  PROVE  /\ GrossOf(o) = SumFunctionOnSet(GrossLines(o), DOMAIN o.items)
         /\ IntegerOn(GrossLines(o), DOMAIN o.items)
         /\ GrossOf(o) \in Int
<1>1. GrossOf(o) = SumFunctionOnSet(GrossLines(o), DOMAIN o.items)
  BY DEF GrossOf, GrossLines, SumFunction
<1>2. IntegerOn(GrossLines(o), DOMAIN o.items)
  BY RowType DEF IntegerOn, GrossLines, Lines
<1> QED  BY <1>1, <1>2, SumType, LinesFinite

\* The share of a line is a fraction: no order without cost is divided by it.
LEMMA AllocatedType ==
  ASSUME NEW o, IsRow(o), NEW line \in Lines
  PROVE  AllocatedSales(o, line) \in Frac
BY GrossType, RowType DEF AllocatedSales, Whole, Frac, Lines

AllocatedTo(os, rows) == [r \in rows |-> AllocatedSales(os[r[1]], ItemOf(os, r))]

\* So are those of the lines of a category.
LEMMA AllocatedToType ==
  ASSUME NEW os, IsOrders(os), NEW S \in SUBSET DOMAIN os, NEW b
  PROVE  /\ IsFiniteSet(CategoryRows(os, S, b))
         /\ FractionsOn(AllocatedTo(os, CategoryRows(os, S, b)))
<1> DEFINE R == CategoryRows(os, S, b)
<1>1. IsFiniteSet(R) /\ R \subseteq ItemRows(os, S)
  BY ItemRowsFinite, FS_Subset DEF CategoryRows
<1>2. \A r \in R : IsRow(os[r[1]]) /\ ItemOf(os, r) \in Lines
  BY <1>1, ItemRowsFinite DEF IsOrders
<1> HIDE DEF R
<1>3. \A r \in R : AllocatedTo(os, R)[r] \in Frac  BY <1>2, AllocatedType DEF AllocatedTo
<1>4. DOMAIN AllocatedTo(os, R) = R  BY DEF AllocatedTo
<1> QED  BY <1>1, <1>3, <1>4 DEF R, FractionsOn

Served1(m, d) ==
  /\ m \in LiveBaseMetrics
  /\ d \in {"category", "payment_method"} => m \in BreakdownMetrics(d)

WholeRows(r) == IsRows(r) /\ \A b \in DOMAIN r : r[b][1] \in Int /\ r[b] = Whole(r[b][1])

\* A sum of fractions is one.
LEMMA SumOfType ==
  ASSUME NEW f, FractionsOn(f)
  PROVE  SumOf(f) \in Frac
<1>1. PICK g \in [SUBSET DOMAIN f -> Frac] :
        /\ g[DOMAIN f] = SumOf(f)
        /\ \A s \in SUBSET DOMAIN f :
             g[s] = IF s = {} THEN Whole(0) ELSE Plus(f[Pick(s)], g[s \ {Pick(s)}])
  BY SumOfFold
<1> QED  BY <1>1

\* A number as a fraction.
LEMMA WholeType ==
  ASSUME NEW n \in Int
  PROVE  Whole(n) \in Frac /\ Whole(n)[1] = n /\ Whole(n)[2] = 1
BY DEF Whole, Frac

\* How much is on some lines is a number.
LEMMA QuantityType ==
  ASSUME NEW os, IsOrders(os), NEW S \in SUBSET DOMAIN os, NEW R \in SUBSET ItemRows(os, S)
  PROVE  QuantitySold(os, R) \in Int
<1> DEFINE f == [r \in R |-> ItemOf(os, r).quantity]
<1>1. QuantitySold(os, R) = SumFunctionOnSet(f, R)  BY DEF QuantitySold, SumFunction
<1>2. IsFiniteSet(R) /\ IntegerOn(f, R)
  BY ItemRowsFinite, FS_Subset DEF IntegerOn, Lines
<1> HIDE DEF f
<1> QED  BY <1>1, <1>2, SumType

\* A category has a figure, a whole one but for its sales.
LEMMA CategoryType ==
  ASSUME NEW os, IsOrders(os), NEW S \in SUBSET DOMAIN os, NEW m, NEW b
  PROVE  /\ CategoryFigure(os, m, S, b) \in Frac
         /\ m # "sales_total" => /\ CategoryFigure(os, m, S, b)[1] \in Int
                                 /\ CategoryFigure(os, m, S, b)
                                      = Whole(CategoryFigure(os, m, S, b)[1])
<1> DEFINE R == CategoryRows(os, S, b)
<1>1. IsFiniteSet(R) /\ FractionsOn(AllocatedTo(os, R))  BY AllocatedToType
<1>2. SumOf(AllocatedTo(os, R)) \in Frac  BY <1>1, SumOfType
<1>3. QuantitySold(os, R) \in Int  BY QuantityType DEF CategoryRows
<1>4. Cardinality({r[1] : r \in R}) \in Int
  <2> HIDE DEF R
  <2>1. Cardinality({r[1] : r \in R}) \in Nat  BY <1>1, FirstsFinite
  <2> QED  BY <2>1
<1>5. CategoryFigure(os, m, S, b)
        = IF m = "sales_total" THEN SumOf(AllocatedTo(os, R))
          ELSE IF m = "quantity_sold" THEN Whole(QuantitySold(os, R))
          ELSE Whole(Cardinality({r[1] : r \in R}))
  BY CategoryFigureIs DEF AllocatedTo
<1> DEFINE x == SumOf(AllocatedTo(os, R))
           y == QuantitySold(os, R)
           z == Cardinality({r[1] : r \in R})
<1> HIDE DEF x, y, z
<1>6. x \in Frac /\ y \in Int /\ z \in Int  BY <1>2, <1>3, <1>4 DEF x, y, z
<1>7. CategoryFigure(os, m, S, b) = IF m = "sales_total" THEN x
                                    ELSE IF m = "quantity_sold" THEN Whole(y) ELSE Whole(z)
  BY <1>5 DEF x, y, z
<1> QED  BY <1>6, <1>7, WholeType

\* A payment method has a whole figure.
LEMMA PaymentType ==
  ASSUME NEW os, IsOrders(os), NEW S \in SUBSET DOMAIN os, NEW m, NEW b
  PROVE  \E n \in Int : PaymentFigure(os, m, S, b) = Whole(n)
<1> DEFINE R == PaymentRows(os, S, b)
           f == [r \in R |-> os[r[1]].payments[r[2]].amount]
           y == SumFunction(f)
           z == Cardinality({r[1] : r \in R})
<1>1. IsFiniteSet(R) /\ IntegerOn(f, R)  BY PaymentRowsFinite DEF IntegerOn
<1>2. y = SumFunctionOnSet(f, R)  BY DEF SumFunction
<1>3. PaymentFigure(os, m, S, b) = IF m = "sales_total" THEN Whole(y) ELSE Whole(z)
  BY PaymentFigureIs
<1>4. z \in Int
  <2> HIDE DEF R
  <2>1. Cardinality({r[1] : r \in R}) \in Nat  BY <1>1, FirstsFinite
  <2> QED  BY <2>1
<1> HIDE DEF f, y, z, R
<1>5. y \in Int  BY <1>1, <1>2, SumType
<1> QED  BY <1>3, <1>4, <1>5

\* The orders of a bucket are among those that are counted.
LEMMA InType ==
  ASSUME NEW os, NEW J, NEW d, NEW b
  PROVE  In(os, J, d, b) \in SUBSET J
BY DEF In

\* Rows, from their figures.
LEMMA RowsFrom ==
  ASSUME NEW B, IsFiniteSet(B), B \subseteq Int, NEW r, r = [b \in B |-> r[b]],
         \A b \in B : r[b] \in Frac
  PROVE  IsRows(r) /\ DOMAIN r = B
<1>1. DOMAIN r = B  OBVIOUS
<1> QED  BY <1>1 DEF IsRows

\* A statement answers a row for every bucket and for no other.
LEMMA StatementType ==
  ASSUME NEW os, IsOrders(os), NEW S \in SUBSET DOMAIN os, NEW d \in Dims, NEW m,
         Served1(m, d)
  PROVE  LET r == Statement(os, m, d, S)
             J == Joined(os, m, S)
         IN  /\ IsRows(r)
             /\ (d = "category" /\ m = "sales_total") \/ WholeRows(r)
             /\ DOMAIN r = IF d = "none" THEN {Everything} ELSE BucketsIn(os, J, d)
<1> DEFINE r == Statement(os, m, d, S)
           J == Joined(os, m, S)
           B == BucketsIn(os, J, d)
<1>1. m \in LiveBaseMetrics  BY DEF Served1
<1>2. J \in SUBSET DOMAIN os  BY JoinedIn
<1>3. IsFiniteSet(B) /\ B \subseteq Int  BY <1>2, BucketsInFinite
<1>4. CASE d = "none"
  <2>1. r = [b \in {Everything} |-> Whole(Aggregate(os, m, S))]  BY <1>4, StatementRows
  <2>2. Aggregate(os, m, S) \in Int  BY <1>1, AggregateIsSum
  <2> DEFINE n == Aggregate(os, m, S)
  <2> HIDE DEF n, r
  <2>3. r = [b \in {Everything} |-> Whole(n)] /\ n \in Int  BY <2>1, <2>2 DEF n
  <2>4. /\ r = [b \in {Everything} |-> r[b]]
        /\ \A b \in {Everything} : r[b] = Whole(n) /\ r[b] \in Frac /\ r[b][1] = n
    BY <2>3, WholeType
  <2>5. IsFiniteSet({Everything}) /\ {Everything} \subseteq Int
    <3>1. IsFiniteSet({Everything})  BY FS_Singleton
    <3> QED  BY <3>1 DEF Everything
  <2>6. IsRows(r) /\ DOMAIN r = {Everything}  BY <2>4, <2>5, RowsFrom
  <2>7. WholeRows(r)  BY <2>3, <2>4, <2>6 DEF WholeRows
  <2> QED  BY <1>4, <2>6, <2>7 DEF r
<1>5. ASSUME NEW v, r = [b \in B |-> v[b]], d # "none", \A b \in B : v[b] \in Frac,
             \/ d = "category" /\ m = "sales_total"
             \/ \A b \in B : v[b][1] \in Int /\ v[b] = Whole(v[b][1])
      PROVE  /\ IsRows(r)
             /\ (d = "category" /\ m = "sales_total") \/ WholeRows(r)
             /\ DOMAIN r = B
  <2> HIDE DEF r, B
  <2>1. r = [b \in B |-> r[b]] /\ \A b \in B : r[b] = v[b]  BY <1>5
  <2>2. \A b \in B : r[b] \in Frac  BY <1>5, <2>1
  <2>3. IsRows(r) /\ DOMAIN r = B  BY <1>3, <2>1, <2>2, RowsFrom
  <2> QED  BY <1>5, <2>1, <2>3 DEF WholeRows
<1>6. CASE d \in Single \ {"none"}
  <2> DEFINE v == [b \in B |-> Whole(Aggregate(os, m, In(os, J, d, b)))]
  <2>1. r = v  BY <1>6, StatementRows
  <2>2. ASSUME NEW b \in B
        PROVE  v[b] \in Frac /\ v[b][1] \in Int /\ v[b] = Whole(v[b][1])
    <3>1. In(os, J, d, b) \in SUBSET DOMAIN os  BY <1>2, InType
    <3>2. Aggregate(os, m, In(os, J, d, b)) \in Int  BY <1>1, <3>1, AggregateIsSum
    <3> QED  BY <3>2, WholeType
  <2>3. r = [b \in B |-> v[b]]  BY <2>1
  <2> QED  BY <1>5, <1>6, <2>2, <2>3
<1>7. CASE d = "category"
  <2> DEFINE v == [b \in B |-> CategoryFigure(os, m, S, b)]
  <2>1. r = v  BY <1>7, StatementRows
  <2>2. ASSUME NEW b \in B
        PROVE  /\ v[b] \in Frac
               /\ m # "sales_total" => v[b][1] \in Int /\ v[b] = Whole(v[b][1])
    <3>1. v[b] = CategoryFigure(os, m, S, b)  OBVIOUS
    <3> QED  BY <3>1, CategoryType
  <2>3. r = [b \in B |-> v[b]]  BY <2>1
  <2> QED  BY <1>5, <1>7, <2>2, <2>3
<1>8. CASE d = "payment_method"
  <2> DEFINE v == [b \in B |-> PaymentFigure(os, m, S, b)]
  <2>1. r = v  BY <1>8, StatementRows
  <2>2. ASSUME NEW b \in B
        PROVE  v[b] \in Frac /\ v[b][1] \in Int /\ v[b] = Whole(v[b][1])
    <3>1. PICK n \in Int : PaymentFigure(os, m, S, b) = Whole(n)  BY PaymentType
    <3> QED  BY <3>1, WholeType
  <2>3. r = [b \in B |-> v[b]]  BY <2>1
  <2> QED  BY <1>5, <1>8, <2>2, <2>3
<1> HIDE DEF r, J, B
<1>9. d \in {"none", "category", "payment_method"} \/ d \in Single \ {"none"}
  BY DEF Dims
<1>10. /\ IsRows(r)
       /\ (d = "category" /\ m = "sales_total") \/ WholeRows(r)
       /\ DOMAIN r = IF d = "none" THEN {Everything} ELSE B
  BY <1>4, <1>6, <1>7, <1>8, <1>9 DEF Single, r, B, J
<1> QED  BY <1>10 DEF r, B, J

-----------------------------------------------------------------------------
(* What is divided, and by what *)

Divisor == "completed_order_count"
Part == "discounted_order_count"

\* Only the quantity joins the items.
LEMMA JoinedAll ==
  ASSUME NEW os, NEW S, NEW m, m # "quantity_sold"
  PROVE  Joined(os, m, S) = S
BY DEF Joined

\* Without a dimension, every order is in the only bucket.
LEMMA InNone ==
  ASSUME NEW os, NEW S
  PROVE  In(os, S, "none", Everything) = S
BY DEF In, BucketsOf

\* A figure that is not zero comes from some order.
LEMMA Backing ==
  ASSUME NEW os, IsOrders(os), NEW S \in SUBSET DOMAIN os, NEW d \in Dims, NEW m,
         Served1(m, d), NEW b \in DOMAIN Statement(os, m, d, S),
         Statement(os, m, d, S)[b][1] # 0
  PROVE  In(os, S, d, b) # {}
<1> DEFINE r == Statement(os, m, d, S)
           J == Joined(os, m, S)
<1>1. DOMAIN r = IF d = "none" THEN {Everything} ELSE BucketsIn(os, J, d)
  BY StatementType
<1>2. CASE d = "none"
  <2>1. b = Everything /\ r = [c \in {Everything} |-> Whole(Aggregate(os, m, S))]
    BY <1>1, <1>2, StatementRows
  <2>2. Aggregate(os, m, S) # 0  BY <2>1 DEF Whole
  <2>3. Aggregate(os, m, S) = SumFunctionOnSet(Weights(os, m), S)
    BY AggregateIsSum DEF Served1
  <2>4. S # {}  BY <2>2, <2>3, SumOfNone
  <2> QED  BY <1>2, <2>1, <2>4, InNone
<1>3. CASE d # "none"
  <2>1. J \subseteq S  BY JoinedIn
  <2> HIDE DEF J, r
  <2>2. PICK i \in J : b \in BucketsOf(os[i], d)  BY <1>1, <1>3 DEF r, BucketsIn
  <2> QED  BY <2>1, <2>2 DEF In
<1> QED  BY <1>2, <1>3

\* A set with a member has a positive count.
LEMMA CountOf ==
  ASSUME NEW T, IsFiniteSet(T), T # {}
  PROVE  Cardinality(T) \in Nat /\ Cardinality(T) > 0
<1>1. Cardinality(T) \in Nat /\ Cardinality(T) # 0  BY FS_CardinalityType, FS_EmptySet
<1> QED  BY <1>1

\* The divisor of a bucket that some order is in is not zero.
LEMMA Counting ==
  ASSUME NEW os, IsOrders(os), NEW S \in SUBSET DOMAIN os, NEW d \in Dims,
         NEW b, In(os, S, d, b) # {}
  PROVE  LET r == Statement(os, Divisor, d, S)
         IN  b \in DOMAIN r /\ r[b][1] \in Int /\ r[b][1] > 0
<1> DEFINE r == Statement(os, Divisor, d, S)
<1>1. Served1(Divisor, d)
  BY LiveMetrics DEF Served1, Divisor, BreakdownMetrics
<1>2. Joined(os, Divisor, S) = S  BY JoinedAll DEF Divisor
<1>3. DOMAIN r = IF d = "none" THEN {Everything} ELSE BucketsIn(os, S, d)
  BY <1>1, <1>2, StatementType
<1>4. PICK i \in S : b \in BucketsOf(os[i], d)  BY DEF In
<1>5. b \in DOMAIN r  BY <1>3, <1>4 DEF BucketsIn, BucketsOf
<1>6. \A T \in SUBSET S : T # {} => Cardinality(T) \in Nat /\ Cardinality(T) > 0
  BY ItemRowsFinite, FS_Subset, CountOf
<1>7. \A T : Aggregate(os, Divisor, T) = Cardinality(T)  BY DEF Aggregate, Divisor
<1>8. \A n \in Nat : Whole(n)[1] = n  BY DEF Whole
<1>9. \E n \in Nat : n > 0 /\ r[b] = Whole(n)
  <2>1. CASE d = "none"
    <3>1. r[b] = Whole(Aggregate(os, Divisor, S))
      BY <1>3, <1>5, <2>1, StatementRows
    <3> QED  BY <1>4, <1>6, <1>7, <3>1
  <2>2. CASE d \in Single \ {"none"}
    <3> DEFINE T == In(os, S, d, b)
    <3>1. r[b] = Whole(Aggregate(os, Divisor, T))
      BY <1>2, <1>3, <1>5, <2>2, StatementRows
    <3>2. T \in SUBSET S /\ T # {}  BY InType
    <3> HIDE DEF T
    <3> QED  BY <1>6, <1>7, <3>1, <3>2
  <2>3. CASE d = "category"
    <3> DEFINE R == CategoryRows(os, S, b)
               T == {x[1] : x \in R}
    <3>1. r[b] = CategoryFigure(os, Divisor, S, b)
      BY <1>2, <1>3, <1>5, <2>3, StatementRows
    <3>2. CategoryFigure(os, Divisor, S, b) = Whole(Cardinality(T))
      BY CategoryFigureIs DEF Divisor
    <3>3. PICK l \in DOMAIN os[i].items : os[i].items[l].category = b
      BY <1>4, <2>3 DEF BucketsOf
    <3>4. <<i, l>> \in R  BY <3>3 DEF CategoryRows, ItemRows, ItemOf
    <3>5. T \in SUBSET S  BY ItemRowsFinite DEF CategoryRows
    <3>6. <<i, l>>[1] \in T  BY <3>4
    <3> HIDE DEF T, R
    <3> QED  BY <1>6, <3>1, <3>2, <3>5, <3>6
  <2>4. CASE d = "payment_method"
    <3> DEFINE R == PaymentRows(os, S, b)
               T == {x[1] : x \in R}
    <3>1. r[b] = PaymentFigure(os, Divisor, S, b)
      BY <1>2, <1>3, <1>5, <2>4, StatementRows
    <3>2. PaymentFigure(os, Divisor, S, b) = Whole(Cardinality(T))
      BY PaymentFigureIs DEF Divisor
    <3>3. PICK l \in DOMAIN os[i].payments : os[i].payments[l].method = b
      BY <1>4, <2>4 DEF BucketsOf
    <3>4. <<i, l>> \in R  BY <3>3 DEF PaymentRows, PaidLines
    <3>5. T \in SUBSET S  BY PaymentRowsFinite
    <3>6. <<i, l>>[1] \in T  BY <3>4
    <3> HIDE DEF T, R
    <3> QED  BY <1>6, <3>1, <3>2, <3>5, <3>6
  <2> QED  BY <2>1, <2>2, <2>3, <2>4 DEF Dims
<1> HIDE DEF r
<1>10. r[b][1] \in Int /\ r[b][1] > 0  BY <1>8, <1>9
<1> QED  BY <1>5, <1>10 DEF r

\* What the orders of a bucket count as, all of them and the discounted ones.
LEMMA Parts ==
  ASSUME NEW os, IsOrders(os), NEW S \in SUBSET DOMAIN os, NEW d \in Single, NEW b
  PROVE  LET T == In(os, S, d, b)
         IN  /\ Cardinality(T) \in Nat
             /\ b \in DOMAIN Statement(os, Part, d, S) =>
                  \E n \in Nat : /\ Statement(os, Part, d, S)[b] = Whole(n)
                                 /\ n <= Cardinality(T)
             /\ b \in DOMAIN Statement(os, Divisor, d, S) =>
                  Statement(os, Divisor, d, S)[b] = Whole(Cardinality(T))
<1> DEFINE T == In(os, S, d, b)
           U(s) == {i \in s : Coalesced(os[i].discount) > 0}
<1>1. IsFiniteSet(S) /\ T \in SUBSET S  BY ItemRowsFinite, InType
<1>2. \A s \in SUBSET S : IsFiniteSet(s) /\ Cardinality(s) \in Nat
  BY <1>1, FS_Subset, FS_CardinalityType
<1>3. \A s \in SUBSET S : Cardinality(U(s)) \in Nat /\ Cardinality(U(s)) <= Cardinality(s)
  BY <1>2, FS_Subset
<1>4. \A s : Aggregate(os, Part, s) = Cardinality(U(s))  BY DEF Aggregate, Part
<1>5. \A s : Aggregate(os, Divisor, s) = Cardinality(s)  BY DEF Aggregate, Divisor
<1>6. ASSUME NEW m \in {Part, Divisor}, b \in DOMAIN Statement(os, m, d, S)
      PROVE  Statement(os, m, d, S)[b] = Whole(Aggregate(os, m, T))
  <2>1. Joined(os, m, S) = S  BY JoinedAll DEF Part, Divisor
  <2>2. CASE d = "none"
    <3>1. Statement(os, m, d, S) = [c \in {Everything} |-> Whole(Aggregate(os, m, S))]
      BY <2>2, StatementRows DEF Dims
    <3>2. b = Everything  BY <1>6, <3>1
    <3>3. T = S  BY <2>2, <3>2, InNone
    <3> QED  BY <3>1, <3>2, <3>3
  <2>3. CASE d # "none"
    <3>1. Statement(os, m, d, S)
            = [c \in BucketsIn(os, S, d) |-> Whole(Aggregate(os, m, In(os, S, d, c)))]
      BY <2>1, <2>3, StatementRows DEF Dims
    <3> QED  BY <1>6, <3>1
  <2> QED  BY <2>2, <2>3
<1> HIDE DEF T
<1>7. b \in DOMAIN Statement(os, Part, d, S) =>
        /\ Statement(os, Part, d, S)[b] = Whole(Cardinality(U(T)))
        /\ Cardinality(U(T)) \in Nat /\ Cardinality(U(T)) <= Cardinality(T)
  BY <1>1, <1>3, <1>4, <1>6
<1>8. b \in DOMAIN Statement(os, Divisor, d, S) =>
        Statement(os, Divisor, d, S)[b] = Whole(Cardinality(T))
  BY <1>5, <1>6
<1> QED  BY <1>1, <1>2, <1>7, <1>8 DEF T

-----------------------------------------------------------------------------
(* Shares *)

\* A share of 100, in hundredths, is rounded by no more than a half.
LEMMA ShareNear ==
  ASSUME NEW x \in Int, NEW d \in Int, d > 0
  PROVE  LET r == RoundHalfUp(10000 * x, d)
             y == (2 * d) * r + (-20000) * x
         IN  r \in Int /\ y \in Int /\ y <= d /\ - d <= y
<1> DEFINE n == 10000 * x
           r == RoundHalfUp(n, d)
<1>1. n \in Int  OBVIOUS
<1> HIDE DEF n
<1>2. r \in Int /\ d * r \in Int /\ 2 * (d * r) >= 2 * n - d /\ 2 * (d * r) <= 2 * n + d
  BY <1>1, RoundNear
<1> HIDE DEF r
<1>3. (2 * d) * r = 2 * (d * r)  BY <1>2
<1>4. 2 * n = 20000 * x  BY DEF n
<1>5. (2 * d) * r + (-20000) * x = 2 * (d * r) - 2 * n  BY <1>2, <1>3, <1>4
<1> DEFINE y == (2 * d) * r + (-20000) * x
<1> HIDE DEF y
<1>6. y \in Int /\ y <= d /\ - d <= y  BY <1>1, <1>2, <1>5 DEF y
<1> QED  BY <1>2, <1>6 DEF y, r, n

\* Shares of a whole that is positive, each rounded by itself.
LEMMA PositiveShares ==
  ASSUME NEW S, IsFiniteSet(S), NEW f, IntegerOn(f, S), NEW d \in Int, d > 0,
         d = SumFunctionOnSet(f, S),
         NEW R, \A b \in S : R[b] = RoundHalfUp(10000 * f[b], d)
  PROVE  /\ IntegerOn(R, S) /\ Cardinality(S) \in Nat /\ SumFunctionOnSet(R, S) \in Int
         /\ - Cardinality(S) <= 2 * (SumFunctionOnSet(R, S) - 10000)
         /\ 2 * (SumFunctionOnSet(R, S) - 10000) <= Cardinality(S)
<1> DEFINE h == [b \in S |-> (2 * d) * R[b] + (-20000) * f[b]]
           most == [b \in S |-> d]
           least == [b \in S |-> - d]
           k == Cardinality(S)
           s == SumFunctionOnSet(R, S)
<1>1. k \in Nat  BY FS_CardinalityType
<1>2. \A b \in S : f[b] \in Int  BY DEF IntegerOn
<1>3. ASSUME NEW b \in S
      PROVE  R[b] \in Int /\ h[b] \in Int /\ h[b] <= d /\ - d <= h[b]
  <2> DEFINE x == f[b]
             r == RoundHalfUp(10000 * x, d)
             y == (2 * d) * r + (-20000) * x
  <2>1. x \in Int  BY <1>2
  <2>2. R[b] = r /\ h[b] = y  OBVIOUS
  <2> HIDE DEF x
  <2>3. r \in Int /\ y \in Int /\ y <= d /\ - d <= y  BY <2>1, ShareNear
  <2> QED  BY <2>2, <2>3
<1>4. IntegerOn(R, S) /\ IntegerOn(h, S)  BY <1>3 DEF IntegerOn
<1>5. s \in Int  BY <1>4, SumType
<1>6. /\ \A b \in S : h[b] = (2 * d) * R[b] + (-20000) * f[b]
      /\ \A b \in S : most[b] = d /\ least[b] = - d
  OBVIOUS
<1> HIDE DEF h, most, least
<1>7. 2 * d \in Int /\ -20000 \in Int /\ - d \in Int  OBVIOUS
<1>8. IntegerOn(most, S) /\ IntegerOn(least, S)  BY <1>6, <1>7 DEF IntegerOn
<1>12. SumFunctionOnSet(h, S) = (2 * d) * s + (-20000) * d
  BY <1>4, <1>6, <1>7, SumLinear
<1>13. SumFunctionOnSet(most, S) = d * k  BY <1>6, SumConstant
<1>14. SumFunctionOnSet(least, S) = (- d) * k  BY <1>6, <1>7, SumConstant
<1>15. SumFunctionOnSet(h, S) <= SumFunctionOnSet(most, S)
  <2>1. \A b \in S : h[b] <= most[b]  BY <1>3, <1>6
  <2> QED  BY <1>4, <1>8, <2>1, SumLess
<1>16. SumFunctionOnSet(least, S) <= SumFunctionOnSet(h, S)
  <2>1. \A b \in S : least[b] <= h[b]  BY <1>3, <1>6
  <2> QED  BY <1>4, <1>8, <2>1, SumLess
<1> HIDE DEF k, s
<1> DEFINE e == 2 * (s - 10000)
<1>17. e \in Int /\ (2 * d) * s + (-20000) * d = d * e  BY <1>5
<1>18. d * e <= d * k /\ - (d * k) <= d * e
  <2>1. (- d) * k = - (d * k) /\ d * k \in Int  BY <1>1
  <2> QED  BY <1>12, <1>13, <1>14, <1>15, <1>16, <1>17, <2>1
<1> HIDE DEF e
<1>19. ASSUME e >= k + 1 PROVE FALSE
  <2>1. d * e >= d * (k + 1)  BY <1>1, <1>17, <1>19
  <2>2. d * (k + 1) = d * k + d  BY <1>1
  <2>3. d * k \in Int /\ d * e \in Int  BY <1>1, <1>17
  <2> QED  BY <1>18, <2>1, <2>2, <2>3
<1>20. ASSUME e <= - k - 1 PROVE FALSE
  <2>1. d * e <= d * (- k - 1)  BY <1>1, <1>17, <1>20
  <2>2. d * (- k - 1) = - (d * k) - d  BY <1>1
  <2>3. d * k \in Int /\ d * e \in Int  BY <1>1, <1>17
  <2> QED  BY <1>18, <2>1, <2>2, <2>3
<1>21. - k <= e /\ e <= k  BY <1>1, <1>17, <1>19, <1>20
<1> QED  BY <1>1, <1>4, <1>5, <1>21 DEF k, s, e

\* Of a whole that is negative too.
LEMMA SharesOfWhole ==
  ASSUME NEW S, IsFiniteSet(S), NEW f, IntegerOn(f, S), NEW T \in Int, T # 0,
         T = SumFunctionOnSet(f, S),
         NEW R, \A b \in S : R[b] = Quantized(<<100 * f[b], T>>)
  PROVE  /\ IntegerOn(R, S) /\ Cardinality(S) \in Nat /\ SumFunctionOnSet(R, S) \in Int
         /\ - Cardinality(S) <= 2 * (SumFunctionOnSet(R, S) - 10000)
         /\ 2 * (SumFunctionOnSet(R, S) - 10000) <= Cardinality(S)
<1>1. \A b \in S : f[b] \in Int  BY DEF IntegerOn
<1>2. CASE T > 0
  <2>1. ASSUME NEW b \in S PROVE R[b] = RoundHalfUp(10000 * f[b], T)
    <3>1. R[b] = RoundHalfUp(100 * (100 * f[b]), T)  BY <1>2 DEF Quantized
    <3>2. 100 * (100 * f[b]) = 10000 * f[b]  BY <1>1
    <3> QED  BY <3>1, <3>2
  <2> QED  BY <1>2, <2>1, PositiveShares
<1>3. CASE ~ T > 0
  <2> DEFINE g == [b \in S |-> (-1) * f[b]]
             d == - T
  <2>1. \A b \in S : g[b] = (-1) * f[b]  OBVIOUS
  <2> HIDE DEF g
  <2>2. \A b \in S : g[b] = - f[b] /\ g[b] \in Int  BY <1>1, <2>1
  <2>3. IntegerOn(g, S)  BY <2>2 DEF IntegerOn
  <2>4. SumFunctionOnSet(g, S) = (-1) * T  BY <2>1, SumScaled
  <2>5. d = SumFunctionOnSet(g, S) /\ d > 0 /\ d \in Int  BY <1>3, <2>4
  <2>6. ASSUME NEW b \in S PROVE R[b] = RoundHalfUp(10000 * g[b], d)
    <3>1. R[b] = RoundHalfUp(-100 * (100 * f[b]), - T)  BY <1>3 DEF Quantized
    <3>2. -100 * (100 * f[b]) = 10000 * g[b]  BY <1>1, <2>2
    <3> QED  BY <3>1, <3>2
  <2> HIDE DEF d
  <2> QED  BY <2>3, <2>5, <2>6, PositiveShares
<1> QED  BY <1>2, <1>3

-----------------------------------------------------------------------------
(* A series *)

\* The sum of the first numbers, as the code computes it.
LEMMA HalfOfProduct ==
  ASSUME NEW n \in Nat, NEW s \in Int, 2 * s = n * (n - 1)
  PROVE  (n * (n - 1)) \div 2 = s
<1> DEFINE m == n * (n - 1)
<1>1. m \in Int /\ m = 2 * s  OBVIOUS
<1> HIDE DEF m
<1>2. m \div 2 = s  BY <1>1
<1> QED  BY <1>2 DEF m

(* A series of two days or more that never falls has no slope downwards:    *)
(* linear_regression_slope (tools/math_helpers.py:59-74).                   *)
THEOREM SlopeOfRising ==
  ASSUME NEW n \in Nat, n >= 2, NEW points \in [1..n -> Int], Rises(points, n)
  PROVE  Slope(points) \in Int /\ Slope(points) >= 0
<1> DEFINE a == [i \in 1..n |-> i - 1]
           xx == [i \in 1..n |-> (i - 1) * (i - 1)]
           xy == [i \in 1..n |-> (i - 1) * points[i]]
           A == SumFunctionOnSet(a, 1..n)
           Y == SumFunctionOnSet(points, 1..n)
           XX == SumFunctionOnSet(xx, 1..n)
           XY == SumFunctionOnSet(xy, 1..n)
           num == n * XY - A * Y
           den == n * XX - A * A
<1>1. Len(points) = n  OBVIOUS
<1>2. 2 * A = n * (n - 1) /\ A \in Int
  <2>1. \A i \in 1..n : a[i] = i - 1  OBVIOUS
  <2> HIDE DEF a
  <2> QED  BY <2>1, SumOfNumbers
<1>3. (n * (n - 1)) \div 2 = A  BY <1>2, HalfOfProduct
<1>4. Slope(points) = RoundHalfUp(100 * num, den)
  <2>1. SumFunction(points) = Y  BY DEF SumFunction
  <2>2. SumFunction(xx) = XX /\ SumFunction(xy) = XY  BY DEF SumFunction
  <2>3. Slope(points)
          = RoundHalfUp(100 * (n * SumFunction(xy) - ((n * (n - 1)) \div 2) * SumFunction(points)),
                        n * SumFunction(xx) - ((n * (n - 1)) \div 2) * ((n * (n - 1)) \div 2))
    BY <1>1 DEF Slope
  <2> HIDE DEF xx, xy, XX, XY, Y, A
  <2> QED  BY <1>3, <2>1, <2>2, <2>3, Zenon
<1>5. \A i \in 1..n : /\ a[i] = i - 1 /\ a[i] \in Int /\ points[i] \in Int
                      /\ xx[i] = a[i] * a[i] /\ xy[i] = a[i] * points[i]
  OBVIOUS
<1>6. a[1] = 0 /\ a[2] = 1
  <2>1. 1 \in 1..n /\ 2 \in 1..n  OBVIOUS
  <2> QED  BY <2>1
<1>7. Rises(a, n)  BY DEF Rises
<1> HIDE DEF a, xx, xy
<1>8. IntegerOn(a, 1..n) /\ IntegerOn(points, 1..n)  BY <1>5 DEF IntegerOn
<1>9. /\ Y \in Int /\ XY \in Int
      /\ num >= (a[2] - a[1]) * (points[2] - points[1])
      /\ points[2] - points[1] \in Int /\ points[2] - points[1] >= 0
  BY <1>5, <1>7, <1>8, RisingSums
<1>10. XX \in Int /\ den >= (a[2] - a[1]) * (a[2] - a[1])
  BY <1>5, <1>7, <1>8, RisingSums
<1> HIDE DEF A, Y, XX, XY
<1>11. num \in Int /\ den \in Int  BY <1>2, <1>9, <1>10
<1>12. den > 0  BY <1>6, <1>10, <1>11
<1>13. num >= 0
  <2> DEFINE e == points[2] - points[1]
  <2>1. e \in Int /\ e >= 0 /\ num >= (1 - 0) * e  BY <1>6, <1>9
  <2> HIDE DEF e, num
  <2> QED  BY <1>11, <2>1
<1> HIDE DEF num, den
<1>14. 100 * num \in Int /\ 100 * num >= 0  BY <1>11, <1>13
<1>15. RoundHalfUp(100 * num, den) \in Int /\ RoundHalfUp(100 * num, den) >= 0
  BY <1>11, <1>12, <1>14, RoundType, RoundSign
<1> QED  BY <1>4, <1>15

-----------------------------------------------------------------------------
(* A series and the figures it is made of *)

FiguresOn(told, B) == told = [b \in B |-> told[b]] /\ IsFiniteSet(B) /\ B \subseteq Int
                      /\ \A b \in B : told[b] \in Int

\* The days of a series.
DaysIn(B, period) == IF period = {} THEN B ELSE period

\* A series has each day once, and the total of its figures.
LEMMA SeriesWhole ==
  ASSUME NEW B, NEW told, FiguresOn(told, B),
         NEW period, IsFiniteSet(period), period \subseteq Int,
         period # {} => B \subseteq period
  PROVE  LET days == Days(told, period)
             points == Series(told, period)
             all == DaysIn(B, period)
         IN  /\ ToSet(days) = all
             /\ points \in [1..Cardinality(all) -> Int] /\ Cardinality(all) \in Nat
             /\ SumFunction(points) = SumFunction(told)
<1> DEFINE all == DaysIn(B, period)
           days == Days(told, period)
           points == Series(told, period)
           n == Cardinality(all)
           g == [d \in all |-> IF d \in B THEN told[d] ELSE 0]
<1>1. DOMAIN told = B /\ \A b \in B : told[b] \in Int  BY DEF FiguresOn
<1>2. IsFiniteSet(all) /\ all \subseteq Int /\ B \subseteq all  BY DEF FiguresOn, DaysIn
<1>3. days = InOrder(all, <)  BY <1>1 DEF Days, DaysIn
<1>4. days \in SetToSeqs(all)
  <2> HIDE DEF all, days
  <2> QED  BY <1>2, <1>3, NumbersInOrder
<1> HIDE DEF all
<1>5. /\ n \in Nat /\ days \in [1..n -> all] /\ ToSet(days) = all
      /\ \A i, j \in 1..n : days[i] = days[j] => i = j
  BY <1>2, <1>4, InSequence
<1>6. points = [i \in DOMAIN days |-> IF days[i] \in DOMAIN told THEN told[days[i]] ELSE 0]
  BY DEF Series
<1> HIDE DEF days, points
<1>7. DOMAIN days = 1..n /\ \A i \in 1..n : days[i] \in all  BY <1>5
<1>8. points = [i \in 1..n |-> IF days[i] \in B THEN told[days[i]] ELSE 0]
  BY <1>1, <1>6, <1>7
<1>9. \A i \in 1..n : points[i] \in Int /\ points[i] = g[days[i]]
  BY <1>1, <1>7, <1>8
<1>10. points \in [1..n -> Int]  BY <1>8, <1>9
<1>11. SumFunction(points) = SumFunctionOnSet(points, 1..n)
  <2>1. DOMAIN points = 1..n  BY <1>10
  <2> QED  BY <2>1 DEF SumFunction
<1>12. SumFunction(told) = SumFunctionOnSet(told, B)  BY <1>1 DEF SumFunction
<1>13. /\ \A d \in all : g[d] = IF d \in B THEN told[d] ELSE 0
       /\ \A d \in B : g[d] = told[d]
       /\ \A d \in all \ B : g[d] = 0
  BY <1>2
<1> HIDE DEF g
<1>14. {days[i] : i \in 1..n} = all
  <2>1. ToSet(days) = {days[i] : i \in DOMAIN days}  BY DEF ToSet
  <2> QED  BY <1>5, <1>7, <2>1
<1>15. SumFunctionOnSet(g, all) = SumFunctionOnSet(points, 1..n)
  <2>1. IsFiniteSet(1..n) /\ IntegerOn(points, 1..n)
    BY <1>5, <1>9, FS_Interval DEF IntegerOn
  <2> HIDE DEF n
  <2>2. SumFunctionOnSet(g, {days[i] : i \in 1..n}) = SumFunctionOnSet(points, 1..n)
    BY <1>5, <1>9, <2>1, SumRenamed
  <2> QED  BY <1>14, <2>2
<1>16. SumFunctionOnSet(g, all) = SumFunctionOnSet(g, B)
  <2>1. IntegerOn(g, all)  BY <1>1, <1>13 DEF IntegerOn
  <2> QED  BY <1>2, <1>13, <2>1, SumPart
<1>17. SumFunctionOnSet(told, B) = SumFunctionOnSet(g, B)
  <2>1. IsFiniteSet(B) /\ IntegerOn(told, B)  BY <1>1 DEF IntegerOn, FiguresOn
  <2> QED  BY <1>13, <2>1, SumSame
<1> QED  BY <1>5, <1>10, <1>11, <1>12, <1>15, <1>16, <1>17 DEF all, days, points, n

-----------------------------------------------------------------------------
(* A ranking *)

\* The first of a sequence without repetitions.
LEMMA FirstsOf ==
  ASSUME NEW n \in Nat, NEW B, NEW q \in [1..n -> B],
         \A i, j \in 1..n : q[i] = q[j] => i = j, NEW l \in 0..n
  PROVE  LET r == SubSeq(q, 1, l)
         IN  /\ r \in [1..l -> B]
             /\ \A i \in 1..l : r[i] = q[i]
             /\ Cardinality(ToSet(r)) = l
<1> DEFINE r == SubSeq(q, 1, l)
<1>1. /\ DOMAIN r = 1..l
      /\ \A i \in 1..l : r[i] = q[i]
      /\ r = [i \in 1..l |-> r[i]]
  <2>1. q \in Seq(B)  OBVIOUS
  <2>2. Len(q) = n  OBVIOUS
  <2>3. r \in Seq(B) /\ Len(r) = l  BY <2>1, <2>2
  <2>4. \A i \in 1..l : r[i] = q[i]  BY <2>1, <2>2
  <2> HIDE DEF r
  <2> QED  BY <2>3, <2>4
<1> HIDE DEF r
<1>2. ToSet(r) = {r[i] : i \in 1..l}  BY <1>1 DEF ToSet
<1>3. \A i \in 1..l : i \in 1..n /\ r[i] \in B  BY <1>1
<1>4. r \in [1..l -> B]  BY <1>1, <1>3
<1>5. r \in Surjection(1..l, ToSet(r))  BY <1>1, <1>2 DEF Surjection
<1>6. r \in Injection(1..l, ToSet(r))
  BY <1>1, <1>2, <1>3 DEF Injection, IsInjective
<1>7. l \in Nat /\ IsFiniteSet(1..l) /\ Cardinality(1..l) = l
  <2>1. l \in Nat  OBVIOUS
  <2>2. IsFiniteSet(1..l) /\ Cardinality(1..l) = IF 1 > l THEN 0 ELSE l - 1 + 1
    BY <2>1, FS_Interval
  <2> QED  BY <2>1, <2>2
<1>8. Cardinality(ToSet(r)) = l  BY <1>5, <1>6, <1>7, FS_Surjection
<1> QED  BY <1>1, <1>4, <1>8 DEF r

(* top_k_tool and bottom_k_tool tell as many buckets as they may, and leave *)
(* out none that is better than one they tell, by the direction the plan    *)
(* asks for: with desc none is higher, with asc none is lower, whatever its *)
(* mode says (tools/ranking.py:13-30, schemas/analysis.py:100-112).         *)
THEOREM RankedBest ==
  ASSUME NEW B, NEW told, FiguresOn(told, B), NEW direction, NEW k \in Nat
  PROVE  LET in == ToSet(Ranked(told, direction, k))
             n == Cardinality(B)
         IN  /\ Cardinality(in) = IF n < k THEN n ELSE k
             /\ \A b \in in, c \in B \ in :
                  IF direction = "desc" THEN told[b] >= told[c] ELSE told[b] <= told[c]
<1> DEFINE Above(a, b) == told[a] > told[b] \/ (told[a] = told[b] /\ a > b)
           Goes(a, b) == IF direction = "desc" THEN Above(a, b) ELSE Above(b, a)
           rel == {r \in B \X B : Goes(r[1], r[2])}
           order == CHOOSE q \in SetToSeqs(B) : \A i, j \in 1..Len(q) : i < j => Goes(q[i], q[j])
           n == Cardinality(B)
           l == IF k < n THEN k ELSE n
           r == SubSeq(order, 1, l)
           in == ToSet(r)
<1>1. DOMAIN told = B /\ IsFiniteSet(B) /\ \A b \in B : b \in Int /\ told[b] \in Int
  BY DEF FiguresOn
<1>2. IsOrder(rel, B)
  <2>1. \A a, b, c \in B : Goes(a, b) /\ Goes(b, c) => Goes(a, c)  BY <1>1
  <2>2. \A a, b \in B : a # b => Goes(a, b) \/ Goes(b, a)  BY <1>1
  <2>3. \A a, b \in B : <<a, b>> \in rel <=> Goes(a, b)  OBVIOUS
  <2> HIDE DEF Goes, rel
  <2> QED  BY <2>1, <2>2, <2>3 DEF IsOrder
<1>3. \A a, b \in B : <<a, b>> \in rel => Goes(a, b)  OBVIOUS
<1> HIDE DEF rel
<1>4. \E q \in SetToSeqs(B) : \A i, j \in 1..Len(q) : i < j => Goes(q[i], q[j])
  <2>1. PICK q \in SetToSeqs(B) : \A i, j \in 1..Len(q) : i < j => <<q[i], q[j]>> \in rel
    BY <1>1, <1>2, OrderExists
  <2>2. q \in [1..n -> B] /\ Len(q) = n  BY <1>1, InSequence
  <2> HIDE DEF Goes
  <2>3. \A i, j \in 1..Len(q) : i < j => Goes(q[i], q[j])  BY <1>3, <2>1, <2>2
  <2> QED  BY <2>3
<1>5. order \in SetToSeqs(B) /\ \A i, j \in 1..Len(order) : i < j => Goes(order[i], order[j])
  <2> HIDE DEF Goes
  <2> QED  BY <1>4
<1>6. InOrder(DOMAIN told, LAMBDA a, b : IF direction = "desc" THEN Above(a, b) ELSE Above(b, a))
        = order
  BY <1>1 DEF InOrder, IsSorted
<1>7. Ranked(told, direction, k)
        = SubSeq(order, 1, IF k < Len(order) THEN k ELSE Len(order))
  BY <1>6 DEF Ranked
<1> HIDE DEF order
<1>8. /\ n \in Nat /\ order \in [1..n -> B] /\ Len(order) = n /\ ToSet(order) = B
      /\ \A i, j \in 1..n : order[i] = order[j] => i = j
  BY <1>1, <1>5, InSequence
<1>9. Ranked(told, direction, k) = r
  <2> HIDE DEF n
  <2> QED  BY <1>7, <1>8
<1>10. l \in 0..n
  <2> HIDE DEF n
  <2> QED  BY <1>8
<1> HIDE DEF n, l
<1>11. /\ r \in [1..l -> B] /\ \A i \in 1..l : r[i] = order[i]
       /\ Cardinality(in) = l
  BY <1>8, <1>10, FirstsOf
<1> HIDE DEF r
<1>12. ASSUME NEW b \in in, NEW c \in B \ in
       PROVE  IF direction = "desc" THEN told[b] >= told[c] ELSE told[b] <= told[c]
  <2>1. in = {r[i] : i \in DOMAIN r}  BY DEF ToSet
  <2>2. DOMAIN r = 1..l  BY <1>11
  <2>3. PICK i \in 1..l : b = order[i]  BY <1>11, <2>1, <2>2
  <2>4. B = {order[j] : j \in DOMAIN order} /\ DOMAIN order = 1..n
    BY <1>8 DEF ToSet
  <2>5. PICK j \in 1..n : c = order[j]  BY <2>4
  <2>6. j \notin 1..l
    <3>1. j \in 1..l => c = r[j]  BY <1>11, <2>5
    <3> QED  BY <2>1, <2>2, <3>1
  <2>7. i \in 1..n /\ i < j  BY <1>8, <1>10, <2>6
  <2>8. Goes(b, c)
    <3> HIDE DEF Goes
    <3> QED  BY <1>5, <1>8, <2>3, <2>5, <2>7
  <2>9. b \in B  BY <1>8, <2>3, <2>7
  <2>10. told[b] \in Int /\ told[c] \in Int  BY <1>1, <2>9
  <2> HIDE DEF in
  <2> QED  BY <2>8, <2>10
<1> QED  BY <1>8, <1>9, <1>11, <1>12 DEF l, n

-----------------------------------------------------------------------------
(* FiguresAgree: a total and its breakdown *)

\* A whole figure is the same as itself.
LEMMA SameWhole ==
  ASSUME NEW n \in Int
  PROVE  Same(Whole(n), Whole(n))
BY DEF Same, Whole

\* Only orders without items are left out, and they have sold nothing.
LEMMA JoinedWeigh ==
  ASSUME NEW os, IsOrders(os), NEW S \in SUBSET DOMAIN os, NEW m \in LiveBaseMetrics
  PROVE  SumFunctionOnSet(Weights(os, m), Joined(os, m, S)) = Aggregate(os, m, S)
<1> DEFINE w == Weights(os, m)
           J == Joined(os, m, S)
<1>1. IsFiniteSet(S) /\ IntegerOn(w, S) /\ Aggregate(os, m, S) = SumFunctionOnSet(w, S)
  BY AggregateIsSum
<1>2. J \in SUBSET S  BY JoinedIn
<1>3. ASSUME NEW i \in S \ J PROVE w[i] = 0
  <2>1. m = "quantity_sold" /\ os[i].items = << >>  BY <1>3 DEF Joined
  <2>2. IsRow(os[i])  BY DEF IsOrders
  <2>3. w[i] = SumFunction(QuantityOf(os[i]))  BY <2>1 DEF Weights, Weight
  <2>4. DOMAIN os[i].items = {}  BY <2>1
  <2>5. w[i] = SumFunctionOnSet(QuantityOf(os[i]), {})
    BY <2>2, <2>3, <2>4, QuantityOfType
  <2> QED  BY <2>5, SumOfNone
<1> HIDE DEF w, J
<1>4. SumFunctionOnSet(w, S) = SumFunctionOnSet(w, J)  BY <1>1, <1>2, <1>3, SumPart
<1> QED  BY <1>1, <1>4 DEF w, J

(* The rows of a grouped statement add up to the statement of the total,    *)
(* by any dimension that has every order once (live_analytics.py:414-443).  *)
THEOREM SumOfBreakdown ==
  ASSUME NEW os, IsOrders(os), NEW S \in SUBSET DOMAIN os, NEW m \in LiveBaseMetrics,
         NEW d \in Single \ {"none"}
  PROVE  SumOf(Statement(os, m, d, S)) = Whole(Aggregate(os, m, S))
<1> DEFINE J == Joined(os, m, S)
           B == BucketsIn(os, J, d)
           w == Weights(os, m)
           k == [i \in J |-> KeyOf(os[i], d)]
           a == [b \in B |-> Aggregate(os, m, In(os, J, d, b))]
           r == Statement(os, m, d, S)
<1>1. d \in Dims /\ d \in Single  BY DEF Dims
<1>2. J \in SUBSET DOMAIN os /\ J \in SUBSET S  BY JoinedIn
<1>3. r = [b \in B |-> Whole(Aggregate(os, m, In(os, J, d, b)))]  BY <1>1, StatementRows
<1> HIDE DEF J
<1>4. IsFiniteSet(B)  BY <1>1, <1>2, BucketsInFinite
<1>5. \A i \in J : BucketsOf(os[i], d) = {KeyOf(os[i], d)}
  BY <1>1, <1>2, OneBucket DEF IsOrders
<1>6. \A i \in J : k[i] \in B /\ k[i] = KeyOf(os[i], d)  BY <1>5 DEF BucketsIn
<1>7. \A b \in B : In(os, J, d, b) = Fiber(k, J, b)  BY <1>5, <1>6 DEF In, Fiber
<1>8. ASSUME NEW b \in B
      PROVE  /\ a[b] \in Int /\ r[b] = Whole(a[b])
             /\ a[b] = SumFunctionOnSet(w, Fiber(k, J, b))
  <2>1. In(os, J, d, b) \in SUBSET DOMAIN os  BY <1>2, InType
  <2>2. /\ Aggregate(os, m, In(os, J, d, b)) \in Int
        /\ Aggregate(os, m, In(os, J, d, b)) = SumFunctionOnSet(w, In(os, J, d, b))
    BY <2>1, AggregateIsSum
  <2>3. a[b] = Aggregate(os, m, In(os, J, d, b)) /\ r[b] = Whole(a[b])  BY <1>3
  <2> QED  BY <1>7, <2>2, <2>3
<1>9. IsFiniteSet(J) /\ IntegerOn(w, J)  BY <1>2, AggregateIsSum
<1>10. DOMAIN r = B  BY <1>3
<1> HIDE DEF a, k, r, w, B
<1>11. IntegerOn(a, B)  BY <1>8 DEF IntegerOn
<1>12. SumOf(r) = Whole(SumFunctionOnSet(a, B))  BY <1>4, <1>8, <1>10, <1>11, SumOfWholes
<1>13. SumFunctionOnSet(a, B) = SumFunctionOnSet(w, J)
  BY <1>4, <1>6, <1>8, <1>9, SumFibers
<1>14. SumFunctionOnSet(w, J) = Aggregate(os, m, S)  BY JoinedWeigh DEF w, J
<1> QED  BY <1>12, <1>13, <1>14 DEF r

-----------------------------------------------------------------------------
(* FiguresAgree: a source as a filter, the reports, the customers *)

\* A nullable mark that is set is one of its two values.
LEMMA OneOrOther ==
  ASSUME NEW x, NEW t, NEW f, t # f, x \subseteq {t, f}, \A v, w \in x : v = w
  PROVE  x = {f} <=> x # {} /\ x # {t}
OBVIOUS

\* The bucket of the orders that are not taken away.
LEMMA BucketOfSource ==
  ASSUME NEW o
  PROVE  1 = SourceBucket(o) <=> o.delivery # {TRUE}
<1>1. 1 # 2  OBVIOUS
<1> QED  BY <1>1, Zenon DEF SourceBucket

\* The orders that a filter keeps are those of the bucket with its name.
LEMMA InStoreIsBucket ==
  ASSUME NEW os, IsOrders(os), NEW scope, scope.source = "in_store", NEW period,
         scope \in [profile : Int, branches : SUBSET Int,
                    source : {"any", "takeaway", "in_store"}]
  PROVE  LET unfiltered == [scope EXCEPT !.source = "any"]
             S == Chosen(os, scope, period)
             T == {i \in Chosen(os, unfiltered, period) : os[i].delivery # {}}
             rows == Statement(os, "sales_total", "source", T)
         IN  IF 1 \in DOMAIN rows
               THEN Same(rows[1], Whole(Aggregate(os, "sales_total", S)))
               ELSE S = {}
<1> DEFINE unfiltered == [scope EXCEPT !.source = "any"]
           S == Chosen(os, scope, period)
           T == {i \in Chosen(os, unfiltered, period) : os[i].delivery # {}}
           rows == Statement(os, "sales_total", "source", T)
<1>1. /\ unfiltered.source = "any" /\ unfiltered.profile = scope.profile
      /\ unfiltered.branches = scope.branches
  OBVIOUS
<1> HIDE DEF unfiltered
<1>2. T \in SUBSET DOMAIN os /\ S \in SUBSET DOMAIN os  BY DEF Chosen
<1>3. \A i \in DOMAIN os : i \in S <=> i \in T /\ os[i].delivery # {TRUE}
  <2> SUFFICES ASSUME NEW i \in DOMAIN os
               PROVE  i \in S <=> i \in T /\ os[i].delivery # {TRUE}
    OBVIOUS
  <2> DEFINE x == os[i].delivery
  <2>1. x = {FALSE} <=> x # {} /\ x # {TRUE}
    <3>1. x \subseteq BOOLEAN /\ \A v, w \in x : v = w
      BY DEF IsOrders, IsRow, Nullable
    <3> HIDE DEF x
    <3>2. x \subseteq {TRUE, FALSE} /\ TRUE # FALSE  BY <3>1, Zenon
    <3> QED  BY <3>1, <3>2, OneOrOther, Zenon
  <2>2. Passes(os[i], scope, period) <=> Passes(os[i], unfiltered, period) /\ x = {FALSE}
    <3>1. (scope.source = "takeaway") = FALSE  OBVIOUS
    <3>2. Passes(os[i], scope, period)
            <=> /\ Passes(os[i], unfiltered, period)
                /\ x = {scope.source = "takeaway"}
      BY <1>1 DEF Passes
    <3> QED  BY <3>1, <3>2, Zenon
  <2> HIDE DEF x
  <2>3. i \in S <=> Passes(os[i], scope, period)  BY DEF Chosen
  <2>4. i \in T <=> Passes(os[i], unfiltered, period) /\ x # {}  BY DEF Chosen, x
  <2> QED  BY <2>1, <2>2, <2>3, <2>4, Zenon DEF x
<1>4. "source" \in Single /\ "source" \in Dims  BY DEF Single, Dims
<1>5. Joined(os, "sales_total", T) = T  BY JoinedAll
<1>6. rows = [b \in BucketsIn(os, T, "source")
                |-> Whole(Aggregate(os, "sales_total", In(os, T, "source", b)))]
  <2> HIDE DEF T
  <2>1. "source" \in Single \ {"none"}  BY <1>4
  <2> QED  BY <1>4, <1>5, <2>1, StatementRows
<1> HIDE DEF T, S
<1>7. \A i \in DOMAIN os : BucketsOf(os[i], "source") = {SourceBucket(os[i])}
  BY DEF BucketsOf
<1>8. In(os, T, "source", 1) = S
  <2>1. ASSUME NEW i \in T
        PROVE  1 \in BucketsOf(os[i], "source") <=> os[i].delivery # {TRUE}
    <3>1. BucketsOf(os[i], "source") = {SourceBucket(os[i])}  BY <1>2, <1>7
    <3>2. 1 \in BucketsOf(os[i], "source") <=> 1 = SourceBucket(os[i])  BY <3>1
    <3> QED  BY <3>2, BucketOfSource, Zenon
  <2> QED  BY <1>2, <1>3, <2>1 DEF In
<1>9. CASE 1 \in DOMAIN rows
  <2>1. rows[1] = Whole(Aggregate(os, "sales_total", S))  BY <1>6, <1>8, <1>9
  <2>2. Aggregate(os, "sales_total", S) \in Int  BY <1>2, AggregateIsSum, LiveMetrics
  <2> HIDE DEF rows
  <2> QED  BY <1>9, <2>1, <2>2, SameWhole DEF S, T, unfiltered, rows
<1>10. CASE 1 \notin DOMAIN rows
  <2>1. 1 \notin BucketsIn(os, T, "source")  BY <1>6, <1>10
  <2>2. S = {}  BY <1>8, <2>1 DEF In, BucketsIn
  <2> HIDE DEF rows
  <2> QED  BY <1>10, <2>2 DEF S, T, unfiltered, rows
<1> QED  BY <1>9, <1>10

\* A customer is counted once, and has an order.
LEMMA CustomersOnce ==
  ASSUME NEW os, IsOrders(os), NEW S \in SUBSET DOMAIN os
  PROVE  /\ CustomerSummary(os, S).total_order_count = Aggregate(os, "order_count", S)
         /\ CustomerSummary(os, S).unique_clients
              <= CustomerSummary(os, S).identified_order_count
<1> DEFINE identified == {i \in S : os[i].client # {}}
           clients == UNION {os[i].client : i \in S}
           k == [i \in identified |-> CHOOSE c \in os[i].client : TRUE]
<1>1. CustomerSummary(os, S).total_order_count = Cardinality(S)  BY DEF CustomerSummary
<1>2. Aggregate(os, "order_count", S) = Cardinality(S)  BY DEF Aggregate
<1>3. /\ CustomerSummary(os, S).unique_clients = Cardinality(clients)
      /\ CustomerSummary(os, S).identified_order_count = Cardinality(identified)
  BY DEF CustomerSummary
<1>4. IsFiniteSet(identified)
  <2>1. IsFiniteSet(S)  BY ItemRowsFinite
  <2>2. identified \in SUBSET S  OBVIOUS
  <2> HIDE DEF identified
  <2> QED  BY <2>1, <2>2, FS_Subset
<1>5. \A i \in identified : k[i] \in os[i].client /\ k[i] \in clients  OBVIOUS
<1>6. ASSUME NEW c \in clients PROVE \E i \in identified : k[i] = c
  <2>1. PICK i \in S : c \in os[i].client  OBVIOUS
  <2>2. i \in identified  BY <2>1
  <2>3. \A v, w \in os[i].client : v = w  BY DEF IsOrders, IsRow, Nullable
  <2> QED  BY <1>5, <2>1, <2>2, <2>3
<1>7. k \in Surjection(identified, clients)
  <2>1. k = [i \in identified |-> k[i]]  OBVIOUS
  <2> HIDE DEF k, identified, clients
  <2> QED  BY <1>5, <1>6, <2>1 DEF Surjection
<1> HIDE DEF k, identified, clients
<1>8. Cardinality(clients) <= Cardinality(identified)  BY <1>4, <1>7, FS_Surjection
<1> QED  BY <1>1, <1>2, <1>3, <1>8

-----------------------------------------------------------------------------
(* FiguresAgree: the reports, the items *)

\* A report is of the whole profile.
Wide(scope) == [scope EXCEPT !.branches = {}, !.source = "any"]

\* A report of the sales is their total over the whole profile.
LEMMA ReportedTotal ==
  ASSUME NEW os, NEW scope, scope.source = "any", NEW period,
         scope \in [profile : Int, branches : SUBSET Int,
                    source : {"any", "takeaway", "in_store"}]
  PROVE  ReportRows(os, "sales_total", scope, period)[Everything]
           = Whole(Aggregate(os, "sales_total", Chosen(os, Wide(scope), period)))
<1>1. [scope EXCEPT !.branches = {}] = Wide(scope)  BY DEF Wide
<1> QED  BY <1>1 DEF ReportRows

\* A report by source adds up to that total.
LEMMA ReportedSources ==
  ASSUME NEW os, IsOrders(os), NEW scope, scope.source = "any", NEW period,
         scope \in [profile : Int, branches : SUBSET Int,
                    source : {"any", "takeaway", "in_store"}]
  PROVE  SumOf(ReportRows(os, "sales_by_source", scope, period))
           = Whole(Aggregate(os, "sales_total", Chosen(os, Wide(scope), period)))
<1> DEFINE of == [scope EXCEPT !.branches = {}]
           S == Chosen(os, Wide(scope), period)
           rows == Statement(os, "sales_total", "source", S)
           r == ReportRows(os, "sales_by_source", scope, period)
           B == BucketsIn(os, S, "source")
           c == [b \in B |-> Aggregate(os, "sales_total", In(os, S, "source", b))]
           a == [b \in {1, 2} |-> IF b \in B THEN c[b] ELSE 0]
<1>1. of = Wide(scope) /\ of.source = "any"  BY DEF Wide
<1>2. r = [b \in {1, 2} |-> IF b \in DOMAIN rows THEN rows[b] ELSE Whole(0)]
  <2>1. r = [b \in CASE of.source = "any" -> {1, 2} [] of.source = "takeaway" -> {2}
                     [] OTHER -> {1}
               |-> IF b \in DOMAIN Statement(os, "sales_total", "source", Chosen(os, of, period))
                     THEN Statement(os, "sales_total", "source", Chosen(os, of, period))[b]
                     ELSE Whole(0)]
    BY DEF ReportRows
  <2> HIDE DEF of, r
  <2>2. (CASE of.source = "any" -> {1, 2} [] of.source = "takeaway" -> {2} [] OTHER -> {1})
          = {1, 2}
    BY <1>1
  <2> QED  BY <1>1, <2>1, <2>2, Zenon
<1>3. S \in SUBSET DOMAIN os  BY ChosenIn
<1> HIDE DEF S, of
<1>4. "source" \in Single \ {"none"} /\ "source" \in Dims /\ "sales_total" \in LiveBaseMetrics
  BY LiveMetrics DEF Single, Dims
<1>5. Joined(os, "sales_total", S) = S  BY JoinedAll
<1>6. rows = [b \in B |-> Whole(Aggregate(os, "sales_total", In(os, S, "source", b)))]
  BY <1>4, <1>5, StatementRows
<1>7. B \subseteq {1, 2}
  BY DEF BucketsIn, BucketsOf, SourceBucket
<1>8. IsFiniteSet(B)  BY <1>3, <1>4, BucketsInFinite
<1>9. \A b \in B : c[b] \in Int /\ rows[b] = Whole(c[b])
  <2> SUFFICES ASSUME NEW b \in B PROVE c[b] \in Int /\ rows[b] = Whole(c[b])  OBVIOUS
  <2>1. In(os, S, "source", b) \in SUBSET DOMAIN os  BY <1>3, InType
  <2>2. Aggregate(os, "sales_total", In(os, S, "source", b)) \in Int
    BY <1>4, <2>1, AggregateIsSum
  <2> QED  BY <1>6, <2>2
<1>10. DOMAIN rows = B  BY <1>6
<1>11. SumOf(rows) = Whole(Aggregate(os, "sales_total", S))
  <2> HIDE DEF rows
  <2> QED  BY <1>3, <1>4, SumOfBreakdown DEF rows
<1> HIDE DEF rows, B, c, r
<1>12. \A b \in {1, 2} : a[b] \in Int /\ r[b] = Whole(a[b])  BY <1>2, <1>9, <1>10
<1>13. /\ \A b \in B : a[b] = c[b]
       /\ \A b \in {1, 2} \ B : a[b] = 0
  BY <1>7
<1>14. DOMAIN r = {1, 2}  BY <1>2
<1> HIDE DEF a
<1>15. IntegerOn(a, {1, 2}) /\ IntegerOn(c, B) /\ IntegerOn(a, B)
  BY <1>7, <1>9, <1>12 DEF IntegerOn
<1>16. IsFiniteSet({1, 2})  BY AtMostTwo
<1>17. SumOf(r) = Whole(SumFunctionOnSet(a, {1, 2}))
  <2> DEFINE D == {1, 2}
  <2>1. IsFiniteSet(D) /\ IntegerOn(a, D) /\ DOMAIN r = D /\ \A b \in D : r[b] = Whole(a[b])
    BY <1>12, <1>14, <1>15, <1>16
  <2> HIDE DEF D
  <2>2. SumOf(r) = Whole(SumFunctionOnSet(a, D))  BY <2>1, SumOfWholes
  <2> QED  BY <2>2 DEF D
<1>18. SumFunctionOnSet(a, {1, 2}) = SumFunctionOnSet(a, B)
  <2> DEFINE D == {1, 2}
  <2>1. IsFiniteSet(D) /\ IntegerOn(a, D) /\ B \in SUBSET D /\ \A b \in D \ B : a[b] = 0
    BY <1>7, <1>13, <1>15, <1>16
  <2> HIDE DEF D
  <2>2. SumFunctionOnSet(a, D) = SumFunctionOnSet(a, B)  BY <2>1, SumPart
  <2> QED  BY <2>2 DEF D
<1>19. SumFunctionOnSet(a, B) = SumFunctionOnSet(c, B)  BY <1>8, <1>13, <1>15, SumSame
<1>20. SumOf(rows) = Whole(SumFunctionOnSet(c, B))  BY <1>8, <1>9, <1>10, <1>15, SumOfWholes
<1> QED  BY <1>11, <1>17, <1>18, <1>19, <1>20 DEF S, r

\* The lines of the orders, sorted by what is on them.
LEMMA QuantityBy ==
  ASSUME NEW os, IsOrders(os), NEW S \in SUBSET DOMAIN os, NEW k, NEW B, IsFiniteSet(B),
         \A r \in ItemRows(os, S) : k[r] \in B,
         NEW g, \A b \in B : g[b] = QuantitySold(os, Fiber(k, ItemRows(os, S), b))
  PROVE  /\ IntegerOn(g, B)
         /\ SumFunctionOnSet(g, B) = Aggregate(os, "quantity_sold", S)
<1> DEFINE R == ItemRows(os, S)
           q == [r \in R |-> ItemOf(os, r).quantity]
<1>1. IsFiniteSet(R) /\ \A r \in R : ItemOf(os, r) \in Lines  BY ItemRowsFinite
<1>2. Aggregate(os, "quantity_sold", S) = QuantitySold(os, R)  BY DEF Aggregate
<1>3. QuantitySold(os, R) = SumFunctionOnSet(q, R)  BY DEF QuantitySold, SumFunction
<1>4. \A r \in R : q[r] = ItemOf(os, r).quantity /\ q[r] \in Int  BY <1>1 DEF Lines
<1> HIDE DEF R, q
<1>5. IntegerOn(q, R)  BY <1>4 DEF IntegerOn
<1>6. ASSUME NEW b \in B
      PROVE  g[b] = SumFunctionOnSet(q, Fiber(k, R, b)) /\ g[b] \in Int
  <2> DEFINE T == Fiber(k, R, b)
             f == [r \in T |-> ItemOf(os, r).quantity]
  <2>1. T = {r \in R : k[r] = b}  BY DEF Fiber
  <2>2. T \in SUBSET R  BY <2>1
  <2>3. g[b] = SumFunctionOnSet(f, T)
    BY <2>1 DEF QuantitySold, SumFunction, R
  <2>4. IsFiniteSet(T)  BY <1>1, <2>2, FS_Subset
  <2>5. \A r \in T : f[r] = q[r] /\ f[r] \in Int  BY <1>4, <2>2
  <2> HIDE DEF f, T
  <2>6. IntegerOn(f, T)  BY <2>5 DEF IntegerOn
  <2>7. SumFunctionOnSet(f, T) = SumFunctionOnSet(q, T)  BY <2>4, <2>5, <2>6, SumSame
  <2>8. SumFunctionOnSet(f, T) \in Int  BY <2>4, <2>6, SumType
  <2> QED  BY <2>3, <2>7, <2>8 DEF T
<1>7. \A r \in R : k[r] \in B  BY DEF R
<1>8. SumFunctionOnSet(g, B) = SumFunctionOnSet(q, R)
  BY <1>1, <1>5, <1>6, <1>7, SumFibers
<1> QED  BY <1>2, <1>3, <1>6, <1>8 DEF IntegerOn

\* The quantities of the categories add up to the total.
LEMMA CategoryQuantity ==
  ASSUME NEW os, IsOrders(os), NEW S \in SUBSET DOMAIN os
  PROVE  SumOf(Statement(os, "quantity_sold", "category", S))
           = Whole(Aggregate(os, "quantity_sold", S))
<1> DEFINE J == Joined(os, "quantity_sold", S)
           B == BucketsIn(os, J, "category")
           R == ItemRows(os, S)
           k == [r \in R |-> ItemOf(os, r).category]
           g == [b \in B |-> QuantitySold(os, CategoryRows(os, S, b))]
           rows == Statement(os, "quantity_sold", "category", S)
<1>1. "category" \in Dims  BY DEF Dims
<1>2. J \in SUBSET S /\ J \in SUBSET DOMAIN os  BY JoinedIn
<1>3. rows = [b \in B |-> CategoryFigure(os, "quantity_sold", S, b)]  BY <1>1, StatementRows
<1>4. \A b \in B : rows[b] = Whole(g[b])
  <2>1. \A b \in B : CategoryFigure(os, "quantity_sold", S, b)
                       = Whole(QuantitySold(os, CategoryRows(os, S, b)))
    BY CategoryFigureIs
  <2> QED  BY <1>3, <2>1
<1>5. DOMAIN rows = B  BY <1>3
<1>6. ASSUME NEW r \in R PROVE k[r] \in B
  <2>1. r[1] \in S /\ r[2] \in DOMAIN os[r[1]].items  BY ItemRowsFinite
  <2>2. os[r[1]].items # << >>  BY <2>1
  <2>3. r[1] \in J  BY <2>1, <2>2 DEF Joined
  <2>4. k[r] = os[r[1]].items[r[2]].category  BY DEF ItemOf
  <2>5. k[r] \in BucketsOf(os[r[1]], "category")  BY <2>1, <2>4 DEF BucketsOf
  <2> HIDE DEF J, k
  <2> QED  BY <2>3, <2>5 DEF BucketsIn
<1>7. \A b \in B : g[b] = QuantitySold(os, Fiber(k, ItemRows(os, S), b))
  <2>1. \A b \in B : CategoryRows(os, S, b) = Fiber(k, R, b)  BY DEF CategoryRows, Fiber
  <2> QED  BY <2>1
<1> HIDE DEF J
<1>8. IsFiniteSet(B)  BY <1>1, <1>2, BucketsInFinite
<1> HIDE DEF B, k, g, rows
<1>9. IntegerOn(g, B) /\ SumFunctionOnSet(g, B) = Aggregate(os, "quantity_sold", S)
  BY <1>6, <1>7, <1>8, QuantityBy
<1>10. SumOf(rows) = Whole(SumFunctionOnSet(g, B))
  <2>1. IntegerOn(g, B)  BY <1>9
  <2> QED  BY <1>4, <1>5, <1>8, <2>1, SumOfWholes
<1> QED  BY <1>9, <1>10 DEF rows

ItemsIn(os, S) == {ItemOf(os, r).item : r \in ItemRows(os, S)}

\* What each item has sold, and the best of them.
ItemValues(os, S, metric, find, exclude) ==
  LET rows == {r \in ItemRows(os, S) : ItemsKept(find, exclude, ItemOf(os, r).item)}
  IN  [n \in {ItemOf(os, r).item : r \in rows} |->
         ItemFigure(os, metric, {r \in rows : ItemOf(os, r).item = n})]

BestItems(value, mode, limit) ==
  LET Before(m, n) == \/ IF mode = "top_k" THEN value[m] > value[n] ELSE value[m] < value[n]
                      \/ value[m] = value[n] /\ m < n
      order == InOrder(DOMAIN value, Before)
      told == SubSeq(order, 1, IF limit < Len(order) THEN limit ELSE Len(order))
  IN  [i \in DOMAIN told |-> <<told[i], value[told[i]]>>]

\* The performance of the items, with their values named.
LEMMA ItemPerformanceIs ==
  ASSUME NEW os, NEW S, NEW metric, NEW mode, NEW limit, NEW find, NEW exclude
  PROVE  ItemPerformance(os, S, metric, mode, limit, find, exclude)
           = BestItems(ItemValues(os, S, metric, find, exclude), mode, limit)
BY DEF ItemPerformance, BestItems, ItemValues

\* The items, all of them, by how many were sold.
LEMMA ItemsSold ==
  ASSUME NEW os, IsOrders(os), NEW S \in SUBSET DOMAIN os
  PROVE  LET sold == ItemPerformance(os, S, "quantity_sold", "top_k",
                                     Cardinality(ItemsIn(os, S)), {}, {})
         IN  SumFunction([i \in DOMAIN sold |-> sold[i][2]]) = Aggregate(os, "quantity_sold", S)
<1> DEFINE R == ItemRows(os, S)
           B == ItemsIn(os, S)
           n == Cardinality(B)
           k == [r \in R |-> ItemOf(os, r).item]
           value == [b \in B |-> QuantitySold(os, {r \in R : ItemOf(os, r).item = b})]
           Goes(a, b) == value[a] > value[b] \/ (value[a] = value[b] /\ a < b)
           rel == {p \in B \X B : Goes(p[1], p[2])}
           order == CHOOSE q \in SetToSeqs(B) : \A i, j \in 1..Len(q) : i < j => Goes(q[i], q[j])
           sold == ItemPerformance(os, S, "quantity_sold", "top_k", n, {}, {})
           f == [i \in DOMAIN sold |-> sold[i][2]]
<1>1. IsFiniteSet(R) /\ \A r \in R : ItemOf(os, r) \in Lines  BY ItemRowsFinite
<1>2. \A r \in R : k[r] = ItemOf(os, r).item /\ k[r] \in Int /\ k[r] \in B
  BY <1>1 DEF Lines, ItemsIn
<1>3. B = {k[r] : r \in R}  BY DEF ItemsIn
<1>4. IsFiniteSet(B) /\ B \subseteq Int
  <2>1. B \subseteq Int  BY <1>2, <1>3
  <2> HIDE DEF k, R, B
  <2>2. IsFiniteSet({k[r] : r \in R})  BY <1>1, ImageFinite
  <2> QED  BY <1>3, <2>1, <2>2
<1>5. \A b \in B : value[b] = QuantitySold(os, Fiber(k, ItemRows(os, S), b))
  <2>1. \A b \in B : {r \in R : ItemOf(os, r).item = b} = Fiber(k, R, b)  BY DEF Fiber
  <2> HIDE DEF k
  <2> QED  BY <2>1
<1>6. sold = LET told == SubSeq(order, 1, IF n < Len(order) THEN n ELSE Len(order))
             IN  [i \in DOMAIN told |-> <<told[i], value[told[i]]>>]
  <2> DEFINE V == ItemValues(os, S, "quantity_sold", {}, {})
  <2>1. V = value
    <3>1. {r \in R : ItemsKept({}, {}, ItemOf(os, r).item)} = R  BY DEF ItemsKept
    <3>2. V = [b \in {ItemOf(os, r).item : r \in R} |->
                 ItemFigure(os, "quantity_sold", {r \in R : ItemOf(os, r).item = b})]
      BY <3>1 DEF ItemValues
    <3>3. \A rows : ItemFigure(os, "quantity_sold", rows) = QuantitySold(os, rows)
      BY DEF ItemFigure
    <3> QED  BY <3>2, <3>3 DEF ItemsIn
  <2>2. sold = BestItems(V, "top_k", n)  BY ItemPerformanceIs
  <2>3. DOMAIN value = B  OBVIOUS
  <2> HIDE DEF value, V, sold, n, B, R
  <2>4. sold = BestItems(value, "top_k", n)  BY <2>1, <2>2
  <2>5. BestItems(value, "top_k", n)
          = LET told == SubSeq(order, 1, IF n < Len(order) THEN n ELSE Len(order))
            IN  [i \in DOMAIN told |-> <<told[i], value[told[i]]>>]
    BY <2>3 DEF BestItems, InOrder, IsSorted
  <2> QED  BY <2>4, <2>5, Zenon
<1> HIDE DEF k
<1>7. IntegerOn(value, B) /\ SumFunctionOnSet(value, B) = Aggregate(os, "quantity_sold", S)
  <2>1. \A r \in ItemRows(os, S) : k[r] \in B  BY <1>2
  <2>2. IsFiniteSet(B)  BY <1>4
  <2> HIDE DEF value, B, R
  <2> QED  BY <1>5, <2>1, <2>2, QuantityBy
<1> HIDE DEF value, B
<1>8. \A b \in B : value[b] \in Int /\ b \in Int  BY <1>4, <1>7 DEF IntegerOn
<1>9. IsOrder(rel, B)
  <2>1. \A a, b, c \in B : Goes(a, b) /\ Goes(b, c) => Goes(a, c)  BY <1>8
  <2>2. \A a, b \in B : a # b => Goes(a, b) \/ Goes(b, a)  BY <1>8
  <2>3. \A a, b \in B : <<a, b>> \in rel <=> Goes(a, b)  OBVIOUS
  <2> HIDE DEF Goes, rel
  <2> QED  BY <2>1, <2>2, <2>3 DEF IsOrder
<1>10. \A a, b \in B : <<a, b>> \in rel => Goes(a, b)  OBVIOUS
<1> HIDE DEF rel
<1>11. \E q \in SetToSeqs(B) : \A i, j \in 1..Len(q) : i < j => Goes(q[i], q[j])
  <2>1. PICK q \in SetToSeqs(B) : \A i, j \in 1..Len(q) : i < j => <<q[i], q[j]>> \in rel
    BY <1>4, <1>9, OrderExists
  <2>2. q \in [1..n -> B] /\ Len(q) = n  BY <1>4, InSequence
  <2> HIDE DEF Goes
  <2>3. \A i, j \in 1..Len(q) : i < j => Goes(q[i], q[j])  BY <1>10, <2>1, <2>2
  <2> QED  BY <2>3
<1>12. order \in SetToSeqs(B)
  <2> HIDE DEF Goes
  <2> QED  BY <1>11
<1> HIDE DEF order, sold
<1>13. /\ n \in Nat /\ order \in [1..n -> B] /\ Len(order) = n /\ ToSet(order) = B
       /\ \A i, j \in 1..n : order[i] = order[j] => i = j
  BY <1>4, <1>12, InSequence
<1> HIDE DEF n
<1>14. SubSeq(order, 1, IF n < Len(order) THEN n ELSE Len(order)) = order
  BY <1>13
<1>15. /\ DOMAIN sold = 1..n
       /\ \A i \in 1..n : sold[i] = <<order[i], value[order[i]]>>
  <2>1. sold = [i \in DOMAIN order |-> <<order[i], value[order[i]]>>]  BY <1>6, <1>14
  <2>2. DOMAIN order = 1..n  BY <1>13
  <2> QED  BY <2>1, <2>2
<1>16. DOMAIN f = 1..n /\ \A i \in 1..n : f[i] = value[order[i]] /\ f[i] \in Int
  BY <1>8, <1>13, <1>15
<1> HIDE DEF f
<1>17. SumFunction(f) = SumFunctionOnSet(f, 1..n)  BY <1>16 DEF SumFunction
<1>18. {order[i] : i \in 1..n} = B
  <2>1. ToSet(order) = {order[i] : i \in DOMAIN order} /\ DOMAIN order = 1..n
    BY <1>13 DEF ToSet
  <2> QED  BY <1>13, <2>1
<1>19. SumFunctionOnSet(value, {order[i] : i \in 1..n}) = SumFunctionOnSet(f, 1..n)
  <2>1. IsFiniteSet(1..n) /\ IntegerOn(f, 1..n)  BY <1>13, <1>16, FS_Interval DEF IntegerOn
  <2> QED  BY <1>13, <1>16, <2>1, SumRenamed
<1> QED  BY <1>7, <1>17, <1>18, <1>19 DEF f, sold, n, B

-----------------------------------------------------------------------------
(* FiguresAgree: the sales of the categories *)

Multiple(D, G, s) == \A i \in s : G[i] # 0 => \E c \in Int : D = c * G[i]

\* A multiple of a number is one of its multiples.
LEMMA MultipleGrows ==
  ASSUME NEW D \in Int, NEW c \in Int, NEW g \in Int, NEW x \in Int, D = c * g
  PROVE  D * x = (c * x) * g
OBVIOUS

\* Numbers that are not zero have a common multiple that is not.
LEMMA CommonMultiple ==
  ASSUME NEW S, IsFiniteSet(S), NEW G, IntegerOn(G, S)
  PROVE  \E D \in Int : D # 0 /\ Multiple(D, G, S)
<1> DEFINE Good(s) == \E D \in Int : D # 0 /\ Multiple(D, G, s)
           F == {s \in SUBSET S : Good(s)}
<1>1. F \in SUBSET SUBSET S  OBVIOUS
<1>2. {} \in F
  <2>1. 1 # 0 /\ Multiple(1, G, {})  BY DEF Multiple
  <2>2. Good({})  BY <2>1
  <2> QED  BY <2>2
<1>3. ASSUME NEW s \in F, NEW x \in S \ s PROVE s \cup {x} \in F
  <2>1. PICK D \in Int : D # 0 /\ Multiple(D, G, s)  OBVIOUS
  <2>2. G[x] \in Int /\ \A i \in s : G[i] \in Int  BY DEF IntegerOn
  <2>3. CASE G[x] = 0
    <3>1. Multiple(D, G, s \cup {x})  BY <2>1, <2>3 DEF Multiple
    <3> QED  BY <2>1, <3>1
  <2>4. CASE G[x] # 0
    <3> DEFINE E == D * G[x]
    <3>1. E \in Int /\ E # 0  BY <2>1, <2>2, <2>4, NoZeroDivisors
    <3>2. ASSUME NEW i \in s, G[i] # 0 PROVE \E c \in Int : E = c * G[i]
      <4>1. PICK c \in Int : D = c * G[i]  BY <2>1, <3>2 DEF Multiple
      <4>2. E = (c * G[x]) * G[i]  BY <2>2, <4>1, MultipleGrows
      <4>3. c * G[x] \in Int  BY <2>2
      <4> HIDE DEF E
      <4> QED  BY <4>2, <4>3
    <3>3. E = D * G[x]  OBVIOUS
    <3> HIDE DEF E
    <3>4. Multiple(E, G, s \cup {x})  BY <2>1, <3>2, <3>3 DEF Multiple
    <3>5. Good(s \cup {x})  BY <3>1, <3>4
    <3> QED  BY <3>5
  <2> QED  BY <2>3, <2>4
<1> HIDE DEF F
<1>4. \A s \in SUBSET S : s \in F  BY <1>1, <1>2, <1>3, SetsFrom
<1>5. S \in F  BY <1>4
<1> QED  BY <1>5 DEF F

\* What a line is given, as a part of D.
LEMMA LineShare ==
  ASSUME NEW o, IsRow(o), NEW line \in Lines, NEW D \in Int, NEW q \in Int,
         GrossOf(o) # 0 => D = q * GrossOf(o), GrossOf(o) = 0 => q = 0
  PROVE  LET x == AllocatedSales(o, line)
             a == (SalesOf(o) * q) * line.gross
         IN  a \in Int /\ x[1] * D = a * x[2]
<1> DEFINE s == SalesOf(o)
           g == GrossOf(o)
           l == line.gross
           x == AllocatedSales(o, line)
           a == (s * q) * l
<1>1. s \in Int /\ g \in Int /\ l \in Int  BY RowType, GrossType DEF Lines
<1>2. x = IF g = 0 THEN <<0, 1>> ELSE <<s * l, g>>  BY DEF AllocatedSales, Whole
<1>3. g # 0 => D = q * g  OBVIOUS
<1>4. g = 0 => q = 0  OBVIOUS
<1> HIDE DEF s, g, l, x
<1>5. a \in Int  BY <1>1
<1>6. CASE g = 0
  <2>1. q = 0 /\ x[1] = 0 /\ x[2] = 1  BY <1>2, <1>4, <1>6
  <2>2. a = 0  BY <1>1, <2>1
  <2> QED  BY <2>1, <2>2, <1>5 DEF s, l, x
<1>7. CASE g # 0
  <2>1. D = q * g /\ x[1] = s * l /\ x[2] = g  BY <1>2, <1>3, <1>7
  <2>2. (s * l) * (q * g) = ((s * q) * l) * g  BY <1>1
  <2> QED  BY <1>5, <2>1, <2>2 DEF s, l, x
<1> QED  BY <1>6, <1>7

\* The lines of one order are given its sales, if they cost anything.
LEMMA OrderShare ==
  ASSUME NEW o, IsRow(o), NEW D \in Int, NEW q \in Int,
         GrossOf(o) # 0 => D = q * GrossOf(o), GrossOf(o) = 0 => q = 0,
         NEW h, \A l \in DOMAIN o.items : h[l] = (SalesOf(o) * q) * o.items[l].gross
  PROVE  SumFunctionOnSet(h, DOMAIN o.items) = IF GrossOf(o) = 0 THEN 0 ELSE D * SalesOf(o)
<1> DEFINE L == DOMAIN o.items
           s == SalesOf(o)
           g == GrossOf(o)
           c == s * q
<1>1. s \in Int /\ g \in Int /\ c \in Int  BY RowType, GrossType
<1>2. IsFiniteSet(L)  BY LinesFinite
<1>3. g = SumFunctionOnSet(GrossLines(o), L) /\ IntegerOn(GrossLines(o), L)  BY GrossType
<1>4. \A l \in L : h[l] = c * GrossLines(o)[l]  BY DEF GrossLines
<1>5. (g # 0 => D = q * g) /\ (g = 0 => q = 0)  OBVIOUS
<1>6. c = s * q  OBVIOUS
<1> HIDE DEF L, s, g, c
<1>7. SumFunctionOnSet(h, L) = c * SumFunctionOnSet(GrossLines(o), L)
  BY <1>1, <1>2, <1>3, <1>4, SumScaled
<1>8. SumFunctionOnSet(h, L) = c * g  BY <1>3, <1>7
<1>9. g # 0 => c * g = D * s
  <2>1. (s * q) * g = (q * g) * s  BY <1>1
  <2> QED  BY <1>5, <1>6, <2>1
<1>10. g = 0 => c * g = 0  BY <1>1
<1> QED  BY <1>8, <1>9, <1>10 DEF L, s, g

\* A factor that is not zero is left out on both sides.
LEMMA Cancelled ==
  ASSUME NEW D \in Int, D # 0, NEW x \in Int, NEW n \in Int, NEW y \in Int,
         x * D = (D * n) * y
  PROVE  x = n * y
<1> DEFINE e == x - n * y
<1>1. e \in Int  OBVIOUS
<1>2. e * D = 0
  <2>1. e * D = x * D - (D * n) * y  OBVIOUS
  <2>2. x * D \in Int /\ (D * n) * y \in Int  OBVIOUS
  <2> QED  BY <2>1, <2>2
<1> HIDE DEF e
<1>3. e = 0  BY <1>1, <1>2, NoZeroDivisors
<1> QED  BY <1>3 DEF e

(* The sales that allocated_sales shares out among the lines of an order,   *)
(* added up by category, are those of the orders whose lines cost           *)
(* something; the others are lost (live_analytics.py:680-745).              *)
THEOREM CategorySales ==
  ASSUME NEW os, IsOrders(os), NEW S \in SUBSET DOMAIN os
  PROVE  Same(SumOf(Statement(os, "sales_total", "category", S)),
              Whole(Aggregate(os, "sales_total", {i \in S : GrossOf(os[i]) # 0})))
<1> DEFINE R == ItemRows(os, S)
           G == [i \in S |-> GrossOf(os[i])]
           P == {i \in S : GrossOf(os[i]) # 0}
           B == BucketsIn(os, S, "category")
           k == [r \in R |-> ItemOf(os, r).category]
           L == LinesOf(os, S)
           w == Weights(os, "sales_total")
           rows == Statement(os, "sales_total", "category", S)
           X == SumOf(rows)
           N == Aggregate(os, "sales_total", P)
<1>1. IsFiniteSet(S) /\ IsFiniteSet(R) /\ R = Pairs(S, L)  BY ItemRowsFinite
<1>2. ASSUME NEW i \in S
      PROVE  /\ IsRow(os[i]) /\ G[i] = GrossOf(os[i]) /\ G[i] \in Int
             /\ L[i] = DOMAIN os[i].items /\ IsFiniteSet(L[i])
  <2>1. IsRow(os[i])  BY DEF IsOrders
  <2>2. GrossOf(os[i]) \in Int  BY <2>1, GrossType
  <2>3. L[i] = DOMAIN os[i].items  BY DEF LinesOf
  <2> QED  BY <2>1, <2>2, <2>3, LinesFinite
<1>3. \A r \in R : /\ r[1] \in S /\ r[2] \in DOMAIN os[r[1]].items
                   /\ r = <<r[1], r[2]>> /\ ItemOf(os, r) \in Lines
  BY ItemRowsFinite
<1>4. PICK D \in Int : D # 0 /\ Multiple(D, G, S)
  <2>1. IntegerOn(G, S)  BY <1>2 DEF IntegerOn
  <2> HIDE DEF G
  <2> QED  BY <1>1, <2>1, CommonMultiple
<1> DEFINE q == [i \in S |-> IF G[i] = 0 THEN 0 ELSE CHOOSE c \in Int : D = c * G[i]]
<1>5. ASSUME NEW i \in S
      PROVE  /\ q[i] \in Int
             /\ G[i] # 0 => D = q[i] * G[i]
             /\ G[i] = 0 => q[i] = 0
  <2> HIDE DEF G
  <2>1. G[i] # 0 => \E c \in Int : D = c * G[i]  BY <1>4 DEF Multiple
  <2>2. q[i] = IF G[i] = 0 THEN 0 ELSE CHOOSE c \in Int : D = c * G[i]  OBVIOUS
  <2> HIDE DEF q
  <2> QED  BY <2>1, <2>2
<1> HIDE DEF q
<1> DEFINE a == [r \in R |-> (SalesOf(os[r[1]]) * q[r[1]]) * ItemOf(os, r).gross]
           A == [b \in B |-> SumFunctionOnSet(a, Fiber(k, R, b))]
           h == [i \in S |-> [l \in L[i] |->
                                (SalesOf(os[i]) * q[i]) * os[i].items[l].gross]]
           g == [i \in S |-> SumFunctionOnSet(h[i], L[i])]
<1>6. ASSUME NEW r \in R
      PROVE  LET x == AllocatedSales(os[r[1]], ItemOf(os, r))
             IN  a[r] \in Int /\ x[1] * D = a[r] * x[2]
  <2> DEFINE o == os[r[1]]
             line == ItemOf(os, r)
             p == q[r[1]]
  <2>1. IsRow(o) /\ line \in Lines /\ p \in Int  BY <1>2, <1>3, <1>5
  <2>2. (GrossOf(o) # 0 => D = p * GrossOf(o)) /\ (GrossOf(o) = 0 => p = 0)
    BY <1>2, <1>3, <1>5
  <2>3. a[r] = (SalesOf(o) * p) * line.gross  OBVIOUS
  <2> HIDE DEF o, line, p, a
  <2>4. LET x == AllocatedSales(o, line)
            v == (SalesOf(o) * p) * line.gross
        IN  v \in Int /\ x[1] * D = v * x[2]
    BY <1>4, <2>1, <2>2, LineShare
  <2> QED  BY <2>3, <2>4 DEF o, line
<1>7. IntegerOn(a, R)
  <2> HIDE DEF a
  <2> QED  BY <1>6 DEF IntegerOn
<1>8. ASSUME NEW r \in R PROVE k[r] \in B
  <2>1. r[1] \in S /\ r[2] \in DOMAIN os[r[1]].items  BY <1>3
  <2>2. k[r] = os[r[1]].items[r[2]].category  BY DEF ItemOf
  <2>3. k[r] \in BucketsOf(os[r[1]], "category")  BY <2>1, <2>2 DEF BucketsOf
  <2> HIDE DEF k
  <2> QED  BY <2>1, <2>3 DEF BucketsIn
<1>9. IsFiniteSet(B)
  <2>1. "category" \in Dims  BY DEF Dims
  <2> QED  BY <2>1, BucketsInFinite
<1>10. DOMAIN rows = B /\ \A b \in B : rows[b] = SumOf(AllocatedTo(os, CategoryRows(os, S, b)))
  <2>1. "category" \in Dims  BY DEF Dims
  <2>2. Joined(os, "sales_total", S) = S  BY JoinedAll
  <2>3. rows = [b \in B |-> CategoryFigure(os, "sales_total", S, b)]
    BY <2>1, <2>2, StatementRows
  <2>4. \A b : CategoryFigure(os, "sales_total", S, b)
                 = SumOf([r \in CategoryRows(os, S, b) |->
                            AllocatedSales(os[r[1]], ItemOf(os, r))])
    BY CategoryFigureIs
  <2> QED  BY <2>3, <2>4 DEF AllocatedTo
<1>11. ASSUME NEW b \in B
       PROVE  rows[b] \in Frac /\ A[b] \in Int /\ rows[b][1] * D = A[b] * rows[b][2]
  <2> DEFINE T == Fiber(k, R, b)
             f == AllocatedTo(os, T)
  <2>1. CategoryRows(os, S, b) = T  BY DEF CategoryRows, Fiber
  <2>2. FractionsOn(f) /\ IsFiniteSet(T)  BY <2>1, AllocatedToType
  <2>3. T \in SUBSET R  BY DEF Fiber
  <2>4. DOMAIN f = T /\ \A r \in T : f[r] = AllocatedSales(os[r[1]], ItemOf(os, r))
    BY DEF AllocatedTo
  <2>5. rows[b] = SumOf(f)  BY <1>10, <2>1
  <2>6. A[b] = SumFunctionOnSet(a, T)  OBVIOUS
  <2> HIDE DEF T, f, a, R, rows, A
  <2>7. \A r \in T : f[r][1] * D = a[r] * f[r][2]  BY <1>6, <2>3, <2>4
  <2>8. IntegerOn(a, T)  BY <1>7, <2>3 DEF IntegerOn
  <2>9. SumOf(f) \in Frac /\ SumOf(f)[1] * D = SumFunctionOnSet(a, T) * SumOf(f)[2]
    BY <1>4, <2>2, <2>4, <2>7, <2>8, SumOfFractions
  <2>10. SumFunctionOnSet(a, T) \in Int  BY <2>2, <2>8, SumType
  <2> QED  BY <2>5, <2>6, <2>9, <2>10
<1> HIDE DEF rows
<1>12. X \in Frac /\ X[1] * D = SumFunctionOnSet(A, B) * X[2]
  <2>1. FractionsOn(rows)  BY <1>9, <1>10, <1>11 DEF FractionsOn
  <2> HIDE DEF A
  <2>2. IntegerOn(A, B)  BY <1>11 DEF IntegerOn
  <2> QED  BY <1>4, <1>10, <1>11, <2>1, <2>2, SumOfFractions
<1>13. SumFunctionOnSet(A, B) = SumFunctionOnSet(a, R)
  <2>1. \A b \in B : A[b] = SumFunctionOnSet(a, Fiber(k, R, b))  OBVIOUS
  <2> HIDE DEF A, a, k, B, R
  <2> QED  BY <1>1, <1>7, <1>8, <1>9, <2>1, SumFibers
<1>14. SumFunctionOnSet(a, R) = SumFunctionOnSet(g, S)
  <2>1. ASSUME NEW i \in S, NEW l \in L[i] PROVE h[i][l] = a[<<i, l>>]
    <3>1. <<i, l>> \in R  BY <1>1, PairsOf
    <3>2. ItemOf(os, <<i, l>>) = os[i].items[l]  BY DEF ItemOf
    <3> QED  BY <3>1, <3>2
  <2>2. \A i \in S : g[i] = SumFunctionOnSet(h[i], L[i])  OBVIOUS
  <2> HIDE DEF h, g, a, L, R
  <2>3. IntegerOn(a, Pairs(S, L))  BY <1>1, <1>7
  <2>4. \A i \in S : IsFiniteSet(L[i])  BY <1>2
  <2>5. SumFunctionOnSet(a, Pairs(S, L)) = SumFunctionOnSet(g, S)
    BY <1>1, <2>1, <2>2, <2>3, <2>4, SumPairs
  <2> QED  BY <1>1, <2>5
<1>15. P \in SUBSET S /\ P \in SUBSET DOMAIN os  OBVIOUS
<1>16. /\ \A i \in P : g[i] = D * w[i]
       /\ \A i \in S \ P : g[i] = 0
       /\ \A i \in P : w[i] \in Int
  <2> SUFFICES ASSUME NEW i \in S
               PROVE  /\ g[i] = IF GrossOf(os[i]) = 0 THEN 0 ELSE D * w[i]
                      /\ w[i] \in Int
    OBVIOUS
  <2>1. w[i] = SalesOf(os[i])  BY DEF Weights, Weight
  <2>2. \A l \in DOMAIN os[i].items : h[i][l] = (SalesOf(os[i]) * q[i]) * os[i].items[l].gross
    BY <1>2
  <2>3. g[i] = SumFunctionOnSet(h[i], DOMAIN os[i].items)  BY <1>2
  <2> HIDE DEF h, g, w
  <2>4. IsRow(os[i]) /\ q[i] \in Int
        /\ (GrossOf(os[i]) # 0 => D = q[i] * GrossOf(os[i])) /\ (GrossOf(os[i]) = 0 => q[i] = 0)
    BY <1>2, <1>5
  <2> HIDE DEF G
  <2>5. SumFunctionOnSet(h[i], DOMAIN os[i].items)
          = IF GrossOf(os[i]) = 0 THEN 0 ELSE D * SalesOf(os[i])
    BY <1>4, <2>2, <2>4, OrderShare
  <2>6. SalesOf(os[i]) \in Int  BY <2>4, RowType
  <2> QED  BY <2>1, <2>3, <2>5, <2>6
<1> HIDE DEF g, w, P
<1>17. IntegerOn(w, P) /\ IntegerOn(g, S)
  <2>1. IntegerOn(w, P)  BY <1>16 DEF IntegerOn
  <2>2. \A i \in P : D * w[i] \in Int  BY <1>4, <1>16
  <2> QED  BY <1>16, <2>1, <2>2 DEF IntegerOn
<1>18. SumFunctionOnSet(g, S) = SumFunctionOnSet(g, P)  BY <1>1, <1>15, <1>16, <1>17, SumPart
<1>19. IsFiniteSet(P)  BY <1>1, <1>15, FS_Subset
<1>20. SumFunctionOnSet(g, P) = D * SumFunctionOnSet(w, P)
  BY <1>4, <1>16, <1>17, <1>19, SumScaled
<1>21. N = SumFunctionOnSet(w, P) /\ N \in Int
  <2>1. "sales_total" \in LiveBaseMetrics  BY LiveMetrics
  <2> HIDE DEF N
  <2>2. Aggregate(os, "sales_total", P) = SumFunctionOnSet(Weights(os, "sales_total"), P)
        /\ Aggregate(os, "sales_total", P) \in Int
    BY <1>15, <2>1, AggregateIsSum
  <2> QED  BY <2>2 DEF w, N
<1>22. SumFunctionOnSet(A, B) = D * N
  <2> HIDE DEF A, a, N
  <2> QED  BY <1>13, <1>14, <1>18, <1>20, <1>21
<1> HIDE DEF X, N, A
<1>23. X[1] \in Int /\ X[2] \in Int /\ X[1] * D = (D * N) * X[2]
  BY <1>12, <1>22 DEF Frac
<1>24. X[1] = N * X[2]
  <2> DEFINE x == X[1]
             y == X[2]
  <2>1. x \in Int /\ y \in Int /\ x * D = (D * N) * y  BY <1>23
  <2>2. D \in Int /\ D # 0  BY <1>4
  <2> HIDE DEF x, y
  <2>3. x = N * y  BY <1>21, <2>1, <2>2, Cancelled
  <2> QED  BY <2>3 DEF x, y
<1>25. Same(X, Whole(N))
  <2>1. Whole(N)[1] = N /\ Whole(N)[2] = 1  BY DEF Whole
  <2>2. X[1] * 1 = X[1]  BY <1>23
  <2> QED  BY <1>24, <2>1, <2>2 DEF Same
<1> QED  BY <1>25 DEF X, N, rows, P
==============================================================================
