---------------------------- MODULE BalancesProofs ----------------------------
(***************************************************************************)
(* Sums over finite sets, and what follows for the balances of a ledger.   *)
(*                                                                         *)
(* The community modules define a sum by a recursive function on the       *)
(* subsets of the domain that takes an arbitrary element at each step.     *)
(* For every finite domain such a function exists, its value does not      *)
(* depend on the elements it takes, and sums obey the laws one expects of  *)
(* them.  Induction is by minimal counterexamples: the strict subsets of a *)
(* finite set are well-founded.                                            *)
(***************************************************************************)
EXTENDS Balances, FiniteSetTheorems, WellFoundedInduction, TLAPS

\* Of the subsets of a finite set that have a property (are in Bad) one is minimal.
LEMMA MinimalSubset ==
  ASSUME NEW D, IsFiniteSet(D), NEW Bad \in SUBSET (SUBSET D), Bad # {}
  PROVE  \E T \in Bad : \A U \in Bad : U \subseteq T => U = T
<1>1. Bad \subseteq FiniteSubsetsOf(D)
  BY FS_FiniteSubsetsOfFinite
<1>2. PICK T \in Bad : \A U \in Bad : <<U, T>> \notin StrictSubsetOrdering(D)
  BY <1>1, FS_StrictSubsetOrderingWellFounded, WFMin
<1>3. \A U \in Bad : U \subseteq T => U = T
  BY <1>2 DEF StrictSubsetOrdering
<1> QED
  BY <1>3

\* The element that a fold takes first.
Taken(s) == CHOOSE x \in s : TRUE

\* What a fold calls itself for.
Adds(it, f, D) ==
  it = [s \in SUBSET D |-> IF s = {} THEN 0 ELSE f[Taken(s)] + it[s \ {Taken(s)}]]

Iter(f, D) == CHOOSE it : Adds(it, f, D)

SumOver(f, D) == SumFunctionOnSet(f, D)

LEMMA SumIs ==
  ASSUME NEW f, NEW D
  PROVE  SumOver(f, D) = Iter(f, D)[D] /\ SumFunction(f) = SumOver(f, DOMAIN f)
BY DEF SumOver, SumFunction, SumFunctionOnSet, FoldFunctionOnSet, MapThenFoldSet, Iter, Adds, Taken

LEMMA AddsAt ==
  ASSUME NEW it, NEW f, NEW D, Adds(it, f, D), NEW s \in SUBSET D
  PROVE  it[s] = IF s = {} THEN 0 ELSE f[Taken(s)] + it[s \ {Taken(s)}]
<1>1. PICK h : h = [t \in SUBSET D |-> IF t = {} THEN 0
                                       ELSE f[Taken(t)] + it[t \ {Taken(t)}]]
  OBVIOUS
<1>2. h[s] = IF s = {} THEN 0 ELSE f[Taken(s)] + it[s \ {Taken(s)}]
  BY <1>1
<1>3. it = h
  BY <1>1 DEF Adds
<1> QED
  BY <1>2, <1>3

LEMMA TakenIn ==
  ASSUME NEW s, s # {}
  PROVE  Taken(s) \in s
BY DEF Taken

\* Two such functions agree wherever both are defined.
LEMMA AddsUnique ==
  ASSUME NEW f, NEW D, NEW E, NEW i, NEW j, Adds(i, f, D), Adds(j, f, E),
         NEW T, IsFiniteSet(T), T \subseteq D, T \subseteq E
  PROVE  i[T] = j[T]
<1> DEFINE Bad == {s \in SUBSET T : i[s] # j[s]}
<1>1. Bad = {}
  <2> SUFFICES ASSUME Bad # {} PROVE FALSE
    OBVIOUS
  <2> Bad \in SUBSET (SUBSET T)
    OBVIOUS
  <2> HIDE DEF Bad
  <2>1. PICK s \in Bad : \A U \in Bad : U \subseteq s => U = s
    BY MinimalSubset
  <2> USE DEF Bad
  <2>2. s \in SUBSET D /\ s \in SUBSET E /\ i[s] # j[s]
    BY <2>1
  <2>3. s # {}
    BY <2>2, AddsAt
  <2>4. PICK x : x = Taken(s)
    OBVIOUS
  <2>5. x \in s
    BY <2>3, <2>4, TakenIn
  <2>6. i[s \ {x}] = j[s \ {x}]
    BY <2>1, <2>5
  <2>7. i[s] = f[x] + i[s \ {x}]
    BY <2>2, <2>3, <2>4, AddsAt
  <2>8. j[s] = f[x] + j[s \ {x}]
    <3>1. s \in SUBSET E /\ Adds(j, f, E)
      BY <2>2
    <3>2. j[s] = IF s = {} THEN 0 ELSE f[Taken(s)] + j[s \ {Taken(s)}]
      BY <3>1, AddsAt
    <3> QED
      BY <3>2, <2>3, <2>4
  <2> QED
    BY <2>2, <2>6, <2>7, <2>8
<1> QED
  BY <1>1

\* Such a function exists for every finite domain.
LEMMA AddsExists ==
  ASSUME NEW f, NEW D, IsFiniteSet(D)
  PROVE  Adds(Iter(f, D), f, D)
<1> DEFINE Bad == {T \in SUBSET D : ~Adds(Iter(f, T), f, T)}
<1>1. Bad = {}
  <2> SUFFICES ASSUME Bad # {} PROVE FALSE
    OBVIOUS
  <2> Bad \in SUBSET (SUBSET D)
    OBVIOUS
  <2> HIDE DEF Bad
  <2>1. PICK T \in Bad : \A U \in Bad : U \subseteq T => U = T
    BY MinimalSubset
  <2> USE DEF Bad
  <2>2. T \in SUBSET D /\ IsFiniteSet(T)
    BY <2>1, FS_Subset
  <2>3. \A U \in SUBSET T : U # T => Adds(Iter(f, U), f, U)
    BY <2>1
  <2>4. PICK val : val = [s \in SUBSET T |-> Iter(f, s)[s]]
    OBVIOUS
  <2>5. PICK it : it = [s \in SUBSET T |-> IF s = {} THEN 0
                                           ELSE f[Taken(s)] + val[s \ {Taken(s)}]]
    OBVIOUS
  <2>6. \A s \in SUBSET T : s # T => it[s] = val[s]
    <3> SUFFICES ASSUME NEW s \in SUBSET T, s # T PROVE it[s] = val[s]
      OBVIOUS
    <3>1. Adds(Iter(f, s), f, s)
      BY <2>3
    <3>2. val[s] = IF s = {} THEN 0 ELSE f[Taken(s)] + Iter(f, s)[s \ {Taken(s)}]
      BY <2>4, <3>1, AddsAt
    <3>3. CASE s = {}
      BY <3>2, <3>3, <2>5
    <3>4. CASE s # {}
      <4>1. PICK x : x = Taken(s)
        OBVIOUS
      <4>2. x \in s
        BY <4>1, <3>4, TakenIn
      <4>3. s \ {x} \in SUBSET T /\ s \ {x} # T /\ s \ {x} \subseteq s
        BY <4>2
      <4>4. Adds(Iter(f, s \ {x}), f, s \ {x})
        BY <4>3, <2>3
      <4>5. IsFiniteSet(s \ {x})
        BY <4>3, <2>2, FS_Subset
      <4>6. Iter(f, s)[s \ {x}] = Iter(f, s \ {x})[s \ {x}]
        BY <3>1, <4>3, <4>4, <4>5, AddsUnique
      <4>7. val[s \ {x}] = Iter(f, s \ {x})[s \ {x}]
        BY <2>4, <4>3
      <4>8. it[s] = f[x] + val[s \ {x}]
        BY <2>5, <3>4, <4>1
      <4> QED
        BY <3>2, <3>4, <4>1, <4>6, <4>7, <4>8
    <3> QED
      BY <3>3, <3>4
  <2>7. \A s \in SUBSET T : it[s] = IF s = {} THEN 0 ELSE f[Taken(s)] + it[s \ {Taken(s)}]
    <3> SUFFICES ASSUME NEW s \in SUBSET T
                 PROVE  it[s] = IF s = {} THEN 0 ELSE f[Taken(s)] + it[s \ {Taken(s)}]
      OBVIOUS
    <3>1. CASE s = {}
      BY <3>1, <2>5
    <3>2. CASE s # {}
      <4>1. s \ {Taken(s)} \in SUBSET T /\ s \ {Taken(s)} # T
        BY <3>2, TakenIn
      <4>2. it[s \ {Taken(s)}] = val[s \ {Taken(s)}]
        BY <4>1, <2>6
      <4> QED
        BY <2>5, <3>2, <4>2
    <3> QED
      BY <3>1, <3>2
  <2>8. Adds(it, f, T)
    <3>1. PICK h : h = [s \in SUBSET T |-> IF s = {} THEN 0
                                           ELSE f[Taken(s)] + it[s \ {Taken(s)}]]
      OBVIOUS
    <3>2. \A s \in SUBSET T : it[s] = h[s]
      BY <3>1, <2>7
    <3>3. it = h
      BY <3>1, <3>2, <2>5
    <3> QED
      BY <3>1, <3>3 DEF Adds
  <2>9. Adds(Iter(f, T), f, T)
    BY <2>8 DEF Iter
  <2> QED
    BY <2>1, <2>9
<1> QED
  BY <1>1

\* The value of a sum over T does not depend on the domain it is a part of.
LEMMA SumTaken ==
  ASSUME NEW f, NEW D, IsFiniteSet(D)
  PROVE  /\ SumOver(f, {}) = 0
         /\ D # {} => SumOver(f, D) = f[Taken(D)] + SumOver(f, D \ {Taken(D)})
<1>1. SumOver(f, {}) = 0
  <2>1. Adds(Iter(f, {}), f, {})
    BY AddsExists, FS_EmptySet
  <2>2. Iter(f, {})[{}] = 0
    BY <2>1, AddsAt
  <2> QED
    BY <2>2, SumIs
<1>2. ASSUME D # {}
      PROVE  SumOver(f, D) = f[Taken(D)] + SumOver(f, D \ {Taken(D)})
  <2>1. PICK x : x = Taken(D)
    OBVIOUS
  <2>2. PICK E : E = D \ {x}
    OBVIOUS
  <2>3. IsFiniteSet(E) /\ E \subseteq D
    BY <2>2, FS_Subset
  <2>4. Adds(Iter(f, D), f, D) /\ Adds(Iter(f, E), f, E)
    BY <2>3, AddsExists
  <2>5. Iter(f, D)[E] = Iter(f, E)[E]
    BY <2>3, <2>4, AddsUnique
  <2>6. Iter(f, D)[D] = f[x] + Iter(f, D)[E]
    <3>1. PICK it : it = Iter(f, D)
      OBVIOUS
    <3>2. Adds(it, f, D) /\ D \in SUBSET D
      BY <2>4, <3>1
    <3>3. it[D] = IF D = {} THEN 0 ELSE f[Taken(D)] + it[D \ {Taken(D)}]
      BY <3>2, AddsAt
    <3> QED
      BY <1>2, <2>1, <2>2, <3>1, <3>3
  <2>7. SumOver(f, D) = Iter(f, D)[D] /\ SumOver(f, E) = Iter(f, E)[E]
    BY SumIs
  <2> QED
    BY <2>1, <2>2, <2>5, <2>6, <2>7
<1> QED
  BY <1>1, <1>2

LEMMA SumInt ==
  ASSUME NEW f, NEW D, IsFiniteSet(D), \A x \in D : f[x] \in Int
  PROVE  SumOver(f, D) \in Int
<1> DEFINE Bad == {T \in SUBSET D : SumOver(f, T) \notin Int}
<1>1. Bad = {}
  <2> SUFFICES ASSUME Bad # {} PROVE FALSE
    OBVIOUS
  <2> Bad \in SUBSET (SUBSET D)
    OBVIOUS
  <2> HIDE DEF Bad
  <2>1. PICK T \in Bad : \A U \in Bad : U \subseteq T => U = T
    BY MinimalSubset
  <2> USE DEF Bad
  <2>2. T \in SUBSET D /\ IsFiniteSet(T) /\ SumOver(f, T) \notin Int
    BY <2>1, FS_Subset
  <2>3. T # {}
    <3>1. SumOver(f, {}) = 0
      BY SumTaken, FS_EmptySet
    <3> QED
      BY <2>2, <3>1
  <2>4. PICK x : x = Taken(T)
    OBVIOUS
  <2>5. x \in T
    BY <2>3, <2>4, TakenIn
  <2>6. SumOver(f, T \ {x}) \in Int
    BY <2>1, <2>5
  <2>7. SumOver(f, T) = f[x] + SumOver(f, T \ {x})
    BY <2>2, <2>3, <2>4, SumTaken
  <2>8. f[x] \in Int
    BY <2>2, <2>5
  <2> QED
    BY <2>2, <2>6, <2>7, <2>8
<1> QED
  BY <1>1

\* Any element may be taken first.
LEMMA SumStep ==
  ASSUME NEW f, NEW D, IsFiniteSet(D), \A x \in D : f[x] \in Int, NEW e \in D
  PROVE  SumOver(f, D) = f[e] + SumOver(f, D \ {e})
<1> DEFINE Bad == {T \in SUBSET D : \E y \in T : SumOver(f, T) # f[y] + SumOver(f, T \ {y})}
<1>1. Bad = {}
  <2> SUFFICES ASSUME Bad # {} PROVE FALSE
    OBVIOUS
  <2> Bad \in SUBSET (SUBSET D)
    OBVIOUS
  <2> HIDE DEF Bad
  <2>1. PICK T \in Bad : \A U \in Bad : U \subseteq T => U = T
    BY MinimalSubset
  <2> USE DEF Bad
  <2>2. PICK y \in T : SumOver(f, T) # f[y] + SumOver(f, T \ {y})
    BY <2>1
  <2>3. T \in SUBSET D /\ IsFiniteSet(T) /\ T # {}
    BY <2>1, <2>2, FS_Subset
  <2>4. PICK x : x = Taken(T)
    OBVIOUS
  <2>5. x \in T /\ x # y
    BY <2>2, <2>3, <2>4, TakenIn, SumTaken
  <2>6. PICK R : R = (T \ {x}) \ {y}
    OBVIOUS
  <2>7. R = (T \ {y}) \ {x} /\ R \in SUBSET D /\ IsFiniteSet(R)
    BY <2>3, <2>6, FS_Subset
  <2>8. SumOver(f, T \ {x}) = f[y] + SumOver(f, R)
    <3>1. T \ {x} \in SUBSET D /\ T \ {x} # T /\ T \ {x} \subseteq T /\ y \in T \ {x}
      BY <2>3, <2>5
    <3>2. T \ {x} \notin Bad
      BY <2>1, <3>1
    <3> QED
      BY <2>6, <3>1, <3>2
  <2>9. SumOver(f, T \ {y}) = f[x] + SumOver(f, R)
    <3>1. T \ {y} \in SUBSET D /\ T \ {y} # T /\ T \ {y} \subseteq T /\ x \in T \ {y}
      BY <2>3, <2>5
    <3>2. T \ {y} \notin Bad
      BY <2>1, <3>1
    <3> QED
      BY <2>7, <3>1, <3>2
  <2>10. SumOver(f, T) = f[x] + SumOver(f, T \ {x})
    BY <2>3, <2>4, SumTaken
  <2>11. f[x] \in Int /\ f[y] \in Int /\ SumOver(f, R) \in Int
    BY <2>3, <2>5, <2>7, SumInt
  <2> QED
    BY <2>2, <2>8, <2>9, <2>10, <2>11
<1> QED
  BY <1>1

LEMMA SumEmpty ==
  ASSUME NEW f
  PROVE  SumOver(f, {}) = 0
BY SumTaken, FS_EmptySet

LEMMA SumOne ==
  ASSUME NEW f, NEW x, f[x] \in Int
  PROVE  SumOver(f, {x}) = f[x]
<1>1. IsFiniteSet({x}) /\ {x} \ {x} = {}
  BY FS_Singleton
<1>2. SumOver(f, {x}) = f[x] + SumOver(f, {})
  BY <1>1, SumStep
<1> QED
  BY <1>2, SumEmpty

\* Another element.
LEMMA SumAdd ==
  ASSUME NEW f, NEW D, IsFiniteSet(D), NEW e, e \notin D, f[e] \in Int,
         \A x \in D : f[x] \in Int
  PROVE  SumOver(f, D \cup {e}) = f[e] + SumOver(f, D)
<1>1. PICK E : E = D \cup {e}
  OBVIOUS
<1>2. IsFiniteSet(E) /\ E \ {e} = D /\ e \in E /\ \A x \in E : f[x] \in Int
  BY <1>1, FS_AddElement
<1>3. SumOver(f, E) = f[e] + SumOver(f, E \ {e})
  BY <1>2, SumStep
<1> QED
  BY <1>1, <1>2, <1>3

\* How induction over a finite set goes from here on: a set of subsets that has the
\* empty one and grows element by element has the set itself.
LEMMA Growing ==
  ASSUME NEW D, IsFiniteSet(D), NEW Good, {} \in Good,
         \A T \in SUBSET D : \A x \in D \ T : T \in Good => T \cup {x} \in Good
  PROVE  D \in Good
<1> DEFINE Bad == {T \in SUBSET D : T \notin Good}
<1>1. Bad = {}
  <2> SUFFICES ASSUME Bad # {} PROVE FALSE
    OBVIOUS
  <2> Bad \in SUBSET (SUBSET D)
    OBVIOUS
  <2> HIDE DEF Bad
  <2>1. PICK T \in Bad : \A U \in Bad : U \subseteq T => U = T
    BY MinimalSubset
  <2> USE DEF Bad
  <2>2. PICK x \in T : TRUE
    BY <2>1
  <2>3. PICK S : S = T \ {x}
    OBVIOUS
  <2>4. S \in SUBSET D /\ x \in D \ S /\ S \cup {x} = T /\ S # T /\ S \subseteq T
    BY <2>1, <2>2, <2>3
  <2>5. S \in Good
    BY <2>1, <2>4
  <2>6. T \in Good
    BY <2>4, <2>5
  <2> QED
    BY <2>1, <2>6
<1> QED
  BY <1>1

\* The image of a finite set is finite.
LEMMA ImageFinite ==
  ASSUME NEW D, IsFiniteSet(D), NEW f
  PROVE  IsFiniteSet({f[x] : x \in D})
<1> DEFINE Image(T) == {f[x] : x \in T}
           Good == {T \in SUBSET D : IsFiniteSet(Image(T))}
<1>1. {} \in Good
  BY FS_EmptySet
<1>2. ASSUME NEW T \in SUBSET D, NEW x \in D \ T, T \in Good
      PROVE  T \cup {x} \in Good
  <2>1. Image(T \cup {x}) = Image(T) \cup {f[x]}
    OBVIOUS
  <2>2. IsFiniteSet(Image(T))
    BY <1>2
  <2> HIDE DEF Image
  <2>3. IsFiniteSet(Image(T) \cup {f[x]})
    BY <2>2, FS_AddElement
  <2> QED
    BY <2>1, <2>3
<1> HIDE DEF Good
<1>3. D \in Good
  BY <1>1, <1>2, Growing
<1> QED
  BY <1>3 DEF Good

\* Only the values on the domain count.
LEMMA SumSame ==
  ASSUME NEW f, NEW g, NEW D, IsFiniteSet(D), \A x \in D : f[x] \in Int /\ f[x] = g[x]
  PROVE  SumOver(f, D) = SumOver(g, D)
<1> DEFINE Good == {T \in SUBSET D : SumOver(f, T) = SumOver(g, T)}
<1>1. {} \in Good
  BY SumEmpty
<1>2. ASSUME NEW T \in SUBSET D, NEW x \in D \ T, T \in Good
      PROVE  T \cup {x} \in Good
  <2>1. IsFiniteSet(T) /\ x \notin T /\ \A y \in T : f[y] \in Int /\ g[y] \in Int
    BY FS_Subset
  <2>2. SumOver(f, T \cup {x}) = f[x] + SumOver(f, T)
    BY <2>1, SumAdd
  <2>3. SumOver(g, T \cup {x}) = g[x] + SumOver(g, T)
    BY <2>1, SumAdd
  <2> QED
    BY <1>2, <2>2, <2>3
<1> HIDE DEF Good
<1>3. D \in Good
  BY <1>1, <1>2, Growing
<1> QED
  BY <1>3 DEF Good

\* Sums are linear.
LEMMA SumPlus ==
  ASSUME NEW f, NEW g, NEW h, NEW D, IsFiniteSet(D),
         \A x \in D : f[x] \in Int /\ g[x] \in Int /\ h[x] = f[x] + g[x]
  PROVE  SumOver(h, D) = SumOver(f, D) + SumOver(g, D)
<1> DEFINE Good == {T \in SUBSET D : SumOver(h, T) = SumOver(f, T) + SumOver(g, T)}
<1>1. {} \in Good
  BY SumEmpty
<1>2. ASSUME NEW T \in SUBSET D, NEW x \in D \ T, T \in Good
      PROVE  T \cup {x} \in Good
  <2>1. /\ IsFiniteSet(T) /\ x \notin T
        /\ \A y \in T : f[y] \in Int /\ g[y] \in Int /\ h[y] \in Int
        /\ f[x] \in Int /\ g[x] \in Int /\ h[x] \in Int /\ h[x] = f[x] + g[x]
    BY FS_Subset
  <2>2. SumOver(f, T \cup {x}) = f[x] + SumOver(f, T) /\ SumOver(f, T) \in Int
    BY <2>1, SumAdd, SumInt
  <2>3. SumOver(g, T \cup {x}) = g[x] + SumOver(g, T) /\ SumOver(g, T) \in Int
    BY <2>1, SumAdd, SumInt
  <2>4. SumOver(h, T \cup {x}) = h[x] + SumOver(h, T)
    BY <2>1, SumAdd
  <2> QED
    BY <1>2, <2>1, <2>2, <2>3, <2>4
<1> HIDE DEF Good
<1>3. D \in Good
  BY <1>1, <1>2, Growing
<1> QED
  BY <1>3 DEF Good

LEMMA SumZero ==
  ASSUME NEW f, NEW D, IsFiniteSet(D), \A x \in D : f[x] = 0
  PROVE  SumOver(f, D) = 0
<1>1. SumOver(f, D) = SumOver(f, D) + SumOver(f, D) /\ SumOver(f, D) \in Int
  <2>1. \A x \in D : f[x] \in Int /\ f[x] = f[x] + f[x]
    OBVIOUS
  <2> QED
    BY <2>1, SumPlus, SumInt
<1>2. PICK n \in Int : n = SumOver(f, D)
  BY <1>1
<1>3. n = n + n
  BY <1>1, <1>2
<1>4. n = 0
  BY <1>3
<1> QED
  BY <1>2, <1>4

LEMMA SumMinus ==
  ASSUME NEW f, NEW g, NEW D, IsFiniteSet(D),
         \A x \in D : f[x] \in Int /\ g[x] = -f[x]
  PROVE  SumOver(g, D) = -SumOver(f, D)
<1>1. PICK h : h = [x \in D |-> 0]
  OBVIOUS
<1>2. \A x \in D : f[x] \in Int /\ g[x] \in Int /\ h[x] = f[x] + g[x]
  BY <1>1
<1>3. SumOver(h, D) = SumOver(f, D) + SumOver(g, D)
  BY <1>2, SumPlus
<1>4. SumOver(h, D) = 0
  BY <1>1, SumZero
<1>5. SumOver(f, D) \in Int /\ SumOver(g, D) \in Int
  BY <1>2, SumInt
<1> QED
  BY <1>3, <1>4, <1>5

\* Disjoint parts add up.
LEMMA SumParts ==
  ASSUME NEW f, NEW D, IsFiniteSet(D), \A x \in D : f[x] \in Int,
         NEW A \in SUBSET D
  PROVE  SumOver(f, D) = SumOver(f, A) + SumOver(f, D \ A)
<1> DEFINE E == D \ A
<1> DEFINE Good == {T \in SUBSET E : SumOver(f, A \cup T) = SumOver(f, A) + SumOver(f, T)}
<1>0. IsFiniteSet(A) /\ IsFiniteSet(E) /\ \A x \in A : f[x] \in Int
  BY FS_Subset
<1>1. {} \in Good
  <2>1. A \cup {} = A /\ SumOver(f, A) \in Int
    BY <1>0, SumInt
  <2> QED
    BY <2>1, SumEmpty
<1>2. ASSUME NEW T \in SUBSET E, NEW x \in E \ T, T \in Good
      PROVE  T \cup {x} \in Good
  <2>1. PICK B : B = A \cup T
    OBVIOUS
  <2>2. /\ IsFiniteSet(B) /\ x \notin B /\ \A y \in B : f[y] \in Int
        /\ IsFiniteSet(T) /\ x \notin T /\ \A y \in T : f[y] \in Int
        /\ f[x] \in Int
    BY <2>1, FS_Subset
  <2>3. SumOver(f, B \cup {x}) = f[x] + SumOver(f, B)
    BY <2>2, SumAdd
  <2>4. SumOver(f, T \cup {x}) = f[x] + SumOver(f, T)
    BY <2>2, SumAdd
  <2>5. SumOver(f, A) \in Int /\ SumOver(f, T) \in Int
    BY <1>0, <2>2, SumInt
  <2>6. B \cup {x} = A \cup (T \cup {x})
    BY <2>1
  <2>7. SumOver(f, B) = SumOver(f, A) + SumOver(f, T)
    BY <1>2, <2>1
  <2>8. SumOver(f, B \cup {x}) = SumOver(f, A) + SumOver(f, T \cup {x})
    BY <2>2, <2>3, <2>4, <2>5, <2>7
  <2> QED
    BY <2>6, <2>8
<1>3. A \cup E = D
  OBVIOUS
<1> HIDE DEF Good, E
<1>4. E \in Good
  BY <1>0, <1>1, <1>2, Growing
<1>5. SumOver(f, A \cup E) = SumOver(f, A) + SumOver(f, E)
  BY <1>4 DEF Good
<1> QED
  BY <1>3, <1>5 DEF E

\* What is zero may be left out.
LEMMA SumSupport ==
  ASSUME NEW f, NEW D, IsFiniteSet(D), \A x \in D : f[x] \in Int,
         NEW A \in SUBSET D, \A x \in D \ A : f[x] = 0
  PROVE  SumOver(f, D) = SumOver(f, A)
<1>1. SumOver(f, D) = SumOver(f, A) + SumOver(f, D \ A)
  BY SumParts
<1>2. IsFiniteSet(D \ A) /\ IsFiniteSet(A)
  BY FS_Subset
<1>3. SumOver(f, D \ A) = 0
  BY <1>2, SumZero
<1>4. SumOver(f, A) \in Int
  BY <1>2, SumInt
<1> QED
  BY <1>1, <1>3, <1>4

\* Sums are monotone.
LEMMA SumNat ==
  ASSUME NEW f, NEW D, IsFiniteSet(D), \A x \in D : f[x] \in Nat
  PROVE  SumOver(f, D) \in Nat
<1> DEFINE Good == {T \in SUBSET D : SumOver(f, T) \in Nat}
<1>1. {} \in Good
  BY SumEmpty
<1>2. ASSUME NEW T \in SUBSET D, NEW x \in D \ T, T \in Good
      PROVE  T \cup {x} \in Good
  <2>1. IsFiniteSet(T) /\ x \notin T /\ f[x] \in Nat /\ \A y \in T : f[y] \in Int
    BY FS_Subset
  <2>2. SumOver(f, T \cup {x}) = f[x] + SumOver(f, T)
    BY <2>1, SumAdd
  <2> QED
    BY <1>2, <2>1, <2>2
<1> HIDE DEF Good
<1>3. D \in Good
  BY <1>1, <1>2, Growing
<1> QED
  BY <1>3 DEF Good

LEMMA SumMonotone ==
  ASSUME NEW f, NEW g, NEW D, IsFiniteSet(D),
         \A x \in D : f[x] \in Int /\ g[x] \in Int /\ f[x] <= g[x]
  PROVE  SumOver(f, D) <= SumOver(g, D)
<1>1. PICK h : h = [x \in D |-> g[x] - f[x]]
  OBVIOUS
<1>2. \A x \in D : h[x] \in Nat /\ g[x] = f[x] + h[x]
  BY <1>1
<1>3. SumOver(g, D) = SumOver(f, D) + SumOver(h, D) /\ SumOver(h, D) \in Nat
  BY <1>2, SumPlus, SumNat
<1>4. SumOver(f, D) \in Int
  BY SumInt
<1> QED
  BY <1>3, <1>4

LEMMA SumMember ==
  ASSUME NEW f, NEW D, IsFiniteSet(D), \A x \in D : f[x] \in Nat, NEW e \in D
  PROVE  f[e] <= SumOver(f, D)
<1>1. SumOver(f, D) = f[e] + SumOver(f, D \ {e})
  BY SumStep
<1>2. IsFiniteSet(D \ {e}) /\ \A x \in D \ {e} : f[x] \in Nat
  BY FS_Subset
<1>3. SumOver(f, D \ {e}) \in Nat
  BY <1>2, SumNat
<1> QED
  BY <1>1, <1>3

\* The same values under other names.
LEMMA SumRenamed ==
  ASSUME NEW f, NEW g, NEW D, IsFiniteSet(D), \A x \in D : f[x] \in Int, NEW name,
         \A x, y \in D : name[x] = name[y] => x = y,
         \A x \in D : g[name[x]] = f[x]
  PROVE  SumOver(g, {name[x] : x \in D}) = SumOver(f, D) /\ IsFiniteSet({name[x] : x \in D})
<1> DEFINE Image(T) == {name[x] : x \in T}
           Good == {T \in SUBSET D : IsFiniteSet(Image(T)) /\ SumOver(g, Image(T)) = SumOver(f, T)}
<1>1. {} \in Good
  <2>1. Image({}) = {}
    OBVIOUS
  <2> QED
    BY <2>1, SumEmpty, FS_EmptySet
<1>2. ASSUME NEW T \in SUBSET D, NEW x \in D \ T, T \in Good
      PROVE  T \cup {x} \in Good
  <2>1. IsFiniteSet(T) /\ x \notin T /\ f[x] \in Int /\ \A y \in T : f[y] \in Int
    BY FS_Subset
  <2>2. PICK I : I = Image(T)
    OBVIOUS
  <2>3. name[x] \notin I /\ g[name[x]] \in Int /\ \A y \in I : g[y] \in Int
    BY <2>1, <2>2
  <2>4. IsFiniteSet(I) /\ SumOver(g, I) = SumOver(f, T)
    BY <1>2, <2>2
  <2>5. SumOver(g, I \cup {name[x]}) = g[name[x]] + SumOver(g, I)
    BY <2>3, <2>4, SumAdd
  <2>6. SumOver(f, T \cup {x}) = f[x] + SumOver(f, T)
    BY <2>1, SumAdd
  <2>7. Image(T \cup {x}) = I \cup {name[x]}
    BY <2>2
  <2>8. IsFiniteSet(I \cup {name[x]})
    BY <2>4, FS_AddElement
  <2>9. SumOver(g, I \cup {name[x]}) = SumOver(f, T \cup {x})
    BY <2>4, <2>5, <2>6
  <2> HIDE DEF Image
  <2> QED
    BY <2>7, <2>8, <2>9
<1> HIDE DEF Good
<1>3. D \in Good
  BY <1>1, <1>2, Growing
<1> QED
  BY <1>3 DEF Good

\* A table with its rows, its columns and the sums of both.
Tabulated(row, column, r, c, D, E) ==
  /\ \A x \in D, y \in E : row[x][y] \in Int /\ column[y][x] = row[x][y]
  /\ \A x \in D : r[x] = SumOver(row[x], E)
  /\ \A y \in E : c[y] = SumOver(column[y], D)

\* A table adds up by rows to what it adds up to by columns.
LEMMA SumTable ==
  ASSUME NEW D, NEW E, IsFiniteSet(D), IsFiniteSet(E), NEW row, NEW column, NEW r, NEW c,
         Tabulated(row, column, r, c, D, E)
  PROVE  SumOver(r, D) = SumOver(c, E)
<1> USE DEF Tabulated
<1> DEFINE part(T) == [y \in E |-> SumOver(column[y], T)]
           Good == {T \in SUBSET D : SumOver(r, T) = SumOver(part(T), E)}
<1>0. \A T \in SUBSET D : IsFiniteSet(T) /\ (\A y \in E : part(T)[y] \in Int)
  <2> SUFFICES ASSUME NEW T \in SUBSET D, NEW y \in E
               PROVE  IsFiniteSet(T) /\ SumOver(column[y], T) \in Int
    BY FS_Subset
  <2>1. IsFiniteSet(T) /\ \A x \in T : column[y][x] \in Int
    BY FS_Subset
  <2> QED
    BY <2>1, SumInt
<1>1. {} \in Good
  <2>1. \A y \in E : part({})[y] = 0
    BY SumEmpty
  <2>2. SumOver(part({}), E) = 0
    BY <2>1, SumZero
  <2>3. SumOver(r, {}) = 0
    BY SumEmpty
  <2> QED
    BY <2>2, <2>3
<1>2. ASSUME NEW T \in SUBSET D, NEW x \in D \ T, T \in Good
      PROVE  T \cup {x} \in Good
  <2>1. IsFiniteSet(T) /\ x \notin T /\ x \in D
    BY <1>0
  <2>2. \A z \in D : r[z] \in Int
    <3> SUFFICES ASSUME NEW z \in D PROVE r[z] \in Int
      OBVIOUS
    <3>1. \A y \in E : row[z][y] \in Int
      OBVIOUS
    <3> QED
      BY <3>1, SumInt
  <2>3. SumOver(r, T \cup {x}) = r[x] + SumOver(r, T)
    <3>1. r[x] \in Int /\ \A y \in T : r[y] \in Int
      BY <2>1, <2>2
    <3> QED
      BY <2>1, <3>1, SumAdd
  <2>4. PICK old : old = part(T)
    OBVIOUS
  <2>5. PICK new : new = part(T \cup {x})
    OBVIOUS
  <2>6. \A y \in E : row[x][y] \in Int /\ old[y] \in Int /\ new[y] = row[x][y] + old[y]
    <3> SUFFICES ASSUME NEW y \in E
                 PROVE  row[x][y] \in Int /\ old[y] \in Int /\ new[y] = row[x][y] + old[y]
      OBVIOUS
    <3>1. column[y][x] \in Int /\ column[y][x] = row[x][y] /\ \A z \in T : column[y][z] \in Int
      BY <2>1
    <3>2. SumOver(column[y], T \cup {x}) = column[y][x] + SumOver(column[y], T)
      BY <2>1, <3>1, SumAdd
    <3>3. old[y] = SumOver(column[y], T) /\ new[y] = SumOver(column[y], T \cup {x})
      BY <2>4, <2>5
    <3>4. old[y] \in Int
      BY <1>0, <2>4
    <3> QED
      BY <3>1, <3>2, <3>3, <3>4
  <2> HIDE DEF part
  <2>7. SumOver(new, E) = SumOver(row[x], E) + SumOver(old, E)
    BY <2>6, SumPlus
  <2>8. SumOver(r, T) = SumOver(old, E)
    BY <1>2, <2>4
  <2>9. r[x] = SumOver(row[x], E)
    BY <2>1
  <2>10. SumOver(r, T \cup {x}) = SumOver(new, E)
    BY <2>3, <2>7, <2>8, <2>9
  <2> QED
    BY <2>5, <2>10
<1> HIDE DEF Good
<1>3. D \in Good
  BY <1>1, <1>2, Growing
<1>4. SumOver(r, D) = SumOver(part(D), E)
  BY <1>3 DEF Good
<1>5. \A y \in E : part(D)[y] \in Int /\ part(D)[y] = c[y]
  BY <1>0
<1> HIDE DEF part
<1>6. SumOver(part(D), E) = SumOver(c, E)
  BY <1>5, SumSame
<1> QED
  BY <1>4, <1>6

-----------------------------------------------------------------------------
(* Ledgers *)

LEMMA SumOfWhen ==
  ASSUME NEW users, IsFiniteSet(users), NEW p \in users, NEW x \in Int, NEW f,
         \A u \in users : f[u] = When(p = u, x)
  PROVE  SumOver(f, users) = x
<1>1. \A u \in users : f[u] \in Int
  BY DEF When
<1>2. f[p] = x /\ \A u \in users \ {p} : f[u] = 0
  BY DEF When
<1>3. SumOver(f, users) = SumOver(f, {p})
  <2>1. {p} \in SUBSET users
    OBVIOUS
  <2> QED
    BY <1>1, <1>2, <2>1, SumSupport
<1> QED
  BY <1>2, <1>3, SumOne

LEMMA SumOfParts ==
  ASSUME NEW users, IsFiniteSet(users), NEW alloc, DOMAIN alloc \subseteq users,
         \A u \in DOMAIN alloc : alloc[u] \in Int, NEW f,
         \A u \in users : f[u] = Of(alloc, u)
  PROVE  SumOver(f, users) = SumFunction(alloc)
<1>1. \A u \in users : f[u] \in Int
  BY DEF Of
<1>2. \A u \in users \ DOMAIN alloc : f[u] = 0
  BY DEF Of
<1>3. SumOver(f, users) = SumOver(f, DOMAIN alloc)
  BY <1>1, <1>2, SumSupport
<1>4. IsFiniteSet(DOMAIN alloc) /\ \A u \in DOMAIN alloc : f[u] \in Int /\ f[u] = alloc[u]
  BY <1>1, FS_Subset DEF Of
<1>5. SumOver(f, DOMAIN alloc) = SumOver(alloc, DOMAIN alloc)
  BY <1>4, SumSame
<1> QED
  BY <1>3, <1>5, SumIs

\* Rows over the given users: whoever pays, receives or owes a part is one of them.
Payable(row, users) ==
  /\ row.amount \in Int /\ row.payer \in users
  /\ DOMAIN row.alloc \subseteq users /\ \A u \in DOMAIN row.alloc : row.alloc[u] \in Int
  /\ SumFunction(row.alloc) = row.amount
Payment(row, users) == row.amount \in Int /\ row.sender \in users /\ row.receiver \in users

LedgerOf(ledger, users) ==
  /\ IsFiniteSet(ledger.expenses) /\ \A e \in ledger.expenses : Payable(e, users)
  /\ IsFiniteSet(ledger.settlements) /\ \A s \in ledger.settlements : Payment(s, users)
  /\ IsFiniteSet(ledger.adjustments) /\ \A a \in ledger.adjustments : Payable(a, users)

\* What one operation adds to the net amounts is taken from others.
LEMMA ExpenseCloses ==
  ASSUME NEW users, IsFiniteSet(users), NEW e, Payable(e, users), NEW f,
         \A u \in users : f[u] = ExpenseShare(e, u)
  PROVE  SumOver(f, users) = 0 /\ \A u \in users : f[u] \in Int
<1>1. PICK p : p = [u \in users |-> When(e.payer = u, e.amount)]
  OBVIOUS
<1>2. PICK a : a = [u \in users |-> Of(e.alloc, u)]
  OBVIOUS
<1>3. PICK n : n = [u \in users |-> -a[u]]
  OBVIOUS
<1>4. \A u \in users : /\ p[u] \in Int /\ a[u] \in Int /\ n[u] \in Int /\ n[u] = -a[u]
                       /\ f[u] = p[u] + n[u] /\ f[u] \in Int
  BY <1>1, <1>2, <1>3 DEF ExpenseShare, When, Of, Payable
<1>5. SumOver(f, users) = SumOver(p, users) + SumOver(n, users)
  BY <1>4, SumPlus
<1>6. SumOver(n, users) = -SumOver(a, users)
  BY <1>4, SumMinus
<1>7. SumOver(p, users) = e.amount
  BY <1>1, SumOfWhen DEF Payable
<1>8. SumOver(a, users) = e.amount
  BY <1>2, SumOfParts DEF Payable
<1> QED
  BY <1>4, <1>5, <1>6, <1>7, <1>8 DEF Payable

LEMMA SettlementCloses ==
  ASSUME NEW users, IsFiniteSet(users), NEW s, Payment(s, users), NEW f,
         \A u \in users : f[u] = SettlementShare(s, u)
  PROVE  SumOver(f, users) = 0 /\ \A u \in users : f[u] \in Int
<1>1. PICK p : p = [u \in users |-> When(s.sender = u, s.amount)]
  OBVIOUS
<1>2. PICK a : a = [u \in users |-> When(s.receiver = u, s.amount)]
  OBVIOUS
<1>3. PICK n : n = [u \in users |-> -a[u]]
  OBVIOUS
<1>4. \A u \in users : /\ p[u] \in Int /\ a[u] \in Int /\ n[u] \in Int /\ n[u] = -a[u]
                       /\ f[u] = p[u] + n[u] /\ f[u] \in Int
  BY <1>1, <1>2, <1>3 DEF SettlementShare, When, Payment
<1>5. SumOver(f, users) = SumOver(p, users) + SumOver(n, users)
  BY <1>4, SumPlus
<1>6. SumOver(n, users) = -SumOver(a, users)
  BY <1>4, SumMinus
<1>7. SumOver(p, users) = s.amount
  BY <1>1, SumOfWhen DEF Payment
<1>8. SumOver(a, users) = s.amount
  BY <1>2, SumOfWhen DEF Payment
<1> QED
  BY <1>4, <1>5, <1>6, <1>7, <1>8 DEF Payment

LEMMA AdjustmentCloses ==
  ASSUME NEW users, IsFiniteSet(users), NEW a, Payable(a, users), NEW f,
         \A u \in users : f[u] = AdjustmentShare(a, u)
  PROVE  SumOver(f, users) = 0 /\ \A u \in users : f[u] \in Int
<1>1. PICK g : g = [u \in users |-> ExpenseShare(a, u)]
  OBVIOUS
<1>2. SumOver(g, users) = 0 /\ \A u \in users : g[u] \in Int
  BY <1>1, ExpenseCloses
<1>3. CASE a.type = "refund"
  <2>1. \A u \in users : g[u] \in Int /\ f[u] = -g[u]
    BY <1>1, <1>2, <1>3 DEF AdjustmentShare, ExpenseShare, Sign
  <2>2. PICK h : h = [u \in users |-> 0]
    OBVIOUS
  <2>3. SumOver(f, users) = 0
    <3>1. \A u \in users : f[u] \in Int /\ g[u] \in Int /\ h[u] = f[u] + g[u]
      BY <2>1, <2>2
    <3>2. SumOver(h, users) = SumOver(f, users) + SumOver(g, users)
      BY <3>1, SumPlus
    <3>3. SumOver(h, users) = 0
      BY <2>2, SumZero
    <3>4. SumOver(f, users) \in Int
      BY <3>1, SumInt
    <3> QED
      BY <1>2, <3>2, <3>3, <3>4
  <2>4. \A u \in users : f[u] \in Int
    BY <2>1
  <2> QED
    BY <2>3, <2>4
<1>4. CASE a.type # "refund"
  <2>1. \A u \in users : g[u] \in Int /\ g[u] = f[u]
    BY <1>1, <1>2, <1>4 DEF AdjustmentShare, ExpenseShare, Sign
  <2>2. SumOver(g, users) = SumOver(f, users)
    BY <2>1, SumSame
  <2> QED
    BY <1>2, <2>1, <2>2
<1> QED
  BY <1>3, <1>4

\* A table each of whose rows adds up to zero, and the sums of its columns.
Closed(at, column, c, rows, users) ==
  /\ \A r \in rows : SumOver(at[r], users) = 0 /\ \A u \in users : at[r][u] \in Int
  /\ \A u \in users : \A r \in rows : column[u][r] = at[r][u]
  /\ \A u \in users : c[u] = SumOver(column[u], rows)

\* Its columns add up to zero as well.
LEMMA TableCloses ==
  ASSUME NEW rows, IsFiniteSet(rows), NEW users, IsFiniteSet(users), NEW at, NEW column, NEW c,
         Closed(at, column, c, rows, users)
  PROVE  SumOver(c, users) = 0 /\ \A u \in users : c[u] \in Int
<1> USE DEF Closed
<1>1. PICK r : r = [x \in rows |-> SumOver(at[x], users)]
  OBVIOUS
<1>2. SumOver(r, rows) = 0
  BY <1>1, SumZero
<1>3. SumOver(r, rows) = SumOver(c, users)
  <2>1. \A x \in rows, u \in users : at[x][u] \in Int /\ column[u][x] = at[x][u]
    OBVIOUS
  <2>2. \A x \in rows : r[x] = SumOver(at[x], users)
    BY <1>1
  <2>3. Tabulated(at, column, r, c, rows, users)
    BY <2>1, <2>2 DEF Tabulated
  <2> QED
    BY <2>3, SumTable
<1>4. ASSUME NEW u \in users
      PROVE  c[u] \in Int
  <2>1. \A x \in rows : column[u][x] \in Int
    OBVIOUS
  <2> QED
    BY <2>1, SumInt
<1> QED
  BY <1>2, <1>3, <1>4

\* However many operations a ledger has, the net amounts of its users add up to zero in
\* every currency: CalculateBalances (domain/ledger.go) never refuses a ledger whose
\* rows it finds well formed because of its totals.
THEOREM LedgerCloses ==
  ASSUME NEW ledger, NEW users, IsFiniteSet(users), LedgerOf(ledger, users), NEW k
  PROVE  CurrencyTotal(ledger, users, k) = 0 /\ \A u \in users : Net(ledger, u, k) \in Int
<1> DEFINE E == InCurrency(ledger.expenses, k)
           S == InCurrency(ledger.settlements, k)
           A == InCurrency(ledger.adjustments, k)
<1>0. /\ IsFiniteSet(E) /\ \A e \in E : Payable(e, users)
      /\ IsFiniteSet(S) /\ \A s \in S : Payment(s, users)
      /\ IsFiniteSet(A) /\ \A a \in A : Payable(a, users)
  BY FS_Subset DEF InCurrency, LedgerOf
<1>1. PICK e : e = [u \in users |-> SumFunction([x \in E |-> ExpenseShare(x, u)])]
  OBVIOUS
<1>2. PICK s : s = [u \in users |-> SumFunction([x \in S |-> SettlementShare(x, u)])]
  OBVIOUS
<1>3. PICK a : a = [u \in users |-> SumFunction([x \in A |-> AdjustmentShare(x, u)])]
  OBVIOUS
<1>4. PICK n : n = [u \in users |-> Net(ledger, u, k)]
  OBVIOUS
<1>5. PICK m : m = [u \in users |-> e[u] + s[u]]
  OBVIOUS
<1>6. \A u \in users : n[u] = m[u] + a[u]
  BY <1>1, <1>2, <1>3, <1>4, <1>5 DEF Net
<1> HIDE DEF E, S, A
<1>7. SumOver(e, users) = 0 /\ \A u \in users : e[u] \in Int
  <2>1. PICK at : at = [x \in E |-> [u \in users |-> ExpenseShare(x, u)]]
    OBVIOUS
  <2>2. PICK column : column = [u \in users |-> [x \in E |-> ExpenseShare(x, u)]]
    OBVIOUS
  <2>3. \A x \in E : SumOver(at[x], users) = 0 /\ \A u \in users : at[x][u] \in Int
    BY <1>0, <2>1, ExpenseCloses
  <2>4. \A u \in users : \A x \in E : column[u][x] = at[x][u]
    BY <2>1, <2>2
  <2>5. \A u \in users : e[u] = SumOver(column[u], E)
    <3>1. ASSUME NEW u \in users
          PROVE  DOMAIN column[u] = E /\ e[u] = SumFunction(column[u])
      BY <1>1, <2>2
    <3> QED
      BY <3>1, SumIs
  <2>6. Closed(at, column, e, E, users)
    BY <2>3, <2>4, <2>5 DEF Closed
  <2> QED
    BY <1>0, <2>6, TableCloses
<1>8. SumOver(s, users) = 0 /\ \A u \in users : s[u] \in Int
  <2>1. PICK at : at = [x \in S |-> [u \in users |-> SettlementShare(x, u)]]
    OBVIOUS
  <2>2. PICK column : column = [u \in users |-> [x \in S |-> SettlementShare(x, u)]]
    OBVIOUS
  <2>3. \A x \in S : SumOver(at[x], users) = 0 /\ \A u \in users : at[x][u] \in Int
    BY <1>0, <2>1, SettlementCloses
  <2>4. \A u \in users : \A x \in S : column[u][x] = at[x][u]
    BY <2>1, <2>2
  <2>5. \A u \in users : s[u] = SumOver(column[u], S)
    <3>1. ASSUME NEW u \in users
          PROVE  DOMAIN column[u] = S /\ s[u] = SumFunction(column[u])
      BY <1>2, <2>2
    <3> QED
      BY <3>1, SumIs
  <2>6. Closed(at, column, s, S, users)
    BY <2>3, <2>4, <2>5 DEF Closed
  <2> QED
    BY <1>0, <2>6, TableCloses
<1>9. SumOver(a, users) = 0 /\ \A u \in users : a[u] \in Int
  <2>1. PICK at : at = [x \in A |-> [u \in users |-> AdjustmentShare(x, u)]]
    OBVIOUS
  <2>2. PICK column : column = [u \in users |-> [x \in A |-> AdjustmentShare(x, u)]]
    OBVIOUS
  <2>3. \A x \in A : SumOver(at[x], users) = 0 /\ \A u \in users : at[x][u] \in Int
    BY <1>0, <2>1, AdjustmentCloses
  <2>4. \A u \in users : \A x \in A : column[u][x] = at[x][u]
    BY <2>1, <2>2
  <2>5. \A u \in users : a[u] = SumOver(column[u], A)
    <3>1. ASSUME NEW u \in users
          PROVE  DOMAIN column[u] = A /\ a[u] = SumFunction(column[u])
      BY <1>3, <2>2
    <3> QED
      BY <3>1, SumIs
  <2>6. Closed(at, column, a, A, users)
    BY <2>3, <2>4, <2>5 DEF Closed
  <2> QED
    BY <1>0, <2>6, TableCloses
<1>10. SumOver(m, users) = SumOver(e, users) + SumOver(s, users)
       /\ \A u \in users : m[u] \in Int
  BY <1>5, <1>7, <1>8, SumPlus
<1>11. SumOver(n, users) = SumOver(m, users) + SumOver(a, users)
       /\ \A u \in users : n[u] \in Int
  BY <1>6, <1>9, <1>10, SumPlus
<1>12. CurrencyTotal(ledger, users, k) = SumOver(n, users)
  BY <1>4, SumIs DEF CurrencyTotal
<1> QED
  BY <1>4, <1>7, <1>8, <1>9, <1>10, <1>11, <1>12

===============================================================================
