------------------------------ MODULE FiniteSums ------------------------------
(***************************************************************************)
(* Facts about SumFunction, the sum of the values of a function with a     *)
(* finite domain: it does not depend on the order in which the values are  *)
(* added.  The models sum over the rows of a table and over the requests   *)
(* in flight.                                                              *)
(***************************************************************************)
EXTENDS Integers, Functions, FiniteSets, FiniteSetTheorems, TLAPS

-----------------------------------------------------------------------------
(* Induction.                                                              *)

(* Induction over a set: if some m were missing from X, x |-> x + 1 would  *)
(* map the part of X below m into itself one to one, hence onto, but 0 is  *)
(* not the successor of any number.                                        *)
LEMMA SetInduction ==
  ASSUME NEW X, 0 \in X, \A i \in Nat : i \in X => i + 1 \in X
  PROVE  Nat \subseteq X
<1> SUFFICES ASSUME NEW m \in Nat, m \notin X PROVE FALSE
  OBVIOUS
<1> DEFINE D == {i \in 0 .. m : i \in X}
           succ == [i \in D |-> i + 1]
<1>1. IsFiniteSet(D)
  <2>1. IsFiniteSet(0 .. m)
    BY FS_Interval
  <2> QED
    BY <2>1, FS_Subset
<1>2. succ \in Injection(D, D)
  <2>1. \A i \in D : i + 1 \in D
    OBVIOUS
  <2> QED
    BY <2>1 DEF Injection, IsInjective
<1>3. 0 \in D
  OBVIOUS
<1>4. \A i \in D : succ[i] # 0
  OBVIOUS
<1> HIDE DEF D, succ
<1>5. succ \in Surjection(D, D)
  BY <1>1, <1>2, FS_Injection
<1> QED
  BY <1>3, <1>4, <1>5 DEF Surjection

(* A family of subsets of a finite set holds them all if it holds the empty*)
(* set, and any other set of which it holds all subsets one element less.  *)
LEMMA SubsetInduction ==
  ASSUME NEW S, IsFiniteSet(S), NEW F, {} \in F,
         \A T \in SUBSET S : T # {} /\ (\A x \in T : T \ {x} \in F) => T \in F
  PROVE  SUBSET S \subseteq F
<1> DEFINE X == {n \in Nat : \A T \in SUBSET S : Cardinality(T) = n => T \in F}
<1>1. \A T \in SUBSET S : IsFiniteSet(T) /\ Cardinality(T) \in Nat
  BY FS_Subset, FS_CardinalityType
<1>2. 0 \in X
  BY <1>1, FS_EmptySet
<1>3. \A i \in Nat : i \in X => i + 1 \in X
  <2> SUFFICES ASSUME NEW i \in Nat, i \in X,
                      NEW T \in SUBSET S, Cardinality(T) = i + 1
               PROVE  T \in F
    OBVIOUS
  <2>1. T # {}
    BY <1>1, FS_EmptySet
  <2>2. ASSUME NEW x \in T PROVE T \ {x} \in F
    <3>1. Cardinality(T \ {x}) = i
      BY <1>1, FS_RemoveElement
    <3> QED
      BY <3>1
  <2> QED
    BY <2>1, <2>2
<1> HIDE DEF X
<1>4. Nat \subseteq X
  BY <1>2, <1>3, SetInduction
<1> QED
  BY <1>1, <1>4 DEF X

-----------------------------------------------------------------------------
(* The sum as a table of the sums over all subsets.                        *)

Chosen(s) == CHOOSE x \in s : TRUE

(* How SumFunction computes: it takes away one element after another. *)
IsFold(f, g) ==
  g = [s \in SUBSET DOMAIN f |-> IF s = {} THEN 0 ELSE f[Chosen(s)] + g[s \ {Chosen(s)}]]

(* It does not matter which element is taken away first. *)
AnyOrder(f, g) ==
  /\ g[{}] = 0
  /\ \A s \in SUBSET DOMAIN f : \A x \in s : g[s] = f[x] + g[s \ {x}]

(* SumFunction, unfolded. *)
LEMMA SumIsFold ==
  ASSUME NEW f
  PROVE  SumFunction(f) = (CHOOSE g : IsFold(f, g))[DOMAIN f]
BY DEF SumFunction, SumFunctionOnSet, FoldFunctionOnSet, MapThenFoldSet, IsFold, Chosen

(* A table of sums in which no order matters exists for every function. *)
LEMMA SumsExist ==
  ASSUME NEW S, IsFiniteSet(S), NEW f \in [S -> Int]
  PROVE  \E g \in [SUBSET S -> Int] : AnyOrder(f, g)
<1> DEFINE Sums(T) == {g \in [SUBSET T -> Int] :
                         /\ g[{}] = 0
                         /\ \A s \in SUBSET T : \A x \in s : g[s] = f[x] + g[s \ {x}]}
           F == {T \in SUBSET S : Sums(T) # {}}
<1>1. {} \in F
  <2>1. [s \in SUBSET {} |-> 0] \in Sums({})
    OBVIOUS
  <2> QED
    BY <2>1
<1>2. \A T \in SUBSET S : T # {} /\ (\A x \in T : T \ {x} \in F) => T \in F
  <2> SUFFICES ASSUME NEW T \in SUBSET S, NEW x \in T, T \ {x} \in F
               PROVE  Sums(T) # {}
    OBVIOUS
  <2>1. PICK g \in Sums(T \ {x}) : TRUE
    OBVIOUS
  <2> DEFINE h == [s \in SUBSET T |-> IF x \in s THEN f[x] + g[s \ {x}] ELSE g[s]]
  <2>2. h \in [SUBSET T -> Int]
    <3>1. \A s \in SUBSET T : s \ {x} \in SUBSET (T \ {x}) /\ (x \notin s => s \in SUBSET (T \ {x}))
      OBVIOUS
    <3>2. f[x] \in Int /\ g \in [SUBSET (T \ {x}) -> Int]
      OBVIOUS
    <3> QED
      BY <3>1, <3>2
  <2>3. h[{}] = 0
    OBVIOUS
  <2>4. ASSUME NEW s \in SUBSET T, NEW y \in s
        PROVE  h[s] = f[y] + h[s \ {y}]
    <3>1. CASE x \notin s
      <4>1. s \in SUBSET (T \ {x}) /\ x \notin s \ {y}
        BY <3>1
      <4> QED
        BY <2>1, <3>1, <4>1
    <3>2. CASE x \in s /\ y = x
      BY <3>2
    <3>3. CASE x \in s /\ y # x
      <4>1. s \ {x} \in SUBSET (T \ {x}) /\ y \in s \ {x}
        BY <3>3
      <4>2. g[s \ {x}] = f[y] + g[(s \ {x}) \ {y}]
        BY <2>1, <4>1
      <4>3. (s \ {x}) \ {y} = (s \ {y}) \ {x} /\ (s \ {y}) \ {x} \in SUBSET (T \ {x})
        OBVIOUS
      <4>4. h[s] = f[x] + g[s \ {x}] /\ h[s \ {y}] = f[x] + g[(s \ {y}) \ {x}]
        BY <3>3
      <4>6. g[(s \ {x}) \ {y}] = g[(s \ {y}) \ {x}]
        BY <4>3
      <4>5. f[x] \in Int /\ f[y] \in Int /\ g[(s \ {y}) \ {x}] \in Int
        BY <4>3
      <4> HIDE DEF h, Sums
      <4> QED
        BY <4>2, <4>4, <4>5, <4>6
    <3> QED
      BY <3>1, <3>2, <3>3
  <2> HIDE DEF h
  <2> QED
    BY <2>2, <2>3, <2>4
<1>3. S \in F
  <2> HIDE DEF F
  <2> QED
    BY <1>1, <1>2, SubsetInduction
<1> QED
  BY <1>3 DEF AnyOrder

(* Tables of sums agree. *)
LEMMA SumsUnique ==
  ASSUME NEW S, IsFiniteSet(S), NEW f \in [S -> Int],
         NEW g \in [SUBSET S -> Int], AnyOrder(f, g),
         NEW h, IsFold(f, h)
  PROVE  h[S] = g[S]
<1> DEFINE F == {T \in SUBSET S : h[T] = g[T]}
<1>1. {} \in F
  BY DEF IsFold, AnyOrder
<1>2. \A T \in SUBSET S : T # {} /\ (\A x \in T : T \ {x} \in F) => T \in F
  <2> SUFFICES ASSUME NEW T \in SUBSET S, T # {}, \A x \in T : T \ {x} \in F
               PROVE  h[T] = g[T]
    OBVIOUS
  <2>1. Chosen(T) \in T
    BY DEF Chosen
  <2>2. h[T] = f[Chosen(T)] + h[T \ {Chosen(T)}]
    BY DEF IsFold
  <2>3. g[T] = f[Chosen(T)] + g[T \ {Chosen(T)}]
    BY <2>1 DEF AnyOrder
  <2> QED
    BY <2>1, <2>2, <2>3
<1>3. S \in F
  <2> HIDE DEF F
  <2> QED
    BY <1>1, <1>2, SubsetInduction
<1> QED
  BY <1>3

(* Any table of sums gives the sum, over all indices and over fewer. *)
LEMMA SumInTable ==
  ASSUME NEW S, IsFiniteSet(S), NEW f \in [S -> Int],
         NEW g \in [SUBSET S -> Int], AnyOrder(f, g),
         NEW T \in SUBSET S, NEW e \in [T -> Int], \A x \in T : e[x] = f[x]
  PROVE  SumFunction(e) = g[T]
<1> DEFINE h == [s \in SUBSET T |-> g[s]]
<1>1. IsFiniteSet(T) /\ e \in [T -> Int] /\ h \in [SUBSET T -> Int]
  BY FS_Subset
<1>2. AnyOrder(e, h)
  BY DEF AnyOrder
<1>3. IsFold(e, h)
  <2>1. ASSUME NEW s \in SUBSET T
        PROVE  h[s] = IF s = {} THEN 0 ELSE e[Chosen(s)] + h[s \ {Chosen(s)}]
    <3>1. s # {} => Chosen(s) \in s
      BY DEF Chosen
    <3> QED
      BY <1>2, <3>1 DEF AnyOrder
  <2>2. DOMAIN e = T
    OBVIOUS
  <2>3. h = [s \in SUBSET T |-> h[s]]
    OBVIOUS
  <2> HIDE DEF h
  <2> QED
    BY <2>1, <2>2, <2>3 DEF IsFold
<1> DEFINE c == CHOOSE d : IsFold(e, d)
<1> HIDE DEF h
<1>4. IsFold(e, c)
  BY <1>3
<1>5. SumFunction(e) = c[T]
  BY SumIsFold
<1> HIDE DEF c
<1>6. c[T] = h[T]
  BY <1>1, <1>2, <1>4, SumsUnique, Z3
<1> QED
  BY <1>5, <1>6 DEF h

-----------------------------------------------------------------------------
(* What the proofs about the models use.                                   *)

(* The sum of integers is an integer. *)
LEMMA SumIsInt ==
  ASSUME NEW S, IsFiniteSet(S), NEW f \in [S -> Int]
  PROVE  SumFunction(f) \in Int
<1>1. PICK g \in [SUBSET S -> Int] : AnyOrder(f, g)
  BY SumsExist
<1>2. SumFunction(f) = g[S]
  BY <1>1, SumInTable
<1> QED
  BY <1>2

(* The sum over one index less. *)
LEMMA SumTakeAway ==
  ASSUME NEW S, IsFiniteSet(S), NEW f \in [S -> Int], NEW x \in S,
         NEW T, T = S \ {x}, NEW e \in [T -> Int], \A y \in T : e[y] = f[y]
  PROVE  SumFunction(f) = f[x] + SumFunction(e)
<1>1. PICK g \in [SUBSET S -> Int] : AnyOrder(f, g)
  BY SumsExist
<1>2. SumFunction(f) = g[S]
  BY <1>1, SumInTable
<1>3. SumFunction(e) = g[T]
  <2>1. T \in SUBSET S
    OBVIOUS
  <2> QED
    BY <1>1, <2>1, SumInTable
<1>4. g[S] = f[x] + g[S \ {x}]
  BY <1>1 DEF AnyOrder
<1> QED
  BY <1>2, <1>3, <1>4

(* The sum over one index more. *)
LEMMA SumAdd ==
  ASSUME NEW S, IsFiniteSet(S), NEW f, NEW x, x \notin S, NEW e \in [S -> Int],
         f \in [S \cup {x} -> Int], \A y \in S : f[y] = e[y]
  PROVE  SumFunction(f) = f[x] + SumFunction(e)
<1>1. IsFiniteSet(S \cup {x}) /\ (S \cup {x}) \ {x} = S
  BY FS_AddElement
<1> QED
  BY <1>1, SumTakeAway

(* One value changes. *)
LEMMA SumChange ==
  ASSUME NEW S, IsFiniteSet(S), NEW f \in [S -> Int], NEW g \in [S -> Int],
         NEW x \in S, \A y \in S \ {x} : g[y] = f[y]
  PROVE  SumFunction(g) = SumFunction(f) + g[x] - f[x]
<1> DEFINE e == [y \in S \ {x} |-> f[y]]
<1>1. e \in [S \ {x} -> Int] /\ IsFiniteSet(S \ {x})
  BY FS_RemoveElement
<1>2. (\A y \in S \ {x} : e[y] = f[y]) /\ (\A y \in S \ {x} : e[y] = g[y])
  OBVIOUS
<1> HIDE DEF e
<1>3. SumFunction(f) = f[x] + SumFunction(e)
  BY <1>1, <1>2, SumTakeAway
<1>4. SumFunction(g) = g[x] + SumFunction(e)
  BY <1>1, <1>2, SumTakeAway
<1>5. SumFunction(e) \in Int
  BY <1>1, SumIsInt
<1>6. f[x] \in Int /\ g[x] \in Int
  OBVIOUS
<1> QED
  BY <1>3, <1>4, <1>5, <1>6

(* A sum of zeros. *)
LEMMA SumOfZeros ==
  ASSUME NEW S, IsFiniteSet(S), NEW f \in [S -> Int], \A x \in S : f[x] = 0
  PROVE  SumFunction(f) = 0
<1>1. PICK g \in [SUBSET S -> Int] : AnyOrder(f, g)
  BY SumsExist
<1> DEFINE F == {T \in SUBSET S : g[T] = 0}
<1>2. {} \in F
  BY <1>1 DEF AnyOrder
<1>3. \A T \in SUBSET S : T # {} /\ (\A x \in T : T \ {x} \in F) => T \in F
  <2> SUFFICES ASSUME NEW T \in SUBSET S, NEW x \in T, T \ {x} \in F
               PROVE  g[T] = 0
    OBVIOUS
  <2>1. g[T] = f[x] + g[T \ {x}]
    BY <1>1 DEF AnyOrder
  <2> QED
    BY <2>1
<1>4. S \in F
  <2> HIDE DEF F
  <2> QED
    BY <1>2, <1>3, SubsetInduction
<1>5. SumFunction(f) = g[S]
  BY <1>1, SumInTable
<1> QED
  BY <1>4, <1>5

(* The sum over two sets of indices with nothing in common. *)
LEMMA SumOfUnion ==
  ASSUME NEW S, IsFiniteSet(S), NEW T, IsFiniteSet(T), S \cap T = {},
         NEW W, W = S \cup T, NEW f \in [W -> Int], NEW e \in [S -> Int], NEW d \in [T -> Int],
         \A x \in S : e[x] = f[x], \A x \in T : d[x] = f[x]
  PROVE  SumFunction(f) = SumFunction(e) + SumFunction(d)
<1>1. IsFiniteSet(W)
  BY FS_Union
<1>2. PICK g \in [SUBSET W -> Int] : AnyOrder(f, g)
  BY <1>1, SumsExist
<1> DEFINE F == {U \in SUBSET T : g[S \cup U] = g[S] + g[U]}
<1>3. {} \in F
  BY <1>2 DEF AnyOrder
<1>4. \A U \in SUBSET T : U # {} /\ (\A x \in U : U \ {x} \in F) => U \in F
  <2> SUFFICES ASSUME NEW U \in SUBSET T, NEW x \in U, U \ {x} \in F
               PROVE  g[S \cup U] = g[S] + g[U]
    OBVIOUS
  <2>1. (S \cup U) \ {x} = S \cup (U \ {x})
    OBVIOUS
  <2>2. g[S \cup U] = f[x] + g[S \cup (U \ {x})]
    <3>1. DOMAIN f = W /\ S \cup U \in SUBSET W /\ x \in S \cup U
      OBVIOUS
    <3>2. g[S \cup U] = f[x] + g[(S \cup U) \ {x}]
      BY <1>2, <3>1 DEF AnyOrder
    <3> QED
      BY <2>1, <3>2
  <2>3. g[U] = f[x] + g[U \ {x}]
    BY <1>2 DEF AnyOrder
  <2>4. g[S \cup (U \ {x})] = g[S] + g[U \ {x}]
    OBVIOUS
  <2>5. g[S] \in Int /\ g[U \ {x}] \in Int /\ f[x] \in Int
    OBVIOUS
  <2> QED
    BY <2>2, <2>3, <2>4, <2>5
<1>5. T \in F
  <2> HIDE DEF F
  <2> QED
    BY <1>3, <1>4, SubsetInduction
<1>6. SumFunction(f) = g[W]
  BY <1>1, <1>2, SumInTable
<1>7. SumFunction(e) = g[S]
  BY <1>1, <1>2, SumInTable
<1>8. SumFunction(d) = g[T]
  <2> HIDE DEF F
  <2>1. T \in SUBSET W /\ d \in [T -> Int] /\ \A x \in T : d[x] = f[x]
    OBVIOUS
  <2> QED
    BY <1>1, <1>2, <2>1, SumInTable
<1> QED
  BY <1>5, <1>6, <1>7, <1>8

(* The sum of numbers none of which is negative, or none positive. *)
LEMMA SumSign ==
  ASSUME NEW S, IsFiniteSet(S), NEW f \in [S -> Int],
         NEW sign \in {1, -1}, \A x \in S : sign * f[x] >= 0
  PROVE  sign * SumFunction(f) >= 0
<1>1. PICK g \in [SUBSET S -> Int] : AnyOrder(f, g)
  BY SumsExist
<1> DEFINE F == {T \in SUBSET S : sign * g[T] >= 0}
<1>2. {} \in F
  BY <1>1 DEF AnyOrder
<1>3. \A T \in SUBSET S : T # {} /\ (\A x \in T : T \ {x} \in F) => T \in F
  <2> SUFFICES ASSUME NEW T \in SUBSET S, NEW x \in T, T \ {x} \in F
               PROVE  sign * g[T] >= 0
    OBVIOUS
  <2>1. g[T] = f[x] + g[T \ {x}] /\ f[x] \in Int /\ g[T \ {x}] \in Int
    BY <1>1 DEF AnyOrder
  <2> QED
    BY <2>1
<1>4. S \in F
  <2> HIDE DEF F
  <2> QED
    BY <1>2, <1>3, SubsetInduction
<1>5. SumFunction(f) = g[S]
  BY <1>1, SumInTable
<1> QED
  BY <1>4, <1>5

(* The sum over no index. *)
LEMMA SumOfNone ==
  ASSUME NEW S, S = {}, NEW f \in [S -> Int]
  PROVE  SumFunction(f) = 0
<1>1. IsFiniteSet(S)
  BY FS_EmptySet
<1> QED
  BY <1>1, SumOfZeros
=============================================================================
