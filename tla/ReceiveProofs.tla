------------------------------ MODULE ReceiveProofs ------------------------------
(***************************************************************************)
(* Proofs about the receive path, for any stream of frames within half the *)
(* ring of indices, any wire made of it, any windows, costs and budget:    *)
(* the replay window reads each number once, the reassembler's memory is   *)
(* metered, what goes up of a frame goes up once and in order, it is       *)
(* counted dropped once at most, and late shards are netted once.          *)
(*                                                                         *)
(* Sums over finite functions and flattened sequences come first: they are *)
(* recursive, and what is needed of them follows from a least              *)
(* counterexample.                                                         *)
(***************************************************************************)
EXTENDS Receive, FiniteSetTheorems, SequenceTheorems, WellFoundedInduction, TLAPS

(* Numbers.                                                                *)
LEMMA Least ==
  ASSUME NEW S \in SUBSET Nat, S # {}
  PROVE  \E x \in S : \A y \in S : x <= y
<1>1. IsWellFoundedOn(OpToRel(<, Nat), Nat)
  BY NatLessThanWellFounded
<1>2. PICK x \in S : \A y \in S : ~(<<y, x>> \in OpToRel(<, Nat))
  BY <1>1, WFMin
<1>3. \A y \in S : ~(y < x)
  BY <1>2 DEF OpToRel
<1>4. QED
  BY <1>3

(* Induction: a set of naturals that holds 0 and each number's successor.  *)
LEMMA Upto ==
  ASSUME NEW S, 0 \in S, \A n \in Nat : n \in S => n + 1 \in S
  PROVE  Nat \subseteq S
<1> SUFFICES ASSUME NEW m \in Nat, m \notin S PROVE FALSE
  OBVIOUS
<1>1. {n \in Nat : n \notin S} # {}
  OBVIOUS
<1>2. PICK x \in {n \in Nat : n \notin S} : \A y \in {n \in Nat : n \notin S} : x <= y
  BY <1>1, Least
<1>3. x # 0 /\ x - 1 \in Nat
  BY <1>2
<1>4. x - 1 \in S
  BY <1>2, <1>3
<1>5. x - 1 + 1 = x
  BY <1>2
<1> QED
  BY <1>2, <1>3, <1>4, <1>5
-----------------------------------------------------------------------------
(* Sums.  A table of the sums over every part of S: what SumOver builds.   *)
Pick(s) == CHOOSE x \in s : TRUE
Step(f, g, s) == IF s = {} THEN 0 ELSE f[Pick(s)] + g[s \ {Pick(s)}]
Table(f, S, g) == g = [s \in SUBSET S |-> Step(f, g, s)]
Small(S, n) == {s \in SUBSET S : Cardinality(s) <= n}
Partial(f, S, g, n) == g = [s \in Small(S, n) |-> Step(f, g, s)]

Adds(f, S, g) ==
  /\ g[{}] = 0
  /\ \A s \in SUBSET S : g[s] \in Int
  /\ \A s \in SUBSET S, x \in S : x \in s => g[s] = f[x] + g[s \ {x}]

LEMMA PickIn == ASSUME NEW s, s # {} PROVE Pick(s) \in s
  BY DEF Pick

LEMMA Smaller ==
  ASSUME NEW S, IsFiniteSet(S), NEW s \in SUBSET S, NEW x \in s
  PROVE  /\ s \ {x} \in SUBSET S /\ Cardinality(s) \in Nat \ {0}
         /\ Cardinality(s \ {x}) = Cardinality(s) - 1
<1>1. IsFiniteSet(s)
  BY FS_Subset
<1>2. Cardinality(s) \in Nat /\ Cardinality(s \ {x}) = Cardinality(s) - 1
  BY <1>1, FS_CardinalityType, FS_RemoveElement
<1>3. Cardinality(s) # 0
  BY <1>1, FS_EmptySet
<1> QED
  BY <1>2, <1>3

LEMMA SmallSize ==
  ASSUME NEW S, IsFiniteSet(S), NEW s \in SUBSET S
  PROVE  Cardinality(s) \in Nat /\ Cardinality(s) <= Cardinality(S) /\ Cardinality(S) \in Nat
  BY FS_Subset, FS_CardinalityType

LEMMA PartialThere ==
  ASSUME NEW S, IsFiniteSet(S), NEW f, NEW n \in Nat
  PROVE  \E g : Partial(f, S, g, n)
<1> DEFINE P == {m \in Nat : \E g : Partial(f, S, g, m)}
<1>1. 0 \in P
  <2> DEFINE g == [s \in Small(S, 0) |-> 0]
  <2>1. \A s \in Small(S, 0) : s = {}
    BY SmallSize, FS_Subset, FS_EmptySet DEF Small
  <2>2. \A s \in Small(S, 0) : Step(f, g, s) = 0
    BY <2>1 DEF Step
  <2>3. Partial(f, S, g, 0)
    BY <2>2 DEF Partial
  <2> QED
    BY <2>3
<1>2. ASSUME NEW m \in Nat, m \in P PROVE m + 1 \in P
  <2>1. PICK g : Partial(f, S, g, m)
    BY <1>2
  <2> DEFINE h == [s \in Small(S, m + 1) |-> Step(f, g, s)]
  <2>2. \A s \in Small(S, m) : g[s] = Step(f, g, s)
    BY <2>1 DEF Partial
  <2>3. Small(S, m) \subseteq Small(S, m + 1)
    BY SmallSize DEF Small
  <2>4. \A s \in Small(S, m + 1) : Step(f, h, s) = Step(f, g, s)
    <3>1. ASSUME NEW s \in Small(S, m + 1), s # {}
          PROVE  h[s \ {Pick(s)}] = g[s \ {Pick(s)}]
      <4>1. s \ {Pick(s)} \in Small(S, m)
        BY <3>1, PickIn, Smaller DEF Small
      <4> QED
        BY <2>2, <2>3, <4>1
    <3> HIDE DEF h
    <3> QED
      BY <3>1 DEF Step
  <2>5. h = [s \in Small(S, m + 1) |-> Step(f, h, s)]
    BY <2>4
  <2> HIDE DEF h
  <2>6. Partial(f, S, h, m + 1)
    BY <2>5 DEF Partial
  <2> QED
    BY <2>6
<1> HIDE DEF P
<1>3. n \in P
  BY <1>1, <1>2, Upto
<1> QED
  BY <1>3 DEF P

LEMMA TableThere ==
  ASSUME NEW S, IsFiniteSet(S), NEW f
  PROVE  \E g : Table(f, S, g)
<1>1. PICK g : Partial(f, S, g, Cardinality(S))
  BY PartialThere, FS_CardinalityType
<1>2. Small(S, Cardinality(S)) = SUBSET S
  BY SmallSize DEF Small
<1> QED
  BY <1>1, <1>2 DEF Partial, Table

LEMMA SumIsTable ==
  ASSUME NEW f, IsFiniteSet(DOMAIN f)
  PROVE  \E g : Table(f, DOMAIN f, g) /\ SumOver(f) = g[DOMAIN f]
<1> DEFINE h == CHOOSE g : g = [s \in SUBSET DOMAIN f |->
                    IF s = {} THEN 0 ELSE f[CHOOSE x \in s : TRUE] + g[s \ {CHOOSE x \in s : TRUE}]]
<1>1. SumOver(f) = h[DOMAIN f]
  BY DEF SumOver, MapThenSumSet, MapThenFoldSet
<1>2. \E g : g = [s \in SUBSET DOMAIN f |->
                    IF s = {} THEN 0 ELSE f[CHOOSE x \in s : TRUE] + g[s \ {CHOOSE x \in s : TRUE}]]
  <2>1. PICK g : Table(f, DOMAIN f, g)
    BY TableThere
  <2>2. g = [s \in SUBSET DOMAIN f |->
               IF s = {} THEN 0 ELSE f[CHOOSE x \in s : TRUE] + g[s \ {CHOOSE x \in s : TRUE}]]
    BY <2>1 DEF Table, Step, Pick
  <2> QED
    BY <2>2
<1>3. Table(f, DOMAIN f, h)
  BY <1>2 DEF Table, Step, Pick
<1> HIDE DEF h
<1> QED
  BY <1>1, <1>3

(* Induction over the parts of a finite set.                               *)
LEMMA Parts ==
  ASSUME NEW S, IsFiniteSet(S), NEW Q,
         \A s \in SUBSET S : (\A x \in s : s \ {x} \in Q) => s \in Q
  PROVE  SUBSET S \subseteq Q
<1> DEFINE N == {n \in Nat : \A s \in SUBSET S : Cardinality(s) <= n => s \in Q}
<1>1. 0 \in N
  <2> SUFFICES ASSUME NEW s \in SUBSET S, Cardinality(s) <= 0 PROVE s \in Q
    OBVIOUS
  <2>1. s = {}
    BY SmallSize, FS_Subset, FS_EmptySet
  <2> QED
    BY <2>1
<1>2. ASSUME NEW n \in Nat, n \in N PROVE n + 1 \in N
  <2> SUFFICES ASSUME NEW s \in SUBSET S, Cardinality(s) <= n + 1 PROVE s \in Q
    OBVIOUS
  <2>1. \A x \in s : s \ {x} \in Q
    BY <1>2, Smaller
  <2> QED
    BY <2>1
<1> HIDE DEF N
<1>3. Cardinality(S) \in N
  BY <1>1, <1>2, Upto, FS_CardinalityType
<1> QED
  BY <1>3, SmallSize DEF N

LEMMA TableInt ==
  ASSUME NEW S, IsFiniteSet(S), NEW f, \A x \in S : f[x] \in Int, NEW g, Table(f, S, g)
  PROVE  \A s \in SUBSET S : g[s] \in Int
<1> DEFINE Q == {s \in SUBSET S : g[s] \in Int}
<1>1. ASSUME NEW s \in SUBSET S, \A x \in s : s \ {x} \in Q PROVE s \in Q
  <2>1. g[s] = Step(f, g, s)
    BY DEF Table
  <2>2. s # {} => Pick(s) \in s
    BY PickIn
  <2> QED
    BY <1>1, <2>1, <2>2 DEF Step
<1> HIDE DEF Q
<1>2. SUBSET S \subseteq Q
  BY <1>1, Parts
<1> QED
  BY <1>2 DEF Q

(* A table adds its elements in any order.                                 *)
LEMMA TableAdds ==
  ASSUME NEW S, IsFiniteSet(S), NEW f, \A x \in S : f[x] \in Int, NEW g, Table(f, S, g)
  PROVE  Adds(f, S, g)
<1> DEFINE Q == {s \in SUBSET S : \A x \in s : g[s] = f[x] + g[s \ {x}]}
<1>0. \A s \in SUBSET S : g[s] \in Int /\ g[s] = Step(f, g, s)
  BY TableInt DEF Table
<1>1. ASSUME NEW s \in SUBSET S, \A x \in s : s \ {x} \in Q PROVE s \in Q
  <2> SUFFICES ASSUME NEW x \in s PROVE g[s] = f[x] + g[s \ {x}]
    OBVIOUS
  <2> DEFINE c == Pick(s)
  <2>1. c \in s
    BY PickIn
  <2>2. g[s] = f[c] + g[s \ {c}]
    BY <1>0 DEF Step
  <2>3. CASE x = c
    BY <2>2, <2>3
  <2>4. CASE x # c
    <3> HIDE DEF c
    <3>1. s \ {c} \in Q /\ x \in s \ {c} /\ s \ {x} \in Q /\ c \in s \ {x}
      BY <1>1, <2>1, <2>4
    <3>2. g[s \ {c}] = f[x] + g[(s \ {c}) \ {x}] /\ g[s \ {x}] = f[c] + g[(s \ {x}) \ {c}]
      BY <3>1
    <3>3. (s \ {c}) \ {x} = (s \ {x}) \ {c}
      OBVIOUS
    <3>4. g[(s \ {x}) \ {c}] \in Int /\ f[x] \in Int /\ f[c] \in Int
      BY <1>0, <2>1
    <3> DEFINE U == g[(s \ {x}) \ {c}]
    <3>5. g[s] = f[c] + (f[x] + U)
      BY <2>2, <3>2, <3>3
    <3>6. g[s \ {x}] = f[c] + U
      BY <3>2
    <3>7. U \in Int
      BY <3>4
    <3> HIDE DEF U
    <3> QED
      BY <3>4, <3>5, <3>6, <3>7
  <2> QED
    BY <2>3, <2>4
<1> HIDE DEF Q
<1>2. SUBSET S \subseteq Q
  BY <1>1, Parts
<1>3. g[{}] = 0
  BY <1>0 DEF Step
<1>4. \A s \in SUBSET S : \A x \in s : g[s] = f[x] + g[s \ {x}]
  BY <1>2 DEF Q
<1> QED
  BY <1>0, <1>3, <1>4 DEF Adds

LEMMA TablesAgree ==
  ASSUME NEW S, IsFiniteSet(S), NEW f, \A x \in S : f[x] \in Int, NEW g, Table(f, S, g),
         NEW T \in SUBSET S, NEW h, \A x \in T : h[x] = f[x], NEW e, Table(h, T, e)
  PROVE  \A s \in SUBSET T : e[s] = g[s]
<1> DEFINE Q == {s \in SUBSET T : e[s] = g[s]}
<1>0. IsFiniteSet(T)
  BY FS_Subset
<1>1. ASSUME NEW s \in SUBSET T, \A x \in s : s \ {x} \in Q PROVE s \in Q
  <2>1. e[s] = Step(h, e, s) /\ g[s] = Step(f, g, s)
    BY DEF Table
  <2>2. s # {} => Pick(s) \in s
    BY PickIn
  <2> QED
    BY <1>1, <2>1, <2>2 DEF Step
<1> HIDE DEF Q
<1>2. SUBSET T \subseteq Q
  BY <1>0, <1>1, Parts
<1> QED
  BY <1>2 DEF Q

(* The sums over the parts of a table of integers.                         *)
LEMMA Sums ==
  ASSUME NEW S, IsFiniteSet(S), NEW f, \A x \in S : f[x] \in Int
  PROVE  \E g : /\ Adds(f, S, g)
                /\ \A h : DOMAIN h \in SUBSET S /\ (\A x \in DOMAIN h : h[x] = f[x])
                         => SumOver(h) = g[DOMAIN h]
<1>1. PICK g : Table(f, S, g)
  BY TableThere
<1>2. ASSUME NEW h, DOMAIN h \in SUBSET S, \A x \in DOMAIN h : h[x] = f[x]
      PROVE  SumOver(h) = g[DOMAIN h]
  <2>1. IsFiniteSet(DOMAIN h)
    BY <1>2, FS_Subset
  <2>2. PICK e : Table(h, DOMAIN h, e) /\ SumOver(h) = e[DOMAIN h]
    BY <2>1, SumIsTable
  <2> QED
    BY <1>1, <1>2, <2>2, TablesAgree
<1>3. Adds(f, S, g)
  BY <1>1, TableAdds
<1> QED
  BY <1>2, <1>3

LEMMA SumEmpty == ASSUME NEW f, DOMAIN f = {} PROVE SumOver(f) = 0
<1>1. PICK g : Table(f, DOMAIN f, g) /\ SumOver(f) = g[DOMAIN f]
  BY FS_EmptySet, SumIsTable
<1>2. g[{}] = Step(f, g, {})
  BY <1>1 DEF Table
<1> QED
  BY <1>1, <1>2 DEF Step

(* One value more, or another in its place.                                *)
LEMMA SumGrow ==
  ASSUME NEW f, IsFiniteSet(DOMAIN f), \A x \in DOMAIN f : f[x] \in Int,
         NEW i, NEW h, DOMAIN h = DOMAIN f \cup {i}, h[i] \in Int,
         \A x \in DOMAIN f : x # i => h[x] = f[x]
  PROVE  /\ SumOver(f) \in Int /\ SumOver(h) \in Int
         /\ SumOver(h) = SumOver(f) + h[i] - IF i \in DOMAIN f THEN f[i] ELSE 0
<1> DEFINE D == DOMAIN f
           R == D \ {i}
           r == [x \in R |-> f[x]]
<1>1. IsFiniteSet(DOMAIN h) /\ \A x \in DOMAIN h : h[x] \in Int
  BY FS_AddElement
<1>2. PICK g : /\ Adds(h, DOMAIN h, g)
               /\ \A q : DOMAIN q \in SUBSET DOMAIN h /\ (\A x \in DOMAIN q : q[x] = h[x])
                         => SumOver(q) = g[DOMAIN q]
  <2> HIDE DEF D
  <2> QED
    BY <1>1, Sums
<1>3. PICK e : /\ Adds(f, D, e)
               /\ \A q : DOMAIN q \in SUBSET D /\ (\A x \in DOMAIN q : q[x] = f[x])
                         => SumOver(q) = e[DOMAIN q]
  BY Sums
<1>4. SumOver(h) = g[DOMAIN h] /\ SumOver(f) = e[D]
  BY <1>2, <1>3
<1>5. SumOver(r) = g[R] /\ SumOver(r) = e[R]
  <2>1. DOMAIN r = R /\ \A x \in R : r[x] = f[x] /\ r[x] = h[x]
    OBVIOUS
  <2>2. R \in SUBSET D /\ R \in SUBSET DOMAIN h
    OBVIOUS
  <2> HIDE DEF r, R, D
  <2> QED
    BY <1>2, <1>3, <2>1, <2>2
<1>6. g[DOMAIN h] = h[i] + g[R] /\ g[R] \in Int
  <2>1. DOMAIN h \ {i} = R /\ DOMAIN h \in SUBSET DOMAIN h /\ i \in DOMAIN h /\ R \in SUBSET DOMAIN h
    OBVIOUS
  <2> HIDE DEF R, D
  <2> QED
    BY <1>2, <2>1 DEF Adds
<1>7. e[R] \in Int /\ e[D] = e[R] + (IF i \in D THEN f[i] ELSE 0)
  <2>1. CASE i \in D
    <3>1. D \in SUBSET D /\ R \in SUBSET D
      OBVIOUS
    <3>2. e[D] = f[i] + e[R] /\ e[R] \in Int
      BY <1>3, <2>1, <3>1 DEF Adds
    <3> QED
      BY <2>1, <3>2
  <2>2. CASE i \notin D
    <3>1. R = D /\ D \in SUBSET D
      BY <2>2
    <3>2. e[D] \in Int
      BY <1>3, <3>1 DEF Adds
    <3> QED
      BY <2>2, <3>1, <3>2
  <2> QED
    BY <2>1, <2>2
<1> DEFINE v == IF i \in D THEN f[i] ELSE 0
<1>8. v \in Int
  OBVIOUS
<1>9. e[D] = e[R] + v
  BY <1>7
<1>10. SumOver(h) = SumOver(f) + h[i] - v /\ SumOver(f) \in Int /\ SumOver(h) \in Int
  <2> HIDE DEF D, R, r, v
  <2> QED
    <3>1. SumOver(h) = h[i] + g[R] /\ SumOver(f) = g[R] + v
      BY <1>4, <1>5, <1>6, <1>9
    <3> QED
      BY <1>6, <1>8, <3>1
<1> QED
  BY <1>10

LEMMA SumDrop ==
  ASSUME NEW f, IsFiniteSet(DOMAIN f), \A x \in DOMAIN f : f[x] \in Int,
         NEW i \in DOMAIN f, NEW h, DOMAIN h = DOMAIN f \ {i}, \A x \in DOMAIN h : h[x] = f[x]
  PROVE  SumOver(h) \in Int /\ SumOver(f) \in Int /\ SumOver(h) = SumOver(f) - f[i]
<1>1. IsFiniteSet(DOMAIN h) /\ DOMAIN f = DOMAIN h \cup {i} /\ i \notin DOMAIN h
  BY FS_RemoveElement
<1>2. \A x \in DOMAIN h : h[x] \in Int /\ (x # i => f[x] = h[x])
  BY <1>1
<1>3. /\ SumOver(h) \in Int /\ SumOver(f) \in Int
      /\ SumOver(f) = SumOver(h) + f[i] - IF i \in DOMAIN h THEN h[i] ELSE 0
  BY <1>1, <1>2, SumGrow
<1> QED
  BY <1>1, <1>3

(* A sum is that of a part and that of the rest.                           *)
LEMMA SumSplit ==
  ASSUME NEW f, IsFiniteSet(DOMAIN f), \A x \in DOMAIN f : f[x] \in Int,
         NEW T \in SUBSET DOMAIN f,
         NEW h, DOMAIN h = T, \A x \in DOMAIN h : h[x] = f[x],
         NEW r, DOMAIN r = DOMAIN f \ T, \A x \in DOMAIN r : r[x] = f[x]
  PROVE  SumOver(h) \in Int /\ SumOver(r) \in Int /\ SumOver(f) = SumOver(h) + SumOver(r)
<1> DEFINE D == DOMAIN f
<1>1. PICK g : /\ Adds(f, D, g)
               /\ \A q : DOMAIN q \in SUBSET D /\ (\A x \in DOMAIN q : q[x] = f[x])
                         => SumOver(q) = g[DOMAIN q]
  BY Sums
<1> DEFINE Q == {s \in SUBSET T : g[D] = g[s] + g[D \ s]}
<1>2. \A s \in SUBSET D : g[s] \in Int
  BY <1>1 DEF Adds
<1>3. ASSUME NEW s \in SUBSET T, \A x \in s : s \ {x} \in Q PROVE s \in Q
  <2>1. CASE s = {}
    <3>1. g[{}] = 0 /\ D \ {} = D /\ D \in SUBSET D
      BY <1>1 DEF Adds
    <3> QED
      BY <1>2, <2>1, <3>1
  <2>2. CASE s # {}
    <3>1. PICK x : x \in s
      BY <2>2
    <3> DEFINE t == s \ {x}
               u == D \ t
    <3>2. g[D] = g[t] + g[u]
      BY <1>3, <3>1
    <3>3. s \in SUBSET D /\ x \in D /\ u \in SUBSET D /\ x \in u /\ u \ {x} = D \ s /\ t \in SUBSET D
      BY <3>1
    <3>4. g[s] = f[x] + g[t]
      BY <1>1, <3>1, <3>3 DEF Adds
    <3> HIDE DEF t
    <3>5. g[u] = f[x] + g[D \ s]
      <4> HIDE DEF u, D
      <4>1. g[u] = f[x] + g[u \ {x}]
        BY <1>1, <3>3 DEF Adds
      <4> QED
        BY <3>3, <4>1
    <3>6. g[t] \in Int /\ g[D \ s] \in Int /\ f[x] \in Int
      BY <1>2, <3>3
    <3> HIDE DEF u, D
    <3>7. g[D] = g[s] + g[D \ s]
      BY <3>2, <3>4, <3>5, <3>6
    <3> QED
      BY <3>7
  <2> QED
    BY <2>1, <2>2
<1> HIDE DEF Q
<1>0. IsFiniteSet(T)
  BY FS_Subset
<1>7. SUBSET T \subseteq Q
  <2> DEFINE E == T
  <2>1. IsFiniteSet(E)
    BY <1>0
  <2>2. ASSUME NEW s \in SUBSET E, \A x \in s : s \ {x} \in Q PROVE s \in Q
    BY <1>3, <2>2
  <2> HIDE DEF E
  <2>3. SUBSET E \subseteq Q
    BY <2>1, <2>2, Parts
  <2> QED
    BY <2>3 DEF E
<1>4. T \in Q
  BY <1>7
<1>5. SumOver(h) = g[T] /\ SumOver(r) = g[D \ T] /\ SumOver(f) = g[D]
  BY <1>1
<1>6. g[T] \in Int /\ g[D \ T] \in Int
  BY <1>2
<1> QED
  BY <1>4, <1>5, <1>6 DEF Q

LEMMA SumNat ==
  ASSUME NEW f, IsFiniteSet(DOMAIN f), \A x \in DOMAIN f : f[x] \in Nat
  PROVE  SumOver(f) \in Nat
<1>1. PICK g : /\ Adds(f, DOMAIN f, g)
               /\ \A q : DOMAIN q \in SUBSET DOMAIN f /\ (\A x \in DOMAIN q : q[x] = f[x])
                         => SumOver(q) = g[DOMAIN q]
  BY Sums
<1> DEFINE Q == {s \in SUBSET DOMAIN f : g[s] \in Nat}
<1>2. ASSUME NEW s \in SUBSET DOMAIN f, \A x \in s : s \ {x} \in Q PROVE s \in Q
  <2>1. CASE s = {}
    BY <1>1, <2>1 DEF Adds
  <2>2. CASE s # {}
    <3>1. PICK x \in DOMAIN f : x \in s
      BY <2>2
    <3>2. g[s] = f[x] + g[s \ {x}]
      BY <1>1, <3>1 DEF Adds
    <3> QED
      BY <1>2, <3>1, <3>2
  <2> QED
    BY <2>1, <2>2
<1> HIDE DEF Q
<1>3. SUBSET DOMAIN f \subseteq Q
  <2> DEFINE D == DOMAIN f
  <2>1. IsFiniteSet(D)
    OBVIOUS
  <2>2. ASSUME NEW s \in SUBSET D, \A x \in s : s \ {x} \in Q PROVE s \in Q
    BY <1>2, <2>2
  <2> HIDE DEF D
  <2>3. SUBSET D \subseteq Q
    BY <2>1, <2>2, Parts
  <2> QED
    BY <2>3 DEF D
<1> QED
  BY <1>1, <1>3 DEF Q

LEMMA SumZero ==
  ASSUME NEW f, IsFiniteSet(DOMAIN f), \A x \in DOMAIN f : f[x] = 0
  PROVE  SumOver(f) = 0
<1>0. \A x \in DOMAIN f : f[x] \in Int
  OBVIOUS
<1>1. PICK g : /\ Adds(f, DOMAIN f, g)
               /\ \A q : DOMAIN q \in SUBSET DOMAIN f /\ (\A x \in DOMAIN q : q[x] = f[x])
                         => SumOver(q) = g[DOMAIN q]
  BY <1>0, Sums
<1> DEFINE Q == {s \in SUBSET DOMAIN f : g[s] = 0}
<1>2. ASSUME NEW s \in SUBSET DOMAIN f, \A x \in s : s \ {x} \in Q PROVE s \in Q
  <2>1. CASE s = {}
    BY <1>1, <2>1 DEF Adds
  <2>2. CASE s # {}
    <3>1. PICK x \in DOMAIN f : x \in s
      BY <2>2
    <3>2. g[s] = f[x] + g[s \ {x}]
      BY <1>1, <3>1 DEF Adds
    <3> QED
      BY <1>2, <3>1, <3>2
  <2> QED
    BY <2>1, <2>2
<1> HIDE DEF Q
<1>3. SUBSET DOMAIN f \subseteq Q
  <2> DEFINE D == DOMAIN f
  <2>1. IsFiniteSet(D)
    OBVIOUS
  <2>2. ASSUME NEW s \in SUBSET D, \A x \in s : s \ {x} \in Q PROVE s \in Q
    BY <1>2, <2>2
  <2> HIDE DEF D
  <2>3. SUBSET D \subseteq Q
    BY <2>1, <2>2, Parts
  <2> QED
    BY <2>3 DEF D
<1> QED
  BY <1>1, <1>3 DEF Q
-----------------------------------------------------------------------------
(* The wire.  Every packet of it is one of some frame of the plan.         *)
PacketsOf(f) ==
  UNION {{Packet(f, b, i) : i \in 0 .. f.blocks[b + 1].k + f.blocks[b + 1].m - 1} :
            b \in 0 .. Len(f.blocks) - 1}
Packets == UNION {PacketsOf(Plan[x]) : x \in DOMAIN Plan}

LEMMA FunSeq ==
  ASSUME NEW P, NEW n \in Nat, NEW q \in [1 .. n -> P]
  PROVE  q \in Seq(P)
  BY SeqDef

Flat(q, g, n) == g = [i \in 1 .. n |-> IF i = 1 THEN q[i] ELSE g[i - 1] \o q[i]]

LEMMA FlatThere ==
  ASSUME NEW q, NEW n \in Nat
  PROVE  \E g : Flat(q, g, n)
<1> DEFINE S == {k \in Nat : \E g : Flat(q, g, k)}
<1>1. 0 \in S
  <2>1. Flat(q, [i \in 1 .. 0 |-> 0], 0)
    BY DEF Flat
  <2> QED
    BY <2>1
<1>2. ASSUME NEW k \in Nat, k \in S PROVE k + 1 \in S
  <2>1. PICK g : Flat(q, g, k)
    BY <1>2
  <2> DEFINE h == [i \in 1 .. k + 1 |-> IF i = k + 1 THEN IF i = 1 THEN q[i] ELSE g[i - 1] \o q[i]
                                        ELSE g[i]]
  <2>2. \A i \in 1 .. k : g[i] = IF i = 1 THEN q[i] ELSE g[i - 1] \o q[i]
    BY <2>1 DEF Flat
  <2>3. \A i \in 1 .. k + 1 : h[i] = IF i = 1 THEN q[i] ELSE h[i - 1] \o q[i]
    <3> SUFFICES ASSUME NEW i \in 1 .. k + 1
                 PROVE  h[i] = IF i = 1 THEN q[i] ELSE h[i - 1] \o q[i]
      OBVIOUS
    <3>1. i # 1 => i - 1 \in 1 .. k
      OBVIOUS
    <3>2. i # 1 => h[i - 1] = g[i - 1]
      BY <3>1
    <3>3. i # k + 1 => i \in 1 .. k
      OBVIOUS
    <3> HIDE DEF h
    <3>4. h[i] = IF i = k + 1 THEN IF i = 1 THEN q[i] ELSE g[i - 1] \o q[i] ELSE g[i]
      BY DEF h
    <3> QED
      BY <2>2, <3>2, <3>3, <3>4
  <2>4. h = [i \in 1 .. k + 1 |-> h[i]]
    OBVIOUS
  <2> HIDE DEF h
  <2>5. Flat(q, h, k + 1)
    BY <2>3, <2>4 DEF Flat
  <2> QED
    BY <2>5
<1> HIDE DEF S
<1>3. n \in S
  BY <1>1, <1>2, Upto
<1> QED
  BY <1>3 DEF S

LEMMA FlattenIn ==
  ASSUME NEW P, NEW q \in Seq(Seq(P))
  PROVE  FlattenSeq(q) \in Seq(P)
<1>1. CASE Len(q) = 0
  BY <1>1, EmptySeq DEF FlattenSeq
<1>2. CASE Len(q) # 0
  <2> DEFINE n == Len(q)
             f == CHOOSE g : g = [i \in 1 .. n |-> IF i = 1 THEN q[i] ELSE g[i - 1] \o q[i]]
             S == {k \in Nat : k + 1 \in 1 .. n => f[k + 1] \in Seq(P)}
  <2>1. n \in Nat \ {0} /\ \A i \in 1 .. n : q[i] \in Seq(P)
    BY <1>2
  <2>2. FlattenSeq(q) = f[n]
    BY <1>2 DEF FlattenSeq
  <2>3. f = [i \in 1 .. n |-> IF i = 1 THEN q[i] ELSE f[i - 1] \o q[i]]
    BY <2>1, FlatThere DEF Flat
  <2> HIDE DEF f, n
  <2>4. 0 \in S
    BY <2>1, <2>3
  <2>5. ASSUME NEW k \in Nat, k \in S PROVE k + 1 \in S
    <3> SUFFICES ASSUME k + 2 \in 1 .. n PROVE f[k + 2] \in Seq(P)
      BY <2>1
    <3>1. k + 1 \in 1 .. n /\ k + 2 # 1 /\ k + 2 - 1 = k + 1
      BY <2>1
    <3>2. f[k + 1] \in Seq(P) /\ q[k + 2] \in Seq(P)
      BY <2>1, <2>5, <3>1
    <3>3. f[k + 2] = IF k + 2 = 1 THEN q[k + 2] ELSE f[k + 2 - 1] \o q[k + 2]
      <4> DEFINE e(i) == IF i = 1 THEN q[i] ELSE f[i - 1] \o q[i]
      <4>1. f = [i \in 1 .. n |-> e(i)]
        BY <2>3
      <4> HIDE DEF e
      <4>2. f[k + 2] = e(k + 2)
        BY <4>1
      <4> QED
        BY <4>2 DEF e
    <3>4. f[k + 2] = f[k + 1] \o q[k + 2]
      BY <3>1, <3>3
    <3> QED
      BY <3>2, <3>4, ConcatProperties
  <2> HIDE DEF S
  <2>8. Nat \subseteq S
    BY <2>4, <2>5, Upto
  <2>6. n - 1 \in S
    BY <2>1, <2>8
  <2>7. f[n] \in Seq(P)
    BY <2>1, <2>6 DEF S
  <2> QED
    BY <2>2, <2>7
<1> QED
  BY <1>1, <1>2

LEMMA EmitIn ==
  ASSUME NEW f \in Plans
  PROVE  emit_data(f) \in Seq(PacketsOf(f)) /\ emit_parity(f) \in Seq(PacketsOf(f))
<1> DEFINE n == Len(f.blocks)
           D(x) == [i \in 1 .. f.blocks[x].k |-> Packet(f, x - 1, i - 1)]
           R(x) == [i \in 1 .. f.blocks[x].m |-> Packet(f, x - 1, f.blocks[x].k + i - 1)]
<1>1. /\ n \in Nat /\ DOMAIN f.blocks = 1 .. n
      /\ \A x \in 1 .. n : f.blocks[x].k \in Nat /\ f.blocks[x].m \in Nat
  <2>1. f.blocks \in Seq([k : Nat \ {0}, m : Nat])
    BY DEF Plans
  <2>2. n \in Nat /\ DOMAIN f.blocks = 1 .. n
    BY <2>1, LenProperties
  <2>3. \A x \in 1 .. n : f.blocks[x] \in [k : Nat \ {0}, m : Nat]
    BY <2>1, ElementOfSeq
  <2> QED
    BY <2>2, <2>3
<1>2. ASSUME NEW x \in 1 .. n
      PROVE  D(x) \in Seq(PacketsOf(f)) /\ R(x) \in Seq(PacketsOf(f))
  <2> DEFINE k == f.blocks[x].k
             m == f.blocks[x].m
  <2>1. k \in Nat /\ m \in Nat /\ x - 1 \in 0 .. n - 1 /\ x - 1 + 1 = x
    BY <1>1
  <2>2. \A i \in 0 .. k + m - 1 : Packet(f, x - 1, i) \in PacketsOf(f)
    BY <2>1 DEF PacketsOf
  <2>3. \A i \in 1 .. k : Packet(f, x - 1, i - 1) \in PacketsOf(f)
    <3>1. \A i \in 1 .. k : i - 1 \in 0 .. k + m - 1
      BY <2>1
    <3> QED
      BY <2>2, <3>1
  <2>4. \A i \in 1 .. m : Packet(f, x - 1, k + i - 1) \in PacketsOf(f)
    <3>1. \A i \in 1 .. m : k + i - 1 \in 0 .. k + m - 1
      BY <2>1
    <3> QED
      BY <2>2, <3>1
  <2>5. D(x) \in [1 .. k -> PacketsOf(f)] /\ R(x) \in [1 .. m -> PacketsOf(f)]
    BY <2>3, <2>4
  <2> HIDE DEF D, R
  <2> QED
    BY <2>1, <2>5, FunSeq
<1> DEFINE d == [x \in 1 .. n |-> D(x)]
           r == [x \in 1 .. n |-> R(x)]
<1>3. d \in Seq(Seq(PacketsOf(f))) /\ r \in Seq(Seq(PacketsOf(f)))
  <2>1. d \in [1 .. n -> Seq(PacketsOf(f))] /\ r \in [1 .. n -> Seq(PacketsOf(f))]
    BY <1>2
  <2> HIDE DEF d, r
  <2> QED
    BY <1>1, <2>1, FunSeq
<1>4. emit_data(f) = FlattenSeq(d) /\ emit_parity(f) = FlattenSeq(r)
  BY <1>1 DEF emit_data, emit_parity
<1> QED
  BY <1>3, <1>4, FlattenIn

LEMMA WireIs ==
  /\ Wire \in Seq(Packets)
  /\ Seqs \subseteq Nat
  /\ \A seq \in Seqs : Wire[seq - FirstSeq + 1] \in Packets
<1>1. /\ Plan \in Seq(Plans) /\ Resent \in Seq(DOMAIN packetize) /\ FirstSeq \in Nat
  BY PlanAssumption
<1>2. packetize \in Seq(Packets)
  <2> DEFINE n == Len(Plan)
             q == [x \in 1 .. n |-> emit_data(Plan[x]) \o emit_parity(Plan[x])]
  <2>1. n \in Nat /\ DOMAIN Plan = 1 .. n /\ \A x \in 1 .. n : Plan[x] \in Plans
    BY <1>1
  <2>2. ASSUME NEW x \in 1 .. n PROVE q[x] \in Seq(Packets)
    <3>1. emit_data(Plan[x]) \o emit_parity(Plan[x]) \in Seq(PacketsOf(Plan[x]))
      BY <2>1, EmitIn, ConcatProperties
    <3>2. PacketsOf(Plan[x]) \subseteq Packets
      BY <2>1 DEF Packets
    <3> QED
      BY <3>1, <3>2, SeqMonotonic
  <2>3. q \in [1 .. n -> Seq(Packets)]
    BY <2>2
  <2>4. q \in Seq(Seq(Packets))
    <3> HIDE DEF q
    <3> QED
      BY <2>1, <2>3, FunSeq
  <2>5. packetize = FlattenSeq(q)
    BY <2>1 DEF packetize
  <2> QED
    BY <2>4, <2>5, FlattenIn
<1>3. Wire \in Seq(Packets)
  <2> DEFINE r == [x \in DOMAIN Resent |-> packetize[Resent[x]]]
  <2>1. r \in [1 .. Len(Resent) -> Packets] /\ Len(Resent) \in Nat
    BY <1>1, <1>2
  <2>2. r \in Seq(Packets)
    <3> HIDE DEF r
    <3> QED
      BY <2>1, FunSeq
  <2> HIDE DEF r
  <2>3. packetize \o r \in Seq(Packets)
    BY <1>2, <2>2, ConcatProperties
  <2> QED
    BY <2>3 DEF Wire, r
<1>4. ASSUME NEW seq \in Seqs
      PROVE  seq \in Nat /\ Wire[seq - FirstSeq + 1] \in Packets
  <2>1. PICK n \in DOMAIN Wire : seq = FirstSeq + n - 1
    BY DEF Seqs
  <2>2. n \in 1 .. Len(Wire) /\ Len(Wire) \in Nat
    BY <1>3, <2>1
  <2>3. seq - FirstSeq + 1 = n /\ seq \in Nat
    BY <1>1, <2>1, <2>2
  <2> QED
    BY <1>3, <2>2, <2>3
<1> QED
  BY <1>3, <1>4
-----------------------------------------------------------------------------
(* Remainders.                                                             *)
LEMMA DivMod ==
  ASSUME NEW a \in Int, NEW w \in Nat \ {0}
  PROVE  /\ a % w \in 0 .. (w - 1) /\ a \div w \in Int
         /\ a = w * (a \div w) + (a % w)
  OBVIOUS

(* Numbers less than a modulus apart that leave the same remainder are one.*)
LEMMA NoAlias ==
  ASSUME NEW a \in Int, NEW b \in Int, NEW w \in Nat \ {0},
         a % w = b % w, a - b < w, b - a < w
  PROVE  a = b
<1> DEFINE q == (a \div w) - (b \div w)
<1>1. q \in Int /\ a - b = w * q
  <2> DEFINE c == a \div w
             d == b \div w
  <2>1. c \in Int /\ d \in Int /\ a = w * c + (a % w) /\ b = w * d + (b % w) /\ a % w \in Int
    BY DivMod
  <2> HIDE DEF c, d
  <2>2. a - b = w * c - w * d
    BY <2>1
  <2>3. w * c - w * d = w * (c - d)
    BY <2>1
  <2>4. q = c - d
    BY DEF c, d
  <2> QED
    BY <2>1, <2>2, <2>3, <2>4
<1> HIDE DEF q
<1>2. q < 1
  BY <1>1
<1>3. q > -1
  BY <1>1
<1>4. QED
  BY <1>1, <1>2, <1>3

LEMMA NoSlotAlias ==
  ASSUME NEW a \in Int, NEW b \in Int, slot(a) = slot(b),
         a - b < REPLAY_WINDOW, b - a < REPLAY_WINDOW
  PROVE  a = b
<1>1. REPLAY_WINDOW \in Nat \ {0}
  BY ReplayAssumption
<1>2. a % REPLAY_WINDOW = b % REPLAY_WINDOW
  BY DEF slot
<1>3. QED
  BY <1>1, <1>2, NoAlias

(* A remainder is the one number below the modulus at a multiple's distance*)
LEMMA Remainder ==
  ASSUME NEW a \in Int, NEW r \in Int, NEW k \in Int, NEW w \in Nat \ {0},
         0 <= r, r < w, a - r = w * k
  PROVE  a % w = r
<1> DEFINE q == (a \div w) - k
<1>1. /\ a % w \in Int /\ 0 <= a % w /\ a % w < w
      /\ q \in Int /\ r - (a % w) = w * q
  BY DivMod
<1> HIDE DEF q
<1>2. q < 1
  BY <1>1
<1>3. q > -1
  BY <1>1
<1>4. QED
  BY <1>1, <1>2, <1>3

LEMMA NextLap ==
  ASSUME NEW a \in Int, NEW w \in Nat \ {0}
  PROVE  (a + w) % w = a % w
<1>1. /\ a % w \in Int /\ 0 <= a % w /\ a % w < w /\ a \div w \in Int
      /\ a = w * (a \div w) + (a % w)
  BY DivMod
<1> DEFINE q == (a \div w) + 1
           r == a % w
<1>2. /\ (a + w) - r = w * q /\ a + w \in Int /\ q \in Int
      /\ r \in Int /\ 0 <= r /\ r < w
  BY <1>1
<1> HIDE DEF q, r
<1>3. (a + w) % w = r
  BY <1>2, Remainder
<1>4. QED
  BY <1>3 DEF r

(* A number is expanded right while it is less than half of what its low   *)
(* half counts to ahead of the reference, and less than a window behind.   *)
LEMMA ExpandsBack ==
  ASSUME NEW ref \in Nat, NEW seq \in Nat,
         seq - ref < LowMod \div 2, ref - seq < REPLAY_WINDOW
  PROVE  expand_seq(ref, seq % LowMod) = seq
<1> DEFINE d == seq - ref
           low == seq % LowMod
           ahead == (low - ref) % LowMod
<1>1. LowMod \in Nat \ {0} /\ REPLAY_WINDOW \in Nat /\ LowMod >= 2 * REPLAY_WINDOW
  BY ReplayAssumption
<1>2. d \in Int /\ 2 * d < LowMod /\ -LowMod < 2 * d
  BY <1>1
<1>3. low \in Int /\ seq \div LowMod \in Int /\ seq = LowMod * (seq \div LowMod) + low
  BY <1>1, DivMod
<1>4. ASSUME d >= 0 PROVE ahead = d
  <2>1. (low - ref) - d = LowMod * (-(seq \div LowMod))
    BY <1>1, <1>3
  <2>2. 0 <= d /\ d < LowMod
    BY <1>1, <1>2, <1>4
  <2> HIDE DEF d, low
  <2>3. -(seq \div LowMod) \in Int /\ low - ref \in Int
    BY <1>3
  <2>4. QED
    BY <1>1, <1>2, <2>1, <2>2, <2>3, Remainder
<1>5. ASSUME d < 0 PROVE ahead = d + LowMod
  <2>1. (low - ref) - (d + LowMod) = LowMod * (-(seq \div LowMod) - 1)
    BY <1>1, <1>3
  <2>2. 0 <= d + LowMod /\ d + LowMod < LowMod
    BY <1>1, <1>2, <1>5
  <2> HIDE DEF d, low
  <2>3. d + LowMod \in Int /\ -(seq \div LowMod) - 1 \in Int /\ low - ref \in Int
    BY <1>1, <1>2, <1>3
  <2>4. QED
    BY <1>1, <2>1, <2>2, <2>3, Remainder
<1>6. expand_seq(ref, low) = LET delta == IF 2 * ahead < LowMod THEN ahead ELSE ahead - LowMod
                             IN  IF ref + delta >= 0 THEN ref + delta ELSE low
  BY DEF expand_seq
<1>7. ref + d = seq
  OBVIOUS
<1> HIDE DEF d, ahead, low
<1>8. (IF 2 * ahead < LowMod THEN ahead ELSE ahead - LowMod) = d
  BY <1>1, <1>2, <1>4, <1>5
<1>9. QED
  BY <1>6, <1>7, <1>8 DEF low

LEMMA Ring ==
  ASSUME NEW w \in Nat \ {0}, NEW i \in Int, NEW j \in Int, NEW f \in Int,
         (i - f) % w >= (j - f) % w
  PROVE  (i - j) % w = ((i - f) % w) - ((j - f) % w)
<1> DEFINE a == (i - f) % w
           b == (j - f) % w
           q == (i - f) \div w
           r == (j - f) \div w
<1>1. a \in 0 .. w - 1 /\ b \in 0 .. w - 1 /\ q \in Int /\ r \in Int
  BY DivMod
<1>2. i - f = w * q + a /\ j - f = w * r + b
  <2>1. i - f \in Int /\ j - f \in Int
    OBVIOUS
  <2> QED
    BY <2>1, DivMod
<1>3. a >= b
  OBVIOUS
<1> HIDE DEF a, b, q, r
<1>4. (i - j) - (a - b) = w * (q - r)
  <2>1. w * (q - r) = w * q - w * r
    BY <1>1
  <2> QED
    BY <1>1, <1>2, <2>1
<1>5. (i - j) % w = a - b
  <2>1. i - j \in Int /\ a - b \in Int /\ q - r \in Int /\ 0 <= a - b /\ a - b < w
    BY <1>1, <1>3
  <2> QED
    BY <1>4, <2>1, Remainder
<1> QED
  BY <1>5 DEF a, b

(* Numbers that all lie less than half the ring past one are in order.     *)
Off(i, f, w) == (i - f) % w

LEMMA RingOrder ==
  ASSUME NEW w \in Nat \ {0}, NEW f \in 0 .. w - 1, NEW i \in 0 .. w - 1, NEW j \in 0 .. w - 1,
         2 * Off(i, f, w) < w, 2 * Off(j, f, w) < w
  PROVE  /\ Off(i, f, w) \in Nat /\ Off(j, f, w) \in Nat
         /\ 2 * Off(i, j, w) < w <=> Off(j, f, w) <= Off(i, f, w)
         /\ Off(j, f, w) <= Off(i, f, w) => Off(i, j, w) = Off(i, f, w) - Off(j, f, w)
         /\ Off(i, f, w) = Off(j, f, w) => i = j
<1> DEFINE a == (i - f) % w
           b == (j - f) % w
<1>1. a \in 0 .. w - 1 /\ b \in 0 .. w - 1 /\ 2 * a < w /\ 2 * b < w
  <2>1. i - f \in Int /\ j - f \in Int
    OBVIOUS
  <2> QED
    BY <2>1, DivMod DEF Off
<1>2. i \in Int /\ j \in Int /\ f \in Int
  OBVIOUS
<1>3. b <= a => (i - j) % w = a - b
  <2> SUFFICES ASSUME (i - f) % w >= (j - f) % w
               PROVE  (i - j) % w = ((i - f) % w) - ((j - f) % w)
    BY <1>1
  <2> QED
    BY <1>2, Ring
<1>4. a <= b => (j - i) % w = b - a
  <2> SUFFICES ASSUME (j - f) % w >= (i - f) % w
               PROVE  (j - i) % w = ((j - f) % w) - ((i - f) % w)
    BY <1>1
  <2> QED
    BY <1>2, Ring
<1> HIDE DEF a, b
<1>5. a = b => i = j
  <2> SUFFICES ASSUME a = b PROVE i = j
    OBVIOUS
  <2> DEFINE d == i - j
             q == d \div w
  <2>1. d \in Int /\ d % w = 0 /\ d < w /\ d > -w
    BY <1>1, <1>3
  <2> HIDE DEF d
  <2>2. d = w * q + (d % w) /\ q \in Int
    BY <2>1, DivMod
  <2> HIDE DEF q
  <2>3. d = w * q
    BY <2>1, <2>2
  <2>4. q < 1 /\ q > -1
    BY <2>1, <2>2, <2>3
  <2>5. d = 0
    BY <2>2, <2>3, <2>4
  <2> QED
    BY <2>5 DEF d
<1>6. a < b => ~(2 * ((i - j) % w) < w)
  <2> SUFFICES ASSUME a < b PROVE ~(2 * ((i - j) % w) < w)
    OBVIOUS
  <2> DEFINE d == b - a
             q == (j - i) \div w
  <2>1. (j - i) % w = d /\ d \in Nat /\ d > 0 /\ 2 * d < w
    BY <1>1, <1>4
  <2>2. j - i = w * q + d /\ q \in Int
    <3>1. j - i \in Int
      OBVIOUS
    <3> QED
      BY <2>1, <3>1, DivMod
  <2> HIDE DEF d, q
  <2>3. (i - j) - (w - d) = w * (-q - 1)
    <3>1. w * (-q - 1) = -(w * q) - w
      BY <2>2
    <3> QED
      BY <2>1, <2>2, <3>1
  <2>4. i - j \in Int /\ w - d \in Int /\ -q - 1 \in Int /\ 0 <= w - d /\ w - d < w
    BY <2>1, <2>2
  <2> DEFINE x == i - j
             y == w - d
             z == -q - 1
  <2>6. x - y = w * z /\ x \in Int /\ y \in Int /\ z \in Int /\ 0 <= y /\ y < w
    BY <2>3, <2>4
  <2> HIDE DEF x, y, z
  <2>7. x % w = y
    BY <2>6, Remainder
  <2>5. (i - j) % w = w - d
    BY <2>7 DEF x, y
  <2> QED
    BY <2>1, <2>5
<1>7. b <= a => 2 * ((i - j) % w) < w
  BY <1>1, <1>3
<1>8. a \in Nat /\ b \in Nat /\ (b <= a \/ a < b)
  BY <1>1
<1>9. 2 * ((i - j) % w) < w <=> b <= a
  BY <1>6, <1>7, <1>8
<1>10. Off(i, f, w) = a /\ Off(j, f, w) = b /\ Off(i, j, w) = (i - j) % w
  BY DEF Off, a, b
<1> QED
  BY <1>3, <1>5, <1>8, <1>9, <1>10

(* Where the plan's frames stand in the space of indices, and its epochs.  *)
First  == CHOOSE i \in 0 .. IndexMod - 1 : \A x \in DOMAIN Plan : Forward(Plan[x].idx, i)
Pos(i) == Behind(i, First)
FirstEpoch == CHOOSE e \in 0 .. EpochMod - 1 :
                \A x \in DOMAIN Plan : 2 * ((Plan[x].epoch - e) % EpochMod) < EpochMod
EpochPos(e) == (e - FirstEpoch) % EpochMod
Epochs == {Plan[x].epoch : x \in DOMAIN Plan}

LEMMA PlanIs == \A x \in DOMAIN Plan : Plan[x] \in Plans
<1>1. Plan \in Seq(Plans)
  BY PlanAssumption
<1> QED
  BY <1>1, LenProperties, ElementOfSeq

LEMMA Order ==
  ASSUME NEW i \in Indices, NEW j \in Indices
  PROVE  /\ Pos(i) \in Nat /\ Pos(j) \in Nat
         /\ Forward(i, j) <=> Pos(j) <= Pos(i)
         /\ Pos(j) <= Pos(i) => Behind(i, j) = Pos(i) - Pos(j)
         /\ Pos(i) = Pos(j) => i = j
<1>1. IndexMod \in Nat \ {0}
  BY WindowAssumption
<1>2. First \in 0 .. IndexMod - 1 /\ \A x \in DOMAIN Plan : Forward(Plan[x].idx, First)
  BY PlanAssumption DEF First
<1>3. /\ i \in 0 .. IndexMod - 1 /\ j \in 0 .. IndexMod - 1
      /\ Forward(i, First) /\ Forward(j, First)
  BY <1>2, PlanIs DEF Indices, Plans
<1>4. 2 * Off(i, First, IndexMod) < IndexMod /\ 2 * Off(j, First, IndexMod) < IndexMod
  BY <1>3 DEF Forward, Behind, Off
<1>5. /\ Forward(i, j) <=> 2 * Off(i, j, IndexMod) < IndexMod
      /\ Behind(i, j) = Off(i, j, IndexMod)
      /\ Pos(i) = Off(i, First, IndexMod) /\ Pos(j) = Off(j, First, IndexMod)
  BY DEF Forward, Behind, Pos, Off
<1> QED
  BY <1>1, <1>2, <1>3, <1>4, <1>5, RingOrder

LEMMA EpochOrder ==
  ASSUME NEW d \in Epochs, NEW e \in Epochs
  PROVE  /\ EpochPos(d) \in Nat /\ EpochPos(e) \in Nat
         /\ 2 * ((e - d) % EpochMod) >= EpochMod <=> EpochPos(e) < EpochPos(d)
<1>1. EpochMod \in Nat \ {0}
  BY PlanAssumption
<1>2. /\ FirstEpoch \in 0 .. EpochMod - 1
      /\ \A x \in DOMAIN Plan : 2 * ((Plan[x].epoch - FirstEpoch) % EpochMod) < EpochMod
  BY PlanAssumption DEF FirstEpoch
<1>3. /\ d \in 0 .. EpochMod - 1 /\ e \in 0 .. EpochMod - 1
      /\ 2 * Off(d, FirstEpoch, EpochMod) < EpochMod /\ 2 * Off(e, FirstEpoch, EpochMod) < EpochMod
  BY <1>2, PlanIs DEF Epochs, Plans, Off
<1>4. EpochPos(d) = Off(d, FirstEpoch, EpochMod) /\ EpochPos(e) = Off(e, FirstEpoch, EpochMod)
  BY DEF EpochPos, Off
<1>5. /\ EpochPos(d) \in Nat /\ EpochPos(e) \in Nat
      /\ 2 * Off(e, d, EpochMod) < EpochMod <=> EpochPos(d) <= EpochPos(e)
  BY <1>1, <1>2, <1>3, <1>4, RingOrder
<1>6. 2 * Off(e, d, EpochMod) \in Int
  <2>1. e - d \in Int
    BY <1>3
  <2> QED
    BY <1>1, <2>1, DivMod DEF Off
<1>7. (e - d) % EpochMod = Off(e, d, EpochMod)
  BY DEF Off
<1> QED
  BY <1>1, <1>5, <1>6, <1>7
-----------------------------------------------------------------------------
(* Of the numbers that were accepted, the highest, and a bit for each that *)
(* is less than a window below it.                                         *)
InWindowBits == {slot(a) : a \in {x \in accepted : replay.highest - x < REPLAY_WINDOW}}
Mirrors ==
  /\ accepted \subseteq Seqs
  /\ replay.seen \in BOOLEAN
  /\ ~replay.seen => accepted = {} /\ replay.bits = {}
  /\ replay.seen =>
       /\ replay.highest \in accepted
       /\ \A a \in accepted : a <= replay.highest
       /\ replay.bits = InWindowBits

(* The ring.                                                               *)
LEMMA AcceptMirrors ==
  ASSUME Mirrors, NEW seq \in Seqs, accepts(replay, seq),
         replay' = accept(replay, seq), accepted' = accepted \cup {seq}
  PROVE  Mirrors'
<1> DEFINE W == REPLAY_WINDOW
           h == replay.highest
<1>1. Seqs \subseteq Nat /\ W \in Nat \ {0}
  BY WireIs, ReplayAssumption
<1>2. accepted' \subseteq Seqs /\ replay'.seen = TRUE
  BY DEF Mirrors, accept
<1>3. CASE ~replay.seen
  <2>1. replay'.highest = seq /\ replay'.bits = {slot(seq)} /\ accepted' = {seq}
    BY <1>3 DEF accept, Mirrors
  <2>2. seq - seq < W
    BY <1>1
  <2>3. InWindowBits' = {slot(seq)}
    BY <2>1, <2>2 DEF InWindowBits
  <2>4. \A a \in accepted' : a <= replay'.highest
    BY <1>1, <2>1
  <2>5. QED
    BY <1>2, <2>1, <2>3, <2>4 DEF Mirrors
<1>4. CASE replay.seen /\ seq <= h
  <2>1. replay'.highest = h /\ replay'.bits = replay.bits \cup {slot(seq)} /\ h \in Nat
    <3>1. h \in Nat
      BY <1>1, <1>4 DEF Mirrors
    <3>2. ~(seq > h)
      BY <1>1, <1>4, <3>1
    <3>3. QED
      BY <1>4, <3>1, <3>2 DEF accept
  <2>2. h - seq < W
    BY <1>1, <1>4, <2>1 DEF accepts
  <2>3. InWindowBits' = InWindowBits \cup {slot(seq)}
    BY <2>1, <2>2 DEF InWindowBits
  <2>4. QED
    BY <1>2, <1>4, <2>1, <2>3 DEF Mirrors
<1>5. CASE replay.seen /\ seq > h
  <2>1. /\ replay'.highest = seq /\ replay'.bits = Slide(replay, seq) \cup {slot(seq)}
        /\ h \in Nat /\ seq \in Nat /\ \A a \in accepted : a \in Nat /\ a <= h
        /\ replay.bits = InWindowBits
    BY <1>1, <1>5 DEF accept, Mirrors
  <2>2. ASSUME NEW a \in accepted', seq - a < W
        PROVE  slot(a) \in replay'.bits
    <3>1. CASE a = seq
      BY <2>1, <3>1
    <3>2. CASE a # seq
      <4>1. a \in accepted /\ a \in Nat /\ a <= h /\ seq - h < W /\ h - a < W
        BY <1>1, <1>5, <2>1, <2>2, <3>2
      <4>2. slot(a) \in replay.bits
        BY <2>1, <4>1 DEF InWindowBits
      <4>3. ASSUME NEW s \in h + 1 .. seq - 1 PROVE slot(s) # slot(a)
        <5>1. s \in Int /\ s - a < W /\ a - s < W /\ s # a
          BY <1>1, <2>1, <2>2, <4>1, <4>3
        <5>2. a \in Int
          BY <4>1
        <5>3. QED
          BY <5>1, <5>2, NoSlotAlias
      <4>4. Slide(replay, seq) = replay.bits \ {slot(s) : s \in h + 1 .. seq - 1}
        BY <1>1, <2>1, <4>1 DEF Slide
      <4>5. QED
        BY <2>1, <4>2, <4>3, <4>4
    <3>3. QED
      BY <3>1, <3>2
  <2>3. ASSUME NEW x \in replay'.bits
        PROVE  \E a \in accepted' : seq - a < W /\ x = slot(a)
    <3>1. CASE x = slot(seq)
      <4>1. seq - seq < W
        BY <1>1
      <4>2. QED
        BY <3>1, <4>1
    <3>2. CASE x # slot(seq)
      <4>1. x \in replay.bits \ {slot(s) : s \in h + 1 .. seq - 1}
        BY <2>1, <2>3, <3>2 DEF Slide
      <4>2. PICK a \in accepted : h - a < W /\ x = slot(a)
        BY <2>1, <4>1 DEF InWindowBits
      <4>3. seq - a < W
        <5> SUFFICES ASSUME ~(seq - a < W) PROVE FALSE
          OBVIOUS
        <5>1. a \in Nat /\ a + W \in Nat /\ a + W >= h + 1 /\ a + W <= seq
          BY <1>1, <2>1, <4>2
        <5>2. slot(a + W) = slot(a)
          BY <1>1, <5>1, NextLap DEF slot
        <5>3. a + W = seq \/ a + W \in h + 1 .. seq - 1
          BY <2>1, <5>1
        <5>4. QED
          BY <3>2, <4>1, <4>2, <5>2, <5>3
      <4>4. QED
        BY <4>2, <4>3
    <3>3. QED
      BY <3>1, <3>2
  <2>4. replay'.bits = InWindowBits'
    BY <2>1, <2>2, <2>3 DEF InWindowBits
  <2>5. \A a \in accepted' : a <= seq
    BY <1>5, <2>1
  <2>6. QED
    BY <1>2, <2>1, <2>4, <2>5 DEF Mirrors
<1>6. h \in Nat \/ ~replay.seen
  BY <1>1 DEF Mirrors
<1>7. QED
  BY <1>1, <1>3, <1>4, <1>5, <1>6 DEF Mirrors

LEMMA Mirrored == Spec => []Mirrors
<1>1. Init => Mirrors
  BY DEF Init, NoneSeen, Mirrors
<1>2. Mirrors /\ [Next]_vars => Mirrors'
  <2> SUFFICES ASSUME Mirrors, [Next]_vars PROVE Mirrors'
    OBVIOUS
  <2>1. CASE \E seq \in Seqs : Receive(seq)
    <3>1. PICK seq \in Seqs : Receive(seq)
      BY <2>1
    <3>2. expand_seq(reference(replay), seq % LowMod) = seq /\ accepts(replay, seq)
      BY <3>1 DEF Receive, Readable
    <3>3. QED
      BY <3>1, <3>2, AcceptMirrors DEF Receive
  <2>2. CASE UNCHANGED <<replay, accepted>>
    BY <2>2 DEF Mirrors, InWindowBits
  <2>3. QED
    BY <2>1, <2>2 DEF Next, TakePartial, Release, Hold, flush_backlog, vars, history
<1>3. QED
  BY <1>1, <1>2, PTL DEF Spec

(* The ring of bits stands for the numbers that were accepted: none is read*)
(* twice, and one in reach that was not is read, through wraps and jumps.  *)
THEOREM ReplayIsExact == Spec => []ReplayExact
<1>1. Mirrors => ReplayExact
  <2> SUFFICES ASSUME Mirrors, NEW seq \in Seqs
               PROVE  LET ref == reference(replay) IN
                      /\ Readable(seq) => seq \notin accepted
                      /\ seq - ref < LowMod \div 2 /\ KeyOf(seq) <= KeyOf(ref) + 1 =>
                           (Readable(seq) <=> seq \notin accepted /\ ref - seq < REPLAY_WINDOW)
    BY DEF ReplayExact
  <2> DEFINE ref == reference(replay)
  <2>1. /\ Seqs \subseteq Nat /\ REPLAY_WINDOW \in Nat \ {0} /\ seq \in Nat /\ ref \in Nat
        /\ \A a \in accepted : a \in Nat
    BY WireIs, ReplayAssumption DEF Mirrors, reference
  <2>2. ref - seq < REPLAY_WINDOW => (accepts(replay, seq) <=> seq \notin accepted)
    <3>1. CASE ~replay.seen
      BY <3>1 DEF accepts, Mirrors
    <3>2. CASE replay.seen /\ seq > replay.highest
      BY <2>1, <3>2 DEF accepts, Mirrors, reference
    <3>3. ASSUME replay.seen, ~(seq > replay.highest), ref - seq < REPLAY_WINDOW
          PROVE  accepts(replay, seq) <=> seq \notin accepted
      <4>1. ref = replay.highest /\ seq <= ref
        BY <2>1, <3>3 DEF reference
      <4>2. seq \in accepted => slot(seq) \in replay.bits
        BY <3>3, <4>1 DEF Mirrors, InWindowBits
      <4>3. ASSUME slot(seq) \in replay.bits PROVE seq \in accepted
        <5>1. PICK a \in accepted : ref - a < REPLAY_WINDOW /\ slot(seq) = slot(a)
          BY <3>3, <4>1, <4>3 DEF Mirrors, InWindowBits
        <5>2. a \in Nat /\ a <= ref
          BY <2>1, <3>3, <4>1 DEF Mirrors
        <5>3. seq - a < REPLAY_WINDOW /\ a - seq < REPLAY_WINDOW
          BY <2>1, <3>3, <4>1, <5>1, <5>2
        <5>4. a = seq
          <6>1. a \in Int /\ seq \in Int
            BY <2>1, <5>2
          <6>2. QED
            BY <5>1, <5>3, <6>1, NoSlotAlias
        <5>5. QED
          BY <5>4
      <4>4. QED
        BY <3>3, <4>1, <4>2, <4>3 DEF accepts
    <3>4. QED
      BY <3>1, <3>2, <3>3
  <2>3. plausible(replay, seq) <=> KeyOf(seq) <= KeyOf(ref) + 1 /\ ref - seq < REPLAY_WINDOW
    BY DEF plausible, KeyOf
  <2>4. Readable(seq) => seq \notin accepted
    BY <2>2, <2>3 DEF Readable
  <2>5. ASSUME seq - ref < LowMod \div 2, KeyOf(seq) <= KeyOf(ref) + 1, ref - seq < REPLAY_WINDOW
        PROVE  Readable(seq) <=> seq \notin accepted
    <3>1. expand_seq(ref, seq % LowMod) = seq
      BY <2>1, <2>5, ExpandsBack
    <3>2. QED
      BY <2>2, <2>3, <2>5, <3>1 DEF Readable
  <2>6. Readable(seq) => ref - seq < REPLAY_WINDOW
    BY <2>3 DEF Readable
  <2>7. QED
    BY <2>4, <2>5, <2>6
<1>2. QED
  BY <1>1, Mirrored, PTL
-----------------------------------------------------------------------------
(* The frame the host planned under an index, and where its blocks start.  *)
FrameOf(i) == Plan[CHOOSE x \in DOMAIN Plan : Plan[x].idx = i]
Count(i) == Len(FrameOf(i).blocks)
Start(i, b) == block_start(FrameOf(i), b)
K(i, b) == FrameOf(i).blocks[b + 1].k
M(i, b) == FrameOf(i).blocks[b + 1].m

(* A block and a frame in flight, against what the host planned.           *)
BlockFits(i, b, x) ==
  /\ b \in 0 .. Count(i) - 1
  /\ x \in [k : Nat, m : Nat, base : Nat, have : SUBSET Nat, parity : SUBSET Nat,
            done : BOOLEAN, reconstructed : BOOLEAN]
  /\ x.k = K(i, b) /\ x.m = M(i, b) /\ x.base = Start(i, b)
  /\ x.have \subseteq 0 .. x.k - 1 /\ x.parity \subseteq 0 .. x.m - 1
  /\ x.reconstructed => x.done
BlockOk(i, b, x) ==
  /\ BlockFits(i, b, x)
  /\ IF x.done THEN x.parity = {} ELSE ~Enough(x)
IsFrame(f) ==
  f = [total |-> f.total, count |-> f.count, pts |-> f.pts, chunk |-> f.chunk,
       epoch |-> f.epoch, parts |-> f.parts, delivered |-> f.delivered, len |-> f.len,
       blocks |-> f.blocks]
Prefix(f, n) == \A b \in 0 .. n - 1 : b \in DOMAIN f.blocks /\ f.blocks[b].done
FrameOk(i, f) ==
  /\ IsFrame(f)
  /\ f.pts = FrameOf(i).pts /\ f.chunk = FrameOf(i).chunk /\ f.epoch = FrameOf(i).epoch
  /\ f.len \in 0 .. Total(i)
  /\ \/ f.total = 0 /\ f.count = 0
     \/ f.total = Total(i) /\ f.count = Count(i)
  /\ \A b \in DOMAIN f.blocks :
       /\ BlockOk(i, b, f.blocks[b])
       /\ f.blocks[b].base + f.blocks[b].k <= f.len
       /\ b = Count(i) - 1 => f.count # 0
  /\ f.parts \in 0 .. Count(i) - 1 /\ f.delivered = Start(i, f.parts)
  /\ Prefix(f, f.parts)

Framed(F) ==
  /\ DOMAIN F \subseteq Indices
  /\ \A i \in DOMAIN F : FrameOk(i, F[i]) /\ F[i].len # 0
Charged(F, h) == h = SumOver([i \in DOMAIN F |-> Committed(F[i])]) /\ h <= Budget

(* What the path knows of a frame no flush tore: nothing yet, or it is in  *)
(* flight, or its index is remembered or too old to be opened again.       *)
Known(i) == i \in opened \/ got[i] # <<>>
Within(n, i) == n # NoFrame /\ Forward(n.idx, i)
Gone(i, C, n) == i \in DOMAIN C \/ Behind(n.idx, i) > HARD_LOSS_WINDOW
End(g) == IF g = <<>> THEN 0 ELSE g[Len(g)].hi
AllParts(g) == \A n \in 1 .. Len(g) : g[n].kind = "part"
Ahead(i, f, q, l) ==
  /\ l[i] = 0 /\ (q # NoFrame => q.idx # i)
  /\ AllParts(got[i])
  /\ got[i] # <<>> => "partial" \notin deliver
  /\ \E c \in 0 .. Count(i) : End(got[i]) = Start(i, c) /\ Prefix(f, c)
  /\ f.delivered = End(got[i]) \/ behind_epoch(f.epoch)
Fate(i, F, C, n, q, l) ==
  /\ Known(i) => Within(n, i) /\ IF i \in DOMAIN F THEN Ahead(i, F[i], q, l) ELSE Gone(i, C, n)
  /\ q # NoFrame /\ q.idx = i => got[i] = <<>>
  /\ l[i] <= IF \E m \in DOMAIN got[i] : got[i][m].kind = "whole" THEN 0 ELSE 1
Shape(F, C, n, q, l) ==
  /\ DOMAIN F \subseteq opened /\ DOMAIN C \subseteq Indices
  /\ n # NoFrame => n \in Anchors /\ n.idx \in Indices
  /\ q # NoFrame => /\ q \in Pictures /\ q.idx \in opened
                    /\ q.epoch \in Epochs /\ "partial" \in deliver
  /\ l \in [Indices -> Nat] /\ \A i \in Indices : l[i] # 0 => i \in opened
  /\ \A i \in DOMAIN F : Within(n, i)
World(F, C, n, q, l) ==
  /\ Shape(F, C, n, q, l)
  /\ \A i \in Indices \ flushed : Fate(i, F, C, n, q, l)
(* What went up of a frame: pieces in a row.                               *)
InRow(i, g) ==
  /\ \A n \in 1 .. Len(g) - 1 : g[n].kind = "part" /\ g[n].hi = g[n + 1].lo
  /\ g # <<>> => g[1].lo = 0 /\ (g[Len(g)].kind = "whole" => g[Len(g)].hi = Total(i))
Told ==
  /\ deliver \in Options /\ opened \subseteq Indices
  /\ epoch # NoFrame => epoch \in Epochs
  /\ got \in [Indices -> Seq(Pieces)]
  /\ \A i \in Indices \ flushed : InRow(i, got[i])
Memory == Framed(frames) /\ Charged(frames, in_flight)
IInv == Memory /\ Told /\ World(frames, completed, newest, parked, lost)
-----------------------------------------------------------------------------
(* What the host planned of a frame.                                       *)
LEMMA FrameIs ==
  ASSUME NEW i \in Indices
  PROVE  /\ FrameOf(i) \in Plans /\ FrameOf(i).idx = i /\ i \in 0 .. IndexMod - 1
         /\ Count(i) \in Nat \ {0} /\ DOMAIN FrameOf(i).blocks = 1 .. Count(i)
         /\ \A b \in 0 .. Count(i) - 1 :
              K(i, b) \in Nat \ {0} /\ M(i, b) \in Nat /\ BlockCost(K(i, b), M(i, b)) \in Nat
         /\ FrameOf(i).epoch \in Epochs
<1> DEFINE c == CHOOSE x \in DOMAIN Plan : Plan[x].idx = i
           f == FrameOf(i)
<1>1. c \in DOMAIN Plan /\ f = Plan[c] /\ f.idx = i
  BY DEF Indices, FrameOf
<1>2. f \in Plans
  <2>1. Plan \in Seq(Plans)
    BY PlanAssumption
  <2> HIDE DEF f, c
  <2> QED
    BY <1>1, <2>1, LenProperties, ElementOfSeq
<1>3. /\ f.idx \in 0 .. IndexMod - 1 /\ f.blocks \in Seq([k : Nat \ {0}, m : Nat])
  BY <1>2 DEF Plans
<1>4. f.blocks # <<>> /\ \A b \in DOMAIN f.blocks : BlockCost(f.blocks[b].k, f.blocks[b].m) \in Nat
  BY <1>1, PlanAssumption
<1>5. Count(i) \in Nat /\ DOMAIN f.blocks = 1 .. Count(i) /\ Count(i) # 0
  BY <1>3, <1>4, LenProperties, EmptySeq DEF Count
<1>6. ASSUME NEW b \in 0 .. Count(i) - 1
      PROVE  K(i, b) \in Nat \ {0} /\ M(i, b) \in Nat /\ BlockCost(K(i, b), M(i, b)) \in Nat
  <2>1. b + 1 \in 1 .. Count(i)
    BY <1>5
  <2>2. f.blocks[b + 1] \in [k : Nat \ {0}, m : Nat]
    BY <1>3, <1>5, <2>1, ElementOfSeq DEF Count
  <2> QED
    BY <1>4, <1>5, <2>1, <2>2 DEF K, M
<1>7. f.epoch \in Epochs
  BY <1>1 DEF Epochs
<1> QED
  BY <1>1, <1>2, <1>3, <1>5, <1>6, <1>7

LEMMA IndicesFinite == IsFiniteSet(Indices)
<1>1. Indices \subseteq 0 .. IndexMod - 1
  BY FrameIs
<1>2. IsFiniteSet(0 .. IndexMod - 1)
  BY WindowAssumption, FS_Interval
<1> QED
  BY <1>1, <1>2, FS_Subset

LEMMA StartStep ==
  ASSUME NEW i \in Indices
  PROVE  /\ Start(i, 0) = 0
         /\ \A b \in 0 .. Count(i) - 1 : Start(i, b + 1) = Start(i, b) + K(i, b)
         /\ \A b \in 0 .. Count(i) : Start(i, b) \in Nat
<1> DEFINE f == FrameOf(i)
           ks(b) == [x \in 1 .. b |-> f.blocks[x].k]
           n == Count(i)
<1>1. n \in Nat /\ \A x \in 1 .. n : f.blocks[x].k \in Nat
  <2>1. \A x \in 1 .. n : x - 1 \in 0 .. n - 1 /\ (x - 1) + 1 = x
    BY FrameIs
  <2> QED
    BY <2>1, FrameIs DEF K
<1>2. \A b : Start(i, b) = SumOver(ks(b))
  BY DEF Start, block_start
<1>3. Start(i, 0) = 0
  <2>1. DOMAIN ks(0) = {}
    OBVIOUS
  <2> HIDE DEF ks
  <2> QED
    BY <1>2, <2>1, SumEmpty
<1>4. ASSUME NEW b \in 0 .. n PROVE Start(i, b) \in Nat
  <2>1. IsFiniteSet(DOMAIN ks(b)) /\ \A x \in DOMAIN ks(b) : ks(b)[x] \in Nat
    <3>1. DOMAIN ks(b) = 1 .. b /\ b \in Int /\ 1 \in Int
      BY <1>1
    <3>2. \A x \in 1 .. b : x \in 1 .. n /\ ks(b)[x] = f.blocks[x].k
      BY <1>1
    <3>3. \A x \in DOMAIN ks(b) : ks(b)[x] \in Nat
      BY <1>1, <3>1, <3>2
    <3> HIDE DEF ks
    <3>4. IsFiniteSet(DOMAIN ks(b))
      BY <3>1, FS_Interval
    <3> QED
      BY <3>3, <3>4
  <2> HIDE DEF ks
  <2> QED
    BY <1>2, <2>1, SumNat
<1>5. ASSUME NEW b \in 0 .. n - 1 PROVE Start(i, b + 1) = Start(i, b) + K(i, b)
  <2> DEFINE s == ks(b)
             h == ks(b + 1)
  <2>1. b \in Nat /\ b + 1 \in 1 .. n /\ b + 1 \notin 1 .. b /\ 1 .. b + 1 = (1 .. b) \cup {b + 1}
    BY <1>1
  <2>2. IsFiniteSet(DOMAIN s) /\ DOMAIN s = 1 .. b /\ \A x \in DOMAIN s : s[x] \in Int
    <3>1. DOMAIN s = 1 .. b /\ b \in Int /\ 1 \in Int
      BY <2>1
    <3>2. \A x \in DOMAIN s : x \in 1 .. n /\ s[x] = f.blocks[x].k
      BY <1>1, <2>1
    <3> HIDE DEF s
    <3>3. IsFiniteSet(DOMAIN s)
      BY <3>1, FS_Interval
    <3> QED
      BY <1>1, <3>1, <3>2, <3>3
  <2>3. /\ DOMAIN h = DOMAIN s \cup {b + 1} /\ h[b + 1] = K(i, b) /\ h[b + 1] \in Int
        /\ \A x \in DOMAIN s : h[x] = s[x]
    BY <1>1, <2>1 DEF K
  <2>4. Start(i, b) = SumOver(s) /\ Start(i, b + 1) = SumOver(h)
    BY <1>2
  <2> DEFINE j == b + 1
  <2>6. j \notin DOMAIN s
    BY <2>1, <2>2
  <2>7. DOMAIN h = DOMAIN s \cup {j} /\ h[j] \in Int /\ h[j] = K(i, b)
    BY <2>3
  <2> HIDE DEF s, h, ks, j
  <2>5. SumOver(s) \in Int /\ SumOver(h) = SumOver(s) + h[j] - IF j \in DOMAIN s THEN s[j] ELSE 0
    <3>1. IsFiniteSet(DOMAIN s) /\ \A x \in DOMAIN s : s[x] \in Int
      BY <2>2
    <3>2. \A x \in DOMAIN s : x # j => h[x] = s[x]
      BY <2>3
    <3> QED
      BY <2>7, <3>1, <3>2, SumGrow
  <2> QED
    BY <2>4, <2>5, <2>6, <2>7 DEF j
<1> QED
  BY <1>1, <1>3, <1>4, <1>5

LEMMA StartGrows ==
  ASSUME NEW i \in Indices, NEW b \in 0 .. Count(i) - 1, NEW c \in b + 1 .. Count(i)
  PROVE  Start(i, b) + K(i, b) <= Start(i, c)
<1> DEFINE S == {d \in Nat : b + 1 + d <= Count(i) => Start(i, b) + K(i, b) <= Start(i, b + 1 + d)}
<1>1. Count(i) \in Nat /\ b \in Nat /\ c \in Nat /\ c - (b + 1) \in Nat /\ K(i, b) \in Nat
  BY FrameIs
<1>2. 0 \in S
  BY <1>1, StartStep
<1>3. ASSUME NEW d \in Nat, d \in S PROVE d + 1 \in S
  <2> SUFFICES ASSUME b + 1 + (d + 1) <= Count(i)
               PROVE  Start(i, b) + K(i, b) <= Start(i, b + 1 + (d + 1))
    OBVIOUS
  <2> DEFINE e == b + 1 + d
  <2>1. e \in 0 .. Count(i) - 1 /\ b + 1 + (d + 1) = e + 1 /\ e \in 0 .. Count(i)
    BY <1>1
  <2>2. Start(i, b) + K(i, b) <= Start(i, e)
    BY <1>1, <1>3, <2>1
  <2> HIDE DEF e
  <2>3. Start(i, e + 1) = Start(i, e) + K(i, e) /\ K(i, e) \in Nat /\ Start(i, e) \in Nat /\ Start(i, b) \in Nat
    <3>1. \A x \in 0 .. Count(i) - 1 : Start(i, x + 1) = Start(i, x) + K(i, x)
      BY StartStep
    <3>2. \A x \in 0 .. Count(i) : Start(i, x) \in Nat
      BY StartStep
    <3>3. \A x \in 0 .. Count(i) - 1 : K(i, x) \in Nat
      BY FrameIs
    <3>4. b \in 0 .. Count(i)
      BY <1>1
    <3> QED
      BY <2>1, <3>1, <3>2, <3>3, <3>4
  <2> QED
    BY <1>1, <2>1, <2>2, <2>3
<1> HIDE DEF S
<1>4. c - (b + 1) \in S
  BY <1>1, <1>2, <1>3, Upto
<1>5. b + 1 + (c - (b + 1)) = c
  BY <1>1
<1> QED
  BY <1>1, <1>4, <1>5 DEF S

(* Every shard below a block's start is a shard of a block before it.      *)
LEMMA Tiled ==
  ASSUME NEW i \in Indices, NEW c \in 0 .. Count(i), NEW s \in 0 .. Start(i, c) - 1
  PROVE  \E b \in 0 .. c - 1 : s - Start(i, b) \in 0 .. K(i, b) - 1
<1> DEFINE S == {d \in Nat : d <= Count(i) => \A t \in Nat : t < Start(i, d) =>
                    \E b \in 0 .. d - 1 : t - Start(i, b) \in 0 .. K(i, b) - 1}
<1>1. 0 \in S
  BY StartStep
<1>2. ASSUME NEW d \in Nat, d \in S PROVE d + 1 \in S
  <2> SUFFICES ASSUME d + 1 <= Count(i), NEW t \in Nat, t < Start(i, d + 1)
               PROVE  \E b \in 0 .. (d + 1) - 1 : t - Start(i, b) \in 0 .. K(i, b) - 1
    OBVIOUS
  <2>0. Count(i) \in Nat /\ d \in 0 .. Count(i) - 1 /\ d \in 0 .. Count(i) /\ (d + 1) - 1 = d
    BY FrameIs
  <2>1. Start(i, d + 1) = Start(i, d) + K(i, d) /\ Start(i, d) \in Nat /\ K(i, d) \in Nat
    BY <2>0, StartStep, FrameIs
  <2>2. CASE t < Start(i, d)
    <3>1. PICK b \in 0 .. d - 1 : t - Start(i, b) \in 0 .. K(i, b) - 1
      BY <1>2, <2>0, <2>2
    <3>2. b \in 0 .. (d + 1) - 1
      BY <2>0
    <3> QED
      BY <3>1, <3>2
  <2>3. CASE ~(t < Start(i, d))
    <3>1. t - Start(i, d) \in 0 .. K(i, d) - 1
      BY <2>1, <2>3
    <3>2. d \in 0 .. (d + 1) - 1
      BY <2>0
    <3> QED
      BY <3>1, <3>2
  <2> QED
    BY <2>2, <2>3
<1> HIDE DEF S
<1>5. c \in Nat /\ c <= Count(i)
  BY FrameIs
<1>3. c \in S /\ c \in Nat /\ c <= Count(i)
  <2>1. Nat \subseteq S
    BY <1>1, <1>2, Upto
  <2> QED
    BY <1>5, <2>1
<1>4. s \in Nat /\ s < Start(i, c)
  BY <1>3, StartStep
<1> QED
  BY <1>3, <1>4 DEF S

LEMMA PacketIs ==
  ASSUME NEW p \in Packets
  PROVE  /\ p.idx \in Indices /\ p.block \in 0 .. Count(p.idx) - 1
         /\ p.pts = FrameOf(p.idx).pts /\ p.epoch = FrameOf(p.idx).epoch
         /\ p.chunk = FrameOf(p.idx).chunk
         /\ p.k = K(p.idx, p.block) /\ p.m = M(p.idx, p.block) /\ p.base = Start(p.idx, p.block)
         /\ p.shard \in 0 .. p.k + p.m - 1
         /\ p.last <=> p.block = Count(p.idx) - 1
         /\ p.k \in Nat \ {0} /\ p.m \in Nat /\ p.base \in Nat
         /\ p.base + p.k <= Total(p.idx)
<1>1. PICK x \in DOMAIN Plan : p \in PacketsOf(Plan[x])
  BY DEF Packets
<1> DEFINE f == Plan[x]
<1>11. PICK b \in 0 .. Len(f.blocks) - 1 :
         \E s \in 0 .. f.blocks[b + 1].k + f.blocks[b + 1].m - 1 : p = Packet(f, b, s)
  BY <1>1 DEF PacketsOf
<1>2. PICK s \in 0 .. f.blocks[b + 1].k + f.blocks[b + 1].m - 1 : p = Packet(f, b, s)
  BY <1>11
<1> HIDE DEF f
<1>3. /\ p.idx = f.idx /\ p.pts = f.pts /\ p.epoch = f.epoch /\ p.chunk = f.chunk
      /\ p.block = b /\ p.base = block_start(f, b) /\ p.k = f.blocks[b + 1].k
      /\ p.m = f.blocks[b + 1].m /\ p.shard = s /\ p.last = (b + 1 = Len(f.blocks))
  BY <1>2 DEF Packet
<1>4. f.idx \in Indices /\ FrameOf(f.idx) = f
  BY PlanAssumption DEF Indices, FrameOf, f
<1>5. Count(p.idx) = Len(f.blocks) /\ Count(p.idx) \in Nat \ {0}
  BY <1>3, <1>4, FrameIs DEF Count
<1>6. p.k = K(p.idx, b) /\ p.m = M(p.idx, b) /\ p.base = Start(p.idx, b)
  BY <1>3, <1>4 DEF K, M, Start
<1>7. b \in 0 .. Count(p.idx) - 1 /\ b \in 0 .. Count(p.idx)
  BY <1>5
<1>8. K(p.idx, b) \in Nat \ {0} /\ M(p.idx, b) \in Nat /\ Start(p.idx, b) \in Nat
  BY <1>3, <1>4, <1>7, FrameIs, StartStep
<1>9. p.base + p.k <= Total(p.idx)
  <2>1. Total(p.idx) = Start(p.idx, Count(p.idx))
    BY DEF Total, Start, Count, FrameOf
  <2>2. Count(p.idx) \in b + 1 .. Count(p.idx)
    BY <1>5, <1>7
  <2> QED
    BY <1>3, <1>4, <1>6, <1>7, <2>1, <2>2, StartGrows
<1>10. p.last <=> p.block = Count(p.idx) - 1
  <2>1. b + 1 = Count(p.idx) <=> b = Count(p.idx) - 1
    BY <1>5, <1>7
  <2> QED
    BY <1>3, <1>5, <2>1, Zenon
<1> QED
  BY <1>2, <1>3, <1>4, <1>6, <1>7, <1>8, <1>9, <1>10

LEMMA TotalIs ==
  ASSUME NEW i \in Indices
  PROVE  Total(i) = Start(i, Count(i)) /\ Total(i) \in Nat
<1>1. Total(i) = Start(i, Count(i))
  BY DEF Total, Start, Count, FrameOf
<1>2. Count(i) \in 0 .. Count(i)
  BY FrameIs
<1> QED
  BY <1>1, <1>2, StartStep
-----------------------------------------------------------------------------
(* A packet's frame.                                                       *)
Lands0(p, f) == FrameOk(p.idx, f) /\ (p.last => f.count # 0)
Same(f, g) ==
  /\ g.pts = f.pts /\ g.chunk = f.chunk /\ g.epoch = f.epoch
  /\ g.parts = f.parts /\ g.delivered = f.delivered

LEMMA PinnedOk ==
  ASSUME NEW p \in Packets, NEW f, FrameOk(p.idx, f)
  PROVE  /\ Lands0(p, Pinned(f, p)) /\ Same(f, Pinned(f, p))
         /\ Pinned(f, p).len = f.len /\ Pinned(f, p).blocks = f.blocks
<1> DEFINE i == p.idx
           g == Pinned(f, p)
<1>1. /\ g.pts = f.pts /\ g.chunk = f.chunk /\ g.epoch = f.epoch /\ g.parts = f.parts
      /\ g.delivered = f.delivered /\ g.len = f.len /\ g.blocks = f.blocks /\ IsFrame(g)
      /\ g.total = (IF p.last THEN p.base + p.k ELSE f.total)
      /\ g.count = (IF p.last THEN p.block + 1 ELSE f.count)
  BY DEF FrameOk, IsFrame, Pinned
<1>2. ASSUME p.last PROVE g.total = Total(i) /\ g.count = Count(i) /\ g.count # 0
  <2>1. p.block = Count(i) - 1 /\ p.k = K(i, p.block) /\ p.base = Start(i, p.block) /\ i \in Indices
    BY <1>2, PacketIs
  <2>2. Count(i) \in Nat \ {0} /\ p.block \in 0 .. Count(i) - 1 /\ p.block + 1 = Count(i)
    BY <2>1, FrameIs
  <2>3. Start(i, p.block + 1) = Start(i, p.block) + K(i, p.block)
    BY <2>1, <2>2, StartStep
  <2>4. Total(i) = Start(i, Count(i))
    BY <2>1, TotalIs
  <2> HIDE DEF g, i
  <2> QED
    BY <1>1, <1>2, <2>1, <2>2, <2>3, <2>4
<1>3. FrameOk(i, g)
  <2> HIDE DEF g, i
  <2>1. FrameOk(i, f)
    BY DEF i
  <2>2. (g.total = 0 /\ g.count = 0) \/ (g.total = Total(i) /\ g.count = Count(i))
    BY <1>1, <1>2, <2>1 DEF FrameOk
  <2>3. ASSUME NEW b \in DOMAIN g.blocks, b = Count(i) - 1 PROVE g.count # 0
    BY <1>1, <1>2, <2>1, <2>3 DEF FrameOk
  <2> QED
    BY <1>1, <2>1, <2>2, <2>3 DEF FrameOk, Prefix
<1> QED
  BY <1>1, <1>2, <1>3 DEF Lands0, Same

LEMMA NewOk ==
  ASSUME NEW p \in Packets
  PROVE  FrameOk(p.idx, NewFrame(p))
<1> DEFINE i == p.idx
           g == NewFrame(p)
<1>1. /\ g.pts = p.pts /\ g.chunk = p.chunk /\ g.epoch = p.epoch /\ g.parts = 0
      /\ g.delivered = 0 /\ g.len = 0 /\ DOMAIN g.blocks = {} /\ IsFrame(g)
      /\ g.total = 0 /\ g.count = 0
  BY DEF IsFrame, NewFrame
<1>2. /\ i \in Indices /\ p.pts = FrameOf(i).pts /\ p.epoch = FrameOf(i).epoch
      /\ p.chunk = FrameOf(i).chunk
  BY PacketIs
<1>3. Start(i, 0) = 0 /\ 0 \in 0 .. Count(i) - 1 /\ 0 \in 0 .. Total(i)
  BY <1>2, StartStep, FrameIs, TotalIs
<1> HIDE DEF i, g
<1>4. FrameOk(i, g)
  BY <1>1, <1>2, <1>3 DEF FrameOk, Prefix
<1> QED
  BY <1>4 DEF i, g

LEMMA BlockIs ==
  ASSUME NEW p \in Packets, NEW f, Lands0(p, f)
  PROVE  /\ BlockOk(p.idx, p.block, Block(p, f))
         /\ p.block \notin DOMAIN f.blocks =>
              Block(p, f).parity = {} /\ Block(p, f).have = {} /\ ~Block(p, f).done
              /\ ~Block(p, f).reconstructed
<1> DEFINE i == p.idx
           x == NewBlock(p)
<1>1. CASE p.block \in DOMAIN f.blocks
  BY <1>1 DEF Lands0, FrameOk, Block
<1>2. CASE p.block \notin DOMAIN f.blocks
  <2>1. /\ p.idx \in Indices /\ p.block \in 0 .. Count(p.idx) - 1
        /\ p.k = K(p.idx, p.block) /\ p.m = M(p.idx, p.block) /\ p.base = Start(p.idx, p.block)
        /\ p.k \in Nat \ {0} /\ p.m \in Nat /\ p.base \in Nat
    BY PacketIs
  <2>2. /\ x = [k |-> p.k, m |-> p.m, base |-> p.base, have |-> {}, parity |-> {},
                done |-> FALSE, reconstructed |-> FALSE]
        /\ Block(p, f) = x
    BY <1>2 DEF Block, NewBlock
  <2> HIDE DEF x
  <2>3. ~Enough(x)
    BY <2>1, <2>2, FS_EmptySet DEF Enough
  <2>4. BlockOk(p.idx, p.block, x)
    BY <2>1, <2>2, <2>3 DEF BlockOk, BlockFits
  <2> QED
    BY <2>2, <2>4
<1> QED
  BY <1>1, <1>2

Grown(p, f) == [f EXCEPT !.len = IF p.base + p.k > @ THEN p.base + p.k ELSE @]

LEMMA GrownOk ==
  ASSUME NEW p \in Packets, NEW f, Lands0(p, f)
  PROVE  /\ Lands0(p, Grown(p, f)) /\ Same(f, Grown(p, f)) /\ Grown(p, f).len # 0
         /\ Grown(p, f).len = f.len + GrowCost(p, f) /\ Grown(p, f).blocks = f.blocks
         /\ p.base + p.k <= Grown(p, f).len /\ GrowCost(p, f) \in Nat
<1> DEFINE i == p.idx
           g == Grown(p, f)
           l == IF p.base + p.k > f.len THEN p.base + p.k ELSE f.len
<1>1. /\ g.pts = f.pts /\ g.chunk = f.chunk /\ g.epoch = f.epoch /\ g.parts = f.parts
      /\ g.delivered = f.delivered /\ g.len = l /\ g.blocks = f.blocks /\ IsFrame(g)
      /\ g.total = f.total /\ g.count = f.count
  BY DEF Lands0, FrameOk, IsFrame, Grown
<1>2. /\ p.k \in Nat \ {0} /\ p.base \in Nat /\ p.base + p.k <= Total(i) /\ i \in Indices
      /\ Total(i) \in Nat
  BY PacketIs, TotalIs
<1>3. f.len \in 0 .. Total(i) /\ FrameOk(i, f) /\ (p.last => f.count # 0)
  BY DEF Lands0, FrameOk
<1>4. /\ l \in 0 .. Total(i) /\ l # 0 /\ f.len <= l /\ p.base + p.k <= l
      /\ l = f.len + GrowCost(p, f) /\ GrowCost(p, f) \in Nat
  BY <1>2, <1>3 DEF GrowCost
<1> HIDE DEF l, i, g
<1>5. ASSUME NEW b \in DOMAIN f.blocks PROVE f.blocks[b].base + f.blocks[b].k <= l
  <2>1. /\ f.blocks[b].base + f.blocks[b].k <= f.len
        /\ f.blocks[b].base \in Nat /\ f.blocks[b].k \in Nat
    BY <1>3 DEF FrameOk, BlockOk, BlockFits
  <2> QED
    BY <1>2, <1>3, <1>4, <2>1
<1>6. FrameOk(i, g)
  BY <1>1, <1>3, <1>4, <1>5 DEF FrameOk, Prefix
<1> QED
  BY <1>1, <1>3, <1>4, <1>6 DEF Lands0, Same, i, g

LEMMA PutOk ==
  ASSUME NEW p \in Packets, NEW f, Lands0(p, f), NEW b, BlockOk(p.idx, p.block, b),
         Block(p, f).done => b.done
  PROVE  /\ Lands0(p, Put(f, p, b)) /\ Same(f, Put(f, p, b)) /\ Put(f, p, b).len # 0
         /\ Put(f, p, b).len = f.len + GrowCost(p, f) /\ GrowCost(p, f) \in Nat
         /\ DOMAIN Put(f, p, b).blocks = DOMAIN f.blocks \cup {p.block}
         /\ Put(f, p, b).blocks[p.block] = b
         /\ \A x \in DOMAIN f.blocks : x # p.block => Put(f, p, b).blocks[x] = f.blocks[x]
         /\ Put(f, p, b).total = f.total /\ Put(f, p, b).count = f.count
<1> DEFINE i == p.idx
           e == Grown(p, f)
           B == [x \in DOMAIN f.blocks \cup {p.block} |-> IF x = p.block THEN b ELSE f.blocks[x]]
           g == Put(f, p, b)
<1>1. /\ g.pts = e.pts /\ g.chunk = e.chunk /\ g.epoch = e.epoch /\ g.parts = e.parts
      /\ g.delivered = e.delivered /\ g.len = e.len /\ g.blocks = B /\ IsFrame(g)
      /\ g.total = e.total /\ g.count = e.count /\ e.blocks = f.blocks
      /\ e.total = f.total /\ e.count = f.count
  <2>1. IsFrame(f)
    BY DEF Lands0, FrameOk
  <2>2. /\ e.pts = f.pts /\ e.chunk = f.chunk /\ e.epoch = f.epoch /\ e.parts = f.parts
        /\ e.delivered = f.delivered /\ e.blocks = f.blocks
        /\ e.total = f.total /\ e.count = f.count
        /\ e.len = IF p.base + p.k > f.len THEN p.base + p.k ELSE f.len
    BY <2>1 DEF IsFrame, Grown
  <2>3. /\ g.pts = f.pts /\ g.chunk = f.chunk /\ g.epoch = f.epoch /\ g.parts = f.parts
        /\ g.delivered = f.delivered /\ g.blocks = B /\ IsFrame(g)
        /\ g.total = f.total /\ g.count = f.count
        /\ g.len = IF p.base + p.k > f.len THEN p.base + p.k ELSE f.len
    <3>1. g = [f EXCEPT !.len = IF p.base + p.k > @ THEN p.base + p.k ELSE @, !.blocks = B]
      BY <2>1 DEF IsFrame, Put
    <3> HIDE DEF g, B
    <3> QED
      BY <2>1, <3>1 DEF IsFrame
  <2> HIDE DEF e, g, B
  <2> QED
    BY <2>2, <2>3
<1>2. /\ Lands0(p, e) /\ Same(f, e) /\ e.len # 0 /\ e.len = f.len + GrowCost(p, f)
      /\ p.base + p.k <= e.len /\ GrowCost(p, f) \in Nat
  BY GrownOk
<1>3. DOMAIN B = DOMAIN f.blocks \cup {p.block} /\ B[p.block] = b
      /\ \A x \in DOMAIN f.blocks : x # p.block => B[x] = f.blocks[x]
  OBVIOUS
<1> HIDE DEF e, g, B
<1>4. ASSUME NEW x \in DOMAIN B
      PROVE  /\ BlockOk(i, x, B[x]) /\ B[x].base + B[x].k <= e.len
             /\ x = Count(i) - 1 => e.count # 0
  <2>1. CASE x = p.block
    <3>1. b.base = p.base /\ b.k = p.k
      BY PacketIs DEF BlockOk, BlockFits
    <3>2. x = Count(i) - 1 => p.last
      BY <2>1, PacketIs
    <3> QED
      BY <1>2, <1>3, <2>1, <3>1, <3>2 DEF Lands0
  <2>2. CASE x # p.block
    BY <1>1, <1>2, <1>3, <2>2 DEF Lands0, FrameOk
  <2> QED
    BY <2>1, <2>2
<1>5. Prefix(g, e.parts)
  <2>1. Prefix(e, e.parts)
    BY <1>2 DEF Lands0, FrameOk
  <2>2. ASSUME NEW x \in DOMAIN f.blocks, f.blocks[x].done PROVE x \in DOMAIN B /\ B[x].done
    BY <1>3, <2>2 DEF Block
  <2> QED
    BY <1>1, <2>1, <2>2 DEF Prefix
<1>6. FrameOk(i, g)
  BY <1>1, <1>2, <1>4, <1>5 DEF Lands0, FrameOk
<1>7. Lands0(p, g) /\ Same(f, g)
  BY <1>1, <1>2, <1>6 DEF Lands0, Same
<1> QED
  BY <1>1, <1>2, <1>3, <1>7 DEF g
-----------------------------------------------------------------------------
(* What a frame holds.                                                     *)
BlockCosts(f) == [b \in DOMAIN f.blocks |-> BlockCost(f.blocks[b].k, f.blocks[b].m)]
Parities(f) == [b \in DOMAIN f.blocks |-> Cardinality(f.blocks[b].parity)]

LEMMA BlockCounts ==
  ASSUME NEW i \in Indices, NEW b, NEW x, BlockOk(i, b, x)
  PROVE  /\ IsFiniteSet(x.have) /\ Cardinality(x.have) \in Nat
         /\ IsFiniteSet(x.parity) /\ Cardinality(x.parity) \in Nat
         /\ BlockCost(x.k, x.m) \in Nat /\ x.k \in Nat \ {0} /\ x.m \in Nat /\ x.base \in Nat
         /\ b \in Nat
<1>1. /\ x.k = K(i, b) /\ x.m = M(i, b) /\ x.have \subseteq 0 .. x.k - 1
      /\ x.parity \subseteq 0 .. x.m - 1 /\ b \in 0 .. Count(i) - 1 /\ x.base \in Nat
  BY DEF BlockOk, BlockFits
<1>2. x.k \in Nat \ {0} /\ x.m \in Nat /\ BlockCost(x.k, x.m) \in Nat
  BY <1>1, FrameIs
<1>3. IsFiniteSet(0 .. x.k - 1) /\ IsFiniteSet(0 .. x.m - 1)
  <2>1. 0 \in Int /\ x.k - 1 \in Int /\ x.m - 1 \in Int
    BY <1>2
  <2> QED
    BY <2>1, FS_Interval
<1>4. IsFiniteSet(x.have) /\ IsFiniteSet(x.parity)
  BY <1>1, <1>3, FS_Subset
<1> QED
  BY <1>1, <1>2, <1>4, FS_CardinalityType

LEMMA FrameCounts ==
  ASSUME NEW i \in Indices, NEW f, FrameOk(i, f)
  PROVE  /\ IsFiniteSet(DOMAIN f.blocks)
         /\ IsFiniteSet(DOMAIN BlockCosts(f)) /\ DOMAIN BlockCosts(f) = DOMAIN f.blocks
         /\ \A b \in DOMAIN BlockCosts(f) : BlockCosts(f)[b] \in Nat
         /\ IsFiniteSet(DOMAIN Parities(f)) /\ DOMAIN Parities(f) = DOMAIN f.blocks
         /\ \A b \in DOMAIN Parities(f) : Parities(f)[b] \in Nat
         /\ Committed(f) = f.len + SumOver(BlockCosts(f)) + SumOver(Parities(f))
         /\ SumOver(BlockCosts(f)) \in Nat /\ SumOver(Parities(f)) \in Nat
         /\ Committed(f) \in Nat
<1>1. \A b \in DOMAIN f.blocks : BlockOk(i, b, f.blocks[b])
  BY DEF FrameOk
<1>2. IsFiniteSet(DOMAIN f.blocks)
  <2>1. DOMAIN f.blocks \subseteq 0 .. Count(i) - 1
    BY <1>1 DEF BlockOk, BlockFits
  <2>2. 0 \in Int /\ Count(i) - 1 \in Int
    BY FrameIs
  <2> QED
    BY <2>1, <2>2, FS_Interval, FS_Subset
<1>3. /\ \A b \in DOMAIN f.blocks : BlockCost(f.blocks[b].k, f.blocks[b].m) \in Nat
      /\ \A b \in DOMAIN f.blocks : Cardinality(f.blocks[b].parity) \in Nat
  BY <1>1, BlockCounts
<1>4. /\ DOMAIN BlockCosts(f) = DOMAIN f.blocks /\ DOMAIN Parities(f) = DOMAIN f.blocks
      /\ \A b \in DOMAIN BlockCosts(f) : BlockCosts(f)[b] \in Nat
      /\ \A b \in DOMAIN Parities(f) : Parities(f)[b] \in Nat
  BY <1>3 DEF BlockCosts, Parities
<1>5. IsFiniteSet(DOMAIN BlockCosts(f)) /\ IsFiniteSet(DOMAIN Parities(f))
  BY <1>2, <1>4
<1>6. SumOver(BlockCosts(f)) \in Nat /\ SumOver(Parities(f)) \in Nat
  BY <1>4, <1>5, SumNat
<1>7. Committed(f) = f.len + SumOver(BlockCosts(f)) + SumOver(Parities(f)) /\ f.len \in Nat
  BY TotalIs DEF Committed, frame_cost, held_parity, BlockCosts, Parities, FrameOk
<1> QED
  BY <1>2, <1>4, <1>5, <1>6, <1>7

LEMMA PutCost ==
  ASSUME NEW p \in Packets, NEW f, Lands0(p, f), NEW b, BlockOk(p.idx, p.block, b),
         Block(p, f).done => b.done
  PROVE  /\ Committed(Put(f, p, b)) =
              Committed(f) + GrowCost(p, f) + BlockCharge(p, f)
                + Cardinality(b.parity) - Cardinality(Block(p, f).parity)
         /\ Committed(Put(f, p, b)) \in Nat /\ Committed(f) \in Nat
         /\ GrowCost(p, f) \in Nat /\ BlockCharge(p, f) \in Nat
         /\ Cardinality(b.parity) \in Nat /\ Cardinality(Block(p, f).parity) \in Nat
<1> DEFINE i == p.idx
           j == p.block
           g == Put(f, p, b)
           c == BlockCosts(f)
           d == BlockCosts(g)
           q == Parities(f)
           r == Parities(g)
           o == Block(p, f)
<1>1. i \in Indices /\ FrameOk(i, f) /\ FrameOk(i, g) /\ BlockOk(i, j, o)
  BY PutOk, PacketIs, BlockIs DEF Lands0
<1>2. /\ g.len = f.len + GrowCost(p, f) /\ GrowCost(p, f) \in Nat /\ f.len \in Nat
      /\ DOMAIN g.blocks = DOMAIN f.blocks \cup {j} /\ g.blocks[j] = b
      /\ \A x \in DOMAIN f.blocks : x # j => g.blocks[x] = f.blocks[x]
  <2>1. g.len = f.len + GrowCost(p, f) /\ GrowCost(p, f) \in Nat
    BY PutOk
  <2>2. /\ DOMAIN g.blocks = DOMAIN f.blocks \cup {j} /\ g.blocks[j] = b
        /\ \A x \in DOMAIN f.blocks : x # j => g.blocks[x] = f.blocks[x]
    BY PutOk
  <2>3. f.len \in Nat
    BY <1>1, TotalIs DEF FrameOk
  <2> QED
    BY <2>1, <2>2, <2>3
<1>3. /\ IsFiniteSet(DOMAIN c) /\ \A x \in DOMAIN c : c[x] \in Nat
      /\ IsFiniteSet(DOMAIN q) /\ \A x \in DOMAIN q : q[x] \in Nat
      /\ Committed(f) = f.len + SumOver(c) + SumOver(q)
      /\ SumOver(c) \in Nat /\ SumOver(q) \in Nat
      /\ DOMAIN c = DOMAIN f.blocks /\ DOMAIN q = DOMAIN f.blocks /\ Committed(f) \in Nat
  BY <1>1, FrameCounts
<1>4. /\ Committed(g) = g.len + SumOver(d) + SumOver(r)
      /\ SumOver(d) \in Nat /\ SumOver(r) \in Nat /\ Committed(g) \in Nat
  BY <1>1, FrameCounts
<1>5. /\ Cardinality(b.parity) \in Nat /\ Cardinality(o.parity) \in Nat
      /\ BlockCost(b.k, b.m) \in Nat /\ b.k = p.k /\ b.m = p.m /\ o.k = p.k /\ o.m = p.m
  BY <1>1, BlockCounts, PacketIs DEF BlockOk, BlockFits
<1>6. /\ DOMAIN d = DOMAIN c \cup {j} /\ d[j] = BlockCost(p.k, p.m) /\ d[j] \in Nat
      /\ \A x \in DOMAIN c : x # j => d[x] = c[x]
  BY <1>2, <1>5 DEF BlockCosts
<1>7. /\ DOMAIN r = DOMAIN q \cup {j} /\ r[j] = Cardinality(b.parity)
      /\ \A x \in DOMAIN q : x # j => r[x] = q[x]
  BY <1>2 DEF Parities
<1>8. j \in DOMAIN f.blocks => /\ o = f.blocks[j] /\ c[j] = BlockCost(p.k, p.m)
                               /\ q[j] = Cardinality(o.parity)
  <2> SUFFICES ASSUME j \in DOMAIN f.blocks
               PROVE  o = f.blocks[j] /\ c[j] = BlockCost(p.k, p.m) /\ q[j] = Cardinality(o.parity)
    OBVIOUS
  <2>1. o = f.blocks[j]
    BY DEF Block
  <2>2. c[j] = BlockCost(f.blocks[j].k, f.blocks[j].m) /\ q[j] = Cardinality(f.blocks[j].parity)
    BY DEF BlockCosts, Parities
  <2> QED
    BY <1>5, <2>1, <2>2
<1>9. j \notin DOMAIN f.blocks => Cardinality(o.parity) = 0
  BY BlockIs, FS_EmptySet
<1> HIDE DEF i, j, g, c, d, q, r, o
<1>10. SumOver(d) = SumOver(c) + d[j] - IF j \in DOMAIN c THEN c[j] ELSE 0
  <2>1. IsFiniteSet(DOMAIN c) /\ \A x \in DOMAIN c : c[x] \in Int
    BY <1>3
  <2>2. d[j] \in Int /\ DOMAIN d = DOMAIN c \cup {j} /\ \A x \in DOMAIN c : x # j => d[x] = c[x]
    BY <1>6
  <2> QED
    BY <2>1, <2>2, SumGrow
<1>11. SumOver(r) = SumOver(q) + r[j] - IF j \in DOMAIN q THEN q[j] ELSE 0
  <2>1. IsFiniteSet(DOMAIN q) /\ \A x \in DOMAIN q : q[x] \in Int
    BY <1>3
  <2>2. r[j] \in Int /\ DOMAIN r = DOMAIN q \cup {j} /\ \A x \in DOMAIN q : x # j => r[x] = q[x]
    BY <1>5, <1>7
  <2> QED
    BY <2>1, <2>2, SumGrow
<1>12. SumOver(d) = SumOver(c) + BlockCharge(p, f) /\ BlockCharge(p, f) \in Nat
  BY <1>3, <1>6, <1>8, <1>10 DEF BlockCharge, j
<1>13. SumOver(r) = SumOver(q) + Cardinality(b.parity) - Cardinality(o.parity)
  BY <1>3, <1>5, <1>7, <1>8, <1>9, <1>11
<1>14. Committed(g) = Committed(f) + GrowCost(p, f) + BlockCharge(p, f)
                        + Cardinality(b.parity) - Cardinality(o.parity)
  BY <1>2, <1>3, <1>4, <1>5, <1>12, <1>13
<1> QED
  BY <1>2, <1>3, <1>4, <1>5, <1>12, <1>14 DEF g, o
-----------------------------------------------------------------------------
(* A packet's block once its shard is in it.                               *)
LEMMA FilledIs ==
  ASSUME NEW p \in Packets, NEW f, Lands0(p, f), ~Block(p, f).done
  PROVE  /\ BlockFits(p.idx, p.block, Filled(p, f)) /\ ~Filled(p, f).done
         /\ ~Filled(p, f).reconstructed
         /\ IsFiniteSet(Filled(p, f).have) /\ Cardinality(Filled(p, f).have) \in Nat
         /\ Cardinality(Filled(p, f).parity) = Cardinality(Block(p, f).parity) + ParityCost(p, f)
         /\ Cardinality(Filled(p, f).parity) \in Nat /\ ParityCost(p, f) \in Nat
         /\ Block(p, f).have \subseteq Filled(p, f).have
         /\ ~Enough(Filled(p, f)) => BlockOk(p.idx, p.block, Filled(p, f))
<1> DEFINE i == p.idx
           j == p.block
           o == Block(p, f)
           b == Filled(p, f)
<1>1. i \in Indices /\ BlockOk(i, j, o) /\ BlockFits(i, j, o)
  BY PacketIs, BlockIs DEF BlockOk
<1>2. /\ IsFiniteSet(o.have) /\ Cardinality(o.have) \in Nat
      /\ IsFiniteSet(o.parity) /\ Cardinality(o.parity) \in Nat
      /\ o.k \in Nat \ {0} /\ o.m \in Nat /\ o.k = p.k /\ o.m = p.m
      /\ p.shard \in 0 .. o.k + o.m - 1
  BY <1>1, BlockCounts, PacketIs DEF BlockFits
<1>3. /\ o \in [k : Nat, m : Nat, base : Nat, have : SUBSET Nat, parity : SUBSET Nat,
                done : BOOLEAN, reconstructed : BOOLEAN]
      /\ o.have \subseteq 0 .. o.k - 1 /\ o.parity \subseteq 0 .. o.m - 1
      /\ ~o.reconstructed
  BY <1>1 DEF BlockFits
<1>4. b = IF p.shard < o.k THEN [o EXCEPT !.have = @ \cup {p.shard}]
          ELSE [o EXCEPT !.parity = @ \cup {p.shard - o.k}]
  BY DEF Filled
<1>5. CASE p.shard < o.k
  <2>1. b = [o EXCEPT !.have = @ \cup {p.shard}] /\ p.shard \in 0 .. o.k - 1 /\ p.shard \in Nat
    BY <1>2, <1>4, <1>5
  <2>2. /\ b.have = o.have \cup {p.shard} /\ b.parity = o.parity /\ b.k = o.k /\ b.m = o.m
        /\ b.base = o.base /\ b.done = o.done /\ b.reconstructed = o.reconstructed
        /\ b \in [k : Nat, m : Nat, base : Nat, have : SUBSET Nat, parity : SUBSET Nat,
                  done : BOOLEAN, reconstructed : BOOLEAN]
    BY <1>3, <2>1
  <2>3. ParityCost(p, f) = 0
    BY <1>2, <1>5 DEF ParityCost
  <2>4. BlockFits(i, j, b)
    BY <1>1, <1>3, <2>1, <2>2 DEF BlockFits
  <2>5. IsFiniteSet(b.have)
    <3>1. IsFiniteSet(o.have \cup {p.shard})
      <4> HIDE DEF o
      <4> QED
        BY <1>2, FS_AddElement
    <3> QED
      BY <2>2, <3>1
  <2>6. ~Enough(b) => BlockOk(i, j, b)
    BY <2>2, <2>4 DEF BlockOk
  <2> HIDE DEF i, j, o, b
  <2> QED
    BY <1>2, <1>3, <2>2, <2>3, <2>4, <2>5, <2>6, FS_CardinalityType DEF i, j, o, b
<1>6. CASE ~(p.shard < o.k)
  <2> DEFINE s == p.shard - o.k
  <2>1. b = [o EXCEPT !.parity = @ \cup {s}] /\ s \in 0 .. o.m - 1 /\ s \in Nat
    BY <1>2, <1>4, <1>6
  <2>2. /\ b.parity = o.parity \cup {s} /\ b.have = o.have /\ b.k = o.k /\ b.m = o.m
        /\ b.base = o.base /\ b.done = o.done /\ b.reconstructed = o.reconstructed
        /\ b \in [k : Nat, m : Nat, base : Nat, have : SUBSET Nat, parity : SUBSET Nat,
                  done : BOOLEAN, reconstructed : BOOLEAN]
    BY <1>3, <2>1
  <2>3. ParityCost(p, f) = IF s \in o.parity THEN 0 ELSE 1
    BY <1>2, <1>6 DEF ParityCost
  <2>4. BlockFits(i, j, b)
    BY <1>1, <1>3, <2>1, <2>2 DEF BlockFits
  <2>5. ~Enough(b) => BlockOk(i, j, b)
    BY <2>2, <2>4 DEF BlockOk
  <2>6. Cardinality(o.parity \cup {s}) = IF s \in o.parity THEN Cardinality(o.parity)
                                         ELSE Cardinality(o.parity) + 1
    BY <1>2, FS_AddElement
  <2> HIDE DEF i, j, o, b, s
  <2> QED
    BY <1>2, <1>3, <2>2, <2>3, <2>4, <2>5, <2>6 DEF i, j, o, b
<1> QED
  BY <1>5, <1>6

(* The block closed by it.                                                 *)
Shut(p, f) ==
  [Filled(p, f) EXCEPT !.parity = {}, !.done = TRUE,
                       !.reconstructed = Cardinality(Filled(p, f).have) < Filled(p, f).k]

LEMMA ShutIs ==
  ASSUME NEW p \in Packets, NEW f, Lands0(p, f), ~Block(p, f).done
  PROVE  /\ BlockOk(p.idx, p.block, Shut(p, f)) /\ Shut(p, f).done
         /\ Shut(p, f).parity = {} /\ Shut(p, f).have = Filled(p, f).have
         /\ Shut(p, f).k = Filled(p, f).k
         /\ Shut(p, f).reconstructed <=> Cardinality(Shut(p, f).have) < Shut(p, f).k
<1> DEFINE o == Filled(p, f)
           b == Shut(p, f)
<1>1. BlockFits(p.idx, p.block, o) /\ Cardinality(o.have) \in Nat
  BY FilledIs
<1>2. /\ b.have = o.have /\ b.k = o.k /\ b.m = o.m /\ b.base = o.base /\ b.parity = {}
      /\ b.done = TRUE /\ b.reconstructed = (Cardinality(o.have) < o.k)
      /\ b \in [k : Nat, m : Nat, base : Nat, have : SUBSET Nat, parity : SUBSET Nat,
                done : BOOLEAN, reconstructed : BOOLEAN]
  <2> HIDE DEF o
  <2>1. b = [o EXCEPT !.parity = {}, !.done = TRUE, !.reconstructed = Cardinality(o.have) < o.k]
    BY DEF Shut, o
  <2>2. o \in [k : Nat, m : Nat, base : Nat, have : SUBSET Nat, parity : SUBSET Nat,
                done : BOOLEAN, reconstructed : BOOLEAN]
    BY <1>1 DEF BlockFits
  <2> HIDE DEF b
  <2> DEFINE r == Cardinality(o.have) < o.k
  <2>3. r \in BOOLEAN
    OBVIOUS
  <2> HIDE DEF r
  <2>4. b = [o EXCEPT !.parity = {}, !.done = TRUE, !.reconstructed = r]
    BY <2>1 DEF r
  <2>5. /\ b.have = o.have /\ b.k = o.k /\ b.m = o.m /\ b.base = o.base /\ b.parity = {}
        /\ b.done = TRUE /\ b.reconstructed = r
        /\ b \in [k : Nat, m : Nat, base : Nat, have : SUBSET Nat, parity : SUBSET Nat,
                  done : BOOLEAN, reconstructed : BOOLEAN]
    BY <2>2, <2>3, <2>4
  <2> QED
    BY <2>5 DEF r
<1> HIDE DEF o, b
<1>3. BlockOk(p.idx, p.block, b)
  BY <1>1, <1>2 DEF BlockOk, BlockFits
<1> QED
  BY <1>2, <1>3 DEF o, b

(* A shard of a block that is already rebuilt costs nothing.               *)
LateShard(p, f) ==
  LET b == Block(p, f)
      late == b.reconstructed /\ p.shard < b.k /\ p.shard \notin b.have
  IN  IF late THEN [b EXCEPT !.have = @ \cup {p.shard}] ELSE b

LEMMA LateShardIs ==
  ASSUME NEW p \in Packets, NEW f, Lands0(p, f), Block(p, f).done
  PROVE  /\ BlockOk(p.idx, p.block, LateShard(p, f)) /\ LateShard(p, f).done
         /\ Cardinality(LateShard(p, f).parity) = 0 /\ Cardinality(Block(p, f).parity) = 0
         /\ p.block \in DOMAIN f.blocks /\ Block(p, f) = f.blocks[p.block]
         /\ BlockCharge(p, f) = 0 /\ GrowCost(p, f) = 0
<1> DEFINE o == Block(p, f)
           b == LateShard(p, f)
<1>1. BlockOk(p.idx, p.block, o) /\ BlockFits(p.idx, p.block, o) /\ o.parity = {}
  BY BlockIs DEF BlockOk
<1>2. p.block \in DOMAIN f.blocks /\ o = f.blocks[p.block]
  BY BlockIs DEF Block
<1>3. BlockCharge(p, f) = 0
  BY <1>2 DEF BlockCharge
<1>4. GrowCost(p, f) = 0
  <2>1. o.base + o.k <= f.len /\ o.base = p.base /\ o.k = p.k /\ f.len \in 0 .. Total(p.idx)
    BY <1>1, <1>2, PacketIs DEF Lands0, FrameOk, BlockFits
  <2>2. p.base \in Nat /\ p.k \in Nat /\ Total(p.idx) \in Nat
    BY PacketIs, TotalIs
  <2> QED
    BY <2>1, <2>2 DEF GrowCost
<1>5. BlockOk(p.idx, p.block, b) /\ b.done /\ b.parity = {}
  <2>1. CASE o.reconstructed /\ p.shard < o.k /\ p.shard \notin o.have
    <3>1. b = [o EXCEPT !.have = @ \cup {p.shard}]
      BY <2>1 DEF LateShard
    <3>2. p.shard \in Nat /\ p.shard \in 0 .. o.k - 1
      BY <1>1, <2>1, PacketIs DEF BlockFits
    <3>3. /\ o \in [k : Nat, m : Nat, base : Nat, have : SUBSET Nat, parity : SUBSET Nat,
                    done : BOOLEAN, reconstructed : BOOLEAN]
          /\ o.done
      BY <1>1 DEF BlockFits
    <3> HIDE DEF b, o
    <3>4. /\ b.have = o.have \cup {p.shard} /\ b.parity = o.parity /\ b.k = o.k /\ b.m = o.m
          /\ b.base = o.base /\ b.done = o.done /\ b.reconstructed = o.reconstructed
          /\ b \in [k : Nat, m : Nat, base : Nat, have : SUBSET Nat, parity : SUBSET Nat,
                    done : BOOLEAN, reconstructed : BOOLEAN]
      BY <3>1, <3>2, <3>3
    <3> QED
      BY <1>1, <3>2, <3>3, <3>4 DEF BlockOk, BlockFits
  <2>2. CASE ~(o.reconstructed /\ p.shard < o.k /\ p.shard \notin o.have)
    <3>1. b = o
      BY <2>2 DEF LateShard
    <3> QED
      BY <1>1, <3>1
  <2> QED
    BY <2>1, <2>2
<1> HIDE DEF b, o
<1> QED
  BY <1>1, <1>2, <1>3, <1>4, <1>5, FS_EmptySet DEF b, o
-----------------------------------------------------------------------------
(* The prefix a slice-progressive consumer may have.                       *)
LEMMA Highest ==
  ASSUME NEW S \in SUBSET Nat, S # {}, NEW n \in Nat, \A x \in S : x <= n
  PROVE  Max(S) \in S
<1> DEFINE D == {n - x : x \in S}
<1>1. D \subseteq Nat /\ D # {}
  <2>1. \A x \in S : n - x \in Nat
    OBVIOUS
  <2> QED
    BY <2>1
<1>2. PICK d \in D : \A y \in D : d <= y
  <2>1. D \in SUBSET Nat
    BY <1>1
  <2> HIDE DEF D
  <2> QED
    BY <1>1, <2>1, Least
<1>3. PICK x \in S : d = n - x
  OBVIOUS
<1>4. \A y \in S : x >= y
  <2> SUFFICES ASSUME NEW y \in S PROVE x >= y
    OBVIOUS
  <2>1. d <= n - y
    BY <1>2
  <2> QED
    BY <1>3, <2>1
<1> QED
  BY <1>3, <1>4 DEF Max

LEMMA PrefixIs ==
  ASSUME NEW i \in Indices, NEW f, FrameOk(i, f)
  PROVE  PrefixBlocks(f) \in 0 .. Count(i) - 1 /\ Prefix(f, PrefixBlocks(f))
<1> DEFINE c == Cardinality(DOMAIN f.blocks)
           S == {n \in 0 .. c :
                   \A b \in 0 .. n - 1 : /\ b \in DOMAIN f.blocks /\ f.blocks[b].done
                                         /\ f.count = 0 \/ b + 1 < f.count}
<1>1. c \in Nat
  BY FrameCounts, FS_CardinalityType
<1>2. S \in SUBSET Nat /\ 0 \in S /\ \A n \in S : n <= c
  BY <1>1
<1>3. PrefixBlocks(f) = Max(S)
  BY DEF PrefixBlocks
<1> DEFINE n == PrefixBlocks(f)
<1>4. n \in S
  <2> HIDE DEF S, c
  <2> QED
    BY <1>1, <1>2, <1>3, Highest
<1> HIDE DEF n
<1>5. n \in Nat /\ \A b \in 0 .. n - 1 : /\ b \in DOMAIN f.blocks /\ f.blocks[b].done
                                         /\ f.count = 0 \/ b + 1 < f.count
  BY <1>1, <1>4
<1> HIDE DEF S, c
<1>6. n < Count(i)
  <2> SUFFICES ASSUME ~(n < Count(i)) PROVE FALSE
    OBVIOUS
  <2> DEFINE b == Count(i) - 1
  <2>1. Count(i) \in Nat \ {0} /\ b \in 0 .. n - 1 /\ b + 1 = Count(i)
    BY <1>5, FrameIs
  <2>2. b \in DOMAIN f.blocks /\ (f.count = 0 \/ b + 1 < f.count)
    BY <1>5, <2>1
  <2>3. f.count = Count(i)
    BY <2>2 DEF FrameOk
  <2> QED
    BY <2>1, <2>2, <2>3
<1>7. n \in 0 .. Count(i) - 1
  BY <1>5, <1>6, FrameIs
<1> QED
  BY <1>5, <1>7 DEF Prefix, n

LEMMA ProgressedOk ==
  ASSUME NEW i \in Indices, NEW f, FrameOk(i, f)
  PROVE  /\ FrameOk(i, Progressed(f)) /\ Progressed(f).len = f.len
         /\ Progressed(f).blocks = f.blocks /\ Progressed(f).count = f.count
         /\ Committed(Progressed(f)) = Committed(f)
         /\ Progressed(f).epoch = f.epoch
         /\ "parts" \notin deliver => Progressed(f) = f
<1> DEFINE n == PrefixBlocks(f)
           g == Progressed(f)
<1>1. n \in 0 .. Count(i) - 1 /\ Prefix(f, n)
  BY PrefixIs
<1>2. CASE g = f
  BY <1>2
<1>3. CASE g # f
  <2>1. g = [f EXCEPT !.parts = n, !.delivered = f.blocks[n - 1].base + f.blocks[n - 1].k]
        /\ n # 0 /\ "parts" \in deliver
    BY <1>3 DEF Progressed
  <2>2. f.blocks[n - 1].base + f.blocks[n - 1].k = Start(i, n)
    <3>1. n - 1 \in 0 .. n - 1 /\ n - 1 \in 0 .. Count(i) - 1 /\ n - 1 + 1 = n
      BY <1>1, <2>1, FrameIs
    <3>2. n - 1 \in DOMAIN f.blocks
      BY <1>1, <3>1 DEF Prefix
    <3>3. f.blocks[n - 1].base = Start(i, n - 1) /\ f.blocks[n - 1].k = K(i, n - 1)
      BY <3>2 DEF FrameOk, BlockOk, BlockFits
    <3> QED
      BY <3>1, <3>3, StartStep
  <2>3. IsFrame(f)
    BY DEF FrameOk
  <2> HIDE DEF g, n
  <2>4. /\ g.pts = f.pts /\ g.chunk = f.chunk /\ g.epoch = f.epoch /\ g.len = f.len
        /\ g.blocks = f.blocks /\ g.total = f.total /\ g.count = f.count /\ g.parts = n
        /\ g.delivered = Start(i, n) /\ IsFrame(g)
    BY <2>1, <2>2, <2>3 DEF IsFrame
  <2>5. Committed(g) = Committed(f)
    BY <2>4 DEF Committed, frame_cost, held_parity
  <2>6. Prefix(g, n)
    BY <1>1, <2>4 DEF Prefix
  <2>7. FrameOk(i, g)
    BY <1>1, <2>4, <2>6 DEF FrameOk
  <2> QED
    BY <2>1, <2>4, <2>5, <2>7 DEF g
<1> QED
  BY <1>2, <1>3
-----------------------------------------------------------------------------
(* What is in flight.                                                      *)
Shares(F) == [i \in DOMAIN F |-> Committed(F[i])]
Flight(F) == SumOver(Shares(F))
Share(F, i) == IF i \in DOMAIN F THEN Committed(F[i]) ELSE 0

LEMMA FlightIs ==
  ASSUME NEW F, Framed(F)
  PROVE  /\ IsFiniteSet(DOMAIN F) /\ IsFiniteSet(DOMAIN Shares(F))
         /\ DOMAIN Shares(F) = DOMAIN F
         /\ \A i \in DOMAIN Shares(F) : Shares(F)[i] \in Nat
         /\ \A i : Share(F, i) \in Nat
         /\ Flight(F) \in Nat
         /\ \A h : Charged(F, h) <=> h = Flight(F) /\ h <= Budget
<1>1. IsFiniteSet(DOMAIN F)
  BY IndicesFinite, FS_Subset DEF Framed
<1>2. DOMAIN Shares(F) = DOMAIN F /\ \A i \in DOMAIN F : Shares(F)[i] = Committed(F[i])
  BY DEF Shares
<1>3. \A i \in DOMAIN F : Committed(F[i]) \in Nat
  BY FrameCounts DEF Framed
<1>4. IsFiniteSet(DOMAIN Shares(F)) /\ \A i \in DOMAIN Shares(F) : Shares(F)[i] \in Nat
  BY <1>1, <1>2, <1>3
<1>5. Flight(F) \in Nat
  BY <1>4, SumNat DEF Flight
<1>6. \A i : Share(F, i) \in Nat
  BY <1>3 DEF Share
<1>7. \A h : Charged(F, h) <=> h = Flight(F) /\ h <= Budget
  BY DEF Charged, Flight, Shares
<1> QED
  BY <1>1, <1>2, <1>4, <1>5, <1>6, <1>7

LEMMA FlightWith ==
  ASSUME NEW F, Framed(F), NEW i \in Indices, NEW g, FrameOk(i, g), g.len # 0
  PROVE  /\ Framed(With(F, i, g))
         /\ Flight(With(F, i, g)) = Flight(F) + Committed(g) - Share(F, i)
<1> DEFINE G == With(F, i, g)
           s == Shares(F)
           t == Shares(G)
<1>1. /\ DOMAIN G = DOMAIN F \cup {i} /\ G[i] = g
      /\ \A x \in DOMAIN F : x # i => G[x] = F[x]
  BY DEF With
<1> HIDE DEF G
<1>2. Framed(G)
  BY <1>1 DEF Framed
<1>3. Committed(g) \in Nat /\ Share(F, i) \in Nat /\ Flight(F) \in Nat
  BY FlightIs, FrameCounts
<1>4. /\ DOMAIN t = DOMAIN s \cup {i} /\ t[i] = Committed(g) /\ t[i] \in Int
      /\ \A x \in DOMAIN s : x # i => t[x] = s[x]
  BY <1>1, <1>3 DEF Shares
<1>5. IsFiniteSet(DOMAIN s) /\ \A x \in DOMAIN s : s[x] \in Int
  BY FlightIs
<1>6. (IF i \in DOMAIN s THEN s[i] ELSE 0) = Share(F, i)
  BY DEF Shares, Share
<1> HIDE DEF s, t
<1>7. SumOver(t) = SumOver(s) + t[i] - IF i \in DOMAIN s THEN s[i] ELSE 0
  BY <1>4, <1>5, SumGrow
<1>8. SumOver(t) = Flight(G) /\ SumOver(s) = Flight(F)
  BY DEF Flight, s, t
<1>9. Flight(G) = Flight(F) + Committed(g) - Share(F, i)
  BY <1>3, <1>4, <1>6, <1>7, <1>8
<1> QED
  BY <1>2, <1>9 DEF G

LEMMA FlightKeep ==
  ASSUME NEW F, Framed(F), NEW out \in SUBSET DOMAIN F,
         NEW G, DOMAIN G = DOMAIN F \ out, \A x \in DOMAIN G : G[x] = F[x],
         NEW c, c = SumOver([x \in out |-> Committed(F[x])])
  PROVE  Framed(G) /\ Flight(G) = Flight(F) - c /\ c \in Nat
<1> DEFINE s == Shares(F)
           t == Shares(G)
           u == [x \in out |-> Committed(F[x])]
<1>1. Framed(G)
  BY DEF Framed
<1>2. /\ IsFiniteSet(DOMAIN s) /\ \A x \in DOMAIN s : s[x] \in Nat
  BY FlightIs
<1>3. /\ DOMAIN s = DOMAIN F /\ \A x \in DOMAIN F : s[x] = Committed(F[x])
      /\ DOMAIN t = DOMAIN G /\ \A x \in DOMAIN G : t[x] = Committed(G[x])
      /\ DOMAIN u = out /\ \A x \in out : u[x] = Committed(F[x])
  BY DEF Shares
<1>4. /\ DOMAIN u \in SUBSET DOMAIN s /\ \A x \in DOMAIN u : u[x] = s[x]
      /\ DOMAIN t = DOMAIN s \ DOMAIN u /\ \A x \in DOMAIN t : t[x] = s[x]
  BY <1>3
<1>5. SumOver(s) = Flight(F) /\ SumOver(t) = Flight(G) /\ c = SumOver(u)
  BY DEF Flight
<1> HIDE DEF s, t, u
<1>6. SumOver(u) \in Int /\ SumOver(t) \in Int /\ SumOver(s) = SumOver(u) + SumOver(t)
  <2> DEFINE T == DOMAIN u
  <2>1. T \in SUBSET DOMAIN s /\ DOMAIN u = T /\ DOMAIN t = DOMAIN s \ T
    BY <1>4
  <2>2. \A x \in DOMAIN s : s[x] \in Int
    BY <1>2
  <2> HIDE DEF T
  <2> QED
    BY <1>2, <1>4, <2>1, <2>2, SumSplit
<1>7. c \in Nat
  <2>1. IsFiniteSet(DOMAIN u) /\ \A x \in DOMAIN u : u[x] \in Nat
    <3> DEFINE T == DOMAIN u
               U == DOMAIN s
    <3>1. T \in SUBSET U /\ IsFiniteSet(U)
      BY <1>2, <1>4
    <3> HIDE DEF T, U
    <3>2. IsFiniteSet(T)
      BY <3>1, FS_Subset
    <3> QED
      BY <1>2, <1>4, <3>2 DEF T
  <2> QED
    BY <1>5, <2>1, SumNat
<1> QED
  BY <1>1, <1>5, <1>6, <1>7

LEMMA FlightWithout ==
  ASSUME NEW F, Framed(F), NEW i
  PROVE  /\ Framed(Without(F, i)) /\ Flight(Without(F, i)) = Flight(F) - Share(F, i)
<1> DEFINE G == Without(F, i)
<1>1. DOMAIN G = DOMAIN F \ {i} /\ \A x \in DOMAIN G : G[x] = F[x]
  BY DEF Without
<1>2. CASE i \in DOMAIN F
  <2> DEFINE s == Shares(F)
             t == Shares(G)
  <2>1. Framed(G)
    BY <1>1 DEF Framed
  <2>2. /\ IsFiniteSet(DOMAIN s) /\ \A x \in DOMAIN s : s[x] \in Int
        /\ i \in DOMAIN s /\ s[i] = Share(F, i)
    BY <1>2, FlightIs DEF Shares, Share
  <2>3. DOMAIN t = DOMAIN s \ {i} /\ \A x \in DOMAIN t : t[x] = s[x]
    BY <1>1 DEF Shares
  <2>4. SumOver(s) = Flight(F) /\ SumOver(t) = Flight(G)
    BY DEF Flight
  <2> HIDE DEF s, t, G
  <2>5. SumOver(t) = SumOver(s) - s[i]
    BY <2>2, <2>3, SumDrop
  <2> QED
    BY <2>1, <2>2, <2>4, <2>5 DEF G
<1>3. CASE i \notin DOMAIN F
  <2>1. Framed(G)
    BY <1>1 DEF Framed
  <2>2. Shares(G) = Shares(F)
    BY <1>1, <1>3 DEF Shares
  <2>3. Flight(G) = Flight(F) /\ Share(F, i) = 0 /\ Flight(F) \in Nat
    BY <1>3, <2>2, FlightIs DEF Flight, Share
  <2> QED
    BY <2>1, <2>3
<1> QED
  BY <1>2, <1>3

LEMMA FrameLands ==
  ASSUME NEW p \in Packets, NEW w, Framed(w.frames)
  PROVE  /\ p.idx \in Indices
         /\ Lands0(p, Frame(p, w)) /\ Committed(Frame(p, w)) = Share(w.frames, p.idx)
         /\ p.idx \in DOMAIN w.frames =>
              /\ Same(w.frames[p.idx], Frame(p, w)) /\ Frame(p, w).len = w.frames[p.idx].len
              /\ Frame(p, w).blocks = w.frames[p.idx].blocks /\ Frame(p, w).len # 0
         /\ p.idx \notin DOMAIN w.frames =>
              /\ Frame(p, w).parts = 0 /\ Frame(p, w).delivered = 0
              /\ DOMAIN Frame(p, w).blocks = {}
<1> DEFINE i == p.idx
           f == Frame(p, w)
           o == IF i \in DOMAIN w.frames THEN w.frames[i] ELSE NewFrame(p)
<1>1. i \in Indices
  BY PacketIs
<1>2. FrameOk(i, o)
  BY NewOk DEF Framed
<1>3. f = Pinned(o, p)
  BY DEF Frame
<1>4. Lands0(p, f) /\ Same(o, f) /\ f.len = o.len /\ f.blocks = o.blocks
  <2> HIDE DEF f, o
  <2> QED
    BY <1>2, <1>3, PinnedOk
<1>5. CASE i \in DOMAIN w.frames
  <2>1. o = w.frames[i] /\ o.len # 0
    BY <1>5 DEF Framed
  <2>2. Committed(f) = Committed(o)
    BY <1>4 DEF Committed, frame_cost, held_parity
  <2> HIDE DEF f, o
  <2> QED
    BY <1>1, <1>4, <1>5, <2>1, <2>2 DEF Share, f
<1>6. CASE i \notin DOMAIN w.frames
  <2>1. o = NewFrame(p)
    BY <1>6
  <2>2. o.len = 0 /\ o.parts = 0 /\ o.delivered = 0 /\ DOMAIN o.blocks = {}
    BY <2>1 DEF NewFrame
  <2>3. Committed(f) = 0
    <3>1. FrameOk(i, f)
      BY <1>4 DEF Lands0
    <3> HIDE DEF f, o
    <3>2. Committed(f) = f.len + SumOver(BlockCosts(f)) + SumOver(Parities(f))
      BY <1>1, <3>1, FrameCounts
    <3>3. DOMAIN BlockCosts(f) = {} /\ DOMAIN Parities(f) = {} /\ f.len = 0
      BY <1>4, <2>2 DEF BlockCosts, Parities
    <3>4. SumOver(BlockCosts(f)) = 0 /\ SumOver(Parities(f)) = 0
      BY <3>3, SumEmpty
    <3> QED
      BY <3>2, <3>3, <3>4
  <2> HIDE DEF f, o
  <2> QED
    BY <1>1, <1>4, <1>6, <2>2, <2>3 DEF Share, Same, f
<1> QED
  BY <1>5, <1>6
-----------------------------------------------------------------------------
(* The budget.                                                             *)
LEMMA AdvancedFlight ==
  ASSUME NEW p \in Packets, Framed(frames), Charged(frames, in_flight),
         NEW w, w = Advanced(p)
  PROVE  Framed(w.frames) /\ Charged(w.frames, w.in_flight) /\ DOMAIN w.frames \subseteq DOMAIN frames
<1>1. CASE ~Opens(p)
  <2>1. w.frames = frames /\ w.in_flight = in_flight
    BY <1>1 DEF Advanced
  <2> QED
    BY <2>1
<1>2. CASE Opens(p)
  <2> DEFINE out == Retired(p)
             c == SumOver([i \in out |-> Committed(frames[i])])
             G == [i \in DOMAIN frames \ out |-> frames[i]]
  <2>1. w.frames = G /\ w.in_flight = in_flight - c
    BY <1>2 DEF Advanced
  <2>2. out \in SUBSET DOMAIN frames
    BY DEF Retired
  <2>3. DOMAIN G = DOMAIN frames \ out /\ \A x \in DOMAIN G : G[x] = frames[x]
    OBVIOUS
  <2>4. in_flight = Flight(frames) /\ in_flight <= Budget /\ Flight(frames) \in Nat
    BY FlightIs
  <2>5. c = SumOver([x \in out |-> Committed(frames[x])])
    OBVIOUS
  <2> HIDE DEF out, c, G
  <2>6. Framed(G) /\ Flight(G) = Flight(frames) - c /\ c \in Nat
    BY <2>2, <2>3, <2>5, FlightKeep
  <2>7. Flight(G) \in Nat /\ Flight(G) <= Budget /\ w.in_flight = Flight(G)
    BY <2>1, <2>4, <2>6, FlightIs, WindowAssumption
  <2>8. Charged(G, w.in_flight)
    BY <2>6, <2>7, FlightIs
  <2> QED
    BY <2>1, <2>3, <2>6, <2>8
<1> QED
  BY <1>1, <1>2

(* The four ways a packet leaves its frame in flight.                      *)
LEMMA RefusedFlight ==
  ASSUME NEW p \in Packets, NEW w, Framed(w.frames), Charged(w.frames, w.in_flight),
         Refused(p, w)
  PROVE  Framed(frames') /\ Charged(frames', in_flight')
<1> DEFINE i == p.idx
           f == Frame(p, w)
           F == w.frames
           h == w.in_flight
           room == Budget - h
           g == Grown(p, f)
           u == Put(f, p, Block(p, f))
<1>1. /\ h = Flight(F) /\ h <= Budget /\ h \in Nat /\ Budget \in Nat
      /\ Share(F, i) \in Nat
  BY FlightIs, WindowAssumption
<1>2. i \in Indices /\ Lands0(p, f) /\ FrameOk(i, f) /\ Committed(f) = Share(F, i)
      /\ (i \in DOMAIN F => f.len # 0)
  BY FrameLands DEF Lands0
<1>3. /\ Lands0(p, g) /\ FrameOk(i, g) /\ g.len # 0 /\ g.len = f.len + GrowCost(p, f)
      /\ g.blocks = f.blocks /\ GrowCost(p, f) \in Nat
  <2> HIDE DEF f
  <2> QED
    BY <1>2, GrownOk DEF Lands0
<1>4. /\ FrameOk(i, u) /\ u.len # 0 /\ BlockCharge(p, f) \in Nat
      /\ Committed(u) = Committed(f) + GrowCost(p, f) + BlockCharge(p, f)
  <2> HIDE DEF f
  <2>1. BlockOk(i, p.block, Block(p, f))
    BY <1>2, BlockIs
  <2> DEFINE b == Block(p, f)
             c == Cardinality(b.parity)
  <2>2. FrameOk(i, u) /\ u.len # 0
    BY <1>2, <2>1, PutOk DEF Lands0
  <2>3. /\ Committed(u) = Committed(f) + GrowCost(p, f) + BlockCharge(p, f) + c - c
        /\ Committed(f) \in Nat /\ GrowCost(p, f) \in Nat /\ BlockCharge(p, f) \in Nat /\ c \in Nat
    BY <1>2, <2>1, PutCost
  <2> HIDE DEF c, u
  <2> QED
    BY <2>2, <2>3
<1>5. Committed(g) = Committed(f) + GrowCost(p, f)
  <2> HIDE DEF f
  <2>1. /\ Committed(g) = g.len + SumOver(BlockCosts(g)) + SumOver(Parities(g))
        /\ Committed(f) = f.len + SumOver(BlockCosts(f)) + SumOver(Parities(f))
        /\ SumOver(BlockCosts(f)) \in Nat /\ SumOver(Parities(f)) \in Nat
    BY <1>2, <1>3, FrameCounts
  <2>2. BlockCosts(g) = BlockCosts(f) /\ Parities(g) = Parities(f)
    BY <1>3 DEF BlockCosts, Parities
  <2>3. f.len \in Nat
    BY <1>2, TotalIs DEF FrameOk
  <2> HIDE DEF g
  <2> QED
    BY <1>3, <2>1, <2>2, <2>3
<1>6. \/ /\ frames' = IF i \in DOMAIN F THEN With(F, i, f) ELSE F
         /\ in_flight' = h
      \/ /\ GrowCost(p, f) <= room
         /\ frames' = With(F, i, g) /\ in_flight' = h + GrowCost(p, f)
      \/ /\ GrowCost(p, f) + BlockCharge(p, f) <= room
         /\ frames' = With(F, i, u)
         /\ in_flight' = h + GrowCost(p, f) + BlockCharge(p, f)
  BY DEF Refused, Grown
<1> HIDE DEF f, g, u
<1>7. ASSUME NEW v, FrameOk(i, v), v.len # 0, NEW c \in Nat, Committed(v) = Committed(f) + c,
             frames' = With(F, i, v), in_flight' = h + c, c <= room
      PROVE  Framed(frames') /\ Charged(frames', in_flight')
  <2>1. Framed(With(F, i, v)) /\ Flight(With(F, i, v)) = Flight(F) + Committed(v) - Share(F, i)
    BY <1>2, <1>7, FlightWith
  <2>2. Framed(frames') /\ Flight(frames') = h + c /\ h + c <= Budget
    BY <1>1, <1>2, <1>7, <2>1
  <2> QED
    BY <1>7, <2>2, FlightIs
<1>8. CASE frames' = F /\ in_flight' = h
  BY <1>8
<1>9. CASE i \in DOMAIN F /\ frames' = With(F, i, f) /\ in_flight' = h
  <2>1. Committed(f) = Committed(f) + 0 /\ in_flight' = h + 0 /\ 0 <= room
    BY <1>1, <1>2, <1>9
  <2> QED
    BY <1>2, <1>7, <1>9, <2>1
<1>10. CASE /\ GrowCost(p, f) <= room
            /\ frames' = With(F, i, g) /\ in_flight' = h + GrowCost(p, f)
  BY <1>3, <1>5, <1>7, <1>10
<1>11. CASE /\ GrowCost(p, f) + BlockCharge(p, f) <= room
            /\ frames' = With(F, i, u)
            /\ in_flight' = h + GrowCost(p, f) + BlockCharge(p, f)
  <2> DEFINE c == GrowCost(p, f) + BlockCharge(p, f)
  <2>1. /\ c \in Nat /\ Committed(u) = Committed(f) + c /\ in_flight' = h + c /\ c <= room
    BY <1>1, <1>2, <1>3, <1>4, <1>11
  <2> HIDE DEF c
  <2> QED
    BY <1>4, <1>7, <1>11, <2>1
<1> QED
  BY <1>6, <1>8, <1>9, <1>10, <1>11

LEMMA SurplusFlight ==
  ASSUME NEW p \in Packets, NEW w, Framed(w.frames), Charged(w.frames, w.in_flight),
         Surplus(p, w)
  PROVE  Framed(frames') /\ Charged(frames', in_flight')
<1> DEFINE i == p.idx
           f == Frame(p, w)
           F == w.frames
           b == LateShard(p, f)
           u == Put(f, p, b)
<1>1. w.in_flight = Flight(F) /\ w.in_flight <= Budget /\ Flight(F) \in Nat /\ Share(F, i) \in Nat
  BY FlightIs
<1>2. i \in Indices /\ Lands0(p, f) /\ FrameOk(i, f) /\ Committed(f) = Share(F, i)
  BY FrameLands DEF Lands0
<1>3. Block(p, f).done /\ frames' = With(F, i, u) /\ in_flight' = w.in_flight
  BY DEF Surplus, LateShard
<1> HIDE DEF f
<1>4. /\ BlockOk(i, p.block, b) /\ b.done /\ Cardinality(b.parity) = 0
      /\ Cardinality(Block(p, f).parity) = 0 /\ BlockCharge(p, f) = 0 /\ GrowCost(p, f) = 0
  BY <1>2, <1>3, LateShardIs
<1> HIDE DEF b
<1>5. FrameOk(i, u) /\ u.len # 0
  BY <1>2, <1>4, PutOk DEF Lands0
<1>6. Committed(u) = Committed(f)
  <2>1. /\ Committed(u) = Committed(f) + GrowCost(p, f) + BlockCharge(p, f)
                            + Cardinality(b.parity) - Cardinality(Block(p, f).parity)
        /\ Committed(f) \in Nat
    BY <1>2, <1>4, PutCost
  <2> QED
    BY <1>4, <2>1
<1> HIDE DEF u
<1>7. Framed(With(F, i, u)) /\ Flight(With(F, i, u)) = Flight(F) + Committed(u) - Share(F, i)
  BY <1>2, <1>5, FlightWith
<1>8. Framed(frames') /\ Flight(frames') = w.in_flight
  BY <1>1, <1>2, <1>3, <1>6, <1>7
<1> QED
  BY <1>1, <1>3, <1>8, FlightIs

LEMMA KeepFlight ==
  ASSUME NEW p \in Packets, NEW w, Framed(w.frames), Charged(w.frames, w.in_flight),
         Keep(p, w)
  PROVE  Framed(frames') /\ Charged(frames', in_flight')
<1> DEFINE i == p.idx
           f == Frame(p, w)
           F == w.frames
           h == w.in_flight
           b == Filled(p, f)
           u == Put(f, p, b)
<1>1. h = Flight(F) /\ h <= Budget /\ h \in Nat /\ Share(F, i) \in Nat /\ Budget \in Nat
  BY FlightIs, WindowAssumption
<1>2. i \in Indices /\ Lands0(p, f) /\ Committed(f) = Share(F, i)
  BY FrameLands
<1>3. /\ ~Block(p, f).done /\ ~Enough(b) /\ frames' = With(F, i, u)
      /\ in_flight' = h + Charge(p, f) /\ Charge(p, f) <= Budget - h
  BY DEF Keep, Fits
<1> HIDE DEF f
<1>4. /\ BlockOk(i, p.block, b) /\ ParityCost(p, f) \in Nat
      /\ Cardinality(b.parity) = Cardinality(Block(p, f).parity) + ParityCost(p, f)
  BY <1>2, <1>3, FilledIs
<1> HIDE DEF b
<1>5. FrameOk(i, u) /\ u.len # 0
  BY <1>2, <1>3, <1>4, PutOk DEF Lands0
<1>6. Committed(u) = Committed(f) + Charge(p, f) /\ Charge(p, f) \in Nat
  <2>1. /\ Committed(u) = Committed(f) + GrowCost(p, f) + BlockCharge(p, f)
                            + Cardinality(b.parity) - Cardinality(Block(p, f).parity)
        /\ Committed(f) \in Nat /\ GrowCost(p, f) \in Nat /\ BlockCharge(p, f) \in Nat
        /\ Cardinality(b.parity) \in Nat /\ Cardinality(Block(p, f).parity) \in Nat
    BY <1>2, <1>3, <1>4, PutCost
  <2>2. Charge(p, f) = GrowCost(p, f) + BlockCharge(p, f) + ParityCost(p, f)
    BY DEF Charge
  <2> QED
    BY <1>4, <2>1, <2>2
<1> HIDE DEF u
<1>7. Framed(With(F, i, u)) /\ Flight(With(F, i, u)) = Flight(F) + Committed(u) - Share(F, i)
  BY <1>2, <1>5, FlightWith
<1>8. Framed(frames') /\ Flight(frames') = in_flight' /\ in_flight' <= Budget
  BY <1>1, <1>2, <1>3, <1>6, <1>7
<1> QED
  BY <1>8, FlightIs

LEMMA CloseFlight ==
  ASSUME NEW p \in Packets, NEW w, Framed(w.frames), Charged(w.frames, w.in_flight),
         CloseBlock(p, w)
  PROVE  Framed(frames') /\ Charged(frames', in_flight')
<1> DEFINE i == p.idx
           f == Frame(p, w)
           F == w.frames
           h == w.in_flight
           b == Shut(p, f)
           u == Closed(p, w)
           spent == Cardinality(Filled(p, f).parity)
<1>1. h = Flight(F) /\ h <= Budget /\ h \in Nat /\ Share(F, i) \in Nat /\ Budget \in Nat
  BY FlightIs, WindowAssumption
<1>2. i \in Indices /\ Lands0(p, f) /\ Committed(f) = Share(F, i)
  BY FrameLands
<1>3. /\ ~Block(p, f).done /\ Charge(p, f) <= Budget - h
      /\ \/ /\ frames' = Without(F, i)
            /\ in_flight' = (h + Charge(p, f) - spent) - Committed(u)
         \/ /\ frames' = With(F, i, Progressed(u))
            /\ in_flight' = h + Charge(p, f) - spent
  BY DEF CloseBlock, Fits
<1>4. u = Put(f, p, b)
  BY DEF Closed, Shut
<1> HIDE DEF f, u
<1>5. /\ ParityCost(p, f) \in Nat /\ spent \in Nat
      /\ spent = Cardinality(Block(p, f).parity) + ParityCost(p, f)
  BY <1>2, <1>3, FilledIs
<1>6. BlockOk(i, p.block, b) /\ b.done /\ Cardinality(b.parity) = 0
  BY <1>2, <1>3, ShutIs, FS_EmptySet
<1> HIDE DEF b, spent
<1>7. FrameOk(i, u) /\ u.len # 0
  BY <1>2, <1>4, <1>6, PutOk DEF Lands0
<1>8. /\ Committed(u) = Committed(f) + Charge(p, f) - spent /\ Charge(p, f) \in Nat
      /\ Committed(u) \in Nat /\ Committed(f) \in Nat
  <2>1. /\ Committed(Put(f, p, b)) = Committed(f) + GrowCost(p, f) + BlockCharge(p, f)
                            + Cardinality(b.parity) - Cardinality(Block(p, f).parity)
        /\ Committed(Put(f, p, b)) \in Nat
        /\ Committed(f) \in Nat /\ GrowCost(p, f) \in Nat /\ BlockCharge(p, f) \in Nat
        /\ Cardinality(Block(p, f).parity) \in Nat
    BY <1>2, <1>6, PutCost
  <2>2. Charge(p, f) = GrowCost(p, f) + BlockCharge(p, f) + ParityCost(p, f)
    BY DEF Charge
  <2> QED
    BY <1>4, <1>5, <1>6, <2>1, <2>2
<1>9. CASE frames' = Without(F, i) /\ in_flight' = (h + Charge(p, f) - spent) - Committed(u)
  <2>1. Framed(Without(F, i)) /\ Flight(Without(F, i)) = Flight(F) - Share(F, i)
    BY FlightWithout
  <2>2. Framed(frames') /\ Flight(frames') = in_flight' /\ in_flight' <= Budget
    BY <1>1, <1>2, <1>5, <1>8, <1>9, <2>1
  <2> QED
    BY <2>2, FlightIs
<1>10. CASE frames' = With(F, i, Progressed(u)) /\ in_flight' = h + Charge(p, f) - spent
  <2> DEFINE g == Progressed(u)
  <2>1. FrameOk(i, g) /\ g.len # 0 /\ Committed(g) = Committed(u)
    BY <1>2, <1>7, ProgressedOk
  <2> HIDE DEF g
  <2>2. Framed(With(F, i, g)) /\ Flight(With(F, i, g)) = Flight(F) + Committed(g) - Share(F, i)
    BY <1>2, <2>1, FlightWith
  <2>3. frames' = With(F, i, g)
    BY <1>10 DEF g
  <2>4. Framed(frames') /\ Flight(frames') = in_flight' /\ in_flight' <= Budget
    BY <1>1, <1>2, <1>3, <1>5, <1>8, <1>10, <2>1, <2>2, <2>3
  <2> QED
    BY <2>4, FlightIs
<1> QED
  BY <1>3, <1>9, <1>10

LEMMA PushFlight ==
  ASSUME NEW p \in Packets, NEW w, Framed(w.frames), Charged(w.frames, w.in_flight),
         Push(p, w)
  PROVE  Framed(frames') /\ Charged(frames', in_flight')
<1>1. CASE Straggle(p, w) \/ TooLate(p, w)
  BY <1>1 DEF Straggle, TooLate
<1> QED
  BY <1>1, RefusedFlight, SurplusFlight, KeepFlight, CloseFlight DEF Push
-----------------------------------------------------------------------------
(* The window moves on.                                                    *)
LEMMA Recedes ==
  ASSUME NEW i \in Indices, NEW m \in Indices, NEW n \in Indices, Forward(m, i), Forward(n, m)
  PROVE  /\ Forward(n, i) /\ Behind(n, i) \in Nat /\ Behind(m, i) \in Nat
         /\ Behind(m, i) <= Behind(n, i)
         /\ Forward(i, n) => i = n
<1>1. Pos(i) \in Nat /\ Pos(m) \in Nat /\ Pos(n) \in Nat
  BY Order
<1>2. Pos(i) <= Pos(m) /\ Behind(m, i) = Pos(m) - Pos(i)
  BY Order
<1>3. Pos(m) <= Pos(n)
  BY Order
<1>4. Pos(i) <= Pos(n)
  BY <1>1, <1>2, <1>3
<1>5. Forward(n, i) /\ Behind(n, i) = Pos(n) - Pos(i)
  BY <1>4, Order
<1>6. Forward(i, n) => i = n
  <2> SUFFICES ASSUME Forward(i, n) PROVE i = n
    OBVIOUS
  <2>1. Pos(n) <= Pos(i)
    BY Order
  <2>2. Pos(i) = Pos(n)
    BY <1>1, <1>4, <2>1
  <2> QED
    BY <2>2, Order
<1> QED
  BY <1>1, <1>2, <1>3, <1>5, <1>6

LEMMA AheadOrNot ==
  ASSUME NEW i \in Indices, NEW n \in Indices
  PROVE  Forward(n, i) \/ Forward(i, n)
<1>1. Pos(i) \in Nat /\ Pos(n) \in Nat
  BY Order
<1>2. Pos(i) <= Pos(n) \/ Pos(n) <= Pos(i)
  BY <1>1
<1> QED
  BY <1>2, Order

LEMMA SelfForward == ASSUME NEW i \in Indices PROVE Forward(i, i)
<1>1. Pos(i) <= Pos(i)
  BY Order
<1> QED
  BY <1>1, Order

Counts(D) == [i \in Indices |-> IF i \in D THEN lost[i] + 1 ELSE lost[i]]

LEMMA ParkIs ==
  ASSUME NEW F, NEW ups
  PROVE  \/ Park(F, ups) = parked
         \/ \E b \in ups : Park(F, ups) = [idx |-> b, epoch |-> F[b].epoch, len |-> F[b].total]
  BY DEF Park

LEMMA PictureOk ==
  ASSUME NEW i \in Indices, NEW f, FrameOk(i, f)
  PROVE  [idx |-> i, epoch |-> f.epoch, len |-> f.total] \in Pictures
         /\ f.epoch \in Epochs
<1>1. f.total \in Nat
  BY TotalIs DEF FrameOk
<1>2. f.epoch \in Epochs /\ f.epoch \in 0 .. EpochMod - 1 /\ i \in 0 .. IndexMod - 1
  BY FrameIs DEF FrameOk, Plans
<1> QED
  BY <1>1, <1>2 DEF Pictures

(* Frames retire: those that may go up whole or not leave one parked, the  *)
(* others count.                                                           *)
LEMMA RetireWorld ==
  ASSUME Told, Framed(frames), World(frames, completed, newest, parked, lost),
         NEW n \in Anchors, n.idx \in Indices, newest # NoFrame => Forward(n.idx, newest.idx),
         NEW out \in SUBSET DOMAIN frames, NEW ups \in SUBSET out, NEW dead \in SUBSET out,
         ups # {} => "partial" \in deliver,
         NEW F, DOMAIN F = DOMAIN frames \ out, \A i \in DOMAIN F : F[i] = frames[i],
         NEW C, DOMAIN C \subseteq DOMAIN completed \cup out,
         \A i \in DOMAIN completed \cup out : i \in DOMAIN C \/ ~(Behind(n.idx, i) <= REORDER_WINDOW),
         NEW q, q = Park(frames, ups)
  PROVE  World(F, C, n, q, Counts(dead))
<1>1. n # NoFrame
  BY PlanAssumption
<1>2. /\ DOMAIN frames \subseteq opened /\ DOMAIN completed \subseteq Indices /\ opened \subseteq Indices
      /\ newest # NoFrame => newest \in Anchors /\ newest.idx \in Indices
      /\ parked # NoFrame => /\ parked \in Pictures /\ parked.idx \in opened
                             /\ parked.epoch \in Epochs /\ "partial" \in deliver
      /\ lost \in [Indices -> Nat] /\ \A i \in Indices : lost[i] # 0 => i \in opened
      /\ \A i \in DOMAIN frames : Within(newest, i)
  BY DEF World, Shape, Told
<1>3. ASSUME NEW i \in Indices, Within(newest, i)
      PROVE  /\ Within(n, i) /\ Behind(newest.idx, i) \in Nat /\ Behind(n.idx, i) \in Nat
             /\ Behind(newest.idx, i) <= Behind(n.idx, i)
  BY <1>1, <1>2, <1>3, Recedes DEF Within
<1>4. \/ q = parked
      \/ \E b \in ups : /\ q = [idx |-> b, epoch |-> frames[b].epoch, len |-> frames[b].total]
                        /\ q.idx = b /\ q \in Pictures /\ q.epoch \in Epochs
  <2>1. ASSUME NEW b \in ups,
               q = [idx |-> b, epoch |-> frames[b].epoch, len |-> frames[b].total]
        PROVE  q.idx = b /\ q \in Pictures /\ q.epoch \in Epochs
    <3>1. b \in Indices /\ FrameOk(b, frames[b])
      BY DEF Framed
    <3> QED
      BY <2>1, <3>1, PictureOk
  <2> QED
    BY <2>1, ParkIs
<1>5. \A i \in Indices : Counts(dead)[i] = IF i \in dead THEN lost[i] + 1 ELSE lost[i]
  BY DEF Counts
<1>6. Shape(F, C, n, q, Counts(dead))
  <2>1. DOMAIN F \subseteq opened /\ DOMAIN C \subseteq Indices
    BY <1>2
  <2>2. q # NoFrame => /\ q \in Pictures /\ q.idx \in opened
                       /\ q.epoch \in Epochs /\ "partial" \in deliver
    BY <1>2, <1>4
  <2>3. Counts(dead) \in [Indices -> Nat]
    BY <1>2 DEF Counts
  <2>4. \A i \in Indices : Counts(dead)[i] # 0 => i \in opened
    BY <1>2, <1>5
  <2>5. \A i \in DOMAIN F : Within(n, i)
    BY <1>2, <1>3
  <2> QED
    BY <2>1, <2>2, <2>3, <2>4, <2>5 DEF Shape
<1>7. ASSUME NEW i \in Indices \ flushed
      PROVE  Fate(i, F, C, n, q, Counts(dead))
  <2>1. Fate(i, frames, completed, newest, parked, lost)
    BY DEF World
  <2>2. Known(i) => Within(n, i)
    BY <1>3, <2>1 DEF Fate
  <2>3. ASSUME Known(i), i \in DOMAIN F
        PROVE  Ahead(i, F[i], q, Counts(dead))
    <3>1. Ahead(i, frames[i], parked, lost) /\ F[i] = frames[i] /\ i \notin out
      BY <2>1, <2>3 DEF Fate
    <3>2. Counts(dead)[i] = lost[i] /\ (q # NoFrame => q.idx # i)
      BY <1>4, <1>5, <3>1 DEF Ahead
    <3> QED
      BY <3>1, <3>2 DEF Ahead
  <2>4. ASSUME Known(i), i \notin DOMAIN F
        PROVE  Gone(i, C, n)
    <3>1. CASE i \in DOMAIN completed \cup out
      <4>1. i \in DOMAIN C \/ ~(Behind(n.idx, i) <= REORDER_WINDOW)
        BY <3>1
      <4>2. Behind(n.idx, i) \in Nat
        BY <1>3, <2>1, <2>4 DEF Fate
      <4> QED
        BY <4>1, <4>2, WindowAssumption DEF Gone
    <3>2. CASE i \notin DOMAIN completed \cup out
      <4>1. Behind(newest.idx, i) > HARD_LOSS_WINDOW
        BY <2>1, <2>4, <3>2 DEF Fate, Gone
      <4>2. Behind(newest.idx, i) \in Nat /\ Behind(n.idx, i) \in Nat
            /\ Behind(newest.idx, i) <= Behind(n.idx, i)
        BY <1>3, <2>1, <2>4 DEF Fate
      <4> QED
        BY <4>1, <4>2, WindowAssumption DEF Gone
    <3> QED
      BY <3>1, <3>2
  <2>5. ASSUME q # NoFrame, q.idx = i PROVE got[i] = <<>>
    <3>1. CASE q = parked
      BY <2>1, <2>5, <3>1 DEF Fate
    <3>2. CASE i \in ups
      <4>1. i \in DOMAIN frames /\ Known(i) /\ "partial" \in deliver
        BY <1>2, <3>2 DEF Known
      <4> QED
        BY <2>1, <4>1 DEF Fate, Ahead
    <3> QED
      BY <1>4, <2>5, <3>1, <3>2
  <2>6. Counts(dead)[i] <= IF \E m \in DOMAIN got[i] : got[i][m].kind = "whole" THEN 0 ELSE 1
    <3>1. CASE i \notin dead
      BY <1>5, <2>1, <3>1 DEF Fate
    <3>2. CASE i \in dead
      <4>1. i \in DOMAIN frames /\ Known(i)
        BY <1>2, <3>2 DEF Known
      <4>2. lost[i] = 0 /\ AllParts(got[i])
        BY <2>1, <4>1 DEF Fate, Ahead
      <4>3. got[i] \in Seq(Pieces)
        BY DEF Told
      <4>4. ~\E m \in DOMAIN got[i] : got[i][m].kind = "whole"
        BY <4>2, <4>3 DEF AllParts
      <4> QED
        BY <1>5, <3>2, <4>2, <4>4
    <3> QED
      BY <3>1, <3>2
  <2> QED
    BY <2>2, <2>3, <2>4, <2>5, <2>6 DEF Fate
<1> QED
  BY <1>6, <1>7 DEF World

LEMMA AdvancedWorld ==
  ASSUME NEW p \in Packets, Told, Framed(frames), parked = NoFrame,
         World(frames, completed, newest, parked, lost),
         NEW w, w = Advanced(p)
  PROVE  /\ World(w.frames, w.completed, w.newest, w.parked, Counts(w.dead))
         /\ Within(w.newest, p.idx) /\ p.idx \in Indices /\ w.newest \in Anchors
         /\ w.newest.idx \in Indices
<1>1. p.idx \in Indices /\ p.idx \in 0 .. IndexMod - 1 /\ p.pts \in Nat
  BY PacketIs, FrameIs DEF Plans
<1>2. newest # NoFrame => newest \in Anchors /\ newest.idx \in Indices
  BY DEF World, Shape
<1>3. CASE ~Opens(p)
  <2>1. /\ w.frames = frames /\ w.completed = completed /\ w.newest = newest
        /\ w.parked = parked /\ w.dead = {}
    BY <1>3 DEF Advanced
  <2>2. newest # NoFrame /\ (p.idx = newest.idx \/ ~Forward(p.idx, newest.idx))
    BY <1>3 DEF Opens
  <2>3. Within(newest, p.idx)
    BY <1>1, <1>2, <2>2, SelfForward, AheadOrNot DEF Within
  <2>4. Counts({}) = lost
    <3>1. lost \in [Indices -> Nat]
      BY DEF World, Shape
    <3> QED
      BY <3>1 DEF Counts
  <2> QED
    BY <1>1, <1>2, <2>1, <2>2, <2>3, <2>4
<1>4. CASE Opens(p)
  <2> DEFINE out == Retired(p)
             ups == {i \in out : "partial" \in deliver /\ CanGoUp(frames[i])}
             dead == {i \in out : i \notin ups \/ ~head_whole(frames[i])}
             n == [idx |-> p.idx, pts |-> p.pts]
             F == [i \in DOMAIN frames \ out |-> frames[i]]
             C == [i \in Remembered(p, DOMAIN completed \cup out) |->
                            IF i \in out THEN Restored(frames[i]) ELSE completed[i]]
             q == Park(frames, ups)
  <2>1. /\ w.frames = F /\ w.completed = C /\ w.newest = n /\ w.parked = q /\ w.dead = dead
    BY <1>4 DEF Advanced
  <2>2. n \in Anchors /\ n.idx = p.idx /\ (newest # NoFrame => Forward(n.idx, newest.idx))
    BY <1>1, <1>4 DEF Anchors, Opens
  <2>3. out \in SUBSET DOMAIN frames /\ ups \in SUBSET out /\ dead \in SUBSET out
        /\ (ups # {} => "partial" \in deliver)
    BY DEF Retired
  <2>4. DOMAIN F = DOMAIN frames \ out /\ \A i \in DOMAIN F : F[i] = frames[i]
    OBVIOUS
  <2>5. /\ DOMAIN C \subseteq DOMAIN completed \cup out
        /\ \A i \in DOMAIN completed \cup out : i \in DOMAIN C \/ ~(Behind(n.idx, i) <= REORDER_WINDOW)
    BY DEF Remembered
  <2> HIDE DEF out, ups, dead, n, F, C, q
  <2>6. q = Park(frames, ups)
    BY DEF q
  <2>7. World(F, C, n, q, Counts(dead))
    BY <1>1, <2>2, <2>3, <2>4, <2>5, <2>6, RetireWorld
  <2>8. Within(n, p.idx)
    BY <1>1, <2>2, SelfForward, PlanAssumption DEF Within
  <2> QED
    BY <1>1, <2>1, <2>2, <2>7, <2>8
<1> QED
  BY <1>3, <1>4
-----------------------------------------------------------------------------
(* What a packet does: nothing to its frame, or it grows, or sends a prefix*)
(* up, or goes up whole.                                                   *)
Grows(f, g) ==
  /\ g.epoch = f.epoch
  /\ \A c \in Nat : Prefix(f, c) => Prefix(g, c)
NoneUp(p, w) ==
  /\ frames' = w.frames /\ DOMAIN completed' = DOMAIN w.completed
  /\ Emitted(p, w) = NoFrame
Stays(p, w, g) ==
  /\ Lands(p, w) /\ frames' = With(w.frames, p.idx, g) /\ completed' = w.completed
  /\ Grows(Frame(p, w), g)
StaysUp(p, w) ==
  \E g : /\ Stays(p, w, g) /\ g.delivered = Frame(p, w).delivered
         /\ Emitted(p, w) = NoFrame
PartUp(p, w) ==
  \E g : /\ Stays(p, w, g) /\ "parts" \in deliver /\ Emitted(p, w) \in Pieces
         /\ Emitted(p, w) = Up(Frame(p, w), p.idx, Frame(p, w).delivered, g.delivered, "part")
WholeUp(p, w) ==
  /\ Lands(p, w) /\ frames' = Without(w.frames, p.idx)
  /\ \E r : completed' = With(w.completed, p.idx, r)
  /\ Emitted(p, w) \in Pieces
  /\ Emitted(p, w) = Up(Frame(p, w), p.idx, Frame(p, w).delivered, Total(p.idx), "whole")

LEMMA PutGrows ==
  ASSUME NEW p \in Packets, NEW f, Lands0(p, f), NEW b, BlockOk(p.idx, p.block, b),
         Block(p, f).done => b.done
  PROVE  Grows(f, Put(f, p, b)) /\ Put(f, p, b).delivered = f.delivered
<1> DEFINE g == Put(f, p, b)
<1>1. /\ DOMAIN g.blocks = DOMAIN f.blocks \cup {p.block} /\ g.blocks[p.block] = b
      /\ \A x \in DOMAIN f.blocks : x # p.block => g.blocks[x] = f.blocks[x]
      /\ g.epoch = f.epoch /\ g.delivered = f.delivered
  BY PutOk DEF Same
<1>2. ASSUME NEW x \in DOMAIN f.blocks, f.blocks[x].done
      PROVE  x \in DOMAIN g.blocks /\ g.blocks[x].done
  <2>1. CASE x = p.block
    <3>1. Block(p, f) = f.blocks[x]
      BY <2>1 DEF Block
    <3> HIDE DEF g
    <3> QED
      BY <1>1, <1>2, <2>1, <3>1
  <2>2. CASE x # p.block
    <3> HIDE DEF g
    <3> QED
      BY <1>1, <1>2, <2>2
  <2> QED
    BY <2>1, <2>2
<1> HIDE DEF g
<1> QED
  BY <1>1, <1>2 DEF Grows, Prefix, g

LEMMA UpIs ==
  ASSUME NEW i \in Indices, NEW f, FrameOk(i, f), NEW hi \in Nat,
         NEW kind \in {"part", "whole", "partial"}
  PROVE  Up(f, i, f.delivered, hi, kind) \in Pieces /\ f.delivered \in Nat /\ f.epoch \in Epochs
<1>1. f.parts \in 0 .. Count(i) /\ f.delivered = Start(i, f.parts)
  <2>1. f.parts \in 0 .. Count(i) - 1 /\ f.delivered = Start(i, f.parts)
    BY DEF FrameOk
  <2> QED
    BY <2>1, FrameIs
<1>2. f.delivered \in Nat
  BY <1>1, StartStep
<1>3. i \in 0 .. IndexMod - 1 /\ f.epoch \in 0 .. EpochMod - 1 /\ f.epoch \in Epochs
  BY FrameIs DEF FrameOk, Plans
<1> QED
  BY <1>2, <1>3 DEF Up, Pieces

LEMMA NotFitting ==
  ASSUME NEW p \in Packets, NEW w, Framed(w.frames), Charged(w.frames, w.in_flight),
         Refused(p, w)
  PROVE  ~Fits(p, w)
<1> DEFINE f == Frame(p, w)
           room == Budget - w.in_flight
<1>1. Lands0(p, f)
  BY FrameLands
<1>2. room \in Int
  BY FlightIs, WindowAssumption
<1>3. Charge(p, f) > room \/ GrowCost(p, f) > room \/ GrowCost(p, f) + BlockCharge(p, f) > room
  BY DEF Refused
<1> HIDE DEF f, room
<1>4. GrowCost(p, f) \in Nat
  BY <1>1, GrownOk
<1>5. BlockCharge(p, f) \in Nat
  <2>1. p.k = K(p.idx, p.block) /\ p.m = M(p.idx, p.block) /\ p.idx \in Indices
        /\ p.block \in 0 .. Count(p.idx) - 1
    BY PacketIs
  <2>2. BlockCost(p.k, p.m) \in Nat
    BY <2>1, FrameIs
  <2> QED
    BY <2>2 DEF BlockCharge
<1>6. ParityCost(p, f) \in Nat
  BY DEF ParityCost
<1>7. Charge(p, f) > room
  BY <1>2, <1>3, <1>4, <1>5, <1>6 DEF Charge
<1>8. Charge(p, f) \in Nat
  BY <1>4, <1>5, <1>6 DEF Charge
<1> QED
  BY <1>2, <1>7, <1>8 DEF Fits, f, room

LEMMA PushEffect ==
  ASSUME NEW p \in Packets, NEW w, Framed(w.frames), Charged(w.frames, w.in_flight),
         Push(p, w)
  PROVE  NoneUp(p, w) \/ StaysUp(p, w) \/ PartUp(p, w) \/ WholeUp(p, w)
<1> DEFINE i == p.idx
           f == Frame(p, w)
           F == w.frames
<1>1. i \in Indices /\ Lands0(p, f) /\ FrameOk(i, f)
  BY FrameLands DEF Lands0
<1>2. CASE Straggle(p, w)
  <2>1. p.idx \in DOMAIN w.completed /\ frames' = w.frames
        /\ DOMAIN completed' = DOMAIN w.completed
    BY <1>2 DEF Straggle
  <2>2. ~Fits(p, w)
    BY <2>1 DEF Fits, Lands
  <2>3. Emitted(p, w) = NoFrame
    BY <2>2 DEF Emitted
  <2> QED
    BY <2>1, <2>3 DEF NoneUp
<1>3. CASE TooLate(p, w)
  <2>1. is_stale(p, w.newest) /\ frames' = w.frames /\ completed' = w.completed
    BY <1>3 DEF TooLate
  <2>2. ~Fits(p, w)
    BY <2>1 DEF Fits, Lands
  <2>3. Emitted(p, w) = NoFrame
    BY <2>2 DEF Emitted
  <2> QED
    BY <2>1, <2>3 DEF NoneUp
<1>4. CASE Refused(p, w)
  <2>1. Emitted(p, w) = NoFrame
    BY <1>4, NotFitting DEF Emitted
  <2>2. /\ Lands(p, w) /\ completed' = w.completed
        /\ \/ frames' = w.frames
           \/ frames' = With(F, i, f)
           \/ frames' = With(F, i, Grown(p, f))
           \/ frames' = With(F, i, Put(f, p, Block(p, f)))
    BY <1>4 DEF Refused, Grown
  <2>3. Grows(f, f) /\ f.delivered = f.delivered
    BY DEF Grows
  <2> HIDE DEF f
  <2>4. Grows(f, Grown(p, f)) /\ Grown(p, f).delivered = f.delivered
    <3>1. Grown(p, f).blocks = f.blocks /\ Same(f, Grown(p, f))
      BY <1>1, GrownOk
    <3> QED
      BY <3>1 DEF Grows, Same, Prefix
  <2>5. Grows(f, Put(f, p, Block(p, f))) /\ Put(f, p, Block(p, f)).delivered = f.delivered
    BY <1>1, BlockIs, PutGrows
  <2>6. CASE frames' = w.frames
    BY <2>1, <2>2, <2>6 DEF NoneUp
  <2>7. ASSUME NEW g, frames' = With(F, i, g), Grows(f, g), g.delivered = f.delivered
        PROVE  StaysUp(p, w)
    BY <2>1, <2>2, <2>7 DEF StaysUp, Stays, f
  <2> QED
    BY <2>2, <2>3, <2>4, <2>5, <2>6, <2>7
<1>5. CASE Surplus(p, w)
  <2> DEFINE u == Put(f, p, LateShard(p, f))
  <2>1. Block(p, f).done /\ frames' = With(F, i, u) /\ completed' = w.completed /\ Lands(p, w)
    BY <1>5 DEF Surplus, LateShard, Fits
  <2>2. Emitted(p, w) = NoFrame
    BY <2>1 DEF Emitted
  <2>3. Grows(f, u) /\ u.delivered = f.delivered
    <3> HIDE DEF f
    <3>1. BlockOk(p.idx, p.block, LateShard(p, f)) /\ LateShard(p, f).done
      BY <1>1, <2>1, LateShardIs
    <3> QED
      BY <1>1, <3>1, PutGrows
  <2> HIDE DEF u
  <2> QED
    BY <2>1, <2>2, <2>3 DEF StaysUp, Stays
<1>6. CASE Keep(p, w)
  <2> DEFINE u == Put(f, p, Filled(p, f))
  <2>1. /\ ~Block(p, f).done /\ ~Enough(Filled(p, f)) /\ frames' = With(F, i, u)
        /\ completed' = w.completed /\ Lands(p, w)
    BY <1>6 DEF Keep, Fits
  <2>2. Emitted(p, w) = NoFrame
    BY <2>1 DEF Emitted
  <2>3. Grows(f, u) /\ u.delivered = f.delivered
    <3> HIDE DEF f
    <3>1. BlockOk(p.idx, p.block, Filled(p, f))
      BY <1>1, <2>1, FilledIs
    <3> QED
      BY <1>1, <2>1, <3>1, PutGrows
  <2> HIDE DEF u
  <2> QED
    BY <2>1, <2>2, <2>3 DEF StaysUp, Stays
<1>7. CASE CloseBlock(p, w)
  <2> DEFINE u == Closed(p, w)
             g == Progressed(u)
  <2>1. /\ ~Block(p, f).done /\ Enough(Filled(p, f)) /\ Fits(p, w) /\ Lands(p, w)
        /\ IF Whole(u) THEN frames' = Without(F, i) /\ completed' = With(w.completed, i, Restored(u))
           ELSE frames' = With(F, i, g) /\ completed' = w.completed
    BY <1>7 DEF CloseBlock, Fits
  <2>2. u = Put(f, p, Shut(p, f))
    BY DEF Closed, Shut
  <2>3. /\ Grows(f, u) /\ u.delivered = f.delivered /\ FrameOk(i, u)
    <3> HIDE DEF f, u
    <3>1. BlockOk(p.idx, p.block, Shut(p, f)) /\ Shut(p, f).done
      BY <1>1, <2>1, ShutIs
    <3> QED
      BY <1>1, <2>2, <3>1, PutGrows, PutOk DEF Lands0
  <2>4. Emitted(p, w) = IF ~Whole(u) /\ g.delivered = u.delivered THEN NoFrame
                        ELSE IF Whole(u) THEN Up(u, i, u.delivered, u.total, "whole")
                             ELSE Up(u, i, u.delivered, g.delivered, "part")
    BY <2>1 DEF Emitted
  <2> HIDE DEF f, u
  <2>5. CASE Whole(u)
    <3>1. u.total = Total(i) /\ Total(i) \in Nat
      BY <1>1, <2>3, <2>5, TotalIs DEF FrameOk, Whole
    <3>2. Up(u, i, u.delivered, u.total, "whole") = Up(f, i, f.delivered, Total(i), "whole")
      BY <2>3, <3>1 DEF Up, Grows
    <3>3. Up(f, i, f.delivered, Total(i), "whole") \in Pieces
      BY <1>1, <3>1, UpIs
    <3> QED
      BY <2>1, <2>4, <2>5, <3>2, <3>3 DEF WholeUp, f
  <2>6. CASE ~Whole(u)
    <3>1. FrameOk(i, g) /\ g.blocks = u.blocks /\ g.epoch = u.epoch
          /\ ("parts" \notin deliver => g = u)
      BY <1>1, <2>3, ProgressedOk
    <3> HIDE DEF g
    <3>2. Grows(f, g)
      BY <2>3, <3>1 DEF Grows, Prefix
    <3>3. Stays(p, w, g)
      BY <2>1, <2>6, <3>2 DEF Stays, f
    <3>4. CASE g.delivered = u.delivered
      BY <2>3, <2>4, <2>6, <3>3, <3>4 DEF StaysUp, f
    <3>5. CASE g.delivered # u.delivered
      <4>1. "parts" \in deliver
        BY <3>1, <3>5
      <4>2. g.delivered \in Nat
        BY <1>1, <3>1, UpIs
      <4>3. Emitted(p, w) = Up(f, i, f.delivered, g.delivered, "part")
        BY <2>3, <2>4, <2>6, <3>5 DEF Up, Grows
      <4>4. Emitted(p, w) \in Pieces
        BY <1>1, <4>2, <4>3, UpIs
      <4> QED
        BY <3>3, <4>1, <4>3, <4>4 DEF PartUp, f
    <3> QED
      BY <3>4, <3>5
  <2> QED
    BY <2>5, <2>6
<1> QED
  BY <1>2, <1>3, <1>4, <1>5, <1>6, <1>7 DEF Push
-----------------------------------------------------------------------------
(* What goes up of a frame.                                                *)
LEMMA RowEnds ==
  ASSUME NEW g \in Seq(Pieces), AllParts(g), NEW u \in Pieces
  PROVE  /\ Append(g, u) \in Seq(Pieces) /\ Append(g, u) # <<>> /\ End(Append(g, u)) = u.hi
         /\ u.kind = "part" => AllParts(Append(g, u))
<1> DEFINE h == Append(g, u)
           n == Len(g)
<1>1. /\ h \in Seq(Pieces) /\ Len(h) = n + 1 /\ n \in Nat /\ DOMAIN h = 1 .. n + 1
      /\ h[n + 1] = u /\ \A m \in 1 .. n : h[m] = g[m]
  BY AppendProperties, LenProperties
<1>2. h # <<>>
  BY <1>1, EmptySeq
<1> HIDE DEF h
<1>3. End(h) = u.hi
  BY <1>1, <1>2 DEF End
<1>4. u.kind = "part" => AllParts(h)
  BY <1>1 DEF AllParts
<1> QED
  BY <1>1, <1>2, <1>3, <1>4 DEF h

LEMMA RowGrows ==
  ASSUME NEW i, NEW g \in Seq(Pieces), InRow(i, g), AllParts(g),
         NEW u \in Pieces, u.lo = End(g), u.kind = "whole" => u.hi = Total(i)
  PROVE  InRow(i, Append(g, u))
<1> DEFINE h == Append(g, u)
           n == Len(g)
<1>1. /\ h \in Seq(Pieces) /\ Len(h) = n + 1 /\ n \in Nat /\ DOMAIN h = 1 .. n + 1
      /\ h[n + 1] = u /\ \A m \in 1 .. n : h[m] = g[m]
  BY AppendProperties, LenProperties
<1>2. h # <<>>
  BY <1>1, EmptySeq
<1>3. g = <<>> <=> n = 0
  BY EmptySeq
<1> HIDE DEF h
<1>7. ASSUME NEW m \in 1 .. Len(h) - 1
      PROVE  h[m].kind = "part" /\ h[m].hi = h[m + 1].lo
  <2>1. m \in 1 .. n /\ h[m] = g[m] /\ g[m].kind = "part"
    BY <1>1 DEF AllParts
  <2>2. CASE m = n
    <3>1. g # <<>> /\ End(g) = g[n].hi
      BY <1>1, <1>3, <2>1, <2>2 DEF End
    <3> QED
      BY <1>1, <2>1, <2>2, <3>1
  <2>3. CASE m # n
    <3>1. m \in 1 .. n - 1 /\ m + 1 \in 1 .. n
      BY <1>1, <2>1, <2>3
    <3> QED
      BY <1>1, <2>1, <3>1 DEF InRow
  <2> QED
    BY <2>2, <2>3
<1>8. h[1].lo = 0
  <2>1. CASE n = 0
    BY <1>1, <1>3, <2>1 DEF End
  <2>2. CASE n # 0
    BY <1>1, <1>3, <2>2 DEF InRow
  <2> QED
    BY <2>1, <2>2
<1>9. InRow(i, h)
  BY <1>1, <1>7, <1>8 DEF InRow
<1> QED
  BY <1>9 DEF h

(* An epoch that is over stays over.                                       *)
LEMMA EpochMoves ==
  ASSUME epoch # NoFrame => epoch \in Epochs, NEW u, u.epoch \in Epochs, Deliver(u)
  PROVE  /\ epoch' # NoFrame => epoch' \in Epochs
         /\ \A e \in Epochs : behind_epoch(e) => behind_epoch(e)'
<1>1. CASE behind_epoch(u.epoch)
  BY <1>1 DEF Deliver, behind_epoch
<1>2. CASE ~behind_epoch(u.epoch)
  <2>1. epoch' = u.epoch
    BY <1>2 DEF Deliver
  <2>2. u.epoch # NoFrame
    <3>1. u.epoch \in Nat
      BY PlanIs DEF Epochs, Plans
    <3> QED
      BY <3>1, PlanAssumption
  <2>3. ASSUME NEW e \in Epochs, behind_epoch(e)
        PROVE  2 * ((e - u.epoch) % EpochMod) >= EpochMod
    <3>1. epoch # NoFrame /\ epoch \in Epochs /\ 2 * ((e - epoch) % EpochMod) >= EpochMod
      BY <2>3 DEF behind_epoch
    <3>2. EpochPos(e) < EpochPos(epoch) /\ EpochPos(e) \in Nat /\ EpochPos(epoch) \in Nat
      BY <3>1, EpochOrder
    <3>3. ~(2 * ((u.epoch - epoch) % EpochMod) >= EpochMod)
      BY <1>2, <3>1 DEF behind_epoch
    <3>4. ~(EpochPos(u.epoch) < EpochPos(epoch)) /\ EpochPos(u.epoch) \in Nat
      BY <3>1, <3>3, EpochOrder
    <3>5. EpochPos(e) < EpochPos(u.epoch)
      BY <3>2, <3>4
    <3> QED
      BY <3>5, EpochOrder
  <2> QED
    BY <2>1, <2>2, <2>3 DEF behind_epoch
<1> QED
  BY <1>1, <1>2

(* A frame in flight that grows stays where it was, as long as nothing of  *)
(* it goes up.                                                             *)
LEMMA AheadKept ==
  ASSUME NEW i \in Indices, NEW f, NEW q, NEW l, Ahead(i, f, q, l), f.epoch \in Epochs,
         Grows(f, frames'[i]), frames'[i].delivered = f.delivered,
         parked' = q \/ parked' = NoFrame, lost' = l, got'[i] = got[i], deliver' = deliver,
         \A e \in Epochs : behind_epoch(e) => behind_epoch(e)'
  PROVE  Ahead(i, frames[i], parked, lost)'
<1>1. PICK c \in 0 .. Count(i) : End(got[i]) = Start(i, c) /\ Prefix(f, c)
  BY DEF Ahead
<1>2. Prefix(frames'[i], c)
  <2>1. c \in Nat
    BY FrameIs
  <2> QED
    BY <1>1, <2>1 DEF Grows
<1>3. \E d \in 0 .. Count(i) : End(got'[i]) = Start(i, d) /\ Prefix(frames'[i], d)
  BY <1>1, <1>2
<1>4. frames'[i].delivered = End(got'[i]) \/ behind_epoch(frames[i].epoch)'
  <2>1. frames'[i].epoch = f.epoch
    BY DEF Grows
  <2>2. f.delivered = End(got[i]) \/ behind_epoch(f.epoch)
    BY DEF Ahead
  <2>3. behind_epoch(f.epoch) => 2 * ((f.epoch - epoch') % EpochMod) >= EpochMod /\ epoch' # NoFrame
    BY DEF behind_epoch
  <2> QED
    BY <2>1, <2>2, <2>3 DEF behind_epoch
<1>5. /\ lost'[i] = 0 /\ (parked' # NoFrame => parked'.idx # i) /\ AllParts(got'[i])
      /\ (got'[i] # <<>> => "partial" \notin deliver')
  BY DEF Ahead
<1> QED
  BY <1>3, <1>4, <1>5 DEF Ahead, End, AllParts, Prefix, Start, Count

LEMMA FateKept ==
  ASSUME NEW i \in Indices, NEW F, NEW C, NEW n, NEW q, NEW l, Fate(i, F, C, n, q, l),
         i \in DOMAIN frames' <=> i \in DOMAIN F,
         i \in DOMAIN F => /\ Grows(F[i], frames'[i]) /\ frames'[i].delivered = F[i].delivered
                           /\ F[i].epoch \in Epochs,
         i \in DOMAIN C => i \in DOMAIN completed',
         newest' = n, parked' = q \/ parked' = NoFrame, lost' = l, got'[i] = got[i],
         deliver' = deliver, i \in opened' => i \in opened,
         \A e \in Epochs : behind_epoch(e) => behind_epoch(e)'
  PROVE  Fate(i, frames, completed, newest, parked, lost)'
<1>1. Known(i)' => Known(i)
  BY DEF Known
<1>2. Known(i)' => Within(newest, i)'
  BY <1>1 DEF Fate, Within, Forward, Behind
<1>3. ASSUME Known(i)', i \in DOMAIN frames' PROVE Ahead(i, frames[i], parked, lost)'
  <2>1. Ahead(i, F[i], q, l)
    BY <1>1, <1>3 DEF Fate
  <2> QED
    BY <1>3, <2>1, AheadKept
<1>4. ASSUME Known(i)', i \notin DOMAIN frames' PROVE Gone(i, completed, newest)'
  BY <1>1, <1>4 DEF Fate, Gone, Behind
<1>5. parked' # NoFrame /\ parked'.idx = i => got'[i] = <<>>
  BY DEF Fate
<1>6. lost'[i] <= IF \E m \in DOMAIN got'[i] : got'[i][m].kind = "whole" THEN 0 ELSE 1
  BY DEF Fate
<1> QED
  BY <1>2, <1>3, <1>4, <1>5, <1>6 DEF Fate

(* A packet that lands belongs to a frame nothing is known of, or to one in*)
(* flight.                                                                 *)
LEMMA Landing ==
  ASSUME NEW p \in Packets, NEW w, Framed(w.frames), NEW l, Told,
         World(w.frames, w.completed, w.newest, w.parked, l),
         Within(w.newest, p.idx), Lands(p, w), p.idx \notin flushed
  PROVE  Ahead(p.idx, Frame(p, w), w.parked, l)
<1> DEFINE i == p.idx
           f == Frame(p, w)
<1>1. i \in Indices \ flushed /\ Lands0(p, f) /\ FrameOk(i, f)
  BY FrameLands DEF Lands0
<1>2. Fate(i, w.frames, w.completed, w.newest, w.parked, l)
  BY <1>1 DEF World
<1>3. ~Gone(i, w.completed, w.newest)
  BY DEF Gone, Lands, is_stale, Within
<1>4. CASE i \in DOMAIN w.frames
  <2>1. Ahead(i, w.frames[i], w.parked, l)
    <3>1. Known(i)
      BY <1>4 DEF World, Shape, Known
    <3> QED
      BY <1>2, <1>4, <3>1 DEF Fate
  <2>2. Same(w.frames[i], f) /\ f.blocks = w.frames[i].blocks
    BY <1>4, FrameLands
  <2> HIDE DEF f
  <2>3. /\ f.epoch = w.frames[i].epoch /\ f.delivered = w.frames[i].delivered
        /\ \A c \in 0 .. Count(i) : Prefix(w.frames[i], c) => Prefix(f, c)
    BY <2>2 DEF Same, Prefix
  <2>4. Ahead(i, f, w.parked, l)
    BY <2>1, <2>3 DEF Ahead
  <2> QED
    BY <2>4 DEF f
<1>5. CASE i \notin DOMAIN w.frames
  <2>1. ~Known(i)
    BY <1>2, <1>3, <1>5 DEF Fate
  <2>2. got[i] = <<>> /\ i \notin opened
    BY <2>1 DEF Known
  <2>3. l[i] = 0 /\ (w.parked # NoFrame => w.parked.idx # i)
    BY <1>1, <2>2 DEF World, Shape
  <2>4. f.delivered = 0
    BY <1>5, FrameLands
  <2>5. 0 \in 0 .. Count(i) /\ Start(i, 0) = 0
    BY <1>1, FrameIs, StartStep
  <2>6. End(got[i]) = 0 /\ AllParts(got[i])
    BY <2>2 DEF End, AllParts
  <2>7. Prefix(f, 0)
    BY DEF Prefix
  <2> HIDE DEF f
  <2>8. Ahead(i, f, w.parked, l)
    BY <2>2, <2>3, <2>4, <2>5, <2>6, <2>7 DEF Ahead
  <2> QED
    BY <2>8 DEF f
<1> QED
  BY <1>4, <1>5
-----------------------------------------------------------------------------
(* What goes up of a frame no flush tore continues what went up of it.     *)
Continues(u) ==
  /\ AllParts(got[u.idx])
  /\ u.kind = "whole" => u.hi = Total(u.idx)
  /\ u.lo = End(got[u.idx]) \/ behind_epoch(u.epoch)
LEMMA UpTold ==
  ASSUME Told, NEW u \in Pieces, u.idx \in Indices, u.epoch \in Epochs, Deliver(u),
         u.idx \notin flushed => Continues(u),
         flushed' = flushed, deliver' = deliver, opened' \subseteq Indices
  PROVE  /\ Told'
         /\ \A e \in Epochs : behind_epoch(e) => behind_epoch(e)'
         /\ \A i \in Indices : i # u.idx => got'[i] = got[i]
         /\ IF behind_epoch(u.epoch) THEN got' = got ELSE got'[u.idx] = Append(got[u.idx], u)
<1> DEFINE i == u.idx
<1>1. /\ epoch' # NoFrame => epoch' \in Epochs
      /\ \A e \in Epochs : behind_epoch(e) => behind_epoch(e)'
  BY EpochMoves DEF Told
<1>2. got \in [Indices -> Seq(Pieces)]
  BY DEF Told
<1>3. CASE behind_epoch(u.epoch)
  <2>1. got' = got
    BY <1>3 DEF Deliver
  <2>2. Told'
    BY <1>1, <2>1 DEF Told
  <2> QED
    BY <1>1, <1>3, <2>1, <2>2
<1>4. CASE ~behind_epoch(u.epoch)
  <2>1. got' = [got EXCEPT ![i] = Append(@, u)]
    BY <1>4 DEF Deliver
  <2>2. got'[i] = Append(got[i], u) /\ \A j \in Indices : j # i => got'[j] = got[j]
    BY <1>2, <2>1
  <2>3. got[i] \in Seq(Pieces)
    BY <1>2
  <2>4. Append(got[i], u) \in Seq(Pieces)
    BY <2>3, AppendProperties
  <2>5. got' \in [Indices -> Seq(Pieces)]
    BY <1>2, <2>1, <2>2, <2>4
  <2>6. ASSUME NEW j \in Indices \ flushed PROVE InRow(j, got'[j])
    <3>1. InRow(j, got[j])
      BY <2>6 DEF Told
    <3>2. CASE j # i
      BY <2>2, <3>1, <3>2
    <3>3. CASE j = i
      <4>1. AllParts(got[i]) /\ (u.kind = "whole" => u.hi = Total(i)) /\ u.lo = End(got[i])
        BY <1>4, <2>6, <3>3 DEF Continues
      <4>2. InRow(i, Append(got[i], u))
        BY <2>3, <3>1, <3>3, <4>1, RowGrows
      <4> QED
        BY <2>2, <3>3, <4>2
    <3> QED
      BY <3>2, <3>3
  <2>7. Told'
    BY <1>1, <2>5, <2>6 DEF Told, InRow
  <2> QED
    BY <1>1, <1>4, <2>2, <2>7
<1> QED
  BY <1>3, <1>4

(* The parked picture goes up: nothing of its frame did before.            *)
LEMMA PictureTold ==
  ASSUME Told, NEW F, NEW C, NEW n, NEW q, NEW l, World(F, C, n, q, l), q # NoFrame,
         Deliver(Picture(q)), flushed' = flushed, deliver' = deliver, opened' \subseteq Indices
  PROVE  /\ Told'
         /\ \A e \in Epochs : behind_epoch(e) => behind_epoch(e)'
         /\ \A i \in Indices : i # q.idx => got'[i] = got[i]
         /\ q.idx \in Indices
         /\ q.idx \notin flushed =>
              /\ q.idx \notin DOMAIN F /\ Gone(q.idx, C, n) /\ Within(n, q.idx)
              /\ \A m \in DOMAIN got'[q.idx] : got'[q.idx][m].kind # "whole"
              /\ l[q.idx] <= 1
<1> DEFINE i == q.idx
           u == Picture(q)
<1>1. q \in Pictures /\ i \in opened /\ q.epoch \in Epochs
  BY DEF World, Shape
<1>2. i \in Indices
  BY <1>1 DEF Told
<1>3. u.idx = i /\ u.epoch = q.epoch /\ u.lo = 0 /\ u.kind = "partial"
  BY DEF Picture, Up
<1>4. u \in Pieces
  BY <1>1 DEF Picture, Up, Pieces, Pictures
<1>5. ASSUME i \notin flushed
      PROVE  got[i] = <<>> /\ i \notin DOMAIN F /\ Gone(i, C, n) /\ Within(n, i) /\ l[i] <= 1
  <2>1. Fate(i, F, C, n, q, l)
    BY <1>2, <1>5 DEF World
  <2>2. Known(i) /\ got[i] = <<>>
    BY <1>1, <2>1 DEF Fate, Known
  <2>3. i \notin DOMAIN F
    BY <2>1, <2>2 DEF Fate, Ahead
  <2>4. l[i] \in Nat
    BY <1>2 DEF World, Shape
  <2>5. l[i] <= 1
    BY <2>1, <2>4 DEF Fate
  <2> QED
    BY <2>1, <2>2, <2>3, <2>5 DEF Fate
<1> HIDE DEF u
<1>6. i \notin flushed => Continues(u)
  BY <1>3, <1>5 DEF Continues, AllParts, End
<1>7. Deliver(u)
  BY DEF u
<1>8. /\ Told' /\ \A e \in Epochs : behind_epoch(e) => behind_epoch(e)'
      /\ \A j \in Indices : j # i => got'[j] = got[j]
      /\ IF behind_epoch(u.epoch) THEN got' = got ELSE got'[i] = Append(got[i], u)
  BY <1>1, <1>2, <1>3, <1>4, <1>6, <1>7, UpTold
<1>9. ASSUME i \notin flushed, NEW m \in DOMAIN got'[i] PROVE got'[i][m].kind # "whole"
  <2>1. got[i] = <<>> /\ DOMAIN got[i] = {}
    BY <1>5, <1>9
  <2>2. ~behind_epoch(u.epoch) /\ got'[i] = Append(<<>>, u)
    BY <1>8, <1>9, <2>1
  <2>3. got'[i] = <<u>>
    BY <2>2
  <2> QED
    BY <1>3, <1>9, <2>3
<1> QED
  BY <1>2, <1>5, <1>8, <1>9
-----------------------------------------------------------------------------
(* A packet that lands.                                                    *)
LEMMA LandedFate ==
  ASSUME NEW i \in Indices, NEW n, Within(n, i), i \in DOMAIN frames', newest' = n,
         Ahead(i, frames[i], parked, lost)'
  PROVE  Fate(i, frames, completed, newest, parked, lost)'
<1>1. Within(newest, i)'
  BY DEF Within, Forward, Behind
<1>2. lost'[i] = 0 /\ (parked' # NoFrame => parked'.idx # i)
  BY DEF Ahead
<1>3. lost'[i] <= IF \E m \in DOMAIN got'[i] : got'[i][m].kind = "whole" THEN 0 ELSE 1
  BY <1>2
<1> QED
  BY <1>1, <1>2, <1>3 DEF Fate

LEMMA PartFate ==
  ASSUME Told, NEW i \in Indices, NEW f, NEW q, NEW l, Ahead(i, f, q, l), f.epoch \in Epochs,
         Grows(f, frames'[i]), FrameOk(i, frames'[i]), "parts" \in deliver,
         NEW u \in Pieces, u = Up(f, i, f.delivered, frames'[i].delivered, "part"),
         IF behind_epoch(u.epoch) THEN got' = got ELSE got'[i] = Append(got[i], u),
         parked' = q \/ parked' = NoFrame, lost' = l, deliver' = deliver,
         \A e \in Epochs : behind_epoch(e) => behind_epoch(e)'
  PROVE  Ahead(i, frames[i], parked, lost)'
<1> DEFINE g == frames'[i]
<1>1. /\ u.epoch = f.epoch /\ u.kind = "part" /\ u.lo = f.delivered /\ u.hi = g.delivered
      /\ g.epoch = f.epoch
  BY DEF Up, Grows
<1>2. lost'[i] = 0 /\ (parked' # NoFrame => parked'.idx # i)
  BY DEF Ahead
<1>3. "partial" \notin deliver
  BY PlanAssumption DEF Told
<1>4. CASE behind_epoch(f.epoch)
  <2>1. got' = got
    BY <1>1, <1>4
  <2>2. PICK c \in 0 .. Count(i) : End(got[i]) = Start(i, c) /\ Prefix(f, c)
    BY DEF Ahead
  <2>3. c \in Nat /\ Prefix(g, c)
    <3>1. c \in Nat
      BY FrameIs
    <3> QED
      BY <2>2, <3>1 DEF Grows
  <2>4. behind_epoch(f.epoch)'
    BY <1>4
  <2>5. behind_epoch(frames[i].epoch)'
    <3>1. 2 * ((f.epoch - epoch') % EpochMod) >= EpochMod /\ epoch' # NoFrame
      BY <1>4 DEF behind_epoch
    <3> QED
      BY <1>1, <3>1 DEF behind_epoch
  <2>6. AllParts(got[i])
    BY DEF Ahead
  <2> QED
    BY <1>2, <1>3, <2>1, <2>2, <2>3, <2>5, <2>6 DEF Ahead, End, AllParts, Prefix, Start, Count
<1>5. CASE ~behind_epoch(f.epoch)
  <2>1. got'[i] = Append(got[i], u) /\ f.delivered = End(got[i]) /\ AllParts(got[i])
    BY <1>1, <1>5 DEF Ahead
  <2>2. got[i] \in Seq(Pieces)
    BY DEF Told
  <2>4. End(got'[i]) = g.delivered /\ AllParts(got'[i])
    BY <1>1, <2>1, <2>2, RowEnds
  <2>5. g.parts \in 0 .. Count(i) /\ g.delivered = Start(i, g.parts) /\ Prefix(g, g.parts)
    <3>1. g.parts \in 0 .. Count(i) - 1 /\ g.delivered = Start(i, g.parts) /\ Prefix(g, g.parts)
      BY DEF FrameOk
    <3> QED
      BY <3>1, FrameIs
  <2> QED
    BY <1>2, <1>3, <2>4, <2>5 DEF Ahead, End, AllParts, Prefix, Start, Count
<1> QED
  BY <1>4, <1>5

LEMMA ReceiveStep ==
  ASSUME IInv, NEW seq \in Seqs, Receive(seq)
  PROVE  IInv'
<1> DEFINE p == Wire[seq - FirstSeq + 1]
           w == Advanced(p)
           i == p.idx
           f == Frame(p, w)
           u == Emitted(p, w)
           l == Counts(w.dead)
<1>1. p \in Packets
  BY WireIs
<1>2. /\ Framed(w.frames) /\ Charged(w.frames, w.in_flight)
      /\ World(w.frames, w.completed, w.newest, w.parked, l)
      /\ Within(w.newest, i) /\ i \in Indices /\ w.newest \in Anchors
      /\ w.newest.idx \in Indices
  <2>1. parked = NoFrame /\ Told /\ Framed(frames) /\ Charged(frames, in_flight)
        /\ World(frames, completed, newest, parked, lost)
    BY DEF Receive, IInv, Memory
  <2> HIDE DEF p, w
  <2>2. Framed(w.frames) /\ Charged(w.frames, w.in_flight)
    BY <1>1, <2>1, AdvancedFlight DEF w
  <2> QED
    BY <1>1, <2>1, <2>2, AdvancedWorld DEF w
<1>3. /\ Push(p, w) /\ newest' = w.newest /\ deliver' = deliver /\ lost' = l
      /\ opened' = opened \cup DOMAIN frames' /\ flushed' = flushed /\ Told
      /\ \/ u # NoFrame /\ parked' = w.parked /\ Deliver(u)
         \/ u = NoFrame /\ w.parked # NoFrame /\ parked' = NoFrame /\ Deliver(Picture(w.parked))
         \/ u = NoFrame /\ w.parked = NoFrame /\ parked' = NoFrame /\ epoch' = epoch /\ got' = got
  BY DEF Receive, Push, Dead, Counts, IInv
<1> HIDE DEF p, w, u, l
<1>4. Memory'
  <2>1. Framed(frames') /\ Charged(frames', in_flight')
    BY <1>1, <1>2, <1>3, PushFlight
  <2> QED
    BY <2>1 DEF Memory, Framed, Charged
<1>5. NoneUp(p, w) \/ StaysUp(p, w) \/ PartUp(p, w) \/ WholeUp(p, w)
  BY <1>1, <1>2, <1>3, PushEffect
<1>6. /\ DOMAIN frames' \subseteq DOMAIN w.frames \cup {i}
      /\ DOMAIN w.completed \subseteq DOMAIN completed'
      /\ DOMAIN completed' \subseteq DOMAIN w.completed \cup {i}
      /\ \A j \in Indices \ {i} : /\ j \in DOMAIN frames' <=> j \in DOMAIN w.frames
                                  /\ j \in DOMAIN frames' => frames'[j] = w.frames[j]
  BY <1>5 DEF NoneUp, StaysUp, PartUp, WholeUp, Stays, With, Without
<1>7. Framed(frames') /\ opened' \subseteq Indices
  BY <1>3, <1>4 DEF Memory, Framed, Told
<1>8. \A j \in DOMAIN w.frames : w.frames[j].epoch \in Epochs
  <2>1. \A j \in DOMAIN w.frames : j \in Indices /\ FrameOk(j, w.frames[j])
    BY <1>2 DEF Framed
  <2> QED
    BY <2>1, PictureOk
<1>9. FrameOk(i, f) /\ f.epoch \in Epochs
  <2>1. FrameOk(i, f)
    BY <1>1, <1>2, FrameLands DEF Lands0
  <2> HIDE DEF f
  <2> QED
    BY <1>2, <2>1, PictureOk
<1>10. Lands(p, w) /\ i \notin flushed => Ahead(i, f, w.parked, l)
  BY <1>1, <1>2, <1>3, Landing
(* What the packet sends up.                                               *)
<1>11. ASSUME u # NoFrame
       PROVE  /\ u \in Pieces /\ u.idx = i /\ u.epoch = f.epoch /\ Deliver(u) /\ parked' = w.parked
              /\ i \notin flushed => Continues(u)
  <2>1. PartUp(p, w) \/ WholeUp(p, w)
    BY <1>5, <1>11 DEF NoneUp, StaysUp, u
  <2>2. u \in Pieces /\ u.idx = i /\ u.epoch = f.epoch /\ u.lo = f.delivered /\ Lands(p, w)
        /\ (u.kind = "whole" => u.hi = Total(i))
    BY <2>1 DEF PartUp, WholeUp, Stays, Up, u
  <2>3. i \notin flushed => Continues(u)
    BY <1>10, <2>2 DEF Continues, Ahead
  <2> QED
    BY <1>3, <1>11, <2>2, <2>3
<1>12. ASSUME u = NoFrame
       PROVE  NoneUp(p, w) \/ StaysUp(p, w)
  <2>1. NoFrame \notin Pieces
    BY PlanAssumption
  <2> QED
    BY <1>5, <1>12, <2>1 DEF PartUp, WholeUp, u
<1>13. /\ Told' /\ \A e \in Epochs : behind_epoch(e) => behind_epoch(e)'
       /\ \A j \in Indices :
            \/ got'[j] = got[j]
            \/ u # NoFrame /\ j = i
            \/ u = NoFrame /\ w.parked # NoFrame /\ j = w.parked.idx
  <2>1. CASE u # NoFrame
    <3>1. /\ Told' /\ \A e \in Epochs : behind_epoch(e) => behind_epoch(e)'
          /\ \A j \in Indices : j # u.idx => got'[j] = got[j]
      BY <1>2, <1>3, <1>7, <1>9, <1>11, <2>1, UpTold
    <3> QED
      BY <1>11, <2>1, <3>1
  <2>2. CASE u = NoFrame /\ w.parked # NoFrame
    <3>1. /\ Told' /\ \A e \in Epochs : behind_epoch(e) => behind_epoch(e)'
          /\ \A j \in Indices : j # w.parked.idx => got'[j] = got[j]
      BY <1>2, <1>3, <1>7, <2>2, PictureTold
    <3> QED
      BY <2>2, <3>1
  <2>3. CASE u = NoFrame /\ w.parked = NoFrame
    BY <1>3, <1>7, <2>3 DEF Told, behind_epoch, InRow
  <2> QED
    BY <2>1, <2>2, <2>3
<1>14. Shape(frames, completed, newest, parked, lost)'
  <2>1. Shape(w.frames, w.completed, w.newest, w.parked, l)
    BY <1>2 DEF World
  <2>2. DOMAIN frames' \subseteq opened' /\ DOMAIN completed' \subseteq Indices
    BY <1>2, <1>3, <1>6, <2>1 DEF Shape
  <2>3. newest' # NoFrame => newest' \in Anchors /\ newest'.idx \in Indices
    BY <1>2, <1>3
  <2>4. parked' # NoFrame => /\ parked' \in Pictures /\ parked'.idx \in opened'
                             /\ parked'.epoch \in Epochs /\ "partial" \in deliver'
    BY <1>3, <2>1 DEF Shape
  <2>5. lost' \in [Indices -> Nat] /\ \A j \in Indices : lost'[j] # 0 => j \in opened'
    BY <1>3, <2>1 DEF Shape
  <2>6. ASSUME NEW j \in DOMAIN frames' PROVE Within(newest, j)'
    <3>1. Within(w.newest, j)
      BY <1>2, <1>6, <2>1, <2>6 DEF Shape
    <3> QED
      BY <1>3, <3>1 DEF Within, Forward, Behind
  <2> QED
    BY <2>2, <2>3, <2>4, <2>5, <2>6 DEF Shape
<1>15. ASSUME NEW j \in Indices \ flushed
       PROVE  Fate(j, frames, completed, newest, parked, lost)'
  <2>1. Fate(j, w.frames, w.completed, w.newest, w.parked, l)
    BY <1>2, <1>15 DEF World
  <2>2. parked' = w.parked \/ parked' = NoFrame
    BY <1>3
  <2>3. j \in DOMAIN w.completed => j \in DOMAIN completed'
    BY <1>6
  <2>4. j \in DOMAIN w.frames => j \in opened
    BY <1>2 DEF World, Shape
  (* The frame whose picture goes up is gone.                              *)
  <2>5. CASE u = NoFrame /\ w.parked # NoFrame /\ j = w.parked.idx
    <3>1. /\ j \notin DOMAIN w.frames /\ Gone(j, w.completed, w.newest) /\ Within(w.newest, j)
          /\ \A m \in DOMAIN got'[j] : got'[j][m].kind # "whole"
          /\ l[j] <= 1
      BY <1>2, <1>3, <1>7, <1>15, <2>5, PictureTold
    <3>2. j \notin DOMAIN frames'
      <4>1. CASE j = i
        <5>1. ~Lands(p, w)
          BY <1>10, <1>15, <2>5, <4>1 DEF Ahead
        <5>2. frames' = w.frames
          BY <1>12, <2>5, <5>1 DEF NoneUp, StaysUp, Stays
        <5> QED
          BY <3>1, <5>2
      <4> QED
        BY <1>6, <1>15, <3>1, <4>1
    <3>3. Gone(j, completed, newest)' /\ Within(newest, j)'
      BY <1>3, <2>3, <3>1 DEF Gone, Within, Forward, Behind
    <3>4. parked' = NoFrame /\ lost'[j] <= 1
      BY <1>3, <2>5, <3>1
    <3>5. lost'[j] <= IF \E m \in DOMAIN got'[j] : got'[j][m].kind = "whole" THEN 0 ELSE 1
      BY <3>1, <3>4
    <3> QED
      BY <3>2, <3>3, <3>4, <3>5 DEF Fate
  <2>6. CASE j # i /\ got'[j] = got[j]
    <3>1. j \in DOMAIN frames' <=> j \in DOMAIN w.frames
      BY <1>6, <1>15, <2>6
    <3>2. j \in DOMAIN w.frames => /\ Grows(w.frames[j], frames'[j])
                                   /\ frames'[j].delivered = w.frames[j].delivered
                                   /\ w.frames[j].epoch \in Epochs
      BY <1>6, <1>8, <1>15, <2>6 DEF Grows
    <3>3. j \in opened' => j \in opened
      BY <1>3, <2>4, <3>1
    <3> QED
      BY <1>3, <1>13, <1>15, <2>1, <2>2, <2>3, <2>6, <3>1, <3>2, <3>3, FateKept
  <2>7. CASE j = i /\ got'[j] = got[j] /\ u = NoFrame
    <3>1. CASE NoneUp(p, w)
      <4>1. frames' = w.frames
        BY <3>1 DEF NoneUp
      <4>2. j \in DOMAIN w.frames => /\ Grows(w.frames[j], frames'[j])
                                     /\ frames'[j].delivered = w.frames[j].delivered
                                     /\ w.frames[j].epoch \in Epochs
        BY <1>8, <4>1 DEF Grows
      <4>3. j \in opened' => j \in opened
        BY <1>3, <2>4, <4>1
      <4> QED
        BY <1>3, <1>13, <1>15, <2>1, <2>2, <2>3, <2>7, <4>1, <4>2, <4>3, FateKept
    <3>2. CASE StaysUp(p, w)
      <4>1. PICK g : Stays(p, w, g) /\ g.delivered = f.delivered
        BY <3>2 DEF StaysUp, f
      <4>2. frames'[i] = g /\ i \in DOMAIN frames' /\ Grows(f, g) /\ Lands(p, w)
        BY <4>1 DEF Stays, With, f
      <4>3. Ahead(i, f, w.parked, l)
        BY <1>10, <1>15, <2>7, <4>2
      <4> HIDE DEF f, i
      <4>4. Ahead(i, frames[i], parked, lost)'
        BY <1>2, <1>3, <1>9, <1>13, <2>2, <2>7, <4>1, <4>2, <4>3, AheadKept
      <4> QED
        BY <1>2, <1>3, <2>7, <4>2, <4>4, LandedFate
    <3> QED
      BY <1>12, <2>7, <3>1, <3>2
  <2>8. CASE j = i /\ u # NoFrame
    <3>1. Lands(p, w) /\ (PartUp(p, w) \/ WholeUp(p, w))
      BY <1>5, <2>8 DEF NoneUp, StaysUp, PartUp, WholeUp, Stays, u
    <3>2. Ahead(i, f, w.parked, l)
      BY <1>10, <1>15, <2>8, <3>1
    <3>3. IF behind_epoch(u.epoch) THEN got' = got ELSE got'[i] = Append(got[i], u)
      <4> HIDE DEF i
      <4> QED
        BY <1>2, <1>3, <1>7, <1>9, <1>11, <2>8, UpTold
    <3>4. CASE PartUp(p, w)
      <4>1. PICK g : Stays(p, w, g) /\ u = Up(f, i, f.delivered, g.delivered, "part")
        BY <3>4 DEF PartUp, f, u
      <4>2. frames'[i] = g /\ i \in DOMAIN frames' /\ Grows(f, g) /\ "parts" \in deliver
        BY <3>4, <4>1 DEF Stays, With, f, PartUp
      <4>3. FrameOk(i, g)
        BY <1>7, <4>2 DEF Framed
      <4> HIDE DEF f, i
      <4>4. Ahead(i, frames[i], parked, lost)'
        BY <1>2, <1>3, <1>9, <1>11, <1>13, <2>2, <2>8, <3>2, <3>3, <4>1, <4>2, <4>3, PartFate
      <4> QED
        BY <1>2, <1>3, <2>8, <4>2, <4>4, LandedFate
    <3>5. CASE WholeUp(p, w)
      <4>1. i \notin DOMAIN frames' /\ i \in DOMAIN completed'
        BY <3>5 DEF WholeUp, Without, With
      <4>2. Within(newest, i)'
        BY <1>2, <1>3 DEF Within, Forward, Behind
      <4>3. lost'[i] = 0 /\ (parked' # NoFrame => parked'.idx # i)
        BY <1>3, <2>2, <3>2 DEF Ahead
      <4>4. lost'[i] <= IF \E m \in DOMAIN got'[i] : got'[i][m].kind = "whole" THEN 0 ELSE 1
        BY <4>3
      <4> QED
        BY <2>8, <4>1, <4>2, <4>3, <4>4 DEF Fate, Gone
    <3> QED
      BY <3>1, <3>4, <3>5
  <2> QED
    BY <1>13, <1>15, <2>5, <2>6, <2>7, <2>8
<1> QED
  <2>1. World(frames, completed, newest, parked, lost)'
    BY <1>3, <1>14, <1>15 DEF World
  <2> QED
    BY <1>4, <1>13, <2>1 DEF IInv
-----------------------------------------------------------------------------
(* The other steps.                                                        *)
LEMMA FlightNone == ASSUME NEW F, DOMAIN F = {} PROVE Framed(F) /\ Flight(F) = 0
<1>1. Framed(F)
  BY DEF Framed
<1>2. DOMAIN Shares(F) = {}
  BY DEF Shares
<1> QED
  BY <1>1, <1>2, SumEmpty DEF Flight

LEMMA InitHolds ==
  ASSUME Init PROVE IInv
<1>1. DOMAIN frames = {} /\ DOMAIN completed = {} /\ newest = NoFrame /\ parked = NoFrame
  BY DEF Init
<1>2. Memory
  <2>1. Framed(frames)
    BY <1>1 DEF Framed
  <2>2. Flight(frames) = 0
    BY <1>1, <2>1, FlightNone
  <2>3. Charged(frames, in_flight)
    BY <2>1, <2>2, FlightIs, WindowAssumption DEF Init
  <2> QED
    BY <2>1, <2>3 DEF Memory
<1>3. \A i \in Indices : got[i] = <<>> /\ lost[i] = 0
  BY DEF Init
<1>4. Told
  <2>1. <<>> \in Seq(Pieces) /\ Len(<<>>) = 0
    OBVIOUS
  <2>2. got \in [Indices -> Seq(Pieces)]
    BY <2>1 DEF Init
  <2>3. \A i \in Indices : InRow(i, got[i])
    BY <1>3, <2>1 DEF InRow
  <2> QED
    BY <2>2, <2>3 DEF Told, Init
<1>5. World(frames, completed, newest, parked, lost)
  <2>1. Shape(frames, completed, newest, parked, lost)
    BY <1>1, <1>3 DEF Shape, Init
  <2>2. ASSUME NEW i \in Indices PROVE Fate(i, frames, completed, newest, parked, lost)
    <3>1. ~Known(i)
      BY <1>3 DEF Known, Init
    <3> QED
      BY <1>1, <1>3, <3>1 DEF Fate
  <2> QED
    BY <2>1, <2>2 DEF World
<1> QED
  BY <1>2, <1>4, <1>5 DEF IInv

LEMMA TakeStep ==
  ASSUME IInv, TakePartial PROVE IInv'
<1> DEFINE q == parked
<1>1. /\ q # NoFrame /\ parked' = NoFrame /\ Deliver(Picture(q))
      /\ deliver' = deliver /\ frames' = frames /\ completed' = completed /\ newest' = newest
      /\ in_flight' = in_flight /\ opened' = opened /\ flushed' = flushed /\ lost' = lost
  BY DEF TakePartial
<1>2. Told /\ Memory /\ World(frames, completed, newest, q, lost)
  BY DEF IInv
<1>3. opened' \subseteq Indices
  BY <1>1, <1>2 DEF Told
<1> HIDE DEF q
<1>4. /\ Told'
      /\ \A e \in Epochs : behind_epoch(e) => behind_epoch(e)'
      /\ \A i \in Indices : i # q.idx => got'[i] = got[i]
      /\ q.idx \in Indices
      /\ q.idx \notin flushed =>
           /\ q.idx \notin DOMAIN frames /\ Gone(q.idx, completed, newest) /\ Within(newest, q.idx)
           /\ \A m \in DOMAIN got'[q.idx] : got'[q.idx][m].kind # "whole"
           /\ lost[q.idx] <= 1
  BY <1>1, <1>2, <1>3, PictureTold
<1>5. Memory'
  BY <1>1, <1>2 DEF Memory, Framed, Charged
<1>6. Shape(frames, completed, newest, parked, lost)'
  BY <1>1, <1>2 DEF World, Shape, Within, Forward, Behind
<1>7. ASSUME NEW j \in Indices \ flushed
      PROVE  Fate(j, frames, completed, newest, parked, lost)'
  <2>1. Fate(j, frames, completed, newest, q, lost)
    BY <1>2, <1>7 DEF World
  <2>2. CASE j = q.idx
    <3>1. Gone(j, completed, newest)' /\ Within(newest, j)' /\ j \notin DOMAIN frames'
      BY <1>1, <1>4, <1>7, <2>2 DEF Gone, Within, Forward, Behind
    <3>2. lost'[j] <= IF \E m \in DOMAIN got'[j] : got'[j][m].kind = "whole" THEN 0 ELSE 1
      BY <1>1, <1>4, <1>7, <2>2
    <3> QED
      BY <1>1, <3>1, <3>2 DEF Fate
  <2>3. CASE j # q.idx
    <3>1. j \in DOMAIN frames => frames[j].epoch \in Epochs
      <4>1. j \in DOMAIN frames => FrameOk(j, frames[j])
        BY <1>2 DEF Memory, Framed
      <4> QED
        BY <1>7, <4>1, PictureOk
    <3>2. j \in DOMAIN frames => Grows(frames[j], frames'[j])
      BY <1>1 DEF Grows
    <3> QED
      BY <1>1, <1>4, <1>7, <2>1, <2>3, <3>1, <3>2, FateKept
  <2> QED
    BY <2>2, <2>3
<1> QED
  BY <1>1, <1>4, <1>5, <1>6, <1>7 DEF IInv, World

LEMMA QuietStep ==
  ASSUME IInv, UNCHANGED <<deliver, frames, completed, newest, parked, in_flight, epoch, history>>
  PROVE  IInv'
<1>1. /\ deliver' = deliver /\ frames' = frames /\ completed' = completed /\ newest' = newest
      /\ parked' = parked /\ in_flight' = in_flight /\ epoch' = epoch /\ opened' = opened
      /\ flushed' = flushed /\ lost' = lost /\ got' = got
  BY DEF history
<1>2. Memory' /\ Told'
  BY <1>1 DEF IInv, Memory, Framed, Charged, Told, InRow
<1>3. World(frames, completed, newest, parked, lost)'
  BY <1>1 DEF IInv, World, Shape, Fate, Ahead, Gone, Known, Within, Forward, Behind, End, AllParts,
              Prefix, Start, Count, behind_epoch
<1> QED
  BY <1>2, <1>3 DEF IInv

LEMMA FlushStep ==
  ASSUME IInv, flush_backlog PROVE IInv'
<1>1. /\ DOMAIN frames' = {} /\ completed' = Forgotten /\ newest' = NoFrame /\ parked' = NoFrame
      /\ in_flight' = 0 /\ deliver' = deliver
      /\ flushed' = opened \cup {i \in Indices : got[i] # <<>>}
      /\ epoch' = epoch /\ opened' = opened /\ lost' = lost /\ got' = got
  BY DEF flush_backlog, Reset
<1>2. Memory'
  <2>1. Framed(frames')
    BY <1>1 DEF Framed
  <2>2. Flight(frames') = 0
    BY <1>1, <2>1, FlightNone
  <2>3. Charged(frames', in_flight')
    BY <1>1, <2>1, <2>2, FlightIs, WindowAssumption
  <2> QED
    BY <2>1, <2>3 DEF Memory, Framed, Charged
<1>3. Told'
  <2>1. Told
    BY DEF IInv
  <2>2. \A i \in Indices \ flushed' : InRow(i, got'[i])
    <3> SUFFICES ASSUME NEW i \in Indices \ flushed' PROVE InRow(i, got'[i])
      OBVIOUS
    <3>1. got'[i] = <<>>
      BY <1>1
    <3> QED
      BY <3>1 DEF InRow
  <2> QED
    BY <1>1, <2>1, <2>2 DEF Told, InRow
<1>4. Shape(frames, completed, newest, parked, lost)'
  <2>1. Shape(frames, completed, newest, parked, lost) /\ DOMAIN frames \subseteq Indices
    BY DEF IInv, World, Memory, Framed
  <2>2. DOMAIN completed' \subseteq Indices
    BY <1>1, <2>1 DEF Forgotten, Shape
  <2> QED
    BY <1>1, <2>1, <2>2 DEF Shape
<1>5. ASSUME NEW i \in Indices \ flushed'
      PROVE  Fate(i, frames, completed, newest, parked, lost)'
  <2>1. i \notin opened /\ got[i] = <<>>
    BY <1>1, <1>5
  <2>2. lost[i] = 0
    BY <2>1, <1>5 DEF IInv, World, Shape
  <2>3. lost'[i] <= IF \E m \in DOMAIN got'[i] : got'[i][m].kind = "whole" THEN 0 ELSE 1
    BY <1>1, <2>2
  <2> QED
    BY <1>1, <2>1, <2>3 DEF Fate, Known
<1> QED
  BY <1>2, <1>3, <1>4, <1>5 DEF IInv, World

LEMMA ReleaseStep ==
  ASSUME IInv, Release PROVE IInv'
<1>1. PICK i \in DOMAIN frames : \E need_head \in BOOLEAN :
        /\ ReleasePartial(i, need_head)
        /\ Dead(IF head_whole(frames[i]) THEN {} ELSE {i})
  BY DEF Release
<1> DEFINE dead == IF head_whole(frames[i]) THEN {} ELSE {i}
<1>2. /\ "partial" \in deliver /\ frames' = Without(frames, i)
      /\ completed' = With(completed, i, Restored(frames[i])) /\ parked' = Park(frames, {i})
      /\ in_flight' = in_flight - Committed(frames[i]) /\ deliver' = deliver
      /\ newest' = newest /\ epoch' = epoch /\ opened' = opened /\ flushed' = flushed /\ got' = got
      /\ lost' = Counts(dead)
  BY <1>1 DEF ReleasePartial, Dead, Counts, Release
<1>3. Told /\ Framed(frames) /\ Charged(frames, in_flight)
      /\ World(frames, completed, newest, parked, lost)
  BY DEF IInv, Memory
<1>4. newest # NoFrame /\ newest \in Anchors /\ newest.idx \in Indices
  BY <1>3 DEF World, Shape, Within
<1>5. Forward(newest.idx, newest.idx)
  BY <1>4, SelfForward
<1>6. Memory'
  <2>1. Framed(frames') /\ Flight(frames') = Flight(frames) - Share(frames, i)
    BY <1>2, <1>3, FlightWithout
  <2>2. Share(frames, i) = Committed(frames[i]) /\ Share(frames, i) \in Nat
    BY <1>3, FlightIs DEF Share
  <2>3. in_flight = Flight(frames) /\ in_flight <= Budget /\ Flight(frames) \in Nat /\ Budget \in Nat
    BY <1>3, FlightIs, WindowAssumption
  <2>4. in_flight' = Flight(frames') /\ in_flight' <= Budget
    BY <1>2, <2>1, <2>2, <2>3
  <2>5. Charged(frames', in_flight')
    BY <2>1, <2>4, FlightIs
  <2> QED
    BY <2>1, <2>5 DEF Memory, Framed, Charged
<1> DEFINE out == {i}
           F == Without(frames, i)
           C == With(completed, i, Restored(frames[i]))
           q == Park(frames, out)
<1>7. World(F, C, newest, q, Counts(dead))
  <2>1. DOMAIN F = DOMAIN frames \ out /\ \A x \in DOMAIN F : F[x] = frames[x]
    BY DEF Without
  <2>2. DOMAIN C = DOMAIN completed \cup out
    BY DEF With
  <2>3. out \in SUBSET DOMAIN frames /\ out \in SUBSET out /\ dead \in SUBSET out
    OBVIOUS
  <2> HIDE DEF out, F, C, q, dead
  <2>4. q = Park(frames, out)
    BY DEF q
  <2> QED
    BY <1>2, <1>3, <1>4, <1>5, <2>1, <2>2, <2>3, <2>4, RetireWorld
<1>8. Told'
  BY <1>2, <1>3 DEF Told, InRow
<1> HIDE DEF dead
<1>9. World(frames, completed, newest, parked, lost)'
  BY <1>2, <1>7 DEF World, Shape, Fate, Ahead, Gone, Known, Within, Forward, Behind, End, AllParts,
              Prefix, Start, Count, behind_epoch
<1> QED
  BY <1>6, <1>8, <1>9 DEF IInv
-----------------------------------------------------------------------------
LEMMA Holding == Spec => []IInv
<1>1. Init => IInv
  BY InitHolds
<1>2. IInv /\ [Next]_vars => IInv'
  <2> SUFFICES ASSUME IInv, [Next]_vars PROVE IInv'
    OBVIOUS
  <2>1. CASE \E seq \in Seqs : Receive(seq)
    BY <2>1, ReceiveStep
  <2>2. CASE TakePartial
    BY <2>2, TakeStep
  <2>3. CASE Release
    BY <2>3, ReleaseStep
  <2>4. CASE flush_backlog
    BY <2>4, FlushStep
  <2>5. CASE Hold \/ UNCHANGED vars
    BY <2>5, QuietStep DEF Hold, SetPartialHold, vars, rvars
  <2> QED
    BY <2>1, <2>2, <2>3, <2>4, <2>5 DEF Next
<1> QED
  BY <1>1, <1>2, PTL DEF Spec

(* The shapes of what the path keeps, with a block that is not done short  *)
(* of being done.                                                          *)
THEOREM Typing == Spec => []TypeOK
<1>1. IInv /\ Mirrors => TypeOK
  <2> SUFFICES ASSUME IInv, Mirrors PROVE TypeOK
    OBVIOUS
  <2>1. Framed(frames) /\ Told /\ Shape(frames, completed, newest, parked, lost)
    BY DEF IInv, Memory, World
  <2>2. ASSUME NEW i \in DOMAIN frames
        PROVE  LET f == frames[i]
               IN  /\ f.len \in 1 .. Total(i) /\ f.total \in {0, Total(i)}
                   /\ \A b \in DOMAIN f.blocks :
                        LET x == f.blocks[b]
                        IN  /\ x.base + x.k <= f.len
                            /\ x.have \subseteq 0 .. x.k - 1 /\ x.parity \subseteq 0 .. x.m - 1
                            /\ IF x.done THEN x.parity = {} ELSE ~Enough(x)
    <3> DEFINE f == frames[i]
    <3>1. i \in Indices /\ FrameOk(i, f) /\ f.len # 0
      BY <2>1 DEF Framed
    <3> HIDE DEF f
    <3>2. f.len \in 1 .. Total(i) /\ f.total \in {0, Total(i)}
      <4>1. f.len \in 0 .. Total(i) /\ Total(i) \in Nat /\ f.total \in {0, Total(i)}
        BY <3>1, TotalIs DEF FrameOk
      <4> QED
        BY <3>1, <4>1
    <3>3. ASSUME NEW b \in DOMAIN f.blocks
          PROVE  LET x == f.blocks[b]
                 IN  /\ x.base + x.k <= f.len
                     /\ x.have \subseteq 0 .. x.k - 1 /\ x.parity \subseteq 0 .. x.m - 1
                     /\ IF x.done THEN x.parity = {} ELSE ~Enough(x)
      BY <3>1, <3>3 DEF FrameOk, BlockOk, BlockFits
    <3> QED
      BY <3>2, <3>3 DEF f
  <2>3. DOMAIN frames \subseteq Indices /\ DOMAIN completed \subseteq Indices
    BY <2>1 DEF Framed, Shape
  <2>4. parked = NoFrame \/ parked.idx \in Indices
    BY <2>1 DEF Shape, Told
  <2> QED
    BY <2>2, <2>3, <2>4 DEF TypeOK, Mirrors
<1> QED
  BY <1>1, Holding, Mirrored, PTL

(* The memory charged is the memory held, and within the budget, whatever  *)
(* comes, is refused, retires or is flushed.                               *)
THEOREM MemoryIsMetered == Spec => []Metered
<1>1. IInv => Metered
  BY DEF IInv, Memory, Charged, Metered
<1> QED
  BY <1>1, Holding, PTL

(* A frame that went up whole is never counted dropped, and none is twice. *)
THEOREM DropsCountOnce == Spec => []CountedOnce
<1>1. IInv => CountedOnce
  BY DEF IInv, World, Fate, CountedOnce
<1> QED
  BY <1>1, Holding, PTL

(* What goes up of a frame goes up once, in order and without a hole.      *)
THEOREM FramesGoUpOnce == Spec => []GoesUpOnce
<1>1. IInv => GoesUpOnce
  <2> SUFFICES ASSUME IInv, NEW i \in Indices \ flushed
               PROVE  LET g == got[i] IN
                 /\ \A n \in 1 .. Len(g) - 1 : g[n].kind = "part" /\ g[n].hi = g[n + 1].lo
                 /\ g # <<>> => g[1].lo = 0 /\ (g[Len(g)].kind = "whole" => g[Len(g)].hi = Total(i))
                 /\ g # <<>> /\ g[Len(g)].kind # "part" => i \notin DOMAIN frames
                 /\ g # <<>> /\ i \in DOMAIN frames =>
                      \A shard \in 0 .. g[Len(g)].hi - 1 : \E b \in DOMAIN frames[i].blocks :
                        LET x == frames[i].blocks[b] IN x.done /\ shard - x.base \in 0 .. x.k - 1
    BY DEF GoesUpOnce
  <2> DEFINE g == got[i]
             f == frames[i]
  <2>1. InRow(i, g) /\ g \in Seq(Pieces)
    BY DEF IInv, Told
  <2>2. ASSUME g # <<>>, i \in DOMAIN frames
        PROVE  Ahead(i, f, parked, lost) /\ FrameOk(i, f) /\ End(g) = g[Len(g)].hi
               /\ g[Len(g)].kind = "part"
    <3>1. Fate(i, frames, completed, newest, parked, lost)
      BY DEF IInv, World
    <3>2. Known(i)
      BY <2>2 DEF Known
    <3>3. Ahead(i, f, parked, lost)
      BY <2>2, <3>1, <3>2 DEF Fate
    <3>4. FrameOk(i, f)
      BY <2>2 DEF IInv, Memory, Framed
    <3> HIDE DEF g
    <3>5. Len(g) \in 1 .. Len(g)
      BY <2>1, <2>2, LenProperties, EmptySeq
    <3> QED
      BY <2>2, <3>3, <3>4, <3>5 DEF Ahead, AllParts, End, g
  <2>3. ASSUME g # <<>>, i \in DOMAIN frames, NEW shard \in 0 .. g[Len(g)].hi - 1
        PROVE  \E b \in DOMAIN f.blocks :
                 LET x == f.blocks[b] IN x.done /\ shard - x.base \in 0 .. x.k - 1
    <3>1. PICK c \in 0 .. Count(i) : End(g) = Start(i, c) /\ Prefix(f, c)
      BY <2>2, <2>3 DEF Ahead
    <3>2. shard \in 0 .. Start(i, c) - 1
      BY <2>2, <2>3, <3>1
    <3>3. PICK b \in 0 .. c - 1 : shard - Start(i, b) \in 0 .. K(i, b) - 1
      BY <3>2, Tiled
    <3>4. b \in DOMAIN f.blocks /\ f.blocks[b].done
      BY <3>1 DEF Prefix
    <3>5. f.blocks[b].base = Start(i, b) /\ f.blocks[b].k = K(i, b)
      BY <2>2, <2>3, <3>4 DEF FrameOk, BlockOk, BlockFits
    <3> QED
      BY <3>3, <3>4, <3>5
  <2> QED
    BY <2>1, <2>2, <2>3 DEF InRow
<1> QED
  BY <1>1, Holding, PTL
-----------------------------------------------------------------------------
(* What parity restored of a block and of a frame.                         *)
Missing(b) == {b.base + i : i \in (0 .. b.k - 1) \ b.have}
Piece(b) == IF b.reconstructed THEN Missing(b) ELSE {}
Others(f, p) == UNION {Piece(f.blocks[x]) : x \in DOMAIN f.blocks \ {p.block}}
RS(f) == Cardinality(Restored(f))

LEMMA RestoredIs ==
  ASSUME NEW f
  PROVE  Restored(f) = UNION {Piece(f.blocks[b]) : b \in DOMAIN f.blocks}
<1>1. ASSUME NEW s \in Restored(f) PROVE s \in UNION {Piece(f.blocks[b]) : b \in DOMAIN f.blocks}
  <2>1. PICK b \in DOMAIN f.blocks : f.blocks[b].reconstructed /\ s \in Missing(f.blocks[b])
    BY <1>1 DEF Restored, Missing
  <2> QED
    BY <2>1 DEF Piece
<1>2. ASSUME NEW b \in DOMAIN f.blocks, NEW s \in Piece(f.blocks[b]) PROVE s \in Restored(f)
  <2>1. f.blocks[b].reconstructed /\ s \in Missing(f.blocks[b])
    BY <1>2 DEF Piece
  <2> QED
    BY <2>1 DEF Restored, Missing
<1> QED
  BY <1>1, <1>2

LEMMA PieceIs ==
  ASSUME NEW i \in Indices, NEW b, NEW x, BlockFits(i, b, x)
  PROVE  /\ IsFiniteSet(Piece(x)) /\ Piece(x) \subseteq Nat
         /\ \A s \in Piece(x) : Start(i, b) <= s /\ s < Start(i, b) + K(i, b)
         /\ Cardinality(x.have) \in 0 .. x.k
         /\ Cardinality(Missing(x)) <= x.k - Cardinality(x.have)
         /\ IsFiniteSet(Missing(x)) /\ Cardinality(Missing(x)) \in Nat
<1> DEFINE S == (0 .. x.k - 1) \ x.have
           T == {x.base + n : n \in S}
           h == [n \in S |-> x.base + n]
<1>1. /\ x.k \in Nat /\ x.base \in Nat /\ x.base = Start(i, b) /\ x.k = K(i, b)
      /\ x.have \subseteq 0 .. x.k - 1
  BY DEF BlockFits
<1>2. IsFiniteSet(0 .. x.k - 1) /\ Cardinality(0 .. x.k - 1) = x.k
  <2>1. 0 \in Int /\ x.k - 1 \in Int /\ (0 > x.k - 1 <=> x.k = 0) /\ (x.k - 1) - 0 + 1 = x.k
    BY <1>1
  <2> DEFINE e == x.k - 1
  <2> HIDE DEF e
  <2>2. IsFiniteSet(0 .. e) /\ Cardinality(0 .. e) = IF 0 > e THEN 0 ELSE e - 0 + 1
    BY <2>1, FS_Interval DEF e
  <2> QED
    BY <2>1, <2>2 DEF e
<1>3. /\ IsFiniteSet(x.have) /\ Cardinality(x.have) <= x.k /\ Cardinality(x.have) \in Nat
      /\ IsFiniteSet(S)
  BY <1>1, <1>2, FS_Subset, FS_CardinalityType
<1>4. Cardinality(S) = x.k - Cardinality(x.have) /\ Cardinality(S) \in Nat
  <2>1. S \cup x.have = 0 .. x.k - 1 /\ S \cap x.have = {}
    BY <1>1
  <2>2. Cardinality(S) \in Nat
    BY <1>3, FS_CardinalityType
  <2> HIDE DEF S
  <2>3. Cardinality(0 .. x.k - 1) = Cardinality(S) + Cardinality(x.have) - 0
    <3>1. Cardinality(S \cup x.have)
            = Cardinality(S) + Cardinality(x.have) - Cardinality(S \cap x.have)
      BY <1>3, FS_Union
    <3>2. Cardinality(S \cap x.have) = 0
      BY <2>1, FS_EmptySet
    <3> QED
      BY <2>1, <3>1, <3>2
  <2> QED
    BY <1>2, <1>3, <2>2, <2>3
<1>5. h \in Surjection(S, T)
  BY DEF Surjection
<1>6. IsFiniteSet(T) /\ Cardinality(T) <= Cardinality(S) /\ Cardinality(T) \in Nat
  BY <1>3, <1>5, FS_Surjection, FS_CardinalityType
<1>7. T = Missing(x)
  BY DEF Missing
<1>8. \A s \in T : s \in Nat /\ Start(i, b) <= s /\ s < Start(i, b) + K(i, b)
  BY <1>1
<1> HIDE DEF S, T, h
<1>9. Piece(x) = T \/ Piece(x) = {}
  BY <1>7 DEF Piece
<1>10. IsFiniteSet(Piece(x)) /\ Piece(x) \subseteq Nat
       /\ \A s \in Piece(x) : Start(i, b) <= s /\ s < Start(i, b) + K(i, b)
  BY <1>6, <1>8, <1>9, FS_EmptySet
<1>11. Cardinality(x.have) \in 0 .. x.k /\ Cardinality(T) <= x.k - Cardinality(x.have)
  BY <1>1, <1>3, <1>4, <1>6
<1> QED
  BY <1>6, <1>7, <1>10, <1>11

LEMMA RestoredFinite ==
  ASSUME NEW i \in Indices, NEW f, FrameOk(i, f)
  PROVE  Restored(f) \subseteq Nat /\ IsFiniteSet(Restored(f)) /\ RS(f) \in Nat
<1>1. \A b \in DOMAIN f.blocks : BlockFits(i, b, f.blocks[b])
  BY DEF FrameOk, BlockOk
<1>2. Total(i) \in Nat /\ Total(i) = Start(i, Count(i)) /\ Count(i) \in Nat
  BY TotalIs, FrameIs
<1>3. ASSUME NEW b \in DOMAIN f.blocks, NEW s \in Piece(f.blocks[b])
      PROVE  s \in 0 .. Total(i)
  <2>1. s \in Nat /\ s < Start(i, b) + K(i, b)
    BY <1>1, <1>3, PieceIs
  <2>2. b \in 0 .. Count(i) - 1
    BY <1>1 DEF BlockFits
  <2>3. Count(i) \in b + 1 .. Count(i)
    BY <1>2, <2>2
  <2>4. Start(i, b) + K(i, b) <= Total(i)
    BY <1>2, <2>2, <2>3, StartGrows
  <2>5. Start(i, b) \in Nat /\ K(i, b) \in Nat
    BY <1>2, <2>2, StartStep, FrameIs
  <2> QED
    BY <1>2, <2>1, <2>4, <2>5
<1>4. Restored(f) \subseteq 0 .. Total(i)
  BY <1>3, RestoredIs
<1>5. IsFiniteSet(0 .. Total(i))
  BY <1>2, FS_Interval
<1>6. IsFiniteSet(Restored(f))
  BY <1>4, <1>5, FS_Subset
<1> QED
  BY <1>4, <1>6, FS_CardinalityType DEF RS

LEMMA RestoredWith ==
  ASSUME NEW p \in Packets, NEW f, Lands0(p, f)
  PROVE  /\ Restored(f) = Others(f, p) \cup Piece(Block(p, f))
         /\ \A s \in Others(f, p) : s - p.base \notin 0 .. p.k - 1
<1> DEFINE i == p.idx
<1>1. /\ \A s : s \in Restored(f) <=> \E b \in DOMAIN f.blocks : s \in Piece(f.blocks[b])
      /\ \A s : s \in Others(f, p)
                 <=> \E b \in DOMAIN f.blocks : b # p.block /\ s \in Piece(f.blocks[b])
  BY RestoredIs DEF Others
<1>2. ASSUME p.block \in DOMAIN f.blocks
      PROVE  Restored(f) = Others(f, p) \cup Piece(Block(p, f))
  <2>1. Block(p, f) = f.blocks[p.block]
    BY <1>2 DEF Block
  <2>2. ASSUME NEW s
        PROVE  s \in Restored(f) <=> s \in Others(f, p) \/ s \in Piece(Block(p, f))
    BY <1>1, <1>2, <2>1
  <2> QED
    BY <2>2
<1>3. ASSUME p.block \notin DOMAIN f.blocks
      PROVE  Restored(f) = Others(f, p) \cup Piece(Block(p, f))
  <2>1. Piece(Block(p, f)) = {}
    BY <1>3, BlockIs DEF Piece
  <2>2. ASSUME NEW s
        PROVE  s \in Restored(f) <=> s \in Others(f, p) \/ s \in Piece(Block(p, f))
    BY <1>1, <1>3, <2>1
  <2> QED
    BY <2>2
<1>4. ASSUME NEW s \in Others(f, p) PROVE s - p.base \notin 0 .. p.k - 1
  <2>1. PICK b \in DOMAIN f.blocks : b # p.block /\ s \in Piece(f.blocks[b])
    BY <1>4 DEF Others
  <2>2. i \in Indices /\ p.block \in 0 .. Count(i) - 1 /\ p.k = K(i, p.block) /\ p.base = Start(i, p.block)
        /\ p.k \in Nat /\ p.base \in Nat
    BY PacketIs
  <2> HIDE DEF i
  <2>3. BlockFits(i, b, f.blocks[b])
    BY DEF Lands0, FrameOk, BlockOk, i
  <2>4. b \in 0 .. Count(i) - 1 /\ Count(i) \in Nat
    BY <2>2, <2>3, FrameIs DEF BlockFits
  <2>5. s \in Nat /\ Start(i, b) <= s /\ s < Start(i, b) + K(i, b)
    BY <2>1, <2>2, <2>3, PieceIs
  <2>6. Start(i, b) \in Nat /\ K(i, b) \in Nat
    BY <2>2, <2>4, StartStep, FrameIs
  <2>7. CASE b < p.block
    <3>1. p.block \in b + 1 .. Count(i)
      BY <2>2, <2>4, <2>7
    <3>2. Start(i, b) + K(i, b) <= Start(i, p.block)
      BY <2>2, <2>4, <3>1, StartGrows
    <3> QED
      BY <2>2, <2>5, <2>6, <3>2
  <2>8. CASE b > p.block
    <3>1. b \in p.block + 1 .. Count(i)
      BY <2>2, <2>4, <2>8
    <3>2. Start(i, p.block) + K(i, p.block) <= Start(i, b)
      BY <2>2, <2>4, <3>1, StartGrows
    <3> QED
      BY <2>2, <2>5, <2>6, <3>2
  <2> QED
    BY <2>1, <2>2, <2>4, <2>7, <2>8
<1> QED
  BY <1>2, <1>3, <1>4

LEMMA RestoredPut ==
  ASSUME NEW p \in Packets, NEW f, Lands0(p, f), NEW b, BlockOk(p.idx, p.block, b),
         Block(p, f).done => b.done
  PROVE  Restored(Put(f, p, b)) = Others(f, p) \cup Piece(b)
<1> DEFINE g == Put(f, p, b)
<1>1. /\ DOMAIN g.blocks = DOMAIN f.blocks \cup {p.block} /\ g.blocks[p.block] = b
      /\ \A x \in DOMAIN f.blocks : x # p.block => g.blocks[x] = f.blocks[x]
  BY PutOk
<1> HIDE DEF g
<1>2. Restored(g) = UNION {Piece(g.blocks[x]) : x \in DOMAIN g.blocks}
  BY RestoredIs
<1>3. DOMAIN g.blocks = (DOMAIN f.blocks \ {p.block}) \cup {p.block}
  BY <1>1
<1>4. Restored(g) = Others(f, p) \cup Piece(b)
  BY <1>1, <1>2, <1>3 DEF Others
<1> QED
  BY <1>4 DEF g
-----------------------------------------------------------------------------
(* What parity stands for, over frames and over terminated ones.           *)
Owed(F) == SumOver([i \in DOMAIN F |-> Cardinality(Restored(F[i]))])
Left(C) == SumOver([i \in DOMAIN C |-> Cardinality(C[i])])
Dues(F) == [i \in DOMAIN F |-> Cardinality(Restored(F[i]))]
Sizes(C) == [i \in DOMAIN C |-> Cardinality(C[i])]
Due(F, i) == IF i \in DOMAIN F THEN RS(F[i]) ELSE 0
Noted(C) ==
  /\ DOMAIN C \subseteq Indices
  /\ \A i \in DOMAIN C : C[i] \subseteq Nat /\ IsFiniteSet(C[i])
Debt(F, C) == Owed(F) + Left(C)

(* A part of a sum of naturals is no more than the sum.                    *)
LEMMA SumPart ==
  ASSUME NEW f, IsFiniteSet(DOMAIN f), \A x \in DOMAIN f : f[x] \in Nat,
         NEW T \in SUBSET DOMAIN f, NEW h, DOMAIN h = T, \A x \in DOMAIN h : h[x] = f[x]
  PROVE  SumOver(h) \in Nat /\ SumOver(f) \in Nat /\ SumOver(h) <= SumOver(f)
<1> DEFINE r == [x \in DOMAIN f \ T |-> f[x]]
<1>1. DOMAIN r = DOMAIN f \ T /\ \A x \in DOMAIN r : r[x] = f[x]
  OBVIOUS
<1> HIDE DEF r
<1>2. \A x \in DOMAIN f : f[x] \in Int
  OBVIOUS
<1>3. SumOver(f) = SumOver(h) + SumOver(r)
  BY <1>1, <1>2, SumSplit
<1>4. IsFiniteSet(DOMAIN r) /\ IsFiniteSet(DOMAIN h)
  BY <1>1, FS_Subset
<1>5. SumOver(r) \in Nat
  BY <1>1, <1>4, SumNat
<1>6. SumOver(h) \in Nat
  BY <1>4, SumNat
<1> QED
  BY <1>3, <1>5, <1>6

LEMMA DuesAre ==
  ASSUME NEW F, Framed(F)
  PROVE  /\ IsFiniteSet(DOMAIN F) /\ DOMAIN Dues(F) = DOMAIN F
         /\ \A i \in DOMAIN F : Dues(F)[i] = RS(F[i]) /\ RS(F[i]) \in Nat
         /\ Owed(F) = SumOver(Dues(F)) /\ Owed(F) \in Nat
         /\ \A i : Due(F, i) \in Nat
<1>1. IsFiniteSet(DOMAIN F)
  BY IndicesFinite, FS_Subset DEF Framed
<1>2. DOMAIN Dues(F) = DOMAIN F /\ \A i \in DOMAIN F : Dues(F)[i] = RS(F[i])
  BY DEF Dues, RS
<1>3. \A i \in DOMAIN F : RS(F[i]) \in Nat
  BY RestoredFinite DEF Framed
<1>4. \A i \in DOMAIN Dues(F) : Dues(F)[i] \in Nat
  BY <1>2, <1>3
<1>5. SumOver(Dues(F)) \in Nat
  BY <1>1, <1>2, <1>4, SumNat
<1>6. Owed(F) = SumOver(Dues(F))
  BY DEF Owed, Dues
<1> QED
  BY <1>1, <1>2, <1>3, <1>5, <1>6 DEF Due

LEMMA SizesAre ==
  ASSUME NEW C, Noted(C)
  PROVE  /\ IsFiniteSet(DOMAIN C) /\ DOMAIN Sizes(C) = DOMAIN C
         /\ \A i \in DOMAIN C : Sizes(C)[i] = Cardinality(C[i]) /\ Cardinality(C[i]) \in Nat
         /\ Left(C) = SumOver(Sizes(C)) /\ Left(C) \in Nat
<1>1. IsFiniteSet(DOMAIN C)
  BY IndicesFinite, FS_Subset DEF Noted
<1>2. DOMAIN Sizes(C) = DOMAIN C /\ \A i \in DOMAIN C : Sizes(C)[i] = Cardinality(C[i])
  BY DEF Sizes
<1>3. \A i \in DOMAIN C : Cardinality(C[i]) \in Nat
  BY FS_CardinalityType DEF Noted
<1>4. \A i \in DOMAIN Sizes(C) : Sizes(C)[i] \in Nat
  BY <1>2, <1>3
<1>5. SumOver(Sizes(C)) \in Nat
  BY <1>1, <1>2, <1>4, SumNat
<1>6. Left(C) = SumOver(Sizes(C))
  BY DEF Left, Sizes
<1> QED
  BY <1>1, <1>2, <1>3, <1>5, <1>6

LEMMA OwedWith ==
  ASSUME NEW F, Framed(F), NEW i \in Indices, NEW g, FrameOk(i, g), g.len # 0
  PROVE  /\ Owed(With(F, i, g)) = Owed(F) + RS(g) - Due(F, i)
         /\ Owed(With(F, i, g)) \in Nat /\ RS(g) \in Nat
<1> DEFINE G == With(F, i, g)
           s == Dues(F)
           t == Dues(G)
<1>1. /\ DOMAIN G = DOMAIN F \cup {i} /\ G[i] = g
      /\ \A x \in DOMAIN F : x # i => G[x] = F[x]
  BY DEF With
<1>2. Framed(G)
  BY FlightWith
<1> HIDE DEF G
<1>3. /\ IsFiniteSet(DOMAIN s) /\ \A x \in DOMAIN s : s[x] \in Int
      /\ Owed(F) = SumOver(s) /\ DOMAIN s = DOMAIN F /\ \A x \in DOMAIN F : s[x] = RS(F[x])
  BY DuesAre
<1>4. /\ Owed(G) = SumOver(t) /\ Owed(G) \in Nat /\ DOMAIN t = DOMAIN G
      /\ \A x \in DOMAIN G : t[x] = RS(G[x]) /\ RS(G[x]) \in Nat
  BY <1>2, DuesAre
<1>5. /\ DOMAIN t = DOMAIN s \cup {i} /\ t[i] = RS(g) /\ t[i] \in Int
      /\ \A x \in DOMAIN s : x # i => t[x] = s[x]
  BY <1>1, <1>3, <1>4
<1> HIDE DEF s, t
<1>6. SumOver(t) = SumOver(s) + t[i] - IF i \in DOMAIN s THEN s[i] ELSE 0
  BY <1>3, <1>5, SumGrow
<1>7. Due(F, i) = IF i \in DOMAIN s THEN s[i] ELSE 0
  BY <1>3 DEF Due
<1> QED
  BY <1>1, <1>3, <1>4, <1>5, <1>6, <1>7 DEF G

(* Frames retire: what parity stands for in them is remembered, or forgotten*)
LEMMA DebtRetires ==
  ASSUME NEW F, Framed(F), NEW out \in SUBSET DOMAIN F,
         NEW G, DOMAIN G = DOMAIN F \ out, \A i \in DOMAIN G : G[i] = F[i],
         NEW C, Noted(C),
         NEW D, DOMAIN D \subseteq DOMAIN C \cup out,
         \A i \in DOMAIN D : D[i] = IF i \in out THEN Restored(F[i]) ELSE C[i]
  PROVE  Noted(D) /\ Debt(G, D) <= Debt(F, C) /\ Debt(F, C) \in Nat /\ Debt(G, D) \in Nat
<1> DEFINE s == Dues(F)
           g == Dues(G)
           r == [i \in out |-> RS(F[i])]
           c == Sizes(C)
           d == Sizes(D)
           T == DOMAIN D \cap out
           t == [i \in T |-> RS(F[i])]
           e == [i \in DOMAIN D \ T |-> Cardinality(C[i])]
<1>1. Framed(G)
  BY DEF Framed
<1>2. Noted(D)
  <2>1. \A i \in DOMAIN F : i \in Indices /\ Restored(F[i]) \subseteq Nat /\ IsFiniteSet(Restored(F[i]))
    BY RestoredFinite DEF Framed
  <2> QED
    BY <2>1 DEF Noted
<1>3. /\ IsFiniteSet(DOMAIN s) /\ DOMAIN s = DOMAIN F /\ Owed(F) = SumOver(s) /\ Owed(F) \in Nat
      /\ \A i \in DOMAIN F : s[i] = RS(F[i]) /\ RS(F[i]) \in Nat
  BY DuesAre
<1>4. /\ DOMAIN g = DOMAIN G /\ Owed(G) = SumOver(g) /\ Owed(G) \in Nat
      /\ \A i \in DOMAIN G : g[i] = RS(G[i])
  BY <1>1, DuesAre
<1>5. /\ IsFiniteSet(DOMAIN c) /\ DOMAIN c = DOMAIN C /\ Left(C) = SumOver(c) /\ Left(C) \in Nat
      /\ \A i \in DOMAIN C : c[i] = Cardinality(C[i]) /\ Cardinality(C[i]) \in Nat
  BY SizesAre
<1>6. /\ IsFiniteSet(DOMAIN d) /\ DOMAIN d = DOMAIN D /\ Left(D) = SumOver(d) /\ Left(D) \in Nat
      /\ \A i \in DOMAIN D : d[i] = Cardinality(D[i]) /\ Cardinality(D[i]) \in Nat
  BY <1>2, SizesAre
<1>7. DOMAIN r = out /\ \A i \in out : r[i] = RS(F[i])
  OBVIOUS
<1>8. DOMAIN t = T /\ \A i \in T : t[i] = RS(F[i])
  OBVIOUS
<1>9. DOMAIN e = DOMAIN D \ T /\ \A i \in DOMAIN e : e[i] = Cardinality(C[i])
  OBVIOUS
<1>10. T \subseteq out /\ T \subseteq DOMAIN D /\ DOMAIN D \ T \subseteq DOMAIN C
       /\ \A i \in DOMAIN D : i \in T <=> i \in out
  OBVIOUS
<1> HIDE DEF s, g, r, c, d, T, t, e
<1>11. SumOver(s) = SumOver(r) + SumOver(g)
  <2>1. IsFiniteSet(DOMAIN s) /\ \A x \in DOMAIN s : s[x] \in Int
    BY <1>3
  <2>2. out \in SUBSET DOMAIN s /\ DOMAIN r = out /\ \A x \in DOMAIN r : r[x] = s[x]
    BY <1>3, <1>7
  <2>3. DOMAIN g = DOMAIN s \ out /\ \A x \in DOMAIN g : g[x] = s[x]
    BY <1>3, <1>4
  <2> QED
    BY <2>1, <2>2, <2>3, SumSplit
<1>12. SumOver(d) = SumOver(t) + SumOver(e)
  <2>1. \A x \in DOMAIN d : d[x] \in Int
    BY <1>6
  <2>2. T \in SUBSET DOMAIN d /\ \A x \in DOMAIN t : t[x] = d[x]
    BY <1>6, <1>8, <1>10 DEF RS
  <2>3. DOMAIN e = DOMAIN d \ T /\ \A x \in DOMAIN e : e[x] = d[x]
    BY <1>6, <1>9, <1>10
  <2> QED
    BY <1>6, <1>8, <2>1, <2>2, <2>3, SumSplit
<1>13. SumOver(t) \in Nat /\ SumOver(r) \in Nat /\ SumOver(t) <= SumOver(r)
  <2>1. IsFiniteSet(DOMAIN r) /\ \A x \in DOMAIN r : r[x] \in Nat
    BY <1>3, <1>7, FS_Subset
  <2>2. T \in SUBSET DOMAIN r /\ \A x \in DOMAIN t : t[x] = r[x]
    BY <1>7, <1>8, <1>10
  <2> QED
    BY <1>8, <2>1, <2>2, SumPart
<1>14. SumOver(e) \in Nat /\ SumOver(e) <= SumOver(c)
  <2>1. \A x \in DOMAIN c : c[x] \in Nat
    BY <1>5
  <2>2. DOMAIN D \ T \in SUBSET DOMAIN c /\ \A x \in DOMAIN e : e[x] = c[x]
    BY <1>5, <1>9, <1>10
  <2> QED
    BY <1>5, <1>9, <2>1, <2>2, SumPart
<1> QED
  BY <1>2, <1>3, <1>4, <1>5, <1>6, <1>11, <1>12, <1>13, <1>14 DEF Debt
-----------------------------------------------------------------------------
(* The counts pay for what parity stands for.                              *)
Pays(F, C) ==
  /\ fec \in [recovered : Nat, late : Nat] /\ Noted(C)
  /\ Debt(F, C) + fec.late <= fec.recovered

LEMMA CountsMove ==
  ASSUME NEW F, NEW C, Pays(F, C), NEW a \in Nat, NEW b \in Nat, Counted(a, b),
         Noted(completed'), NEW d \in Nat, d = Debt(frames', completed'),
         NEW e \in Nat, e = Debt(F, C), d + b <= e + a
  PROVE  Pays(frames, completed)'
<1>1. fec'.recovered = fec.recovered + a /\ fec'.late = fec.late + b
      /\ fec' \in [recovered : Nat, late : Nat] /\ fec.recovered \in Nat /\ fec.late \in Nat
  BY DEF Counted, Pays
<1>2. e + fec.late <= fec.recovered
  BY DEF Pays
<1>3. d + fec'.late <= fec'.recovered
  BY <1>1, <1>2
<1> QED
  BY <1>1, <1>3 DEF Pays, Noted, Debt, Owed, Left

LEMMA LeftSet ==
  ASSUME NEW C, Noted(C), NEW i \in Indices, NEW S \in SUBSET Nat, IsFiniteSet(S),
         NEW D, DOMAIN D = DOMAIN C \cup {i}, D[i] = S, \A x \in DOMAIN C : x # i => D[x] = C[x]
  PROVE  /\ Noted(D) /\ Left(D) \in Nat /\ Left(C) \in Nat /\ Cardinality(S) \in Nat
         /\ Left(D) = Left(C) + Cardinality(S) - IF i \in DOMAIN C THEN Cardinality(C[i]) ELSE 0
<1> DEFINE s == Sizes(C)
           t == Sizes(D)
<1>1. Noted(D)
  BY DEF Noted
<1>2. /\ IsFiniteSet(DOMAIN s) /\ DOMAIN s = DOMAIN C /\ \A x \in DOMAIN s : s[x] \in Int
      /\ Left(C) = SumOver(s) /\ Left(C) \in Nat
      /\ \A x \in DOMAIN C : s[x] = Cardinality(C[x])
  BY SizesAre
<1>3. /\ DOMAIN t = DOMAIN D /\ Left(D) = SumOver(t) /\ Left(D) \in Nat
      /\ \A x \in DOMAIN D : t[x] = Cardinality(D[x]) /\ Cardinality(D[x]) \in Nat
  BY <1>1, SizesAre
<1>4. /\ DOMAIN t = DOMAIN s \cup {i} /\ t[i] = Cardinality(S) /\ t[i] \in Int
      /\ \A x \in DOMAIN s : x # i => t[x] = s[x]
  BY <1>2, <1>3
<1> HIDE DEF s, t
<1>5. SumOver(t) = SumOver(s) + t[i] - IF i \in DOMAIN s THEN s[i] ELSE 0
  BY <1>2, <1>4, SumGrow
<1>6. (IF i \in DOMAIN s THEN s[i] ELSE 0) = IF i \in DOMAIN C THEN Cardinality(C[i]) ELSE 0
  BY <1>2
<1> QED
  BY <1>1, <1>2, <1>3, <1>4, <1>5, <1>6, FS_CardinalityType

LEMMA OwedWithout ==
  ASSUME NEW F, Framed(F), NEW i
  PROVE  /\ Owed(Without(F, i)) = Owed(F) - Due(F, i)
         /\ Owed(Without(F, i)) \in Nat /\ Owed(F) \in Nat /\ Due(F, i) \in Nat
<1> DEFINE G == Without(F, i)
           s == Dues(F)
           t == Dues(G)
<1>1. DOMAIN G = DOMAIN F \ {i} /\ \A x \in DOMAIN G : G[x] = F[x]
  BY DEF Without
<1>2. Framed(G)
  BY FlightWithout
<1>3. /\ IsFiniteSet(DOMAIN s) /\ DOMAIN s = DOMAIN F /\ \A x \in DOMAIN s : s[x] \in Int
      /\ Owed(F) = SumOver(s) /\ Owed(F) \in Nat /\ Due(F, i) \in Nat
      /\ \A x \in DOMAIN F : s[x] = RS(F[x])
  BY DuesAre
<1> HIDE DEF G
<1>4. /\ DOMAIN t = DOMAIN G /\ Owed(G) = SumOver(t) /\ Owed(G) \in Nat
      /\ \A x \in DOMAIN G : t[x] = RS(G[x])
  BY <1>2, DuesAre
<1>5. CASE i \in DOMAIN F
  <2>1. i \in DOMAIN s /\ DOMAIN t = DOMAIN s \ {i} /\ \A x \in DOMAIN t : t[x] = s[x]
    BY <1>1, <1>3, <1>4, <1>5
  <2>2. s[i] = Due(F, i)
    BY <1>3, <1>5 DEF Due
  <2> HIDE DEF s, t
  <2>3. SumOver(t) = SumOver(s) - s[i]
    BY <1>3, <2>1, SumDrop
  <2> QED
    BY <1>3, <1>4, <2>2, <2>3 DEF G
<1>6. CASE i \notin DOMAIN F
  <2>1. DOMAIN G = DOMAIN F /\ \A x \in DOMAIN F : G[x] = F[x]
    BY <1>1, <1>6
  <2>2. Dues(G) = Dues(F)
    BY <2>1 DEF Dues
  <2>3. Due(F, i) = 0
    BY <1>6 DEF Due
  <2> QED
    BY <1>3, <1>4, <2>2, <2>3 DEF G
<1> QED
  BY <1>5, <1>6

LEMMA FrameDue ==
  ASSUME NEW p \in Packets, NEW w, Framed(w.frames)
  PROVE  RS(Frame(p, w)) = Due(w.frames, p.idx)
<1> DEFINE i == p.idx
           f == Frame(p, w)
<1>1. CASE i \in DOMAIN w.frames
  <2>1. f.blocks = w.frames[i].blocks
    BY <1>1, FrameLands
  <2> HIDE DEF f
  <2>2. Restored(f) = Restored(w.frames[i])
    BY <2>1 DEF Restored
  <2> QED
    BY <1>1, <2>2 DEF RS, Due, f
<1>2. CASE i \notin DOMAIN w.frames
  <2>1. DOMAIN f.blocks = {}
    BY <1>2, FrameLands
  <2> HIDE DEF f
  <2>2. Restored(f) = {}
    BY <2>1, RestoredIs
  <2> QED
    BY <1>2, <2>2, FS_EmptySet DEF RS, Due, f
<1> QED
  BY <1>1, <1>2

(* A packet whose frame stays in flight: the difference it makes.          *)
LEMMA DebtStays ==
  ASSUME NEW p \in Packets, NEW w, Framed(w.frames), Pays(w.frames, w.completed),
         NEW g, FrameOk(p.idx, g), g.len # 0, NEW a \in Nat, NEW b \in Nat, Counted(a, b),
         RS(g) + b <= RS(Frame(p, w)) + a,
         frames' = With(w.frames, p.idx, g), completed' = w.completed
  PROVE  Pays(frames, completed)'
<1> DEFINE F == w.frames
           C == w.completed
           i == p.idx
           f == Frame(p, w)
<1>1. i \in Indices
  BY FrameLands
<1>2. Owed(With(F, i, g)) = Owed(F) + RS(g) - Due(F, i) /\ Owed(With(F, i, g)) \in Nat /\ RS(g) \in Nat
  BY <1>1, OwedWith
<1>3. RS(f) = Due(F, i) /\ Due(F, i) \in Nat /\ Owed(F) \in Nat
  BY FrameDue, DuesAre
<1>4. Left(C) \in Nat /\ Noted(C)
  BY SizesAre DEF Pays
<1>5. /\ Debt(frames', completed') = Owed(With(F, i, g)) + Left(C) /\ Debt(F, C) = Owed(F) + Left(C)
  BY DEF Debt
<1> HIDE DEF F, C, i, f
<1>6. Debt(frames', completed') \in Nat /\ Debt(F, C) \in Nat
  BY <1>2, <1>3, <1>4, <1>5
<1>7. Debt(frames', completed') + b <= Debt(F, C) + a
  BY <1>2, <1>3, <1>4, <1>5 DEF f
<1>8. Noted(completed') /\ Pays(F, C)
  BY <1>4 DEF C, F
<1> QED
  BY <1>6, <1>7, <1>8, CountsMove

LEMMA StraggleNets ==
  ASSUME NEW p \in Packets, NEW w, Framed(w.frames), Pays(w.frames, w.completed), Straggle(p, w)
  PROVE  Pays(frames, completed)'
<1> DEFINE C == w.completed
           F == w.frames
           i == p.idx
           shard == p.base + p.shard
           late == p.shard < p.k /\ shard \in C[i]
           S == IF late THEN C[i] \ {shard} ELSE C[i]
           n == IF late THEN 1 ELSE 0
<1>1. /\ i \in DOMAIN C /\ completed' = [C EXCEPT ![i] = S] /\ frames' = F /\ Counted(0, n)
  BY DEF Straggle
<1>2. Noted(C) /\ i \in Indices /\ C[i] \subseteq Nat /\ IsFiniteSet(C[i])
  BY <1>1 DEF Pays, Noted
<1>3. S \in SUBSET Nat /\ IsFiniteSet(S) /\ Cardinality(S) = Cardinality(C[i]) - n
      /\ Cardinality(C[i]) \in Nat
  <2>1. CASE late
    BY <1>2, <2>1, FS_RemoveElement, FS_CardinalityType
  <2>2. CASE ~late
    BY <1>2, <2>2, FS_CardinalityType
  <2> QED
    BY <2>1, <2>2
<1>4. /\ DOMAIN completed' = DOMAIN C \cup {i} /\ completed'[i] = S
      /\ \A x \in DOMAIN C : x # i => completed'[x] = C[x]
  BY <1>1
<1>5. n \in {0, 1}
  OBVIOUS
<1> HIDE DEF C, S, n, late, shard, F, i
<1>6. /\ Noted(completed') /\ Left(completed') \in Nat /\ Left(C) \in Nat
      /\ Left(completed') = Left(C) + Cardinality(S) - Cardinality(C[i])
  BY <1>1, <1>2, <1>3, <1>4, LeftSet
<1>7. Owed(F) \in Nat
  BY DuesAre DEF F
<1>8. /\ Debt(frames', completed') = Owed(F) + Left(completed') /\ Debt(F, C) = Owed(F) + Left(C)
  BY <1>1 DEF Debt
<1>9. /\ Debt(frames', completed') \in Nat /\ Debt(F, C) \in Nat
      /\ Debt(frames', completed') + n <= Debt(F, C) + 0
  BY <1>3, <1>5, <1>6, <1>7, <1>8
<1>10. Pays(F, C)
  BY DEF F, C
<1> QED
  BY <1>1, <1>5, <1>6, <1>9, <1>10, CountsMove

LEMMA RefusedNets ==
  ASSUME NEW p \in Packets, NEW w, Framed(w.frames), Pays(w.frames, w.completed), Refused(p, w)
  PROVE  Pays(frames, completed)'
<1> DEFINE i == p.idx
           f == Frame(p, w)
           F == w.frames
           g == Grown(p, f)
           u == Put(f, p, Block(p, f))
<1>1. i \in Indices /\ Lands0(p, f) /\ FrameOk(i, f) /\ (i \in DOMAIN F => f.len # 0)
  BY FrameLands DEF Lands0
<1>2. /\ completed' = w.completed /\ Counted(0, 0)
      /\ \/ frames' = IF i \in DOMAIN F THEN With(F, i, f) ELSE F
         \/ frames' = With(F, i, g)
         \/ frames' = With(F, i, u)
  BY DEF Refused, Grown
<1>3. FrameOk(i, g) /\ g.len # 0 /\ g.blocks = f.blocks
  <2> HIDE DEF f
  <2> QED
    BY <1>1, GrownOk DEF Lands0
<1> HIDE DEF f
<1>4. BlockOk(i, p.block, Block(p, f))
  BY <1>1, BlockIs
<1>5. FrameOk(i, u) /\ u.len # 0
  BY <1>1, <1>4, PutOk DEF Lands0
<1>6. Restored(u) = Restored(f)
  <2>1. Restored(u) = Others(f, p) \cup Piece(Block(p, f))
    BY <1>1, <1>4, RestoredPut
  <2>2. Restored(f) = Others(f, p) \cup Piece(Block(p, f))
    BY <1>1, RestoredWith
  <2> QED
    BY <2>1, <2>2
<1> HIDE DEF g
<1>7. Restored(g) = Restored(f)
  BY <1>3 DEF Restored
<1> HIDE DEF u
<1>8. RS(f) \in Nat
  BY <1>1, RestoredFinite
<1>9. ASSUME NEW v, FrameOk(i, v), v.len # 0, Restored(v) = Restored(f), frames' = With(F, i, v)
      PROVE  Pays(frames, completed)'
  <2>1. RS(v) = RS(f)
    BY <1>9 DEF RS
  <2>2. RS(v) + 0 <= RS(f) + 0
    BY <1>8, <2>1
  <2> QED
    BY <1>2, <1>9, <2>2, DebtStays DEF f
<1>10. CASE frames' = F
  <2>1. fec' = fec
    BY <1>2 DEF Counted, Pays
  <2> QED
    BY <1>2, <1>10, <2>1 DEF Pays, Noted, Debt, Owed, Left
<1> QED
  BY <1>1, <1>2, <1>3, <1>5, <1>6, <1>7, <1>9, <1>10

LEMMA SurplusNets ==
  ASSUME NEW p \in Packets, NEW w, Framed(w.frames), Pays(w.frames, w.completed), Surplus(p, w)
  PROVE  Pays(frames, completed)'
<1> DEFINE i == p.idx
           f == Frame(p, w)
           F == w.frames
           o == Block(p, f)
           b == LateShard(p, f)
           u == Put(f, p, b)
           late == o.reconstructed /\ p.shard < o.k /\ p.shard \notin o.have
           n == IF late THEN 1 ELSE 0
           s == p.base + p.shard
<1>1. i \in Indices /\ Lands0(p, f) /\ FrameOk(i, f)
  BY FrameLands DEF Lands0
<1>2. /\ o.done /\ frames' = With(F, i, u) /\ completed' = w.completed /\ Counted(0, n)
  BY DEF Surplus, LateShard
<1>3. b = IF late THEN [o EXCEPT !.have = @ \cup {p.shard}] ELSE o
  BY DEF LateShard
<1> HIDE DEF f
<1>4. BlockOk(i, p.block, b) /\ b.done /\ BlockFits(i, p.block, o) /\ BlockFits(i, p.block, b)
  BY <1>1, <1>2, LateShardIs, BlockIs DEF BlockOk
<1> HIDE DEF b
<1>5. FrameOk(i, u) /\ u.len # 0
  BY <1>1, <1>4, PutOk DEF Lands0
<1>6. Restored(u) = Others(f, p) \cup Piece(b)
  BY <1>1, <1>4, RestoredPut
<1>7. Restored(f) = Others(f, p) \cup Piece(o) /\ \A t \in Others(f, p) : t - p.base \notin 0 .. p.k - 1
  BY <1>1, RestoredWith
<1>8. IsFiniteSet(Restored(f)) /\ RS(f) \in Nat
  BY <1>1, RestoredFinite
<1>9. o.k = p.k /\ o.base = p.base /\ p.shard \in Nat /\ p.base \in Nat /\ p.k \in Nat
      /\ o.have \subseteq 0 .. o.k - 1
  BY <1>4, PacketIs DEF BlockFits
<1> HIDE DEF u, o
<1>10. RS(u) + n <= RS(f) + 0
  <2>1. CASE late
    <3>1. /\ b.base = o.base /\ b.k = o.k /\ b.have = o.have \cup {p.shard} /\ b.reconstructed
          /\ o.reconstructed
      BY <1>3, <1>4, <2>1 DEF BlockFits
    <3>2. s \in Piece(o) /\ s - p.base \in 0 .. p.k - 1
      BY <1>9, <2>1 DEF Piece, Missing
    <3>3. Piece(b) = Piece(o) \ {s}
      <4>1. ASSUME NEW t \in Piece(b) PROVE t \in Piece(o) /\ t # s
        <5>1. PICK x \in (0 .. b.k - 1) \ b.have : t = b.base + x
          BY <3>1, <4>1 DEF Piece, Missing
        <5>2. x \in (0 .. o.k - 1) \ o.have /\ x # p.shard
          BY <3>1, <5>1
        <5> QED
          BY <1>9, <3>1, <5>1, <5>2 DEF Piece, Missing
      <4>2. ASSUME NEW t \in Piece(o), t # s PROVE t \in Piece(b)
        <5>1. PICK x \in (0 .. o.k - 1) \ o.have : t = o.base + x
          BY <3>1, <4>2 DEF Piece, Missing
        <5>2. x \in (0 .. b.k - 1) \ b.have
          BY <1>9, <3>1, <4>2, <5>1
        <5> QED
          BY <3>1, <5>1, <5>2 DEF Piece, Missing
      <4> QED
        BY <4>1, <4>2
    <3>4. s \notin Others(f, p)
      BY <1>7, <3>2
    <3>5. Restored(u) = Restored(f) \ {s} /\ s \in Restored(f)
      BY <1>6, <1>7, <3>2, <3>3, <3>4
    <3>6. RS(u) = RS(f) - 1
      <4> DEFINE X == Restored(f)
      <4>1. IsFiniteSet(X) /\ s \in X
        BY <1>8, <3>5
      <4> HIDE DEF X
      <4>2. Cardinality(X \ {s}) = Cardinality(X) - 1
        BY <4>1, FS_RemoveElement
      <4> QED
        BY <3>5, <4>2 DEF RS, X
    <3> QED
      BY <1>8, <2>1, <3>6
  <2>2. CASE ~late
    <3>1. Restored(u) = Restored(f)
      BY <1>3, <1>6, <1>7, <2>2
    <3> QED
      BY <1>8, <2>2, <3>1 DEF RS
  <2> QED
    BY <2>1, <2>2
<1>11. n \in Nat
  OBVIOUS
<1> HIDE DEF n
<1> QED
  BY <1>2, <1>5, <1>10, <1>11, DebtStays DEF f

LEMMA KeepNets ==
  ASSUME NEW p \in Packets, NEW w, Framed(w.frames), Pays(w.frames, w.completed), Keep(p, w)
  PROVE  Pays(frames, completed)'
<1> DEFINE i == p.idx
           f == Frame(p, w)
           F == w.frames
           b == Filled(p, f)
           u == Put(f, p, b)
<1>1. i \in Indices /\ Lands0(p, f) /\ FrameOk(i, f)
  BY FrameLands DEF Lands0
<1>2. /\ ~Block(p, f).done /\ ~Enough(b) /\ frames' = With(F, i, u)
      /\ completed' = w.completed /\ Counted(0, 0)
  BY DEF Keep
<1> HIDE DEF f
<1>3. BlockOk(i, p.block, b) /\ ~b.reconstructed
  BY <1>1, <1>2, FilledIs
<1>4. ~Block(p, f).reconstructed
  BY <1>1, <1>2, BlockIs DEF BlockOk, BlockFits
<1> HIDE DEF b
<1>5. FrameOk(i, u) /\ u.len # 0
  BY <1>1, <1>2, <1>3, PutOk DEF Lands0
<1>6. Restored(u) = Others(f, p) /\ Restored(f) = Others(f, p)
  <2>1. Restored(u) = Others(f, p) \cup Piece(b)
    BY <1>1, <1>2, <1>3, RestoredPut
  <2>2. Restored(f) = Others(f, p) \cup Piece(Block(p, f))
    BY <1>1, RestoredWith
  <2>3. Piece(b) = {} /\ Piece(Block(p, f)) = {}
    BY <1>3, <1>4 DEF Piece
  <2> QED
    BY <2>1, <2>2, <2>3
<1> HIDE DEF u
<1>7. RS(u) + 0 <= RS(f) + 0
  BY <1>1, <1>6, RestoredFinite DEF RS
<1> QED
  BY <1>2, <1>5, <1>7, DebtStays DEF f

LEMMA CloseNets ==
  ASSUME NEW p \in Packets, NEW w, Framed(w.frames), Pays(w.frames, w.completed), CloseBlock(p, w)
  PROVE  Pays(frames, completed)'
<1> DEFINE i == p.idx
           f == Frame(p, w)
           F == w.frames
           C == w.completed
           b == Shut(p, f)
           u == Closed(p, w)
           a == b.k - Cardinality(b.have)
<1>1. i \in Indices /\ Lands0(p, f) /\ FrameOk(i, f)
  BY FrameLands DEF Lands0
<1>2. u = Put(f, p, b)
  BY DEF Closed, Shut
<1>3. /\ ~Block(p, f).done /\ i \notin DOMAIN C
      /\ Counted(u.blocks[p.block].k - Cardinality(u.blocks[p.block].have), 0)
      /\ \/ frames' = Without(F, i) /\ completed' = With(C, i, Restored(u))
         \/ frames' = With(F, i, Progressed(u)) /\ completed' = C
  BY DEF CloseBlock, Fits, Lands
<1> HIDE DEF f, u
<1>4. BlockOk(i, p.block, b) /\ BlockFits(i, p.block, b) /\ b.done
  BY <1>1, <1>3, ShutIs DEF BlockOk
<1>5. ~Block(p, f).reconstructed
  BY <1>1, <1>3, BlockIs DEF BlockOk, BlockFits
<1> HIDE DEF b
<1>6. FrameOk(i, u) /\ u.len # 0 /\ u.blocks[p.block] = b
  BY <1>1, <1>2, <1>4, PutOk DEF Lands0
<1>7. Restored(u) = Others(f, p) \cup Piece(b) /\ Restored(f) = Others(f, p)
  <2>1. Restored(u) = Others(f, p) \cup Piece(b)
    BY <1>1, <1>2, <1>3, <1>4, RestoredPut
  <2>2. Restored(f) = Others(f, p) \cup Piece(Block(p, f))
    BY <1>1, RestoredWith
  <2>3. Piece(Block(p, f)) = {}
    BY <1>5 DEF Piece
  <2> QED
    BY <2>1, <2>2, <2>3
<1>8. /\ a \in Nat /\ IsFiniteSet(Piece(b)) /\ Cardinality(Piece(b)) \in Nat
      /\ Cardinality(Piece(b)) <= a
  <2>1. /\ Cardinality(b.have) \in 0 .. b.k /\ IsFiniteSet(Piece(b))
        /\ Cardinality(Missing(b)) <= b.k - Cardinality(b.have)
        /\ Cardinality(Missing(b)) \in Nat
    BY <1>1, <1>4, PieceIs
  <2>2. b.k \in Nat
    BY <1>4 DEF BlockFits
  <2>3. a \in Nat
    BY <2>1, <2>2
  <2> QED
    BY <2>1, <2>3, FS_EmptySet DEF Piece
<1>9. IsFiniteSet(Restored(f)) /\ RS(f) \in Nat /\ RS(u) \in Nat /\ IsFiniteSet(Restored(u))
      /\ Restored(u) \subseteq Nat
  BY <1>1, <1>6, RestoredFinite
<1>10. Counted(a, 0)
  BY <1>3, <1>6
<1> HIDE DEF a
<1>11. RS(u) <= RS(f) + a
  <2> DEFINE X == Restored(f)
             Y == Piece(b)
  <2>1. Restored(u) = X \cup Y
    BY <1>7
  <2>2. IsFiniteSet(X) /\ IsFiniteSet(Y)
    BY <1>8, <1>9
  <2> HIDE DEF X, Y
  <2>3. Cardinality(X \cup Y) = Cardinality(X) + Cardinality(Y) - Cardinality(X \cap Y)
    BY <2>2, FS_Union
  <2>4. IsFiniteSet(X \cap Y) /\ Cardinality(X \cap Y) \in Nat
    <3>1. X \cap Y \in SUBSET X
      OBVIOUS
    <3> QED
      BY <2>2, <3>1, FS_Subset, FS_CardinalityType
  <2>5. Cardinality(X) \in Nat /\ Cardinality(Y) \in Nat /\ RS(f) = Cardinality(X)
        /\ Cardinality(Y) <= a /\ RS(u) = Cardinality(X \cup Y)
    BY <1>8, <1>9, <2>1 DEF RS, X, Y
  <2> QED
    BY <1>8, <2>3, <2>4, <2>5
<1>12. CASE frames' = With(F, i, Progressed(u)) /\ completed' = C
  <2> DEFINE g == Progressed(u)
  <2>1. FrameOk(i, g) /\ g.len # 0 /\ g.blocks = u.blocks
    BY <1>1, <1>6, ProgressedOk
  <2>2. frames' = With(F, i, g)
    BY <1>12
  <2> HIDE DEF g
  <2>3. Restored(g) = Restored(u)
    BY <2>1 DEF Restored
  <2>4. RS(g) + 0 <= RS(f) + a
    BY <1>8, <1>9, <1>11, <2>3 DEF RS
  <2> QED
    BY <1>8, <1>10, <1>12, <2>1, <2>2, <2>4, DebtStays DEF f
<1>13. CASE frames' = Without(F, i) /\ completed' = With(C, i, Restored(u))
  <2> DEFINE S == Restored(u)
             D == With(C, i, S)
  <2>1. /\ DOMAIN D = DOMAIN C \cup {i} /\ D[i] = S
        /\ \A x \in DOMAIN C : x # i => D[x] = C[x]
    BY DEF With
  <2>2. S \in SUBSET Nat /\ IsFiniteSet(S) /\ Cardinality(S) = RS(u)
    BY <1>9 DEF RS
  <2>3. completed' = D /\ Noted(C)
    BY <1>13 DEF Pays
  <2> HIDE DEF S, D, C
  <2>4. Noted(D) /\ Left(D) = Left(C) + RS(u) /\ Left(D) \in Nat /\ Left(C) \in Nat
    <3>1. /\ Noted(D) /\ Left(D) \in Nat /\ Left(C) \in Nat
          /\ Left(D) = Left(C) + Cardinality(S) - IF i \in DOMAIN C THEN Cardinality(C[i]) ELSE 0
      BY <1>1, <2>1, <2>2, <2>3, LeftSet
    <3> QED
      BY <1>3, <1>9, <2>2, <3>1
  <2>5. /\ Owed(Without(F, i)) = Owed(F) - Due(F, i)
        /\ Owed(Without(F, i)) \in Nat /\ Owed(F) \in Nat /\ Due(F, i) \in Nat
    BY OwedWithout
  <2>6. RS(f) = Due(F, i)
    BY FrameDue DEF f
  <2>7. Debt(frames', completed') = Owed(Without(F, i)) + Left(D) /\ Debt(F, C) = Owed(F) + Left(C)
    BY <1>13, <2>3 DEF Debt
  <2> HIDE DEF F, i
  <2>8. /\ Debt(frames', completed') \in Nat /\ Debt(F, C) \in Nat
        /\ Debt(frames', completed') + 0 <= Debt(F, C) + a
    BY <1>8, <1>9, <1>11, <2>4, <2>5, <2>6, <2>7
  <2>9. Pays(F, C) /\ Noted(completed')
    BY <2>3, <2>4 DEF F, C
  <2> QED
    BY <1>8, <1>10, <2>8, <2>9, CountsMove
<1> QED
  BY <1>3, <1>12, <1>13

LEMMA PushNets ==
  ASSUME NEW p \in Packets, NEW w, Framed(w.frames), Pays(w.frames, w.completed), Push(p, w)
  PROVE  Pays(frames, completed)'
<1>1. CASE TooLate(p, w)
  <2>1. /\ frames' = w.frames /\ completed' = w.completed /\ fec' = fec
    BY <1>1 DEF TooLate, Counted, Pays
  <2> QED
    BY <2>1 DEF Pays, Noted, Debt, Owed, Left
<1> QED
  BY <1>1, StraggleNets, RefusedNets, SurplusNets, KeepNets, CloseNets DEF Push
-----------------------------------------------------------------------------
(* The window's moves and the rest.                                        *)
LEMMA AdvancedPays ==
  ASSUME NEW p, Framed(frames), Pays(frames, completed), NEW w, w = Advanced(p)
  PROVE  Pays(w.frames, w.completed)
<1>1. CASE ~Opens(p)
  BY <1>1 DEF Advanced
<1>2. CASE Opens(p)
  <2> DEFINE out == Retired(p)
             G == [i \in DOMAIN frames \ out |-> frames[i]]
             D == [i \in Remembered(p, DOMAIN completed \cup out) |->
                     IF i \in out THEN Restored(frames[i]) ELSE completed[i]]
  <2>1. w.frames = G /\ w.completed = D
    BY <1>2 DEF Advanced
  <2>2. out \in SUBSET DOMAIN frames
    BY DEF Retired
  <2>3. DOMAIN G = DOMAIN frames \ out /\ \A i \in DOMAIN G : G[i] = frames[i]
    OBVIOUS
  <2>4. /\ DOMAIN D \subseteq DOMAIN completed \cup out
        /\ \A i \in DOMAIN D : D[i] = IF i \in out THEN Restored(frames[i]) ELSE completed[i]
    BY DEF Remembered
  <2>5. Noted(completed) /\ fec \in [recovered : Nat, late : Nat]
        /\ Debt(frames, completed) + fec.late <= fec.recovered
    BY DEF Pays
  <2> HIDE DEF G, D, out
  <2>6. /\ Noted(D) /\ Debt(G, D) <= Debt(frames, completed)
        /\ Debt(frames, completed) \in Nat /\ Debt(G, D) \in Nat
    BY <2>2, <2>3, <2>4, <2>5, DebtRetires
  <2>7. Debt(G, D) + fec.late <= fec.recovered
    BY <2>5, <2>6
  <2> QED
    BY <2>1, <2>5, <2>6, <2>7 DEF Pays
<1> QED
  BY <1>1, <1>2

LEMMA ReleasePays ==
  ASSUME Framed(frames), Pays(frames, completed), Release
  PROVE  Pays(frames, completed)'
<1>1. PICK i \in DOMAIN frames : \E need_head \in BOOLEAN : ReleasePartial(i, need_head)
  BY DEF Release
<1> DEFINE out == {i}
           G == Without(frames, i)
           D == With(completed, i, Restored(frames[i]))
<1>2. frames' = G /\ completed' = D /\ fec' = fec
  BY <1>1 DEF ReleasePartial
<1>3. out \in SUBSET DOMAIN frames
  OBVIOUS
<1>4. DOMAIN G = DOMAIN frames \ out /\ \A x \in DOMAIN G : G[x] = frames[x]
  BY DEF Without
<1>5. /\ DOMAIN D \subseteq DOMAIN completed \cup out
      /\ \A x \in DOMAIN D : D[x] = IF x \in out THEN Restored(frames[x]) ELSE completed[x]
  BY DEF With
<1>6. Noted(completed) /\ fec \in [recovered : Nat, late : Nat]
      /\ Debt(frames, completed) + fec.late <= fec.recovered
  BY DEF Pays
<1> HIDE DEF G, D, out
<1>7. /\ Noted(D) /\ Debt(G, D) <= Debt(frames, completed)
      /\ Debt(frames, completed) \in Nat /\ Debt(G, D) \in Nat
  BY <1>3, <1>4, <1>5, <1>6, DebtRetires
<1>8. Debt(G, D) + fec.late <= fec.recovered
  BY <1>6, <1>7
<1>9. Debt(frames', completed') + fec'.late <= fec'.recovered /\ Noted(completed')
  BY <1>2, <1>7, <1>8
<1> QED
  BY <1>2, <1>6, <1>9 DEF Pays, Noted, Debt, Owed, Left

LEMMA FlushPays ==
  ASSUME IInv, Pays(frames, completed), flush_backlog
  PROVE  Pays(frames, completed)'
<1> DEFINE G == frames'
           D == completed'
<1>1. DOMAIN G = {} /\ D = Forgotten /\ fec' = fec
  BY DEF flush_backlog, Reset
<1>2. DOMAIN D \subseteq Indices /\ \A x \in DOMAIN D : D[x] = {}
  BY <1>1 DEF Forgotten, IInv, Memory, Framed, World, Shape
<1> HIDE DEF G, D
<1>3. Noted(D)
  BY <1>2, FS_EmptySet DEF Noted
<1>4. Owed(G) = 0
  <2>1. DOMAIN Dues(G) = {}
    BY <1>1 DEF Dues
  <2> QED
    BY <2>1, SumEmpty DEF Owed, Dues
<1>5. Left(D) = 0
  <2> DEFINE s == Sizes(D)
             z == Sizes([x \in {} |-> {}])
  <2>1. /\ IsFiniteSet(DOMAIN s) /\ Left(D) = SumOver(s) /\ DOMAIN s = DOMAIN D
        /\ \A x \in DOMAIN s : s[x] = 0
    BY <1>2, <1>3, SizesAre, FS_EmptySet
  <2> HIDE DEF s
  <2>2. SumOver(s) = 0
    BY <2>1, SumZero
  <2> QED
    BY <2>1, <2>2
<1>6. fec \in [recovered : Nat, late : Nat] /\ fec.late <= fec.recovered
  <2>1. Debt(frames, completed) \in Nat /\ Debt(frames, completed) + fec.late <= fec.recovered
    BY DuesAre, SizesAre DEF Pays, Debt, IInv, Memory
  <2>2. fec \in [recovered : Nat, late : Nat]
    BY DEF Pays
  <2> QED
    BY <2>1, <2>2
<1>7. Debt(G, D) + fec'.late <= fec'.recovered
  BY <1>1, <1>4, <1>5, <1>6 DEF Debt
<1> QED
  BY <1>1, <1>3, <1>6, <1>7 DEF Pays, Noted, Debt, Owed, Left, G, D

LEMMA InitPays == ASSUME Init PROVE Pays(frames, completed)
<1>1. DOMAIN frames = {} /\ DOMAIN completed = {} /\ fec = [recovered |-> 0, late |-> 0]
  BY DEF Init
<1>2. DOMAIN Dues(frames) = {} /\ DOMAIN Sizes(completed) = {}
  BY <1>1 DEF Dues, Sizes
<1>3. Owed(frames) = 0 /\ Left(completed) = 0
  BY <1>2, SumEmpty DEF Owed, Left, Dues, Sizes
<1>4. Noted(completed)
  BY <1>1 DEF Noted
<1> QED
  BY <1>1, <1>3, <1>4 DEF Pays, Debt

(* No shard is counted late that was not counted recovered before, and none*)
(* twice.                                                                  *)
THEOREM LateShardsAreNetted == Spec => []LateIsNetted
<1>1. Init => Pays(frames, completed)
  BY InitPays
<1>2. IInv /\ Pays(frames, completed) /\ [Next]_vars => Pays(frames, completed)'
  <2> SUFFICES ASSUME IInv, Pays(frames, completed), [Next]_vars
               PROVE  Pays(frames, completed)'
    OBVIOUS
  <2>1. Framed(frames) /\ Charged(frames, in_flight)
    BY DEF IInv, Memory
  <2>2. ASSUME NEW seq \in Seqs, Receive(seq) PROVE Pays(frames, completed)'
    <3> DEFINE p == Wire[seq - FirstSeq + 1]
               w == Advanced(p)
    <3>1. p \in Packets
      BY WireIs
    <3>2. Push(p, w)
      BY <2>2 DEF Receive
    <3> HIDE DEF p, w
    <3>3. Framed(w.frames)
      BY <2>1, <3>1, AdvancedFlight DEF w
    <3>4. Pays(w.frames, w.completed)
      BY <2>1, AdvancedPays DEF w
    <3> QED
      BY <3>1, <3>2, <3>3, <3>4, PushNets
  <2>3. CASE Release
    BY <2>1, <2>3, ReleasePays
  <2>4. CASE flush_backlog
    BY <2>4, FlushPays
  <2>5. CASE UNCHANGED <<frames, completed, fec>>
    BY <2>5 DEF Pays, Noted, Debt, Owed, Left
  <2> QED
    BY <2>2, <2>3, <2>4, <2>5 DEF Next, TakePartial, Hold, SetPartialHold, vars, rvars
<1>3. IInv /\ Pays(frames, completed) => LateIsNetted
  <2> SUFFICES ASSUME IInv, Pays(frames, completed) PROVE LateIsNetted
    OBVIOUS
  <2>1. Debt(frames, completed) \in Nat /\ Debt(frames, completed) + fec.late <= fec.recovered
    BY DuesAre, SizesAre DEF Pays, Debt, IInv, Memory
  <2>2. fec.late \in Nat /\ fec.recovered \in Nat
    BY DEF Pays
  <2> QED
    BY <2>1, <2>2 DEF LateIsNetted
<1> QED
  BY <1>1, <1>2, <1>3, Holding, PTL DEF Spec
================================================================================
