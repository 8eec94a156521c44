----------------------------- MODULE DataLemmas -----------------------------
(***************************************************************************)
(* Lemmas about data, for the proofs of several modules: queues of         *)
(* messages; induction over natural numbers and finite sets, with the      *)
(* property as the set of the values that have it; the least element of a  *)
(* set; sums; sorting; and the sequences a sequence of sequences flattens  *)
(* to.                                                                     *)
(***************************************************************************)
EXTENDS Integers, Sequences, SequencesExt, FiniteSetsExt, Functions,
        FiniteSetTheorems, FunctionTheorems, WellFoundedInduction, TLAPS

-----------------------------------------------------------------------------
(* Queues: what Append and Tail do to them. *)

\* Appending adds a message behind those of the queue.
LEMMA AppendPositions ==
  ASSUME NEW S, NEW q \in Seq(S), NEW m \in S
  PROVE  /\ Append(q, m) \in Seq(S)
         /\ Len(q) \in Nat /\ DOMAIN q = 1 .. Len(q)
         /\ Len(Append(q, m)) = Len(q) + 1
         /\ DOMAIN Append(q, m) = 1 .. (Len(q) + 1)
         /\ \A i \in DOMAIN q : Append(q, m)[i] = q[i]
         /\ Append(q, m)[Len(q) + 1] = m
         /\ DOMAIN Append(q, m) = DOMAIN q \cup {Len(q) + 1}
         /\ \A i \in DOMAIN q : i \in Nat /\ Len(q) + 1 > i
<1>1. /\ Append(q, m) \in Seq(S)
      /\ Len(q) \in Nat /\ DOMAIN q = 1 .. Len(q)
      /\ Len(Append(q, m)) = Len(q) + 1
      /\ DOMAIN Append(q, m) = 1 .. (Len(q) + 1)
      /\ \A i \in DOMAIN q : Append(q, m)[i] = q[i]
      /\ Append(q, m)[Len(q) + 1] = m
  OBVIOUS
<1>2. DOMAIN Append(q, m) = DOMAIN q \cup {Len(q) + 1}
  BY <1>1
<1>3. \A i \in DOMAIN q : i \in Nat /\ Len(q) + 1 > i
  BY <1>1
<1> QED
  BY <1>1, <1>2, <1>3

\* Taking the head off moves every other message up by one.
LEMMA TailPositions ==
  ASSUME NEW S, NEW q \in Seq(S), q # <<>>
  PROVE  /\ Head(q) \in S /\ Tail(q) \in Seq(S)
         /\ Len(q) \in Nat \ {0} /\ DOMAIN q = 1 .. Len(q) /\ Head(q) = q[1]
         /\ DOMAIN Tail(q) = 1 .. (Len(q) - 1)
         /\ \A i \in DOMAIN Tail(q) : Tail(q)[i] = q[i + 1]
  OBVIOUS

\* A queue of messages of one kind is a queue of messages of a wider kind.
LEMMA WiderQueue ==
  ASSUME NEW S, NEW T, S \subseteq T, NEW q \in Seq(S)
  PROVE  q \in Seq(T)
<1>1. Len(q) \in Nat /\ q \in [1 .. Len(q) -> T]
  OBVIOUS
<1> QED
  BY <1>1

\* Appending to a queue adds one message to those in it.
LEMMA AppendElements ==
  ASSUME NEW S, NEW q \in Seq(S), NEW m \in S
  PROVE  /\ Append(q, m) \in Seq(S)
         /\ Range(Append(q, m)) = Range(q) \cup {m}
  BY AppendPositions DEF Range

\* Taking the head off a queue leaves every other message in it.
LEMMA TailElements ==
  ASSUME NEW S, NEW q \in Seq(S), q # <<>>
  PROVE  /\ Head(q) \in S
         /\ Tail(q) \in Seq(S)
         /\ Range(q) = Range(Tail(q)) \cup {Head(q)}
<1>1. /\ Head(q) \in S /\ Tail(q) \in Seq(S)
      /\ Len(q) \in Nat \ {0} /\ DOMAIN q = 1 .. Len(q) /\ Head(q) = q[1]
      /\ DOMAIN Tail(q) = 1 .. (Len(q) - 1)
      /\ \A i \in DOMAIN Tail(q) : Tail(q)[i] = q[i + 1]
  BY TailPositions
<1>2. ASSUME NEW m \in Range(q), m # Head(q)  PROVE m \in Range(Tail(q))
  <2>1. PICK i \in DOMAIN q : q[i] = m
    BY DEF Range
  <2>2. i - 1 \in DOMAIN Tail(q) /\ Tail(q)[i - 1] = m
    BY <2>1, <1>1, <1>2
  <2> QED
    BY <2>2 DEF Range
<1>3. ASSUME NEW m \in Range(Tail(q))  PROVE m \in Range(q)
  <2>1. PICK i \in DOMAIN Tail(q) : Tail(q)[i] = m
    BY DEF Range
  <2>2. i + 1 \in DOMAIN q /\ q[i + 1] = m
    BY <2>1, <1>1
  <2> QED
    BY <2>2 DEF Range
<1>4. Head(q) \in Range(q)
  BY <1>1 DEF Range
<1> QED
  BY <1>1, <1>2, <1>3, <1>4

-----------------------------------------------------------------------------
(* Induction, with the property given as the set it holds on. *)

\* A set of natural numbers has a smallest element.
LEMMA NatSmallest ==
  ASSUME NEW T, T \subseteq Nat, T # {}
  PROVE  \E m \in T : \A k \in T : m <= k
<1> DEFINE R == OpToRel(<, Nat)
<1>1. IsWellFoundedOn(R, Nat)
  BY NatLessThanWellFounded
<1>2. \A x, y \in Nat : y < x => <<y, x>> \in R
  BY DEF OpToRel
<1> HIDE DEF R
<1>3. PICK x \in T : \A y \in T : ~ (<<y, x>> \in R)
  BY <1>1, WFMin
<1>4. \A y \in T : ~(y < x)
  BY <1>2, <1>3
<1>5. \A y \in T : x <= y
  BY <1>4
<1> QED
  BY <1>5

\* What 0 has, and n + 1 when n has it, every natural number has.
LEMMA NatInduct ==
  ASSUME NEW P, 0 \in P, \A n \in Nat : n \in P => n + 1 \in P
  PROVE  \A n \in Nat : n \in P
<1> SUFFICES ASSUME Nat \ P # {} PROVE FALSE
  OBVIOUS
<1>1. PICK m \in Nat \ P : \A k \in Nat \ P : m <= k
  BY NatSmallest
<1>2. m - 1 \in Nat /\ m - 1 \in P
  BY <1>1
<1> QED
  BY <1>1, <1>2

\* What a number has when all smaller ones have it, every natural number has.
LEMMA NatStrongInduct ==
  ASSUME NEW P, \A n \in Nat : (\A k \in 0 .. n - 1 : k \in P) => n \in P
  PROVE  \A n \in Nat : n \in P
<1> SUFFICES ASSUME Nat \ P # {} PROVE FALSE
  OBVIOUS
<1>1. PICK m \in Nat \ P : \A k \in Nat \ P : m <= k
  BY NatSmallest
<1>2. \A k \in 0 .. m - 1 : k \in P
  BY <1>1
<1> QED
  BY <1>1, <1>2

\* What the empty set has, and a set with one element more when it is had
\* without, every finite set has.
LEMMA SetInduct ==
  ASSUME NEW T, IsFiniteSet(T), NEW P, {} \in P,
         \A S \in SUBSET T : S \in P => \A x \in T \ S : S \cup {x} \in P
  PROVE  T \in P
<1> DEFINE Q == {n \in Nat : \A S \in SUBSET T : Cardinality(S) = n => S \in P}
<1>1. 0 \in Q
  BY FS_EmptySet, FS_Subset
<1>2. ASSUME NEW n \in Nat, n \in Q PROVE n + 1 \in Q
  <2> SUFFICES ASSUME NEW S \in SUBSET T, Cardinality(S) = n + 1 PROVE S \in P
    OBVIOUS
  <2>1. IsFiniteSet(S) /\ S # {}
    BY FS_Subset, FS_EmptySet
  <2>2. PICK x \in S : TRUE
    BY <2>1
  <2>3. Cardinality(S \ {x}) = n
    <3>1. Cardinality(S \ {x}) = Cardinality(S) - 1
      BY <2>1, <2>2, FS_RemoveElement
    <3> QED BY <3>1
  <2>4. S \ {x} \in SUBSET T /\ S \ {x} \in P
    BY <1>2, <2>3
  <2>5. (S \ {x}) \cup {x} = S /\ x \in T \ (S \ {x})
    BY <2>2
  <2> QED
    BY <2>4, <2>5
<1>3. \A n \in Nat : n \in Q
  <2> HIDE DEF Q
  <2> QED BY <1>1, <1>2, NatInduct
<1>4. Cardinality(T) \in Nat
  BY FS_CardinalityType
<1> QED
  BY <1>3, <1>4

-----------------------------------------------------------------------------
(* Least and greatest elements. *)

\* Min is the least element of a set of natural numbers.
LEMMA MinIsLeast ==
  ASSUME NEW T, T \subseteq Nat, T # {}
  PROVE  Min(T) \in T /\ \A y \in T : Min(T) <= y
<1>1. \E x \in T : \A y \in T : x =< y
  BY NatSmallest
<1> QED
  BY <1>1 DEF Min

\* Max is the greatest element of a bounded set of natural numbers.
LEMMA MaxIsGreatest ==
  ASSUME NEW T, T \subseteq Nat, T # {}, NEW n \in Nat, \A y \in T : y <= n
  PROVE  Max(T) \in T /\ \A y \in T : y <= Max(T)
<1> DEFINE D == {n - y : y \in T}
<1>1. D \subseteq Nat /\ D # {}
  <2>1. \A y \in T : n - y \in Nat
    OBVIOUS
  <2> QED BY <2>1
<1>2. PICK d \in D : \A e \in D : d <= e
  <2> HIDE DEF D
  <2> QED BY <1>1, NatSmallest
<1>3. PICK x \in T : d = n - x
  BY <1>2
<1>4. \A y \in T : x >= y
  BY <1>2, <1>3
<1>5. \E z \in T : \A y \in T : z >= y
  BY <1>4
<1>6. Max(T) \in T /\ \A y \in T : Max(T) >= y
  BY <1>5 DEF Max
<1> QED
  BY <1>6

\* A cost to minimise is least somewhere on a non-empty set, and Min tells
\* which of the cheapest elements comes first.
LEMMA FirstCheapest ==
  ASSUME NEW T, T \subseteq Nat, T # {}, NEW cost, \A i \in T : cost[i] \in Nat
  PROVE  LET best == Min({i \in T : \A j \in T : cost[i] <= cost[j]})
         IN  /\ best \in T
             /\ \A j \in T : cost[best] <= cost[j]
             /\ \A j \in T : cost[j] = cost[best] => best <= j
<1> DEFINE C == {cost[i] : i \in T}
<1> DEFINE B == {i \in T : \A j \in T : cost[i] <= cost[j]}
<1>1. PICK c \in C : \A d \in C : c <= d
  <2>1. C \subseteq Nat /\ C # {}
    OBVIOUS
  <2> HIDE DEF C
  <2> QED BY <2>1, NatSmallest
<1>2. PICK i \in T : c = cost[i]
  BY <1>1
<1>3. i \in B
  BY <1>1, <1>2
<1>4. B \subseteq Nat
  OBVIOUS
<1>5. Min(B) \in B /\ \A y \in B : Min(B) <= y
  BY <1>3, <1>4, MinIsLeast
<1>6. ASSUME NEW j \in T, cost[j] = cost[Min(B)] PROVE Min(B) <= j
  <2>1. j \in B
    BY <1>5, <1>6
  <2> QED BY <1>5, <2>1
<1> QED
  BY <1>5, <1>6

-----------------------------------------------------------------------------
(* Sums. *)

\* A function of natural numbers on a finite set.
Summable(f, T) == IsFiniteSet(T) /\ \A x \in T : f[x] \in Nat

\* The sums of a function over the subsets of its domain.
AreSums(F, f, T) ==
  /\ F \in [SUBSET T -> Nat]
  /\ F[{}] = 0
  /\ \A s \in SUBSET T : \A x \in s : F[s] = f[x] + F[s \ {x}]

\* There are sums: a function of the subsets that grows by f[x] with x.
LEMMA SumsExist ==
  ASSUME NEW T, NEW f, Summable(f, T)
  PROVE  \E F : AreSums(F, f, T)
<1> USE DEF Summable
<1> DEFINE Good(F, U) == /\ F[{}] = 0
                         /\ \A s \in SUBSET U : \A x \in s : F[s] = f[x] + F[s \ {x}]
<1> DEFINE P == {U \in SUBSET T : \E F \in [SUBSET U -> Nat] : Good(F, U)}
<1>1. {} \in P
  <2>1. Good([s \in {{}} |-> 0], {})
    OBVIOUS
  <2>2. [s \in {{}} |-> 0] \in [SUBSET {} -> Nat]
    OBVIOUS
  <2> HIDE DEF Good
  <2> QED BY <2>1, <2>2
<1>2. ASSUME NEW U \in SUBSET T, U \in P, NEW y \in T \ U PROVE U \cup {y} \in P
  <2>1. PICK F \in [SUBSET U -> Nat] : Good(F, U)
    BY <1>2
  <2> DEFINE G == [s \in SUBSET (U \cup {y}) |->
                     IF y \in s THEN f[y] + F[s \ {y}] ELSE F[s]]
  <2>2. \A s \in SUBSET (U \cup {y}) : s \ {y} \in SUBSET U /\ (y \notin s => s \in SUBSET U)
    OBVIOUS
  <2>3. G \in [SUBSET (U \cup {y}) -> Nat]
    BY <2>2
  <2>4. G[{}] = 0
    BY <2>1
  <2>5. ASSUME NEW s \in SUBSET (U \cup {y}), NEW x \in s PROVE G[s] = f[x] + G[s \ {x}]
    <3>1. CASE y \notin s
      <4>1. s \in SUBSET U /\ s \ {x} \in SUBSET U /\ y \notin s \ {x}
        BY <3>1
      <4> QED BY <2>1, <3>1, <4>1
    <3>2. CASE y \in s /\ x = y
      BY <3>2
    <3>3. CASE y \in s /\ x # y
      <4>1. s \ {y} \in SUBSET U /\ x \in s \ {y} /\ y \in s \ {x}
        BY <3>3
      <4>2. (s \ {y}) \ {x} = (s \ {x}) \ {y} /\ (s \ {x}) \ {y} \in SUBSET U
        BY <4>1
      <4>3. G[s] = f[y] + F[s \ {y}] /\ G[s \ {x}] = f[y] + F[(s \ {x}) \ {y}]
        BY <3>3, <4>1
      <4>4. F[s \ {y}] = f[x] + F[(s \ {x}) \ {y}]
        <5>1. F[s \ {y}] = f[x] + F[(s \ {y}) \ {x}]
          BY <2>1, <4>1
        <5> QED BY <5>1, <4>2
      <4>5. f[x] \in Nat /\ f[y] \in Nat /\ F[(s \ {x}) \ {y}] \in Nat
        BY <2>1, <4>2, <3>3
      <4> HIDE DEF G
      <4> QED BY <4>3, <4>4, <4>5
    <3> QED BY <3>1, <3>2, <3>3
  <2>6. Good(G, U \cup {y})
    <3> HIDE DEF G
    <3> QED BY <2>4, <2>5
  <2>7. U \cup {y} \in SUBSET T
    OBVIOUS
  <2> HIDE DEF G, Good
  <2> QED BY <2>3, <2>6, <2>7
<1>3. T \in P
  <2> HIDE DEF P
  <2> QED BY <1>1, <1>2, SetInduct
<1> QED
  BY <1>3 DEF AreSums

\* A sum that takes the elements as CHOOSE gives them is such a sum.
LEMMA ChosenSum ==
  ASSUME NEW T, NEW f, Summable(f, T), NEW F, AreSums(F, f, T), NEW S \in SUBSET T
  PROVE  SumFunctionOnSet(f, S) = F[S]
<1> USE DEF Summable, AreSums
<1> DEFINE First(s) == CHOOSE x \in s : TRUE
<1> DEFINE Body(it) == [s \in SUBSET S |-> IF s = {} THEN 0
                          ELSE LET x == CHOOSE x \in s : TRUE IN f[x] + it[s \ {x}]]
<1> DEFINE it0 == [s \in SUBSET S |-> F[s]]
<1> DEFINE it1 == CHOOSE it : it = Body(it)
<1>1. it0 = Body(it0)
  <2>1. ASSUME NEW s \in SUBSET S, s # {}
        PROVE  it0[s] = LET x == CHOOSE x \in s : TRUE IN f[x] + it0[s \ {x}]
    <3>1. First(s) \in s
      BY <2>1
    <3> HIDE DEF First
    <3>2. F[s] = f[First(s)] + F[s \ {First(s)}]
      BY <3>1
    <3>3. it0[s] = F[s] /\ it0[s \ {First(s)}] = F[s \ {First(s)}]
      BY <3>1
    <3>4. it0[s] = f[First(s)] + it0[s \ {First(s)}]
      BY <3>2, <3>3
    <3> QED BY <3>4 DEF First
  <2>2. it0[{}] = 0
    OBVIOUS
  <2> QED BY <2>1, <2>2
<1>2. it1 = Body(it1)
  <2> HIDE DEF Body, it0
  <2> QED BY <1>1
<1>3. SumFunctionOnSet(f, S) = it1[S]
  BY Zenon DEF SumFunctionOnSet, FoldFunctionOnSet, MapThenFoldSet
<1> DEFINE P == {s \in SUBSET S : it1[s] = F[s]}
<1> DEFINE Q == {n \in Nat : \A s \in SUBSET S : Cardinality(s) = n => s \in P}
<1>4. IsFiniteSet(S)
  BY FS_Subset
<1>5. 0 \in Q
  <2> HIDE DEF it1
  <2>1. it1[{}] = 0
    BY <1>2
  <2>2. \A s \in SUBSET S : Cardinality(s) = 0 => s = {}
    BY <1>4, FS_Subset, FS_EmptySet
  <2> QED BY <2>1, <2>2
<1>6. ASSUME NEW n \in Nat, n \in Q PROVE n + 1 \in Q
  <2> SUFFICES ASSUME NEW s \in SUBSET S, Cardinality(s) = n + 1 PROVE s \in P
    <3> HIDE DEF P
    <3> QED OBVIOUS
  <2>1. IsFiniteSet(s) /\ s # {}
    BY <1>4, FS_Subset, FS_EmptySet
  <2>2. First(s) \in s
    BY <2>1
  <2>3. it1[s] = f[First(s)] + it1[s \ {First(s)}]
    <3> HIDE DEF it1
    <3> QED BY <1>2, <2>1
  <2> HIDE DEF First, it1
  <2>4. Cardinality(s \ {First(s)}) = n
    <3>1. Cardinality(s \ {First(s)}) = Cardinality(s) - 1
      BY <2>1, <2>2, FS_RemoveElement
    <3> QED BY <3>1
  <2>5. it1[s \ {First(s)}] = F[s \ {First(s)}]
    BY <1>6, <2>4
  <2>6. F[s] = f[First(s)] + F[s \ {First(s)}]
    BY <2>2
  <2> QED BY <2>3, <2>5, <2>6
<1>7. \A n \in Nat : n \in Q
  <2> HIDE DEF Q
  <2> QED BY <1>5, <1>6, NatInduct
<1>8. Cardinality(S) \in Nat
  BY <1>4, FS_CardinalityType
<1>9. S \in P
  BY <1>7, <1>8
<1> HIDE DEF it1
<1> QED
  BY <1>3, <1>9

\* A sum is a natural number, 0 over no element, and grows by what it is given.
LEMMA SumFacts ==
  ASSUME NEW T, NEW f, Summable(f, T)
  PROVE  /\ SumFunctionOnSet(f, T) \in Nat
         /\ SumFunctionOnSet(f, {}) = 0
         /\ \A S \in SUBSET T : SumFunctionOnSet(f, S) \in Nat
         /\ \A S \in SUBSET T : \A x \in S : SumFunctionOnSet(f, S) = f[x] + SumFunctionOnSet(f, S \ {x})
<1>1. PICK F : AreSums(F, f, T)
  BY SumsExist
<1>2. \A S \in SUBSET T : SumFunctionOnSet(f, S) = F[S]
  BY <1>1, ChosenSum
<1>3. T \in SUBSET T /\ {} \in SUBSET T
  OBVIOUS
<1>4. \A S \in SUBSET T : \A x \in S : S \ {x} \in SUBSET T
  OBVIOUS
<1> QED
  BY <1>1, <1>2, <1>3, <1>4 DEF AreSums

\* The sum over a part of the elements, with and without one of them.
LEMMA SumRemove ==
  ASSUME NEW T, NEW f, Summable(f, T), NEW S \in SUBSET T, NEW x \in S
  PROVE  /\ SumFunctionOnSet(f, S) = f[x] + SumFunctionOnSet(f, S \ {x})
         /\ SumFunctionOnSet(f, S) \in Nat /\ SumFunctionOnSet(f, S \ {x}) \in Nat /\ f[x] \in Nat
<1>1. f[x] \in Nat
  BY DEF Summable
<1>2. S \ {x} \in SUBSET T
  OBVIOUS
<1> QED
  BY <1>1, <1>2, SumFacts

\* The sum over a part of the elements and one more.
LEMMA SumAdd ==
  ASSUME NEW T, NEW f, Summable(f, T), NEW S \in SUBSET T, NEW x \in T \ S
  PROVE  /\ SumFunctionOnSet(f, S \cup {x}) = f[x] + SumFunctionOnSet(f, S)
         /\ SumFunctionOnSet(f, S \cup {x}) \in Nat /\ SumFunctionOnSet(f, S) \in Nat /\ f[x] \in Nat
<1>1. PICK V : V = S \cup {x}
  OBVIOUS
<1>2. V \in SUBSET T /\ x \in V
  BY <1>1
<1>3. V \ {x} = S
  BY <1>1
<1>4. SumFunctionOnSet(f, V) = f[x] + SumFunctionOnSet(f, V \ {x})
  BY <1>2, SumRemove
<1>5. SumFunctionOnSet(f, V \ {x}) = SumFunctionOnSet(f, S)
  BY <1>3, Zenon
<1>6. SumFunctionOnSet(f, V) = SumFunctionOnSet(f, S \cup {x})
  BY <1>1, Zenon
<1>7. SumFunctionOnSet(f, V) \in Nat /\ SumFunctionOnSet(f, S) \in Nat /\ f[x] \in Nat
  BY <1>2, SumFacts DEF Summable
<1> QED
  BY <1>4, <1>5, <1>6, <1>7

\* Functions that agree on the elements have the same sum.
LEMMA SumAgree ==
  ASSUME NEW T, NEW f, NEW g, Summable(f, T), Summable(g, T), \A x \in T : f[x] = g[x]
  PROVE  SumFunctionOnSet(f, T) = SumFunctionOnSet(g, T)
<1> DEFINE P == {S \in SUBSET T : SumFunctionOnSet(f, S) = SumFunctionOnSet(g, S)}
<1>1. IsFiniteSet(T)
  BY DEF Summable
<1>2. {} \in P
  BY SumFacts
<1>3. ASSUME NEW S \in SUBSET T, S \in P, NEW x \in T \ S PROVE S \cup {x} \in P
  <2>1. S \cup {x} \in SUBSET T /\ x \in S \cup {x} /\ (S \cup {x}) \ {x} = S
    OBVIOUS
  <2>2. SumFunctionOnSet(f, S \cup {x}) = f[x] + SumFunctionOnSet(f, S)
    BY <2>1, SumFacts
  <2>3. SumFunctionOnSet(g, S \cup {x}) = g[x] + SumFunctionOnSet(g, S)
    BY <2>1, SumFacts
  <2> QED BY <1>3, <2>1, <2>2, <2>3
<1>4. T \in P
  <2> HIDE DEF P
  <2> QED BY <1>1, <1>2, <1>3, SetInduct
<1> QED
  BY <1>4

\* A function that takes the elements of a set to those of another, one by one.
Renames(h, T, U) ==
  /\ h \in [T -> U]
  /\ \A a, b \in T : h[a] = h[b] => a = b
  /\ \A u \in U : \E x \in T : h[x] = u

\* Two such sets have as many elements.
LEMMA RenamesCount ==
  ASSUME NEW T, NEW U, NEW h, Renames(h, T, U)
  PROVE  /\ IsFiniteSet(T) => IsFiniteSet(U) /\ Cardinality(T) = Cardinality(U)
         /\ IsFiniteSet(U) => IsFiniteSet(T)
<1>1. h \in Bijection(T, U)
  BY DEF Renames, Bijection, Injection, Surjection, IsInjective
<1>2. ExistsBijection(T, U)
  BY <1>1 DEF ExistsBijection
<1>3. ExistsBijection(U, T)
  BY <1>2, Fun_ExistsBijSymmetric
<1> QED
  BY <1>2, <1>3, FS_Bijection

\* A finite set as a list holds each element once.
LEMMA SetInAList ==
  ASSUME NEW S, IsFiniteSet(S)
  PROVE  Cardinality(S) \in Nat /\ Renames(SetToSeq(S), 1 .. Cardinality(S), S)
<1> DEFINE n == Cardinality(S)
<1> DEFINE s == SetToSeq(S)
<1>1. n \in Nat
  BY FS_CardinalityType
<1>2. s \in [1 .. n -> S] /\ IsInjective(s)
  <2>1. \E f \in [1 .. n -> S] : IsInjective(f)
    <3>1. ExistsBijection(1 .. n, S)
      BY FS_CardinalityType
    <3> QED BY <3>1 DEF ExistsBijection, Bijection, Injection
  <2>2. s = CHOOSE f \in [1 .. n -> S] : IsInjective(f)
    BY Zenon DEF SetToSeq
  <2> HIDE DEF s, n
  <2> QED BY <2>1, <2>2
<1>3. Renames(s, 1 .. n, S)
  <2>1. s \in Injection(1 .. n, S)
    BY <1>2 DEF Injection
  <2>2. Cardinality(1 .. n) = Cardinality(S) /\ IsFiniteSet(1 .. n)
    BY <1>1, FS_Interval
  <2>3. s \in Surjection(1 .. n, S)
    <3> HIDE DEF s
    <3> QED BY <2>1, <2>2, FS_Injection
  <2> HIDE DEF s
  <2> QED BY <1>2, <2>3 DEF Renames, Surjection, IsInjective
<1> QED
  BY <1>1, <1>3

\* The renaming undone.
LEMMA RenamesBack ==
  ASSUME NEW T, NEW U, NEW h, Renames(h, T, U)
  PROVE  LET k == [u \in U |-> CHOOSE x \in T : h[x] = u]
         IN  Renames(k, U, T) /\ (\A u \in U : h[k[u]] = u) /\ (\A x \in T : k[h[x]] = x)
<1> DEFINE k == [u \in U |-> CHOOSE x \in T : h[x] = u]
<1>1. \A u \in U : k[u] \in T /\ h[k[u]] = u
  BY DEF Renames
<1>2. k \in [U -> T]
  BY <1>1
<1>3. \A x \in T : h[x] \in U
  BY DEF Renames
<1> HIDE DEF k
<1>4. \A x \in T : k[h[x]] = x
  BY <1>1, <1>3 DEF Renames
<1>5. Renames(k, U, T)
  BY <1>1, <1>2, <1>3, <1>4 DEF Renames
<1> QED
  BY <1>1, <1>4, <1>5 DEF k

\* One renaming after another.
LEMMA RenamesCompose ==
  ASSUME NEW S, NEW T, NEW U, NEW h, NEW k, Renames(h, S, T), Renames(k, T, U)
  PROVE  Renames([x \in S |-> k[h[x]]], S, U)
  BY DEF Renames

\* A renaming of the elements leaves the sum as it was.
LEMMA SumRenamed ==
  ASSUME NEW T, NEW U, NEW f, NEW g, Summable(f, T), Summable(g, U),
         NEW h, Renames(h, T, U), \A x \in T : f[x] = g[h[x]]
  PROVE  SumFunctionOnSet(f, T) = SumFunctionOnSet(g, U)
<1> DEFINE Image(S) == {h[x] : x \in S}
<1> DEFINE P == {S \in SUBSET T : SumFunctionOnSet(f, S) = SumFunctionOnSet(g, Image(S))}
<1>0. /\ h \in [T -> U] /\ \A a, b \in T : h[a] = h[b] => a = b
      /\ \A u \in U : \E x \in T : h[x] = u
  BY DEF Renames
<1>1. IsFiniteSet(T)
  BY DEF Summable
<1>2. {} \in P
  <2>1. Image({}) = {}
    OBVIOUS
  <2> QED BY <2>1, SumFacts
<1>3. ASSUME NEW S \in SUBSET T, S \in P, NEW x \in T \ S PROVE S \cup {x} \in P
  <2>1. S \cup {x} \in SUBSET T /\ x \in S \cup {x} /\ (S \cup {x}) \ {x} = S
    OBVIOUS
  <2>2. SumFunctionOnSet(f, S \cup {x}) = f[x] + SumFunctionOnSet(f, S)
    BY <2>1, SumFacts
  <2>3. /\ Image(S \cup {x}) \in SUBSET U /\ h[x] \in Image(S \cup {x})
        /\ Image(S \cup {x}) \ {h[x]} = Image(S)
    BY <1>0
  <2>4. SumFunctionOnSet(g, Image(S \cup {x})) = g[h[x]] + SumFunctionOnSet(g, Image(S))
    <3> HIDE DEF Image
    <3>1. PICK V, y : V = Image(S \cup {x}) /\ y = h[x]
      OBVIOUS
    <3>2. V \in SUBSET U /\ y \in V /\ V \ {y} = Image(S)
      BY <2>3, <3>1
    <3>3. SumFunctionOnSet(g, V) = g[y] + SumFunctionOnSet(g, V \ {y})
      BY <3>2, SumRemove
    <3> QED BY <3>1, <3>2, <3>3
  <2>5. SumFunctionOnSet(f, S) = SumFunctionOnSet(g, Image(S))
    BY <1>3
  <2> QED BY <2>1, <2>2, <2>4, <2>5
<1>4. T \in P
  <2> HIDE DEF P
  <2> QED BY <1>1, <1>2, <1>3, SetInduct
<1>5. Image(T) = U
  BY <1>0
<1> QED
  BY <1>4, <1>5

\* One element's part in a sum.
LEMMA SumBump ==
  ASSUME NEW T, NEW f, NEW g, Summable(f, T), Summable(g, T), NEW x \in T, NEW a \in Nat,
         g[x] = f[x] + a, \A y \in T : y # x => g[y] = f[y]
  PROVE  SumFunctionOnSet(g, T) = SumFunctionOnSet(f, T) + a
<1>1. PICK U : U = T \ {x}
  OBVIOUS
<1>2. Summable(f, U) /\ Summable(g, U) /\ \A y \in U : g[y] = f[y]
  BY <1>1, FS_Subset DEF Summable
<1>3. SumFunctionOnSet(g, U) = SumFunctionOnSet(f, U)
  BY <1>2, SumAgree
<1>4. /\ SumFunctionOnSet(g, T) = g[x] + SumFunctionOnSet(g, U)
      /\ SumFunctionOnSet(f, T) = f[x] + SumFunctionOnSet(f, U)
      /\ SumFunctionOnSet(f, U) \in Nat /\ f[x] \in Nat
  BY <1>1, <1>2, SumRemove, SumFacts
<1> QED
  BY <1>3, <1>4

\* A sum of nothing but zeroes is 0, and only that.
LEMMA SumZero ==
  ASSUME NEW T, NEW f, Summable(f, T)
  PROVE  (SumFunctionOnSet(f, T) = 0) <=> (\A x \in T : f[x] = 0)
<1>1. ASSUME NEW x \in T, f[x] # 0 PROVE SumFunctionOnSet(f, T) # 0
  <2>1. SumFunctionOnSet(f, T) = f[x] + SumFunctionOnSet(f, T \ {x}) /\ SumFunctionOnSet(f, T \ {x}) \in Nat
    BY SumFacts
  <2>2. f[x] \in Nat
    BY DEF Summable
  <2> QED BY <1>1, <2>1, <2>2
<1>2. ASSUME \A x \in T : f[x] = 0 PROVE SumFunctionOnSet(f, T) = 0
  <2> DEFINE P == {S \in SUBSET T : SumFunctionOnSet(f, S) = 0}
  <2>1. IsFiniteSet(T)
    BY DEF Summable
  <2>2. {} \in P
    BY SumFacts
  <2>3. ASSUME NEW S \in SUBSET T, S \in P, NEW x \in T \ S PROVE S \cup {x} \in P
    <3>1. S \cup {x} \in SUBSET T /\ x \in S \cup {x} /\ (S \cup {x}) \ {x} = S
      OBVIOUS
    <3>2. SumFunctionOnSet(f, S \cup {x}) = f[x] + SumFunctionOnSet(f, S)
      BY <3>1, SumFacts
    <3> QED BY <1>2, <2>3, <3>1, <3>2
  <2>4. T \in P
    <3> HIDE DEF P
    <3> QED BY <2>1, <2>2, <2>3, SetInduct
  <2> QED BY <2>4
<1> QED
  BY <1>1, <1>2

\* The sum over two sets apart is that of their sums.
LEMMA SumUnion ==
  ASSUME NEW T, NEW U, NEW f, Summable(f, T), Summable(f, U), T \cap U = {}
  PROVE  Summable(f, T \cup U) /\ SumFunctionOnSet(f, T \cup U) = SumFunctionOnSet(f, T) + SumFunctionOnSet(f, U)
<1> DEFINE P == {S \in SUBSET U : SumFunctionOnSet(f, T \cup S) = SumFunctionOnSet(f, T) + SumFunctionOnSet(f, S)}
<1>1. IsFiniteSet(U) /\ IsFiniteSet(T \cup U)
  BY FS_Union DEF Summable
<1>2. Summable(f, T \cup U)
  BY <1>1 DEF Summable
<1>3. {} \in P
  <2>1. T \cup {} = T
    OBVIOUS
  <2>2. SumFunctionOnSet(f, {}) = 0 /\ SumFunctionOnSet(f, T) \in Nat
    BY SumFacts
  <2>3. SumFunctionOnSet(f, T \cup {}) = SumFunctionOnSet(f, T) + SumFunctionOnSet(f, {})
    BY <2>1, <2>2
  <2> QED BY <2>3
<1>4. ASSUME NEW S \in SUBSET U, S \in P, NEW x \in U \ S PROVE S \cup {x} \in P
  <2>1. /\ S \cup {x} \in SUBSET U /\ x \in S \cup {x} /\ (S \cup {x}) \ {x} = S
        /\ S \in SUBSET U /\ T \in SUBSET T
    OBVIOUS
  <2>2. SumFunctionOnSet(f, S \cup {x}) = f[x] + SumFunctionOnSet(f, S)
    BY <2>1, SumFacts
  <2>3. T \cup S \in SUBSET (T \cup U) /\ x \in (T \cup U) \ (T \cup S)
    BY <2>1
  <2>4. SumFunctionOnSet(f, (T \cup S) \cup {x}) = f[x] + SumFunctionOnSet(f, T \cup S)
    BY <1>2, <2>3, SumAdd
  <2>5. (T \cup S) \cup {x} = T \cup (S \cup {x})
    OBVIOUS
  <2>6. SumFunctionOnSet(f, T) \in Nat /\ SumFunctionOnSet(f, S) \in Nat /\ f[x] \in Nat
    BY <2>1, SumFacts DEF Summable
  <2>7. SumFunctionOnSet(f, T \cup S) = SumFunctionOnSet(f, T) + SumFunctionOnSet(f, S)
    BY <1>4
  <2>8. SumFunctionOnSet(f, (T \cup S) \cup {x}) = SumFunctionOnSet(f, T \cup (S \cup {x}))
    BY <2>5, Zenon
  <2>9. SumFunctionOnSet(f, T \cup (S \cup {x})) = SumFunctionOnSet(f, T) + SumFunctionOnSet(f, S \cup {x})
    BY <2>2, <2>4, <2>6, <2>7, <2>8
  <2> QED BY <2>1, <2>9
<1>5. U \in P
  <2> HIDE DEF P
  <2> QED BY <1>1, <1>3, <1>4, SetInduct
<1> QED
  BY <1>2, <1>5

\* The sum of the same number again and again.
LEMMA SumConstant ==
  ASSUME NEW T, IsFiniteSet(T), NEW f, NEW a \in Nat, \A x \in T : f[x] = a
  PROVE  SumFunctionOnSet(f, T) = Cardinality(T) * a
<1> DEFINE P == {S \in SUBSET T : SumFunctionOnSet(f, S) = Cardinality(S) * a}
<1>1. Summable(f, T)
  BY DEF Summable
<1>2. {} \in P
  <2>1. SumFunctionOnSet(f, {}) = 0 /\ Cardinality({}) = 0
    BY <1>1, SumFacts, FS_EmptySet
  <2> QED BY <2>1
<1>3. ASSUME NEW S \in SUBSET T, S \in P, NEW x \in T \ S PROVE S \cup {x} \in P
  <2>1. S \cup {x} \in SUBSET T /\ x \in S \cup {x} /\ (S \cup {x}) \ {x} = S
    OBVIOUS
  <2>2. SumFunctionOnSet(f, S \cup {x}) = a + SumFunctionOnSet(f, S)
    BY <1>1, <2>1, SumFacts
  <2>3. IsFiniteSet(S)
    BY FS_Subset
  <2>4. Cardinality(S) \in Nat /\ Cardinality(S \cup {x}) = Cardinality(S) + 1
    BY <2>3, FS_CardinalityType, FS_AddElement
  <2>5. \A k \in Nat : (k + 1) * a = a + k * a
    OBVIOUS
  <2>6. SumFunctionOnSet(f, S) = Cardinality(S) * a
    BY <1>3
  <2> QED BY <2>1, <2>2, <2>4, <2>5, <2>6
<1>4. T \in P
  <2> HIDE DEF P
  <2> QED BY <1>2, <1>3, SetInduct
<1> QED
  BY <1>4

\* Running totals end with the sum.
LEMMA PrefixTotal ==
  ASSUME NEW n \in Nat, NEW f, \A p \in 1 .. n : f[p] \in Nat,
         NEW pre, pre[0] = 0, \A p \in 1 .. n : pre[p] = pre[p - 1] + f[p]
  PROVE  \A k \in 0 .. n : pre[k] = SumFunctionOnSet(f, 1 .. k) /\ pre[k] \in Nat
<1> DEFINE P == {k \in Nat : k <= n => pre[k] = SumFunctionOnSet(f, 1 .. k) /\ pre[k] \in Nat}
<1>1. Summable(f, 1 .. n)
  BY FS_Interval DEF Summable
<1>2. 0 \in P
  <2>1. 1 .. 0 = {}
    OBVIOUS
  <2>2. SumFunctionOnSet(f, {}) = 0
    BY <1>1, SumFacts
  <2>3. SumFunctionOnSet(f, 1 .. 0) = 0
    BY <2>1, <2>2
  <2> QED BY <2>3
<1>3. ASSUME NEW k \in Nat, k \in P PROVE k + 1 \in P
  <2> SUFFICES ASSUME k + 1 <= n
               PROVE  pre[k + 1] = SumFunctionOnSet(f, 1 .. k + 1) /\ pre[k + 1] \in Nat
    OBVIOUS
  <2>1. 1 .. k \in SUBSET (1 .. n) /\ k + 1 \in (1 .. n) \ (1 .. k)
    OBVIOUS
  <2>2. (1 .. k) \cup {k + 1} = 1 .. k + 1
    OBVIOUS
  <2>3. /\ SumFunctionOnSet(f, (1 .. k) \cup {k + 1}) = f[k + 1] + SumFunctionOnSet(f, 1 .. k)
        /\ SumFunctionOnSet(f, (1 .. k) \cup {k + 1}) \in Nat
    <3>1. PICK T, S, x : T = 1 .. n /\ S = 1 .. k /\ x = k + 1
      OBVIOUS
    <3>2. Summable(f, T) /\ S \in SUBSET T /\ x \in T \ S
      BY <1>1, <2>1, <3>1
    <3>3. SumFunctionOnSet(f, S \cup {x}) = f[x] + SumFunctionOnSet(f, S) /\ SumFunctionOnSet(f, S \cup {x}) \in Nat
      BY <3>2, SumAdd
    <3> QED BY <3>1, <3>3
  <2>6. SumFunctionOnSet(f, (1 .. k) \cup {k + 1}) = SumFunctionOnSet(f, 1 .. k + 1)
    BY <2>2, Zenon
  <2>4. pre[k + 1] = pre[k] + f[k + 1] /\ f[k + 1] \in Nat
    <3>1. k + 1 \in 1 .. n /\ (k + 1) - 1 = k
      OBVIOUS
    <3> QED BY <3>1
  <2>5. pre[k] = SumFunctionOnSet(f, 1 .. k) /\ pre[k] \in Nat
    BY <1>3
  <2> QED BY <2>3, <2>4, <2>5, <2>6
<1>4. \A k \in Nat : k \in P
  <2> HIDE DEF P
  <2> QED BY <1>2, <1>3, NatInduct
<1> QED
  BY <1>4

\* A running total never falls.
LEMMA PrefixRises ==
  ASSUME NEW n \in Nat, NEW f, \A p \in 1 .. n : f[p] \in Nat,
         NEW pre, pre[0] = 0, \A p \in 1 .. n : pre[p] = pre[p - 1] + f[p]
  PROVE  \A a, b \in 0 .. n : a <= b => pre[a] <= pre[b]
<1>1. \A k \in 0 .. n : pre[k] \in Nat
  BY PrefixTotal
<1> DEFINE P == {b \in Nat : b <= n => \A a \in 0 .. b : pre[a] <= pre[b]}
<1>2. 0 \in P
  BY <1>1
<1>3. ASSUME NEW b \in Nat, b \in P PROVE b + 1 \in P
  <2> SUFFICES ASSUME b + 1 <= n, NEW a \in 0 .. b + 1 PROVE pre[a] <= pre[b + 1]
    OBVIOUS
  <2>1. PICK x, y, z : x = pre[b] /\ y = pre[b + 1] /\ z = f[b + 1]
    OBVIOUS
  <2>2. b + 1 \in 1 .. n /\ (b + 1) - 1 = b /\ b \in 0 .. n /\ b + 1 \in 0 .. n
    BY <1>3
  <2>3. y = x + z /\ x \in Nat /\ y \in Nat /\ z \in Nat
    BY <1>1, <2>1, <2>2
  <2>4. CASE a = b + 1
    BY <2>1, <2>3, <2>4
  <2>5. CASE a \in 0 .. b
    <3>1. pre[a] <= x /\ pre[a] \in Nat
      BY <1>1, <1>3, <2>1, <2>5
    <3> QED BY <2>1, <2>3, <3>1
  <2>6. a = b + 1 \/ a \in 0 .. b
    OBVIOUS
  <2> QED BY <2>4, <2>5, <2>6
<1>4. \A b \in Nat : b \in P
  <2> HIDE DEF P
  <2> QED BY <1>2, <1>3, NatInduct
<1> QED
  BY <1>4

\* The pairs of a row and a place in it, in rows of the given lengths.
RowPlaces(n, c) == {q \in (1 .. n) \X Nat : q[2] \in 1 .. c[q[1]]}

\* A value for each such pair that its row tells, and its total by rows.
ByRow(f, n, e) == \A q \in (1 .. n) \X Nat : f[q] = e[q[1]]
RowTotals(g, n, c, e) == \A i \in 1 .. n : g[i] = c[i] * e[i]

\* The sum over the pairs is the sum over the rows.
LEMMA SumRows ==
  ASSUME NEW n \in Nat, NEW c \in [1 .. n -> Nat], NEW e \in [1 .. n -> Nat],
         NEW f, ByRow(f, n, e), NEW g, RowTotals(g, n, c, e)
  PROVE  /\ Summable(f, RowPlaces(n, c))
         /\ SumFunctionOnSet(f, RowPlaces(n, c)) = SumFunctionOnSet(g, 1 .. n)
<1> DEFINE Upto(k) == {q \in (1 .. k) \X Nat : q[2] \in 1 .. c[q[1]]}
<1> DEFINE P == {k \in Nat : k <= n => /\ Summable(f, Upto(k))
                                       /\ SumFunctionOnSet(f, Upto(k)) = SumFunctionOnSet(g, 1 .. k)}
<1>1. Summable(g, 1 .. n)
  <2>1. \A i \in 1 .. n : c[i] * e[i] \in Nat
    <3>1. \A a, b \in Nat : a * b \in Nat
      OBVIOUS
    <3> QED BY <3>1
  <2>2. \A i \in 1 .. n : g[i] \in Nat
    BY <2>1 DEF RowTotals
  <2> QED BY <2>2, FS_Interval DEF Summable
<1>2. 0 \in P
  <2>1. PICK T, U : T = Upto(0) /\ U = 1 .. 0
    OBVIOUS
  <2>2. T = {} /\ U = {}
    BY <2>1
  <2>3. Summable(f, {}) /\ Summable(g, {})
    BY FS_EmptySet DEF Summable
  <2>4. SumFunctionOnSet(f, {}) = 0 /\ SumFunctionOnSet(g, {}) = 0
    BY <2>3, SumFacts
  <2>5. Summable(f, T) /\ SumFunctionOnSet(f, T) = SumFunctionOnSet(g, U)
    BY <2>2, <2>3, <2>4, Zenon
  <2> HIDE DEF Upto
  <2> QED BY <2>1, <2>5
<1>3. ASSUME NEW k \in Nat, k \in P PROVE k + 1 \in P
  <2> SUFFICES ASSUME k + 1 <= n
               PROVE  /\ Summable(f, Upto(k + 1))
                      /\ SumFunctionOnSet(f, Upto(k + 1)) = SumFunctionOnSet(g, 1 .. k + 1)
    OBVIOUS
  <2>1. PICK x : x = k + 1
    OBVIOUS
  <2>2. x \in 1 .. n /\ k <= n
    BY <1>3, <2>1
  <2> DEFINE R == {q \in {x} \X Nat : q[2] \in 1 .. c[x]}
  <2>3. Upto(x) = Upto(k) \cup R /\ Upto(k) \cap R = {}
    <3>1. \A q \in Upto(x) : q \in Upto(k) \cup R
      <4> TAKE q \in Upto(x)
      <4>1. q[1] \in 1 .. k \/ q[1] = x
        BY <2>1
      <4>2. CASE q[1] \in 1 .. k
        BY <4>2
      <4>3. CASE q[1] = x
        BY <4>3
      <4> QED BY <4>1, <4>2, <4>3
    <3>2. \A q \in Upto(k) : q \in Upto(x) /\ q[1] # x
      <4> TAKE q \in Upto(k)
      <4>1. q \in (1 .. k) \X Nat /\ q[2] \in 1 .. c[q[1]]
        OBVIOUS
      <4>2. q \in (1 .. x) \X Nat /\ q[1] # x
        <5>1. q[1] \in 1 .. k /\ q[2] \in Nat /\ q = <<q[1], q[2]>>
          BY <4>1
        <5>2. q[1] \in 1 .. x /\ q[1] # x
          BY <2>1, <5>1
        <5> QED BY <5>1, <5>2
      <4> QED BY <4>1, <4>2
    <3>3. \A q \in R : q \in Upto(x) /\ q[1] = x
      BY <2>1
    <3> HIDE DEF Upto, R
    <3> QED BY <3>1, <3>2, <3>3
  <2>4. IsFiniteSet(R) /\ Cardinality(R) = c[x]
    <3> DEFINE h == [j \in 1 .. c[x] |-> <<x, j>>]
    <3>1. \A j \in 1 .. c[x] : h[j] \in R /\ h[j] = <<x, j>>
      BY <2>2
    <3>2. \A q \in R : q[2] \in 1 .. c[x] /\ h[q[2]] = q
      OBVIOUS
    <3>3. DOMAIN h = 1 .. c[x]
      OBVIOUS
    <3> HIDE DEF R
    <3>4. h \in [1 .. c[x] -> R]
      BY <3>1
    <3> HIDE DEF h
    <3>5. Renames(h, 1 .. c[x], R)
      <4>1. \A a, b \in 1 .. c[x] : h[a] = h[b] => a = b
        BY <3>1
      <4>2. \A q \in R : \E j \in 1 .. c[x] : h[j] = q
        BY <3>2
      <4> QED BY <3>4, <4>1, <4>2 DEF Renames
    <3>6. c[x] \in Nat
      BY <2>2
    <3>7. IsFiniteSet(1 .. c[x]) /\ Cardinality(1 .. c[x]) = c[x]
      <4>1. PICK y \in Nat : y = c[x]
        BY <3>6
      <4>2. IsFiniteSet(1 .. y) /\ Cardinality(1 .. y) = y
        BY FS_Interval
      <4> QED BY <4>1, <4>2
    <3> QED BY <3>5, <3>7, RenamesCount
  <2>5. \A q \in R : f[q] = e[x]
    BY <2>2 DEF ByRow
  <2>6. e[x] \in Nat /\ c[x] \in Nat
    BY <2>2
  <2> HIDE DEF R
  <2>7. Summable(f, R) /\ SumFunctionOnSet(f, R) = c[x] * e[x]
    <3>1. SumFunctionOnSet(f, R) = Cardinality(R) * e[x]
      BY <2>4, <2>5, <2>6, SumConstant
    <3> QED BY <2>4, <2>5, <2>6, <3>1 DEF Summable
  <2>8. PICK T : T = Upto(k)
    OBVIOUS
  <2>9. Summable(f, T) /\ SumFunctionOnSet(f, T) = SumFunctionOnSet(g, 1 .. k)
    BY <1>3, <2>2, <2>8
  <2>10. /\ Summable(f, Upto(x))
         /\ SumFunctionOnSet(f, Upto(x)) = SumFunctionOnSet(g, 1 .. k) + c[x] * e[x]
    <3>1. T \cap R = {} /\ Upto(x) = T \cup R
      BY <2>3, <2>8, Zenon
    <3>2. /\ Summable(f, T \cup R)
          /\ SumFunctionOnSet(f, T \cup R) = SumFunctionOnSet(f, T) + SumFunctionOnSet(f, R)
      <4>1. Summable(f, T) /\ Summable(f, R) /\ T \cap R = {}
        BY <2>7, <2>9, <3>1
      <4> HIDE DEF Upto
      <4> QED BY <4>1, SumUnion
    <3> HIDE DEF Upto
    <3> QED BY <2>7, <2>9, <3>1, <3>2
  <2>11. SumFunctionOnSet(g, 1 .. x) = g[x] + SumFunctionOnSet(g, 1 .. k)
    <3>1. PICK S, W : S = 1 .. k /\ W = 1 .. n
      OBVIOUS
    <3>2. S \in SUBSET W /\ x \in W \ S /\ S \cup {x} = 1 .. x
      <4>1. S \in SUBSET W /\ x \in W /\ x \notin S
        BY <2>1, <2>2, <3>1
      <4>2. (1 .. k) \cup {k + 1} = 1 .. k + 1
        OBVIOUS
      <4> QED BY <2>1, <3>1, <4>1, <4>2
    <3>3. SumFunctionOnSet(g, S \cup {x}) = g[x] + SumFunctionOnSet(g, S)
      <4>1. Summable(g, W)
        BY <1>1, <3>1
      <4>2. S \in SUBSET W /\ x \in W \ S
        BY <3>2
      <4> QED BY <4>1, <4>2, SumAdd
    <3> QED BY <3>1, <3>2, <3>3, Zenon
  <2>12. g[x] = c[x] * e[x]
    BY <2>2 DEF RowTotals
  <2>13. SumFunctionOnSet(g, 1 .. k) \in Nat /\ c[x] * e[x] \in Nat
    <3>1. 1 .. k \in SUBSET (1 .. n)
      BY <2>2
    <3>2. SumFunctionOnSet(g, 1 .. k) \in Nat
      BY <1>1, <3>1, SumFacts
    <3>3. \A a, b \in Nat : a * b \in Nat
      OBVIOUS
    <3> QED BY <2>6, <3>2, <3>3
  <2>14. SumFunctionOnSet(f, Upto(x)) = SumFunctionOnSet(g, 1 .. x)
    <3> HIDE DEF Upto
    <3> QED BY <2>10, <2>11, <2>12, <2>13
  <2> HIDE DEF Upto
  <2> QED BY <2>1, <2>10, <2>14
<1>4. n \in P
  <2> HIDE DEF P
  <2> QED BY <1>2, <1>3, NatInduct
<1>5. Upto(n) = RowPlaces(n, c)
  BY Zenon DEF RowPlaces
<1> HIDE DEF Upto
<1> QED
  BY <1>4, <1>5

-----------------------------------------------------------------------------
(* Sorting by counting what goes before. *)

\* When every two elements are in one order, no two have as many before them,
\* and every place is somebody's.
LEMMA Ranks ==
  ASSUME NEW n \in Nat, NEW A \in [1 .. n -> SUBSET (1 .. n)],
         \A i \in 1 .. n : i \notin A[i],
         \A i, j \in 1 .. n : i # j => i \in A[j] \/ j \in A[i],
         \A i, j, k \in 1 .. n : i \in A[j] /\ j \in A[k] => i \in A[k]
  PROVE  /\ \A i, j \in 1 .. n : Cardinality(A[i]) = Cardinality(A[j]) => i = j
         /\ \A k \in 1 .. n : \E i \in 1 .. n : Cardinality(A[i]) = k - 1
<1> DEFINE c == [i \in 1 .. n |-> Cardinality(A[i]) + 1]
<1>1. IsFiniteSet(1 .. n) /\ Cardinality(1 .. n) = n
  BY FS_Interval
<1>2. \A i \in 1 .. n : IsFiniteSet(A[i]) /\ Cardinality(A[i]) \in Nat
  <2> TAKE i \in 1 .. n
  <2>1. A[i] \in SUBSET (1 .. n)
    OBVIOUS
  <2> QED BY <1>1, <2>1, FS_Subset, FS_CardinalityType
<1>3. ASSUME NEW i \in 1 .. n, NEW j \in 1 .. n, i \in A[j]
      PROVE  Cardinality(A[i]) < Cardinality(A[j])
  <2>1. A[i] \subseteq A[j]
    BY <1>3
  <2>2. A[i] # A[j]
    BY <1>3
  <2>3. Cardinality(A[i]) <= Cardinality(A[j]) /\ Cardinality(A[i]) # Cardinality(A[j])
    BY <1>2, <2>1, <2>2, FS_Subset
  <2> QED BY <1>2, <2>3
<1>4. \A i, j \in 1 .. n : Cardinality(A[i]) = Cardinality(A[j]) => i = j
  <2> SUFFICES ASSUME NEW i \in 1 .. n, NEW j \in 1 .. n, i # j
               PROVE  Cardinality(A[i]) # Cardinality(A[j])
    OBVIOUS
  <2>1. i \in A[j] \/ j \in A[i]
    OBVIOUS
  <2> QED BY <1>2, <1>3, <2>1
<1>5. \A i \in 1 .. n : Cardinality(A[i]) < n
  <2> TAKE i \in 1 .. n
  <2>1. A[i] \in SUBSET (1 .. n) /\ A[i] # 1 .. n
    OBVIOUS
  <2>2. Cardinality(A[i]) <= n /\ Cardinality(A[i]) # n
    BY <1>1, <2>1, FS_Subset
  <2> QED BY <1>2, <2>2
<1>6. c \in [1 .. n -> 1 .. n] /\ \A i, j \in 1 .. n : c[i] = c[j] => i = j
  BY <1>2, <1>4, <1>5
<1>7. c \in Injection(1 .. n, 1 .. n)
  BY <1>6 DEF Injection, IsInjective
<1>8. c \in Surjection(1 .. n, 1 .. n)
  BY <1>1, <1>7, FS_Injection
<1>9. \A k \in 1 .. n : \E i \in 1 .. n : c[i] = k
  BY <1>8 DEF Surjection
<1>10. \A k \in 1 .. n : \E i \in 1 .. n : Cardinality(A[i]) = k - 1
  <2> TAKE k \in 1 .. n
  <2>1. PICK i \in 1 .. n : c[i] = k
    BY <1>9
  <2>2. Cardinality(A[i]) \in Nat /\ Cardinality(A[i]) + 1 = k
    BY <1>2, <2>1
  <2> QED BY <2>2
<1> QED
  BY <1>4, <1>10

\* Who is at which place: a renaming of the positions.
LEMMA SortPlaces ==
  ASSUME NEW n \in Nat, NEW A \in [1 .. n -> SUBSET (1 .. n)],
         \A i \in 1 .. n : i \notin A[i],
         \A i, j \in 1 .. n : i # j => i \in A[j] \/ j \in A[i],
         \A i, j, k \in 1 .. n : i \in A[j] /\ j \in A[k] => i \in A[k],
         NEW p, p \in [1 .. n -> 1 .. n], \A k \in 1 .. n : Cardinality(A[p[k]]) = k - 1
  PROVE  Renames(p, 1 .. n, 1 .. n)
<1>1. \A k, l \in 1 .. n : p[k] = p[l] => k = l
  OBVIOUS
<1>2. IsFiniteSet(1 .. n)
  BY FS_Interval
<1>3. p \in Injection(1 .. n, 1 .. n)
  BY <1>1 DEF Injection, IsInjective
<1>4. p \in Surjection(1 .. n, 1 .. n)
  BY <1>2, <1>3, FS_Injection
<1>5. \A u \in 1 .. n : \E k \in 1 .. n : p[k] = u
  BY <1>4 DEF Surjection
<1> QED
  BY <1>1, <1>5 DEF Renames

-----------------------------------------------------------------------------
(* Sequences laid end to end. *)

\* The places of the elements of the sequences in a sequence.
Slots(seqs) == {q \in (1 .. Len(seqs)) \X Nat : q[2] \in 1 .. Len(seqs[q[1]])}

\* Concatenation, by positions.
LEMMA ConcatPositions ==
  ASSUME NEW S, NEW s \in Seq(S), NEW t \in Seq(S)
  PROVE  /\ s \o t \in Seq(S)
         /\ Len(s) \in Nat /\ Len(t) \in Nat /\ Len(s \o t) = Len(s) + Len(t)
         /\ DOMAIN s = 1 .. Len(s) /\ DOMAIN t = 1 .. Len(t)
         /\ DOMAIN (s \o t) = 1 .. Len(s) + Len(t)
         /\ \A p \in 1 .. Len(s) : (s \o t)[p] = s[p] /\ p <= Len(s)
         /\ \A p \in 1 .. Len(t) : (s \o t)[Len(s) + p] = t[p]
         /\ \A p \in 1 .. Len(s) + Len(t) : p > Len(s) =>
              p - Len(s) \in 1 .. Len(t) /\ (s \o t)[p] = t[p - Len(s)]
  OBVIOUS

\* The recursive function of FlattenSeq.
Flattens(f, seqs, n) ==
  f = [i \in 1 .. n |-> IF i = 1 THEN seqs[i] ELSE f[i - 1] \o seqs[i]]

\* It exists, for any number of sequences.
LEMMA FlattenExists ==
  ASSUME NEW seqs, NEW n \in Nat
  PROVE  \E f : Flattens(f, seqs, n)
<1> USE DEF Flattens
<1> DEFINE Body(f, k) == [i \in 1 .. k |-> IF i = 1 THEN seqs[i] ELSE f[i - 1] \o seqs[i]]
<1> DEFINE P == {k \in Nat : \E f : f = Body(f, k)}
<1>1. 0 \in P
  <2> DEFINE e == [i \in 1 .. 0 |-> 0]
  <2>1. e = Body(e, 0)
    OBVIOUS
  <2> QED BY <2>1
<1>2. ASSUME NEW k \in Nat, k \in P PROVE k + 1 \in P
  <2>1. PICK f : f = Body(f, k)
    BY <1>2
  <2> DEFINE g == [i \in 1 .. k + 1 |-> IF i <= k THEN f[i]
                     ELSE IF i = 1 THEN seqs[i] ELSE f[i - 1] \o seqs[i]]
  <2>2. \A i \in 1 .. k : f[i] = IF i = 1 THEN seqs[i] ELSE f[i - 1] \o seqs[i]
    BY <2>1
  <2>3. \A i \in 1 .. k : g[i] = f[i]
    OBVIOUS
  <2>4. g[k + 1] = IF k + 1 = 1 THEN seqs[k + 1] ELSE f[(k + 1) - 1] \o seqs[k + 1]
    OBVIOUS
  <2>5. DOMAIN g = 1 .. k + 1 /\ g = [i \in 1 .. k + 1 |-> g[i]]
    OBVIOUS
  <2> HIDE DEF g
  <2>6. ASSUME NEW i \in 1 .. k + 1
        PROVE  g[i] = IF i = 1 THEN seqs[i] ELSE g[i - 1] \o seqs[i]
    <3>1. CASE i = 1
      <4>1. CASE k = 0
        BY <2>4, <3>1, <4>1
      <4>2. CASE k # 0
        BY <2>2, <2>3, <3>1, <4>2
      <4> QED BY <4>1, <4>2
    <3>2. CASE i # 1 /\ i <= k
      <4>1. i \in 1 .. k /\ i - 1 \in 1 .. k
        BY <3>2
      <4>2. g[i] = f[i] /\ g[i - 1] = f[i - 1] /\ f[i] = f[i - 1] \o seqs[i]
        BY <2>2, <2>3, <3>2, <4>1
      <4> QED BY <3>2, <4>2
    <3>3. CASE i # 1 /\ i > k
      <4>1. i = k + 1 /\ k \in 1 .. k /\ (k + 1) - 1 = k /\ k + 1 # 1
        BY <3>3
      <4>2. g[k + 1] = f[k] \o seqs[k + 1] /\ g[k] = f[k]
        BY <2>3, <2>4, <4>1
      <4> QED BY <4>1, <4>2
    <3> QED BY <3>1, <3>2, <3>3
  <2>7. g = Body(g, k + 1)
    BY <2>5, <2>6
  <2> HIDE DEF Body
  <2> QED BY <2>7
<1>3. \A k \in Nat : k \in P
  <2> HIDE DEF P
  <2> QED BY <1>1, <1>2, NatInduct
<1> QED
  BY <1>3

\* Every element of the flattened sequence is one element of one sequence, and
\* every element of every sequence is there once.
LEMMA FlattenPositions ==
  ASSUME NEW S, NEW seqs \in Seq(Seq(S))
  PROVE  /\ FlattenSeq(seqs) \in Seq(S)
         /\ \E at : /\ Renames(at, 1 .. Len(FlattenSeq(seqs)), Slots(seqs))
                    /\ \A p \in 1 .. Len(FlattenSeq(seqs)) :
                         FlattenSeq(seqs)[p] = seqs[at[p][1]][at[p][2]]
<1> DEFINE n == Len(seqs)
<1> DEFINE Body(f) == [i \in 1 .. n |-> IF i = 1 THEN seqs[i] ELSE f[i - 1] \o seqs[i]]
<1> DEFINE f == CHOOSE f : f = Body(f)
<1>1. n \in Nat /\ DOMAIN seqs = 1 .. n /\ \A i \in 1 .. n : seqs[i] \in Seq(S)
  OBVIOUS
<1>2. f = Body(f)
  <2>1. \E g : g = Body(g)
    <3>1. PICK g : Flattens(g, seqs, n)
      BY <1>1, FlattenExists
    <3> QED BY <3>1, Zenon DEF Flattens
  <2> HIDE DEF Body
  <2> QED BY <2>1
<1>3. FlattenSeq(seqs) = IF n = 0 THEN seqs ELSE f[n]
  BY Zenon DEF FlattenSeq
<1> HIDE DEF f
<1>4. \A i \in 1 .. n : f[i] = IF i = 1 THEN seqs[i] ELSE f[i - 1] \o seqs[i]
  BY <1>2
<1> HIDE DEF n
<1> DEFINE Upto(k) == {q \in (1 .. k) \X Nat : q[2] \in 1 .. Len(seqs[q[1]])}
<1> DEFINE Placed(k, at) ==
      /\ Renames(at, 1 .. Len(f[k]), Upto(k))
      /\ \A p \in 1 .. Len(f[k]) : f[k][p] = seqs[at[p][1]][at[p][2]]
<1> DEFINE P == {k \in Nat : k \in 1 .. n => f[k] \in Seq(S) /\ \E at : Placed(k, at)}
<1>5. 0 \in P
  OBVIOUS
<1>6. ASSUME NEW k \in Nat, k \in P, k + 1 \in 1 .. n
      PROVE  f[k + 1] \in Seq(S) /\ \E at : Placed(k + 1, at)
  <2>1. CASE k = 0
    <3>1. f[1] = seqs[1] /\ seqs[1] \in Seq(S)
      BY <1>1, <1>4, <1>6, <2>1
    <3> DEFINE at == [p \in 1 .. Len(f[1]) |-> <<1, p>>]
    <3>2. Placed(1, at)
      <4>1. \A p \in 1 .. Len(f[1]) : at[p] \in Upto(1) /\ at[p][1] = 1 /\ at[p][2] = p
        BY <3>1
      <4>2. \A q \in Upto(1) : q[2] \in 1 .. Len(f[1]) /\ q = <<1, q[2]>>
        BY <3>1
      <4>3. at \in [1 .. Len(f[1]) -> Upto(1)]
        <5> HIDE DEF Upto
        <5> QED BY <4>1
      <4>4. \A q \in Upto(1) : \E p \in 1 .. Len(f[1]) : at[p] = q
        <5> HIDE DEF Upto
        <5> QED BY <4>2
      <4>5. Renames(at, 1 .. Len(f[1]), Upto(1))
        <5> HIDE DEF Upto, at
        <5> QED BY <4>1, <4>3, <4>4 DEF Renames
      <4> HIDE DEF Upto, at
      <4> QED BY <3>1, <4>1, <4>5
    <3> HIDE DEF Placed
    <3> QED BY <2>1, <3>1, <3>2
  <2>2. CASE k # 0
    <3>1. k \in 1 .. n /\ k + 1 # 1 /\ (k + 1) - 1 = k
      BY <1>1, <1>6, <2>2
    <3>2. f[k] \in Seq(S) /\ \E at : Placed(k, at)
      BY <1>6, <3>1
    <3>3. f[k + 1] = f[k] \o seqs[k + 1] /\ seqs[k + 1] \in Seq(S)
      BY <1>1, <1>4, <1>6, <3>1
    <3>4. PICK at : Placed(k, at)
      BY <3>2
    <3>5. PICK a, b, c : a = Len(f[k]) /\ b = Len(seqs[k + 1]) /\ c = k + 1
      OBVIOUS
    <3>6. /\ f[c] \in Seq(S) /\ a \in Nat /\ b \in Nat /\ Len(f[c]) = a + b
          /\ \A p \in 1 .. a : f[c][p] = f[k][p] /\ p <= a
          /\ \A p \in 1 .. b : f[c][a + p] = seqs[c][p]
          /\ \A p \in 1 .. a + b : p > a => p - a \in 1 .. b /\ f[c][p] = seqs[c][p - a]
      <4>1. PICK s, t : s = f[k] /\ t = seqs[c] /\ s \in Seq(S) /\ t \in Seq(S) /\ f[c] = s \o t
        BY <3>2, <3>3, <3>5
      <4>2. a = Len(s) /\ b = Len(t)
        BY <3>5, <4>1
      <4>3. /\ s \o t \in Seq(S) /\ Len(s \o t) = Len(s) + Len(t)
            /\ \A p \in 1 .. Len(s) : (s \o t)[p] = s[p]
            /\ \A p \in 1 .. Len(t) : (s \o t)[Len(s) + p] = t[p]
        <5>1. s \in Seq(S) /\ t \in Seq(S)
          BY <4>1
        <5> QED BY <5>1
      <4>4. a \in Nat /\ b \in Nat
        BY <4>1, <4>2
      <4>5. \A p \in 1 .. a + b : p > a => p - a \in 1 .. b /\ a + (p - a) = p
        BY <4>4
      <4>6. /\ f[c] \in Seq(S) /\ Len(f[c]) = a + b
            /\ \A p \in 1 .. a : f[c][p] = f[k][p]
            /\ \A p \in 1 .. b : f[c][a + p] = seqs[c][p]
        BY <4>1, <4>2, <4>3
      <4>7. \A p \in 1 .. a + b : p > a => p - a \in 1 .. b /\ f[c][p] = seqs[c][p - a]
        <5> TAKE p \in 1 .. a + b
        <5> HAVE p > a
        <5>1. p - a \in 1 .. b /\ f[c][a + (p - a)] = seqs[c][p - a]
          BY <4>5, <4>6
        <5> QED BY <4>5, <5>1
      <4> QED BY <4>4, <4>6, <4>7
    <3> DEFINE up == [p \in 1 .. a + b |-> IF p <= a THEN at[p] ELSE <<c, p - a>>]
    <3>7. Upto(k) \subseteq Upto(c) /\ \A q \in Upto(k) : q[1] # c
      BY <3>5
    <3>8. \A p \in 1 .. a : at[p] \in Upto(k) /\ up[p] = at[p]
      <4>1. at \in [1 .. a -> Upto(k)]
        BY <3>4, <3>5 DEF Renames
      <4>2. \A p \in 1 .. a : p \in 1 .. a + b /\ p <= a
        BY <3>6
      <4> HIDE DEF Upto
      <4> QED BY <4>1, <4>2
    <3>9. \A p \in 1 .. a + b : p > a =>
            up[p] = <<c, p - a>> /\ up[p] \in Upto(c) /\ up[p][1] = c /\ up[p][2] = p - a
      <4> TAKE p \in 1 .. a + b
      <4> HAVE p > a
      <4>1. p - a \in 1 .. b /\ up[p] = <<c, p - a>>
        BY <3>6
      <4>2. c \in 1 .. c /\ b = Len(seqs[c])
        BY <1>6, <3>5
      <4>3. <<c, p - a>> \in Upto(c)
        BY <3>6, <4>1, <4>2
      <4> HIDE DEF up, Upto
      <4> QED BY <4>1, <4>3
    <3>10. \A p \in 1 .. a + b : p \in 1 .. a \/ p > a
      BY <3>6
    <3>11. up \in [1 .. a + b -> Upto(c)]
      <4>1. \A p \in 1 .. a + b : up[p] \in Upto(c)
        <5> HIDE DEF up, Upto
        <5> QED BY <3>7, <3>8, <3>9, <3>10
      <4> HIDE DEF Upto
      <4> QED BY <4>1
    <3>12. \A p, r \in 1 .. a + b : up[p] = up[r] => p = r
      <4> SUFFICES ASSUME NEW p \in 1 .. a + b, NEW r \in 1 .. a + b, up[p] = up[r]
                   PROVE  p = r
        OBVIOUS
      <4> HIDE DEF up, Upto
      <4>1. CASE p \in 1 .. a /\ r \in 1 .. a
        <5>1. at[p] = at[r]
          BY <3>8, <4>1
        <5> QED BY <3>4, <3>5, <4>1, <5>1 DEF Renames
      <4>2. CASE p > a /\ r > a
        <5>1. p - a = r - a
          BY <3>9, <4>2
        <5> QED BY <3>6, <5>1
      <4>3. CASE p \in 1 .. a /\ r > a
        BY <3>7, <3>8, <3>9, <4>3
      <4>4. CASE p > a /\ r \in 1 .. a
        BY <3>7, <3>8, <3>9, <4>4
      <4> QED BY <3>10, <4>1, <4>2, <4>3, <4>4
    <3>13. \A q \in Upto(c) : \E p \in 1 .. a + b : up[p] = q
      <4> TAKE q \in Upto(c)
      <4>1. q[1] = c \/ q \in Upto(k)
        BY <3>5
      <4>2. CASE q[1] = c
        <5>1. q[2] \in 1 .. b /\ q = <<c, q[2]>>
          BY <3>5, <4>2
        <5>2. a + q[2] \in 1 .. a + b /\ a + q[2] > a /\ (a + q[2]) - a = q[2]
          BY <3>6, <5>1
        <5>3. up[a + q[2]] = q
          BY <3>9, <5>1, <5>2
        <5> QED BY <5>2, <5>3
      <4>3. CASE q \in Upto(k)
        <5>1. PICK p \in 1 .. a : at[p] = q
          BY <3>4, <3>5, <4>3 DEF Renames
        <5>2. p \in 1 .. a + b
          BY <3>6
        <5> HIDE DEF up
        <5> QED BY <3>8, <5>1, <5>2
      <4> QED BY <4>1, <4>2, <4>3
    <3>14. Renames(up, 1 .. a + b, Upto(c))
      <4> HIDE DEF up, Upto
      <4> QED BY <3>11, <3>12, <3>13 DEF Renames
    <3>15. \A p \in 1 .. a + b : f[c][p] = seqs[up[p][1]][up[p][2]]
      <4> TAKE p \in 1 .. a + b
      <4> HIDE DEF up, Upto
      <4>1. CASE p \in 1 .. a
        <5>1. f[k][p] = seqs[at[p][1]][at[p][2]]
          BY <3>4, <3>5, <4>1
        <5> QED BY <3>6, <3>8, <4>1, <5>1
      <4>2. CASE p > a
        BY <3>6, <3>9, <4>2
      <4> QED BY <3>10, <4>1, <4>2
    <3>16. Placed(c, up)
      <4> HIDE DEF up, Upto
      <4> QED BY <3>6, <3>14, <3>15
    <3> HIDE DEF Placed
    <3> QED BY <3>5, <3>6, <3>16
  <2> QED BY <2>1, <2>2
<1>7. \A k \in Nat : k \in P
  <2>1. ASSUME NEW k \in Nat, k \in P
        PROVE  k + 1 \in P
    <3>1. k + 1 \in 1 .. n => f[k + 1] \in Seq(S) /\ \E at : Placed(k + 1, at)
      <4> HIDE DEF P, Placed
      <4> QED BY <1>6, <2>1
    <3> HIDE DEF Placed
    <3> QED BY <3>1
  <2> HIDE DEF P
  <2> QED BY <1>5, <2>1, NatInduct
<1>8. CASE n = 0
  <2>1. seqs = <<>> /\ FlattenSeq(seqs) = <<>>
    BY <1>1, <1>3, <1>8
  <2>2. Slots(seqs) = {}
    <3>1. \A q \in Slots(seqs) : q[1] \in 1 .. 0
      BY <2>1 DEF Slots
    <3> QED BY <3>1
  <2>3. Renames(<<>>, 1 .. 0, {})
    BY DEF Renames
  <2>4. 1 .. Len(FlattenSeq(seqs)) = 1 .. 0
    BY <2>1
  <2>5. Renames(<<>>, 1 .. Len(FlattenSeq(seqs)), Slots(seqs))
    BY <2>2, <2>3, <2>4
  <2>6. FlattenSeq(seqs) \in Seq(S) /\ \A p \in 1 .. Len(FlattenSeq(seqs)) : FALSE
    <3>1. <<>> \in Seq(S) /\ \A p \in 1 .. 0 : FALSE
      OBVIOUS
    <3> QED BY <2>1, <2>4, <3>1, Zenon
  <2> QED BY <2>5, <2>6
<1>9. CASE n # 0
  <2>1. n \in 1 .. n
    BY <1>1, <1>9
  <2>2. f[n] \in Seq(S) /\ \E at : Placed(n, at)
    BY <1>1, <1>7, <2>1
  <2>3. Upto(n) = Slots(seqs)
    BY Zenon DEF Slots, n
  <2> HIDE DEF Upto
  <2> QED BY <1>3, <1>9, <2>2, <2>3
<1> QED
  BY <1>8, <1>9

-----------------------------------------------------------------------------
(* Sequences, one element at a time. *)

\* A sequence is empty, or a shorter one with an element behind it.
LEMMA SeqInduct ==
  ASSUME NEW S, NEW P, <<>> \in P,
         \A s \in Seq(S), x \in S : s \in P => Append(s, x) \in P
  PROVE  \A s \in Seq(S) : s \in P
<1> DEFINE N == {n \in Nat : \A s \in Seq(S) : Len(s) = n => s \in P}
<1>1. 0 \in N
  <2>1. \A s \in Seq(S) : Len(s) = 0 => s = <<>>
    OBVIOUS
  <2> QED BY <2>1
<1>2. ASSUME NEW n \in Nat, n \in N PROVE n + 1 \in N
  <2>1. ASSUME NEW s \in Seq(S), Len(s) = n + 1 PROVE s \in P
    <3> DEFINE r == [i \in 1 .. n |-> s[i]]
    <3>1. r \in Seq(S) /\ Len(r) = n /\ s[n + 1] \in S
      BY <2>1
    <3>2. s = Append(r, s[n + 1])
      BY <2>1, <3>1
    <3>3. r \in P
      BY <1>2, <3>1
    <3> HIDE DEF r
    <3>4. Append(r, s[n + 1]) \in P
      BY <3>1, <3>3
    <3> QED BY <3>2, <3>4, Zenon
  <2> QED BY <2>1
<1>3. \A n \in Nat : n \in N
  <2> HIDE DEF N
  <2> QED BY <1>1, <1>2, NatInduct
<1> QED
  BY <1>3

\* A sequence of one.
LEMMA OneIsASequence ==
  ASSUME NEW S, NEW x \in S
  PROVE  <<x>> \in Seq(S)
  OBVIOUS

=============================================================================
