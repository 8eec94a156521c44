---------------------------- MODULE Packer_proofs ----------------------------
(* Proofs about Packer, for any parts tables, netlists, overrides and weights. *)
EXTENDS Packer, DataLemmas

(***************************************************************************)
(* Sorting rearranges                                                      *)
(***************************************************************************)

\* A strict weak order on the positions of a list, as the pairs it orders.
WeakOrder(n, L) ==
  /\ L \in SUBSET ((1 .. n) \X (1 .. n))
  /\ \A i \in 1 .. n : <<i, i>> \notin L
  /\ \A i, j, k \in 1 .. n : <<i, j>> \in L /\ <<j, k>> \in L => <<i, k>> \in L
  /\ \A i, j, k \in 1 .. n : <<i, k>> \in L => <<i, j>> \in L \/ <<j, k>> \in L

\* The positions that a stable sort by such an order puts before each.
AreAhead(n, L, A) ==
  /\ A \in [1 .. n -> SUBSET (1 .. n)]
  /\ \A i, j \in 1 .. n : j \in A[i] <=> <<j, i>> \in L \/ (<<i, j>> \notin L /\ j < i)

\* Stable sorting by such an order takes every position once.
LEMMA StablePlaces ==
  ASSUME NEW n \in Nat, NEW L, WeakOrder(n, L), NEW A, AreAhead(n, L, A)
  PROVE  /\ \A k \in 1 .. n : \E i \in 1 .. n : Cardinality(A[i]) = k - 1
         /\ \A p \in [1 .. n -> 1 .. n] :
              (\A k \in 1 .. n : Cardinality(A[p[k]]) = k - 1) => Renames(p, 1 .. n, 1 .. n)
<1> USE DEF WeakOrder, AreAhead
<1>1. \A i \in 1 .. n : i \notin A[i]
  <2> TAKE i \in 1 .. n
  <2>1. <<i, i>> \notin L /\ ~(i < i)
    OBVIOUS
  <2> QED BY <2>1
<1>2. \A i, j \in 1 .. n : i # j => i \in A[j] \/ j \in A[i]
  <2> TAKE i, j \in 1 .. n
  <2>1. i # j => i < j \/ j < i
    OBVIOUS
  <2> QED BY <2>1, Zenon
<1>3. \A i, j, k \in 1 .. n : i \in A[j] /\ j \in A[k] => i \in A[k]
  <2> SUFFICES ASSUME NEW i \in 1 .. n, NEW j \in 1 .. n, NEW k \in 1 .. n,
                      i \in A[j], j \in A[k]
               PROVE  i \in A[k]
    OBVIOUS
  <2>1. /\ <<i, j>> \in L \/ (<<j, i>> \notin L /\ i < j)
        /\ <<j, k>> \in L \/ (<<k, j>> \notin L /\ j < k)
    BY Zenon
  <2>2. /\ <<i, j>> \in L /\ <<j, k>> \in L => <<i, k>> \in L
        /\ <<i, j>> \in L => <<i, k>> \in L \/ <<k, j>> \in L
        /\ <<j, k>> \in L => <<j, i>> \in L \/ <<i, k>> \in L
        /\ <<k, i>> \in L => <<k, j>> \in L \/ <<j, i>> \in L
    BY Zenon
  <2>3. i < j /\ j < k => i < k
    OBVIOUS
  <2>4. <<i, k>> \in L \/ (<<k, i>> \notin L /\ i < k)
    BY <2>1, <2>2, <2>3, Zenon
  <2> QED BY <2>4, Zenon
<1>4. \A k \in 1 .. n : \E i \in 1 .. n : Cardinality(A[i]) = k - 1
  BY <1>1, <1>2, <1>3, Ranks
<1>5. ASSUME NEW p \in [1 .. n -> 1 .. n], \A k \in 1 .. n : Cardinality(A[p[k]]) = k - 1
      PROVE  Renames(p, 1 .. n, 1 .. n)
  BY <1>1, <1>2, <1>3, <1>5, SortPlaces
<1> QED
  BY <1>4, <1>5

\* A finite set of natural numbers in order: each of them once.
LEMMA InOrderRenames ==
  ASSUME NEW S, S \subseteq Nat, IsFiniteSet(S)
  PROVE  /\ Cardinality(S) \in Nat
         /\ InOrder(S) \in Seq(S) /\ Len(InOrder(S)) = Cardinality(S)
         /\ Renames(InOrder(S), 1 .. Cardinality(S), S)
<1> DEFINE n == Cardinality(S)
<1> DEFINE s == SetToSeq(S)
<1>1. n \in Nat
  BY FS_CardinalityType
<1>3. Renames(s, 1 .. n, S)
  BY SetInAList
<1>2. s \in [1 .. n -> S]
  BY <1>3 DEF Renames
<1>4. Len(s) = n
  BY <1>1, <1>2
<1> DEFINE L == {q \in (1 .. n) \X (1 .. n) : s[q[1]] < s[q[2]]}
<1> DEFINE Ahead(i) == {j \in 1 .. n : s[j] < s[i] \/ (~(s[i] < s[j]) /\ j < i)}
<1> DEFINE A == [i \in 1 .. n |-> {j \in 1 .. n : <<j, i>> \in L \/ (<<i, j>> \notin L /\ j < i)}]
<1> DEFINE p == [k \in 1 .. n |-> CHOOSE i \in 1 .. n : Cardinality(Ahead(i)) = k - 1]
<1>5. InOrder(S) = [k \in 1 .. n |-> s[CHOOSE i \in 1 .. n : Cardinality(Ahead(i)) = k - 1]]
  <2>1. InOrder(S) = [k \in 1 .. Len(s) |-> s[CHOOSE i \in 1 .. Len(s) :
                        Cardinality({j \in 1 .. Len(s) : s[j] < s[i] \/ (~(s[i] < s[j]) /\ j < i)}) = k - 1]]
    BY Zenon DEF InOrder, StableSort
  <2> HIDE DEF s, n
  <2> QED BY <1>4, <2>1, Zenon
<1> HIDE DEF n, s
<1>6. \A i, j \in 1 .. n : <<i, j>> \in L <=> s[i] < s[j]
  OBVIOUS
<1>7. \A i \in 1 .. n : s[i] \in Nat
  BY <1>2
<1>8. WeakOrder(n, L)
  <2>1. L \in SUBSET ((1 .. n) \X (1 .. n))
    OBVIOUS
  <2> HIDE DEF L
  <2> QED BY <1>6, <1>7, <2>1 DEF WeakOrder
<1> HIDE DEF L
<1>9. AreAhead(n, L, A)
  BY DEF AreAhead
<1>10. \A i \in 1 .. n : A[i] = Ahead(i)
  BY <1>6
<1>11. /\ \A k \in 1 .. n : \E i \in 1 .. n : Cardinality(A[i]) = k - 1
       /\ \A r \in [1 .. n -> 1 .. n] :
            (\A k \in 1 .. n : Cardinality(A[r[k]]) = k - 1) => Renames(r, 1 .. n, 1 .. n)
  <2> HIDE DEF A, Ahead
  <2> QED BY <1>1, <1>8, <1>9, StablePlaces
<1> HIDE DEF A, Ahead
<1>12. \A k \in 1 .. n : p[k] \in 1 .. n /\ Cardinality(A[p[k]]) = k - 1
  BY <1>10, <1>11
<1>13. InOrder(S) = [k \in 1 .. n |-> s[p[k]]] /\ p \in [1 .. n -> 1 .. n]
  BY <1>5, <1>12
<1> HIDE DEF p
<1>14. Renames(InOrder(S), 1 .. n, S)
  <2>1. Renames(p, 1 .. n, 1 .. n)
    BY <1>11, <1>12, <1>13
  <2>2. Renames([k \in 1 .. n |-> s[p[k]]], 1 .. n, S)
    BY <1>3, <2>1, RenamesCompose
  <2> QED BY <1>13, <2>2
<1>15. InOrder(S) \in [1 .. n -> S]
  BY <1>14 DEF Renames
<1> QED
  BY <1>1, <1>14, <1>15 DEF n

\* The options in the order of their suffixes, and the packages in the order of
\* the BOM: each place of the unsorted list once.
LEMMA SuffixSorted ==
  ASSUME NEW s, Len(s) \in Nat, \A i \in 1 .. Len(s) : s[i].suffix \in Nat
  PROVE  \E p : /\ Renames(p, 1 .. Len(s), 1 .. Len(s))
                /\ StableSort(s, LAMBDA r, t : r.suffix < t.suffix)
                     = [k \in 1 .. Len(s) |-> s[p[k]]]
<1> DEFINE n == Len(s)
<1> DEFINE L == {q \in (1 .. n) \X (1 .. n) : s[q[1]].suffix < s[q[2]].suffix}
<1> DEFINE Ahead(i) == {j \in 1 .. n : s[j].suffix < s[i].suffix
                                       \/ (~(s[i].suffix < s[j].suffix) /\ j < i)}
<1> DEFINE A == [i \in 1 .. n |-> {j \in 1 .. n : <<j, i>> \in L \/ (<<i, j>> \notin L /\ j < i)}]
<1> DEFINE p == [k \in 1 .. n |-> CHOOSE i \in 1 .. n : Cardinality(Ahead(i)) = k - 1]
<1> DEFINE t == StableSort(s, LAMBDA r, u : r.suffix < u.suffix)
<1>1. t = [k \in 1 .. n |-> s[CHOOSE i \in 1 .. n : Cardinality(Ahead(i)) = k - 1]]
  BY Zenon DEF StableSort
<1>2. n \in Nat
  OBVIOUS
<1> HIDE DEF n, t
<1>3. \A i \in 1 .. n : s[i].suffix \in Nat
  BY DEF n
<1>4. \A i, j \in 1 .. n : <<i, j>> \in L <=> s[i].suffix < s[j].suffix
  OBVIOUS
<1>5. WeakOrder(n, L)
  <2>1. L \in SUBSET ((1 .. n) \X (1 .. n))
    OBVIOUS
  <2> HIDE DEF L
  <2>2. PICK f \in [1 .. n -> Nat] : \A i \in 1 .. n : f[i] = s[i].suffix
    <3>1. [i \in 1 .. n |-> s[i].suffix] \in [1 .. n -> Nat]
      BY <1>3
    <3> QED BY <3>1
  <2>3. \A i, j \in 1 .. n : <<i, j>> \in L <=> f[i] < f[j]
    BY <1>4, <2>2
  <2>4. \A i, j, k \in 1 .. n : <<i, j>> \in L /\ <<j, k>> \in L => <<i, k>> \in L
    BY <2>3
  <2>5. \A i, j, k \in 1 .. n : <<i, k>> \in L => <<i, j>> \in L \/ <<j, k>> \in L
    BY <2>3
  <2> QED BY <2>1, <2>3, <2>4, <2>5 DEF WeakOrder
<1> HIDE DEF L
<1>6. AreAhead(n, L, A)
  BY DEF AreAhead
<1>7. \A i \in 1 .. n : A[i] = Ahead(i)
  BY <1>4
<1> HIDE DEF A, Ahead
<1>8. /\ \A k \in 1 .. n : \E i \in 1 .. n : Cardinality(A[i]) = k - 1
      /\ \A r \in [1 .. n -> 1 .. n] :
           (\A k \in 1 .. n : Cardinality(A[r[k]]) = k - 1) => Renames(r, 1 .. n, 1 .. n)
  BY <1>2, <1>5, <1>6, StablePlaces
<1>9. \A k \in 1 .. n : p[k] \in 1 .. n /\ Cardinality(A[p[k]]) = k - 1
  BY <1>7, <1>8
<1>10. t = [k \in 1 .. n |-> s[p[k]]] /\ p \in [1 .. n -> 1 .. n]
  <2>1. \A k \in 1 .. n : s[p[k]] = s[CHOOSE i \in 1 .. n : Cardinality(Ahead(i)) = k - 1]
    OBVIOUS
  <2>2. p \in [1 .. n -> 1 .. n]
    BY <1>9
  <2> HIDE DEF p
  <2> QED BY <1>1, <2>1, <2>2
<1> HIDE DEF p
<1>11. Renames(p, 1 .. n, 1 .. n)
  BY <1>8, <1>9, <1>10
<1> QED
  BY <1>10, <1>11, Zenon DEF t, n

\* Sorting the packages only reorders them.
LEMMA PackedSorted ==
  ASSUME NEW s, Len(s) \in Nat,
         \A i \in 1 .. Len(s) : s[i].part.suffix \in Nat /\ s[i].cells[1] \in Nat
  PROVE  \E p : /\ Renames(p, 1 .. Len(s), 1 .. Len(s))
                /\ StableSort(s, PackedBefore) = [k \in 1 .. Len(s) |-> s[p[k]]]
<1> DEFINE n == Len(s)
<1> DEFINE L == {q \in (1 .. n) \X (1 .. n) : PackedBefore(s[q[1]], s[q[2]])}
<1> DEFINE Ahead(i) == {j \in 1 .. n : PackedBefore(s[j], s[i])
                                       \/ (~PackedBefore(s[i], s[j]) /\ j < i)}
<1> DEFINE A == [i \in 1 .. n |-> {j \in 1 .. n : <<j, i>> \in L \/ (<<i, j>> \notin L /\ j < i)}]
<1> DEFINE p == [k \in 1 .. n |-> CHOOSE i \in 1 .. n : Cardinality(Ahead(i)) = k - 1]
<1> DEFINE t == StableSort(s, PackedBefore)
<1>1. t = [k \in 1 .. n |-> s[CHOOSE i \in 1 .. n : Cardinality(Ahead(i)) = k - 1]]
  BY Zenon DEF StableSort
<1>2. n \in Nat
  OBVIOUS
<1> HIDE DEF n, t
<1>3. \A i \in 1 .. n : s[i].part.suffix \in Nat /\ s[i].cells[1] \in Nat
  BY DEF n
<1>4. \A i, j \in 1 .. n : <<i, j>> \in L <=>
         \/ s[i].part.suffix < s[j].part.suffix
         \/ s[i].part.suffix = s[j].part.suffix /\ s[i].cells[1] < s[j].cells[1]
  BY DEF PackedBefore
<1>5. \A i, j \in 1 .. n : <<i, j>> \in L <=> PackedBefore(s[i], s[j])
  OBVIOUS
<1>6. WeakOrder(n, L)
  <2>1. L \in SUBSET ((1 .. n) \X (1 .. n))
    OBVIOUS
  <2> HIDE DEF L
  <2>2. PICK f \in [1 .. n -> Nat], g \in [1 .. n -> Nat] :
          \A i \in 1 .. n : f[i] = s[i].part.suffix /\ g[i] = s[i].cells[1]
    <3>1. /\ [i \in 1 .. n |-> s[i].part.suffix] \in [1 .. n -> Nat]
          /\ [i \in 1 .. n |-> s[i].cells[1]] \in [1 .. n -> Nat]
      BY <1>3
    <3> QED BY <3>1
  <2>3. \A i, j \in 1 .. n : <<i, j>> \in L <=> f[i] < f[j] \/ (f[i] = f[j] /\ g[i] < g[j])
    BY <1>4, <2>2
  <2>4. \A i \in 1 .. n : <<i, i>> \notin L
    BY <2>3
  <2>5. \A i, j, k \in 1 .. n : <<i, j>> \in L /\ <<j, k>> \in L => <<i, k>> \in L
    <3> SUFFICES ASSUME NEW i \in 1 .. n, NEW j \in 1 .. n, NEW k \in 1 .. n,
                        <<i, j>> \in L, <<j, k>> \in L
                 PROVE  <<i, k>> \in L
      OBVIOUS
    <3>1. PICK a, b, c \in Nat : a = f[i] /\ b = f[j] /\ c = f[k]
      OBVIOUS
    <3>2. PICK x, y, z \in Nat : x = g[i] /\ y = g[j] /\ z = g[k]
      OBVIOUS
    <3>3. (a < b \/ (a = b /\ x < y)) /\ (b < c \/ (b = c /\ y < z))
      BY <2>3, <3>1, <3>2
    <3>4. a < c \/ (a = c /\ x < z)
      BY <3>3
    <3> QED BY <2>3, <3>1, <3>2, <3>4
  <2>6. \A i, j, k \in 1 .. n : <<i, k>> \in L => <<i, j>> \in L \/ <<j, k>> \in L
    <3> SUFFICES ASSUME NEW i \in 1 .. n, NEW j \in 1 .. n, NEW k \in 1 .. n, <<i, k>> \in L
                 PROVE  <<i, j>> \in L \/ <<j, k>> \in L
      OBVIOUS
    <3>1. PICK a, b, c \in Nat : a = f[i] /\ b = f[j] /\ c = f[k]
      OBVIOUS
    <3>2. PICK x, y, z \in Nat : x = g[i] /\ y = g[j] /\ z = g[k]
      OBVIOUS
    <3>3. a < c \/ (a = c /\ x < z)
      BY <2>3, <3>1, <3>2
    <3>4. (a < b \/ (a = b /\ x < y)) \/ (b < c \/ (b = c /\ y < z))
      BY <3>3
    <3> QED BY <2>3, <3>1, <3>2, <3>4
  <2> QED BY <2>1, <2>4, <2>5, <2>6 DEF WeakOrder
<1> HIDE DEF L
<1>7. AreAhead(n, L, A)
  BY DEF AreAhead
<1>8. \A i \in 1 .. n : A[i] = Ahead(i)
  BY <1>5
<1> HIDE DEF A, Ahead
<1>9. /\ \A k \in 1 .. n : \E i \in 1 .. n : Cardinality(A[i]) = k - 1
      /\ \A r \in [1 .. n -> 1 .. n] :
           (\A k \in 1 .. n : Cardinality(A[r[k]]) = k - 1) => Renames(r, 1 .. n, 1 .. n)
  BY <1>2, <1>6, <1>7, StablePlaces
<1>10. \A k \in 1 .. n : p[k] \in 1 .. n /\ Cardinality(A[p[k]]) = k - 1
  BY <1>8, <1>9
<1>11. t = [k \in 1 .. n |-> s[p[k]]] /\ p \in [1 .. n -> 1 .. n]
  <2>1. \A k \in 1 .. n : s[p[k]] = s[CHOOSE i \in 1 .. n : Cardinality(Ahead(i)) = k - 1]
    OBVIOUS
  <2>2. p \in [1 .. n -> 1 .. n]
    BY <1>10
  <2> HIDE DEF p
  <2> QED BY <1>1, <2>1, <2>2
<1> HIDE DEF p
<1>12. Renames(p, 1 .. n, 1 .. n)
  BY <1>9, <1>10, <1>11
<1> QED
  BY <1>11, <1>12, Zenon DEF t, n

-----------------------------------------------------------------------------
(* The options of a function. *)

\* A row as the packer reads it.
LEMMA RowTypes ==
  ASSUME NEW l \in Libraries
  PROVE  /\ l \in Seq(Rows) /\ Len(l) \in Nat /\ DOMAIN l = 1 .. Len(l)
         /\ ToSet(l) = {l[i] : i \in 1 .. Len(l)}
         /\ \A r \in ToSet(l) : r \in Rows /\ r.cap \in Nat \ {0} /\ r.area \in Nat
                                /\ r.suffix \in Nat
<1>1. l \in Seq(Rows)
  BY LibraryAssumption
<1>2. Len(l) \in Nat /\ DOMAIN l = 1 .. Len(l)
  BY <1>1
<1>3. ToSet(l) = {l[i] : i \in 1 .. Len(l)}
  BY <1>2 DEF ToSet
<1>4. \A r \in ToSet(l) : r \in Rows
  BY DEF Rows
<1> QED
  BY <1>1, <1>2, <1>3, <1>4, LibraryAssumption

\* The options of a function are the rows of its key, all of them.
LEMMA OptionsAreRows ==
  ASSUME NEW l \in Libraries, NEW key
  PROVE  /\ Options(l, key) \in Seq(ToSet(l))
         /\ \A i \in DOMAIN Options(l, key) : PackKey(Options(l, key)[i]) = key
         /\ \A r \in ToSet(l) : PackKey(r) = key =>
              \E i \in DOMAIN Options(l, key) : Options(l, key)[i] = r
<1> DEFINE S == {i \in DOMAIN l : PackKey(l[i]) = key}
<1> DEFINE rows == InOrder(S)
<1> DEFINE s == [k \in DOMAIN rows |-> l[rows[k]]]
<1>1. DOMAIN l = 1 .. Len(l) /\ Len(l) \in Nat
  BY RowTypes
<1>2. S \subseteq Nat /\ IsFiniteSet(S)
  <2>1. IsFiniteSet(DOMAIN l)
    BY <1>1, FS_Interval
  <2>2. S \subseteq DOMAIN l
    OBVIOUS
  <2> QED BY <1>1, <2>1, <2>2, FS_Subset
<1> HIDE DEF S
<1>3. /\ Cardinality(S) \in Nat /\ rows \in Seq(S) /\ Len(rows) = Cardinality(S)
      /\ Renames(rows, 1 .. Cardinality(S), S)
  BY <1>2, InOrderRenames
<1>4. Options(l, key) = StableSort(s, LAMBDA r, t : r.suffix < t.suffix)
  BY Zenon DEF Options, S
<1> HIDE DEF rows
<1>5. PICK m : m = Cardinality(S)
  OBVIOUS
<1>6. /\ m \in Nat /\ DOMAIN rows = 1 .. m /\ Len(s) = m
      /\ \A k \in 1 .. m : rows[k] \in S /\ s[k] = l[rows[k]]
      /\ \A i \in S : \E k \in 1 .. m : rows[k] = i
  <2>1. /\ m \in Nat /\ rows \in [1 .. m -> S]
        /\ \A i \in S : \E k \in 1 .. m : rows[k] = i
    BY <1>3, <1>5 DEF Renames
  <2>2. s = [k \in 1 .. m |-> l[rows[k]]] /\ DOMAIN rows = 1 .. m
    BY <2>1
  <2> HIDE DEF s
  <2> QED BY <2>1, <2>2
<1> HIDE DEF s
<1>7. \A i \in S : l[i] \in ToSet(l) /\ PackKey(l[i]) = key
  BY DEF S, ToSet
<1>8. \A k \in 1 .. m : s[k] \in ToSet(l) /\ PackKey(s[k]) = key /\ s[k].suffix \in Nat
  BY <1>6, <1>7, RowTypes
<1>9. PICK p : Renames(p, 1 .. m, 1 .. m)
               /\ Options(l, key) = [k \in 1 .. m |-> s[p[k]]]
  <2>1. Len(s) \in Nat /\ \A i \in 1 .. Len(s) : s[i].suffix \in Nat
    BY <1>6, <1>8
  <2>2. PICK p : /\ Renames(p, 1 .. Len(s), 1 .. Len(s))
                 /\ StableSort(s, LAMBDA r, t : r.suffix < t.suffix)
                      = [k \in 1 .. Len(s) |-> s[p[k]]]
    BY <2>1, SuffixSorted, Zenon
  <2>3. Len(s) = m
    BY <1>6
  <2>4. Renames(p, 1 .. m, 1 .. m)
    BY <2>2, <2>3, Zenon
  <2>5. Options(l, key) = [k \in 1 .. m |-> s[p[k]]]
    BY <1>4, <2>2, <2>3, Zenon
  <2> QED BY <2>4, <2>5
<1>10. PICK o : o = Options(l, key)
  OBVIOUS
<1>11. /\ p \in [1 .. m -> 1 .. m] /\ \A i \in 1 .. m : \E k \in 1 .. m : p[k] = i
       /\ o = [k \in 1 .. m |-> s[p[k]]]
  BY <1>9, <1>10 DEF Renames
<1>12. o \in Seq(ToSet(l)) /\ DOMAIN o = 1 .. m
       /\ \A k \in 1 .. m : PackKey(o[k]) = key
  <2>1. \A k \in 1 .. m : o[k] = s[p[k]] /\ p[k] \in 1 .. m
    BY <1>11
  <2>2. DOMAIN o = 1 .. m /\ \A k \in 1 .. m : o[k] \in ToSet(l) /\ PackKey(o[k]) = key
    BY <1>8, <1>11, <2>1
  <2>3. o \in [1 .. m -> ToSet(l)]
    BY <1>11, <2>2
  <2> QED BY <1>6, <2>2, <2>3
<1>13. ASSUME NEW r \in ToSet(l), PackKey(r) = key
       PROVE  \E i \in 1 .. m : o[i] = r
  <2>1. PICK i \in S : l[i] = r
    BY <1>13 DEF S, ToSet
  <2>2. PICK k \in 1 .. m : rows[k] = i /\ s[k] = r
    BY <1>6, <2>1
  <2>3. PICK j \in 1 .. m : p[j] = k
    BY <1>11
  <2> QED BY <1>11, <2>2, <2>3
<1> QED
  BY <1>10, <1>12, <1>13

(***************************************************************************)
(* The table of the solver holds the cheapest purchases                    *)
(***************************************************************************)

\* Options to buy from: at least one, each of one gate or more.
Choosable(opts) ==
  /\ Len(opts) \in Nat \ {0} /\ DOMAIN opts = 1 .. Len(opts)
  /\ \A i \in DOMAIN opts : opts[i].cap \in Nat \ {0} /\ opts[i].area \in Nat

\* A purchase says how many packages of each option are bought.
Purchases(opts) == [DOMAIN opts -> Nat]

CapsIn(opts, c) == [i \in DOMAIN opts |-> c[i] * opts[i].cap]
AreasIn(opts, c) == [i \in DOMAIN opts |-> c[i] * opts[i].area]

Bill(opts, c) == SumFunction(AreasIn(opts, c))

\* The product of natural numbers is one.
LEMMA ProductNat ==
  \A a, b \in Nat : a * b \in Nat /\ (a + 1) * b = a * b + b
  OBVIOUS

\* The slots and the bill of a purchase are sums over the options.
LEMMA PurchaseSums ==
  ASSUME NEW opts, Choosable(opts), NEW c \in Purchases(opts)
  PROVE  /\ Summable(CapsIn(opts, c), DOMAIN opts) /\ Summable(AreasIn(opts, c), DOMAIN opts)
         /\ SlotsOf(opts, c) = SumFunctionOnSet(CapsIn(opts, c), DOMAIN opts)
         /\ Bill(opts, c) = SumFunctionOnSet(AreasIn(opts, c), DOMAIN opts)
         /\ SlotsOf(opts, c) \in Nat /\ Bill(opts, c) \in Nat
<1>1. IsFiniteSet(DOMAIN opts)
  BY FS_Interval DEF Choosable
<1>2. \A i \in DOMAIN opts : c[i] \in Nat /\ opts[i].cap \in Nat /\ opts[i].area \in Nat
  BY DEF Choosable, Purchases
<1>3. \A i \in DOMAIN opts : c[i] * opts[i].cap \in Nat /\ c[i] * opts[i].area \in Nat
  BY <1>2, ProductNat
<1>4. Summable(CapsIn(opts, c), DOMAIN opts) /\ Summable(AreasIn(opts, c), DOMAIN opts)
  BY <1>1, <1>3 DEF CapsIn, AreasIn, Summable
<1>5. DOMAIN CapsIn(opts, c) = DOMAIN opts /\ DOMAIN AreasIn(opts, c) = DOMAIN opts
  BY DEF CapsIn, AreasIn
<1>6. SlotsOf(opts, c) = SumFunctionOnSet(CapsIn(opts, c), DOMAIN CapsIn(opts, c))
  BY Zenon DEF SlotsOf, CapsIn, SumFunction
<1>7. Bill(opts, c) = SumFunctionOnSet(AreasIn(opts, c), DOMAIN AreasIn(opts, c))
  BY Zenon DEF Bill, SumFunction
<1>8. /\ SlotsOf(opts, c) = SumFunctionOnSet(CapsIn(opts, c), DOMAIN opts)
      /\ Bill(opts, c) = SumFunctionOnSet(AreasIn(opts, c), DOMAIN opts)
  BY <1>5, <1>6, <1>7, Zenon
<1>9. /\ SumFunctionOnSet(CapsIn(opts, c), DOMAIN opts) \in Nat
      /\ SumFunctionOnSet(AreasIn(opts, c), DOMAIN opts) \in Nat
  BY <1>4, SumFacts
<1> QED
  BY <1>4, <1>8, <1>9

\* Another package adds its gates to the slots and its area to the bill.
LEMMA OneMore ==
  ASSUME NEW opts, Choosable(opts), NEW c \in Purchases(opts), NEW x \in DOMAIN opts,
         NEW d \in Purchases(opts), d[x] = c[x] + 1,
         \A y \in DOMAIN opts : y # x => d[y] = c[y]
  PROVE  /\ SlotsOf(opts, d) = SlotsOf(opts, c) + opts[x].cap
         /\ Bill(opts, d) = Bill(opts, c) + opts[x].area
<1>1. \A i \in DOMAIN opts : c[i] \in Nat /\ opts[i].cap \in Nat /\ opts[i].area \in Nat
  BY DEF Choosable, Purchases
<1>2. /\ CapsIn(opts, d)[x] = CapsIn(opts, c)[x] + opts[x].cap
      /\ AreasIn(opts, d)[x] = AreasIn(opts, c)[x] + opts[x].area
  BY <1>1, ProductNat DEF CapsIn, AreasIn
<1>3. \A y \in DOMAIN opts : y # x => /\ CapsIn(opts, d)[y] = CapsIn(opts, c)[y]
                                      /\ AreasIn(opts, d)[y] = AreasIn(opts, c)[y]
  BY DEF CapsIn, AreasIn
<1>4. SlotsOf(opts, d) = SlotsOf(opts, c) + opts[x].cap
  BY <1>1, <1>2, <1>3, PurchaseSums, SumBump
<1>5. Bill(opts, d) = Bill(opts, c) + opts[x].area
  BY <1>1, <1>2, <1>3, PurchaseSums, SumBump
<1> QED
  BY <1>4, <1>5

\* A purchase of some slots has a package that can be left out.
LEMMA OneLess ==
  ASSUME NEW opts, Choosable(opts), NEW c \in Purchases(opts), SlotsOf(opts, c) # 0
  PROVE  \E x \in DOMAIN opts : c[x] # 0
<1>1. SUFFICES ASSUME \A x \in DOMAIN opts : c[x] = 0 PROVE FALSE
  OBVIOUS
<1>2. \A x \in DOMAIN opts : CapsIn(opts, c)[x] = 0
  BY <1>1 DEF CapsIn, Choosable
<1>3. SumFunctionOnSet(CapsIn(opts, c), DOMAIN opts) = 0
  BY <1>2, PurchaseSums, SumZero
<1> QED
  BY <1>3, PurchaseSums

\* Leaving a package out takes its gates and its area off.
LEMMA LeftOut ==
  ASSUME NEW opts, Choosable(opts), NEW c \in Purchases(opts), NEW x \in DOMAIN opts, c[x] # 0
  PROVE  \E d \in Purchases(opts) : /\ SlotsOf(opts, d) + opts[x].cap = SlotsOf(opts, c)
                                    /\ Bill(opts, d) + opts[x].area = Bill(opts, c)
<1> DEFINE d == [c EXCEPT ![x] = c[x] - 1]
<1>1. c[x] - 1 \in Nat
  BY DEF Purchases
<1>2. d \in Purchases(opts) /\ c[x] = d[x] + 1 /\ \A y \in DOMAIN opts : y # x => c[y] = d[y]
  BY <1>1 DEF Purchases
<1> HIDE DEF d
<1>3. /\ SlotsOf(opts, c) = SlotsOf(opts, d) + opts[x].cap
      /\ Bill(opts, c) = Bill(opts, d) + opts[x].area
  BY <1>2, OneMore
<1> QED
  BY <1>2, <1>3

\* Nothing bought: no slots, nothing to pay.
LEMMA NothingBought ==
  ASSUME NEW opts, Choosable(opts), NEW c \in Purchases(opts), \A i \in DOMAIN opts : c[i] = 0
  PROVE  SlotsOf(opts, c) = 0 /\ Bill(opts, c) = 0
<1>1. \A x \in DOMAIN opts : CapsIn(opts, c)[x] = 0 /\ AreasIn(opts, c)[x] = 0
  BY DEF CapsIn, AreasIn, Choosable
<1> QED
  BY <1>1, PurchaseSums, SumZero

\* A column of the table is right when it holds a purchase of exactly k slots, if
\* there is one, and none is cheaper.
GoodColumn(opts, col, k) ==
  /\ col.reached \in BOOLEAN /\ col.price \in Nat /\ col.counts \in Purchases(opts)
  /\ col.reached => SlotsOf(opts, col.counts) = k /\ Bill(opts, col.counts) = col.price
  /\ \A b \in Purchases(opts) :
       SlotsOf(opts, b) = k => col.reached /\ col.price <= Bill(opts, b)

\* A purchase of some slots is one of fewer, and one package more.
LEMMA LastPackage ==
  ASSUME NEW opts, Choosable(opts), NEW k \in Nat \ {0}, NEW t,
         \A j \in 0 .. k - 1 : GoodColumn(opts, t[j + 1], j),
         NEW b \in Purchases(opts), SlotsOf(opts, b) = k
  PROVE  \E x \in DOMAIN opts :
           /\ opts[x].cap <= k /\ t[k - opts[x].cap + 1].reached
           /\ t[k - opts[x].cap + 1].price + opts[x].area <= Bill(opts, b)
<1>1. PICK x \in DOMAIN opts : b[x] # 0
  BY OneLess
<1>2. PICK d \in Purchases(opts) : /\ SlotsOf(opts, d) + opts[x].cap = SlotsOf(opts, b)
                                   /\ Bill(opts, d) + opts[x].area = Bill(opts, b)
  BY <1>1, LeftOut
<1>3. PICK j : j = k - opts[x].cap
  OBVIOUS
<1>4. /\ opts[x].cap \in Nat \ {0} /\ opts[x].area \in Nat
      /\ SlotsOf(opts, d) \in Nat /\ Bill(opts, d) \in Nat
  BY PurchaseSums DEF Choosable
<1>5. SlotsOf(opts, d) = j /\ j \in 0 .. k - 1 /\ opts[x].cap <= k
  BY <1>2, <1>3, <1>4
<1>6. GoodColumn(opts, t[j + 1], j)
  BY <1>5
<1>7. t[j + 1].reached /\ t[j + 1].price <= Bill(opts, d) /\ t[j + 1].price \in Nat
  BY <1>5, <1>6 DEF GoodColumn
<1>8. t[j + 1].price + opts[x].area <= Bill(opts, b)
  BY <1>2, <1>4, <1>7
<1> QED
  BY <1>3, <1>5, <1>7, <1>8

\* Every column is right when those before it are.
LEMMA ColumnIsGood ==
  ASSUME NEW opts, Choosable(opts), NEW k \in Nat \ {0}, NEW t,
         \A j \in 0 .. k - 1 : GoodColumn(opts, t[j + 1], j)
  PROVE  GoodColumn(opts, Column(opts, t, k), k)
<1> DEFINE reach == {i \in DOMAIN opts : opts[i].cap <= k /\ t[k - opts[i].cap + 1].reached}
<1> DEFINE price(i) == t[k - opts[i].cap + 1].price + opts[i].area
<1> DEFINE best == Min({i \in reach : \A j \in reach : price(i) <= price(j)})
<1> DEFINE none == [reached |-> FALSE, price |-> 0, counts |-> [i \in DOMAIN opts |-> 0]]
<1> DEFINE one == [reached |-> TRUE, price |-> price(best),
                   counts |-> [t[k - opts[best].cap + 1].counts EXCEPT ![best] = @ + 1]]
<1>1. Column(opts, t, k) = IF reach = {} THEN none ELSE one
  BY Zenon DEF Column
<1>2. \A b \in Purchases(opts) : SlotsOf(opts, b) = k =>
        \E x \in reach : price(x) <= Bill(opts, b)
  BY LastPackage
<1>3. CASE reach = {}
  <2>1. Column(opts, t, k) = none
    BY <1>1, <1>3
  <2>2. none.counts \in Purchases(opts)
    BY DEF Purchases
  <2>3. \A b \in Purchases(opts) : SlotsOf(opts, b) # k
    BY <1>2, <1>3
  <2>4. GoodColumn(opts, none, k)
    BY <2>2, <2>3 DEF GoodColumn
  <2> QED BY <2>1, <2>4
<1>4. CASE reach # {}
  <2>1. Column(opts, t, k) = one
    BY <1>1, <1>4
  <2>2. \A i \in reach : /\ k - opts[i].cap \in 0 .. k - 1
                         /\ GoodColumn(opts, t[k - opts[i].cap + 1], k - opts[i].cap)
                         /\ opts[i].area \in Nat /\ opts[i].cap \in Nat /\ i \in DOMAIN opts
                         /\ t[k - opts[i].cap + 1].reached
    BY DEF Choosable
  <2>3. \A i \in reach : price(i) \in Nat
    BY <2>2 DEF GoodColumn
  <2>4. reach \subseteq Nat
    BY DEF Choosable
  <2>5. best \in reach /\ \A j \in reach : price(best) <= price(j)
    <3> DEFINE cost == [i \in reach |-> price(i)]
    <3> DEFINE B == {i \in reach : \A j \in reach : cost[i] <= cost[j]}
    <3> HIDE DEF reach, price
    <3>1. \A i \in reach : cost[i] = price(i) /\ cost[i] \in Nat
      BY <2>3
    <3>2. {i \in reach : \A j \in reach : price(i) <= price(j)} = B
      BY <3>1
    <3>3. best = Min(B)
      BY <3>2, Zenon
    <3> HIDE DEF cost, best
    <3>4. Min(B) \in reach /\ \A j \in reach : cost[Min(B)] <= cost[j]
      BY <1>4, <2>4, <3>1, FirstCheapest
    <3> QED BY <3>1, <3>3, <3>4
  <2> HIDE DEF best
  <2>6. PICK j, col : j = k - opts[best].cap /\ col = t[j + 1]
    OBVIOUS
  <2>7. /\ GoodColumn(opts, col, j) /\ col.reached /\ j + opts[best].cap = k
        /\ opts[best].area \in Nat /\ best \in DOMAIN opts
        /\ price(best) = col.price + opts[best].area /\ price(best) \in Nat
    <3> HIDE DEF reach
    <3> QED BY <2>2, <2>3, <2>5, <2>6
  <2> DEFINE d == [col.counts EXCEPT ![best] = @ + 1]
  <2>8. /\ d \in Purchases(opts) /\ d[best] = col.counts[best] + 1
        /\ \A y \in DOMAIN opts : y # best => d[y] = col.counts[y]
    BY <2>7 DEF GoodColumn, Purchases
  <2>9. one = [reached |-> TRUE, price |-> price(best), counts |-> d]
    BY <2>6
  <2> HIDE DEF d
  <2>10. SlotsOf(opts, d) = k /\ Bill(opts, d) = price(best)
    <3>1. /\ col.counts \in Purchases(opts) /\ SlotsOf(opts, col.counts) = j
          /\ Bill(opts, col.counts) = col.price
      BY <2>7 DEF GoodColumn
    <3>2. /\ SlotsOf(opts, d) = SlotsOf(opts, col.counts) + opts[best].cap
          /\ Bill(opts, d) = Bill(opts, col.counts) + opts[best].area
      BY <2>7, <2>8, <3>1, OneMore
    <3> QED BY <2>7, <3>1, <3>2
  <2>11. \A b \in Purchases(opts) : SlotsOf(opts, b) = k => price(best) <= Bill(opts, b)
    <3> TAKE b \in Purchases(opts)
    <3> HAVE SlotsOf(opts, b) = k
    <3>1. PICK x \in reach : price(x) <= Bill(opts, b)
      BY <1>2
    <3>2. price(best) <= price(x) /\ price(x) \in Nat /\ Bill(opts, b) \in Nat
      BY <2>3, <2>5, PurchaseSums
    <3> HIDE DEF price
    <3> QED BY <2>7, <3>1, <3>2
  <2>12. GoodColumn(opts, one, k)
    <3> HIDE DEF price
    <3> QED BY <2>7, <2>8, <2>9, <2>10, <2>11 DEF GoodColumn
  <2> QED BY <2>1, <2>12
<1> QED
  BY <1>3, <1>4

\* The greatest of the first numbers, and of any set of them that has it.
LEMMA TopOf ==
  ASSUME NEW k \in Nat, NEW s \in SUBSET (1 .. k + 1), k + 1 \in s
  PROVE  Max(s) = k + 1 /\ s \ {Max(s)} \in SUBSET (1 .. k)
<1>1. s \subseteq Nat /\ s # {} /\ \A y \in s : y <= k + 1
  OBVIOUS
<1>2. Max(s) \in s /\ \A y \in s : y <= Max(s)
  BY <1>1, MaxIsGreatest
<1>3. Max(s) = k + 1
  <2>1. PICK m : m = Max(s)
    OBVIOUS
  <2>2. m \in 1 .. k + 1 /\ k + 1 <= m
    BY <1>2, <2>1
  <2>3. m = k + 1
    BY <2>2
  <2> QED BY <2>1, <2>3
<1> QED
  BY <1>3

\* The table column by column, by the largest of the columns it has.
BuildsTable(it, opts, b, ks, S) ==
  it = [s \in SUBSET S |-> IF s = {} THEN b
          ELSE Append(it[s \ {Max(s)}], Column(opts, it[s \ {Max(s)}], ks[Max(s)]))]

\* The fold that builds it is well defined.
LEMMA TableExists ==
  ASSUME NEW opts, NEW b, NEW ks, NEW n \in Nat
  PROVE  \E it : BuildsTable(it, opts, b, ks, 1 .. n)
<1> DEFINE Step(t, i) == Append(t, Column(opts, t, ks[i]))
<1> DEFINE Body(it, k) == [s \in SUBSET (1 .. k) |-> IF s = {} THEN b
                             ELSE Step(it[s \ {Max(s)}], Max(s))]
<1> DEFINE P == {k \in Nat : \E it : it = Body(it, k)}
<1> HIDE DEF Step
<1>1. 0 \in P
  <2> DEFINE e == [s \in SUBSET (1 .. 0) |-> b]
  <2>1. e = Body(e, 0)
    <3>1. \A s \in SUBSET (1 .. 0) : s = {}
      OBVIOUS
    <3> QED BY <3>1
  <2> HIDE DEF Body
  <2> QED BY <2>1
<1>2. ASSUME NEW k \in Nat, k \in P PROVE k + 1 \in P
  <2>1. PICK f : f = Body(f, k)
    BY <1>2
  <2> DEFINE g == [s \in SUBSET (1 .. k + 1) |->
                     IF k + 1 \notin s THEN f[s] ELSE Step(f[s \ {k + 1}], k + 1)]
  <2>2. \A s \in SUBSET (1 .. k) : s \in SUBSET (1 .. k + 1) /\ g[s] = f[s]
    OBVIOUS
  <2>3. \A s \in SUBSET (1 .. k) : f[s] = IF s = {} THEN b ELSE Step(f[s \ {Max(s)}], Max(s))
    BY <2>1
  <2>4. ASSUME NEW s \in SUBSET (1 .. k + 1)
        PROVE  g[s] = IF s = {} THEN b ELSE Step(g[s \ {Max(s)}], Max(s))
    <3>1. CASE k + 1 \notin s
      <4>1. s \in SUBSET (1 .. k) /\ g[s] = f[s]
        BY <3>1
      <4>2. s \ {Max(s)} \in SUBSET (1 .. k)
        BY <4>1
      <4>3. g[s \ {Max(s)}] = f[s \ {Max(s)}]
        BY <2>2, <4>2
      <4> HIDE DEF g
      <4> QED BY <2>3, <4>1, <4>3
    <3>2. CASE k + 1 \in s
      <4>1. Max(s) = k + 1 /\ s \ {Max(s)} \in SUBSET (1 .. k) /\ s # {}
        BY <3>2, TopOf
      <4>2. g[s \ {Max(s)}] = f[s \ {Max(s)}]
        BY <2>2, <4>1
      <4>3. g[s] = Step(f[s \ {k + 1}], k + 1)
        BY <3>2
      <4> HIDE DEF g
      <4> QED BY <4>1, <4>2, <4>3
    <3> QED BY <3>1, <3>2
  <2>5. g = Body(g, k + 1)
    <3>1. DOMAIN g = SUBSET (1 .. k + 1) /\ g = [s \in SUBSET (1 .. k + 1) |-> g[s]]
      OBVIOUS
    <3> HIDE DEF g
    <3> QED BY <2>4, <3>1
  <2> HIDE DEF Body, g
  <2> QED BY <2>5
<1>3. n \in P
  <2> HIDE DEF P
  <2> QED BY <1>1, <1>2, NatInduct
<1>4. PICK f : f = Body(f, n)
  BY <1>3
<1>5. BuildsTable(f, opts, b, ks, 1 .. n)
  BY <1>4, Zenon DEF Step, BuildsTable
<1> QED
  BY <1>5, Zenon

\* The largest package there is.
LEMMA LargestCap ==
  ASSUME NEW opts, Choosable(opts)
  PROVE  LET top == Max({r.cap : r \in ToSet(opts)})
         IN top \in Nat \ {0} /\ \A i \in DOMAIN opts : opts[i].cap <= top
<1> DEFINE T == {r.cap : r \in ToSet(opts)}
<1> DEFINE P == {k \in Nat : \E b \in Nat : \A i \in DOMAIN opts : i <= k => opts[i].cap <= b}
<1>1. T = {opts[i].cap : i \in DOMAIN opts}
  BY DEF ToSet
<1>2. 0 \in P
  BY DEF Choosable
<1>3. ASSUME NEW k \in Nat, k \in P PROVE k + 1 \in P
  <2>1. PICK b \in Nat : \A i \in DOMAIN opts : i <= k => opts[i].cap <= b
    BY <1>3
  <2>2. PICK c \in Nat : k + 1 \in DOMAIN opts => c = opts[k + 1].cap
    BY DEF Choosable
  <2>3. \A i \in DOMAIN opts : i <= k + 1 => opts[i].cap <= b + c
    <3> TAKE i \in DOMAIN opts
    <3> HAVE i <= k + 1
    <3>1. i \in Nat /\ opts[i].cap \in Nat
      BY DEF Choosable
    <3>2. CASE i <= k
      BY <2>1, <3>1, <3>2
    <3>3. CASE i = k + 1
      BY <2>2, <3>1, <3>3
    <3> QED BY <3>1, <3>2, <3>3
  <2>4. b + c \in Nat
    OBVIOUS
  <2> QED BY <2>3, <2>4
<1>4. \A k \in Nat : k \in P
  <2> HIDE DEF P
  <2> QED BY <1>2, <1>3, NatInduct
<1>5. PICK b \in Nat : \A i \in DOMAIN opts : opts[i].cap <= b
  <2>1. Len(opts) \in P /\ \A i \in DOMAIN opts : i <= Len(opts)
    <3>1. Len(opts) \in Nat /\ \A i \in DOMAIN opts : i <= Len(opts)
      BY DEF Choosable
    <3> HIDE DEF P
    <3> QED BY <1>4, <3>1
  <2> QED BY <2>1
<1>6. T \subseteq Nat \ {0} /\ T # {} /\ \A y \in T : y <= b
  <2>1. 1 \in DOMAIN opts /\ \A i \in DOMAIN opts : opts[i].cap \in Nat \ {0}
    BY DEF Choosable
  <2> HIDE DEF T
  <2> QED BY <1>1, <1>5, <2>1
<1>7. \A i \in DOMAIN opts : opts[i].cap \in T
  BY <1>1
<1> HIDE DEF T
<1>8. Max(T) \in T /\ \A y \in T : y <= Max(T)
  <2>1. T \subseteq Nat
    BY <1>6
  <2> QED BY <1>6, <2>1, MaxIsGreatest
<1>9. Max(T) \in Nat \ {0} /\ \A i \in DOMAIN opts : opts[i].cap <= Max(T)
  BY <1>6, <1>7, <1>8
<1> QED
  BY <1>9, Zenon DEF T

\* The table: one column for each number of slots up to the limit, all right.
LEMMA TableIsGood ==
  ASSUME NEW opts, Choosable(opts), NEW n \in Nat \ {0}
  PROVE  \E limit \in Nat :
           /\ limit >= n /\ \A i \in DOMAIN opts : limit >= n + opts[i].cap - 1
           /\ Len(Table(opts, n)) = limit + 1
           /\ \A k \in 0 .. limit : GoodColumn(opts, Table(opts, n)[k + 1], k)
<1> DEFINE limit == n + Max({r.cap : r \in ToSet(opts)}) - 1
<1> DEFINE none == [reached |-> TRUE, price |-> 0, counts |-> [i \in DOMAIN opts |-> 0]]
<1> DEFINE ks == [k \in 1 .. limit |-> k]
<1> DEFINE Body(it) == [s \in SUBSET (DOMAIN ks) |-> IF s = {} THEN <<none>>
              ELSE Append(it[s \ {Max(s)}], Column(opts, it[s \ {Max(s)}], ks[Max(s)]))]
<1> DEFINE f == CHOOSE it : it = Body(it)
<1>1. limit \in Nat /\ limit >= n /\ \A i \in DOMAIN opts : limit >= n + opts[i].cap - 1
  <2>1. PICK top \in Nat \ {0} : /\ top = Max({r.cap : r \in ToSet(opts)})
                                 /\ \A i \in DOMAIN opts : opts[i].cap <= top
    BY LargestCap
  <2>2. limit = n + top - 1
    BY <2>1
  <2> HIDE DEF limit
  <2>3. limit \in Nat /\ limit >= n
    BY <2>2
  <2>4. \A i \in DOMAIN opts : opts[i].cap \in Nat /\ opts[i].cap <= top
    BY <2>1 DEF Choosable
  <2>5. \A i \in DOMAIN opts : limit >= n + opts[i].cap - 1
    BY <2>2, <2>4
  <2> QED BY <2>3, <2>5
<1>2. Table(opts, n) = f[DOMAIN ks]
  BY Zenon DEF Table, FoldLeft, MapThenFoldSet
<1> HIDE DEF limit
<1>3. DOMAIN ks = 1 .. limit /\ \A k \in 1 .. limit : ks[k] = k
  OBVIOUS
<1> HIDE DEF ks
<1>4. f = Body(f)
  <2>1. PICK g : BuildsTable(g, opts, <<none>>, ks, 1 .. limit)
    <3> HIDE DEF none
    <3> QED BY <1>1, TableExists
  <2>2. g = Body(g)
    <3>1. BuildsTable(g, opts, <<none>>, ks, DOMAIN ks)
      BY <1>3, <2>1, Zenon
    <3> HIDE DEF none
    <3> QED BY <3>1, Zenon DEF BuildsTable
  <2> HIDE DEF Body
  <2> QED BY <2>2
<1> HIDE DEF f
<1>5. GoodColumn(opts, none, 0)
  <2>1. none.counts \in Purchases(opts) /\ \A i \in DOMAIN opts : none.counts[i] = 0
    BY DEF Purchases
  <2>2. SlotsOf(opts, none.counts) = 0 /\ Bill(opts, none.counts) = 0
    BY <2>1, NothingBought
  <2>3. \A b \in Purchases(opts) : Bill(opts, b) \in Nat
    BY PurchaseSums
  <2> QED BY <2>1, <2>2, <2>3 DEF GoodColumn
<1> HIDE DEF none
<1> DEFINE T(k) == f[1 .. k]
<1>6. T(0) = <<none>>
  <2>1. 1 .. 0 = {} /\ {} \in SUBSET (DOMAIN ks)
    OBVIOUS
  <2>2. f[{}] = <<none>>
    BY <1>4, <2>1
  <2> QED BY <2>1, <2>2
<1>7. ASSUME NEW k \in Nat, k + 1 \in 1 .. limit
      PROVE  T(k + 1) = Append(T(k), Column(opts, T(k), k + 1))
  <2>1. PICK s : s = 1 .. k + 1
    OBVIOUS
  <2>2. s \in SUBSET (1 .. k + 1) /\ k + 1 \in s /\ s # {}
    BY <2>1
  <2>3. s \in SUBSET (DOMAIN ks)
    <3>1. 1 .. k + 1 \subseteq 1 .. limit
      BY <1>1, <1>7
    <3> QED BY <1>3, <2>1, <3>1
  <2>4. Max(s) = k + 1
    BY <2>2, TopOf
  <2>5. s \ {Max(s)} = 1 .. k
    BY <2>1, <2>4
  <2>6. f[s] = Append(f[s \ {Max(s)}], Column(opts, f[s \ {Max(s)}], ks[Max(s)]))
    BY <1>4, <2>2, <2>3
  <2>7. ks[Max(s)] = k + 1
    BY <1>3, <1>7, <2>4
  <2> QED BY <2>1, <2>5, <2>6, <2>7, Zenon
<1> HIDE DEF T
<1> DEFINE Good(k) == /\ T(k) \in Seq({T(k)[i] : i \in DOMAIN T(k)}) /\ Len(T(k)) = k + 1
                      /\ \A j \in 0 .. k : GoodColumn(opts, T(k)[j + 1], j)
<1> DEFINE P == {k \in Nat : k <= limit => Good(k)}
<1>8. 0 \in P
  BY <1>5, <1>6
<1>9. ASSUME NEW k \in Nat, k \in P PROVE k + 1 \in P
  <2> SUFFICES ASSUME k + 1 <= limit PROVE Good(k + 1)
    OBVIOUS
  <2>1. k + 1 \in 1 .. limit /\ k <= limit
    BY <1>1
  <2>2. PICK t, u, c : t = T(k) /\ u = T(k + 1) /\ c = Column(opts, t, k + 1)
    OBVIOUS
  <2>3. /\ t \in Seq({t[i] : i \in DOMAIN t}) /\ Len(t) = k + 1
        /\ \A j \in 0 .. k : GoodColumn(opts, t[j + 1], j)
    BY <1>9, <2>1, <2>2
  <2>4. u = Append(t, c)
    BY <1>7, <2>1, <2>2
  <2>5. GoodColumn(opts, c, k + 1)
    <3>1. \A j \in 0 .. (k + 1) - 1 : GoodColumn(opts, t[j + 1], j)
      BY <2>3
    <3>2. k + 1 \in Nat \ {0}
      OBVIOUS
    <3> QED BY <2>2, <3>1, <3>2, ColumnIsGood
  <2>6. /\ u \in Seq({u[i] : i \in DOMAIN u}) /\ Len(u) = k + 2
        /\ \A j \in 1 .. k + 1 : u[j] = t[j]
        /\ u[k + 2] = c
    <3>1. PICK S : S = {t[i] : i \in DOMAIN t} \cup {c}
      OBVIOUS
    <3>2. t \in Seq(S) /\ c \in S
      BY <2>3, <3>1
    <3>3. u \in Seq(S) /\ Len(u) = k + 2 /\ (\A j \in 1 .. k + 1 : u[j] = t[j]) /\ u[k + 2] = c
      BY <2>3, <2>4, <3>2
    <3> QED BY <3>3
  <2>7. \A j \in 0 .. k + 1 : GoodColumn(opts, u[j + 1], j)
    <3> TAKE j \in 0 .. k + 1
    <3>1. CASE j <= k
      BY <2>3, <2>6, <3>1
    <3>2. CASE j = k + 1
      BY <2>5, <2>6, <3>2
    <3> QED BY <3>1, <3>2
  <2> QED BY <2>2, <2>6, <2>7
<1>10. limit \in P
  <2> HIDE DEF P
  <2> QED BY <1>1, <1>8, <1>9, NatInduct
<1>11. Table(opts, n) = T(limit)
  BY <1>2, <1>3 DEF T
<1>12. Good(limit)
  BY <1>1, <1>10
<1> QED
  BY <1>1, <1>11, <1>12

\* Larger factors, larger products.
LEMMA ProductMonotone ==
  ASSUME NEW a \in Nat, NEW b \in Nat, NEW w \in Nat, a <= b
  PROVE  a * w \in Nat /\ b * w \in Nat /\ a * w <= b * w
<1>1. PICK d \in Nat : b = a + d
  <2>1. b - a \in Nat /\ b = a + (b - a)
    OBVIOUS
  <2> QED BY <2>1
<1>2. (a + d) * w = a * w + d * w /\ a * w \in Nat /\ d * w \in Nat
  OBVIOUS
<1> QED
  BY <1>1, <1>2

\* What a purchase costs with its spares.
LEMMA PriceTypes ==
  ASSUME NEW opts, Choosable(opts), NEW n \in Nat, NEW w \in Nat,
         NEW b \in Purchases(opts), SlotsOf(opts, b) >= n
  PROVE  /\ PriceOf(opts, b, n, w) = Bill(opts, b) + (SlotsOf(opts, b) - n) * w
         /\ PriceOf(opts, b, n, w) \in Nat
<1>1. PriceOf(opts, b, n, w) = Bill(opts, b) + (SlotsOf(opts, b) - n) * w
  BY Zenon DEF PriceOf, Bill, AreasIn
<1>2. PICK s, p, d \in Nat : s = SlotsOf(opts, b) /\ p = Bill(opts, b) /\ d = s - n
  <2>1. SlotsOf(opts, b) \in Nat /\ Bill(opts, b) \in Nat /\ SlotsOf(opts, b) - n \in Nat
    BY PurchaseSums
  <2> QED BY <2>1
<1>3. p + d * w \in Nat
  BY ProductNat
<1> QED
  BY <1>1, <1>2, <1>3

\* Enough slots can be bought.
LEMMA EnoughCanBeBought ==
  ASSUME NEW opts, Choosable(opts), NEW n \in Nat
  PROVE  \E b \in Purchases(opts) : SlotsOf(opts, b) >= n
<1> DEFINE P == {k \in Nat : \E b \in Purchases(opts) : SlotsOf(opts, b) >= k}
<1>1. 0 \in P
  <2>1. [i \in DOMAIN opts |-> 0] \in Purchases(opts)
    BY DEF Purchases
  <2>2. SlotsOf(opts, [i \in DOMAIN opts |-> 0]) >= 0
    BY <2>1, PurchaseSums
  <2> QED BY <2>1, <2>2
<1>2. ASSUME NEW k \in Nat, k \in P PROVE k + 1 \in P
  <2>1. PICK b \in Purchases(opts) : SlotsOf(opts, b) >= k
    BY <1>2
  <2>2. 1 \in DOMAIN opts /\ opts[1].cap \in Nat \ {0}
    BY DEF Choosable
  <2> DEFINE d == [b EXCEPT ![1] = b[1] + 1]
  <2>3. d \in Purchases(opts) /\ d[1] = b[1] + 1 /\ \A y \in DOMAIN opts : y # 1 => d[y] = b[y]
    BY <2>2 DEF Purchases
  <2> HIDE DEF d
  <2>4. SlotsOf(opts, d) = SlotsOf(opts, b) + opts[1].cap
    BY <2>2, <2>3, OneMore
  <2>5. SlotsOf(opts, b) \in Nat
    BY PurchaseSums
  <2>6. SlotsOf(opts, d) >= k + 1
    BY <2>1, <2>2, <2>4, <2>5
  <2> QED BY <2>3, <2>6
<1>3. n \in P
  <2> HIDE DEF P
  <2> QED BY <1>1, <1>2, NatInduct
<1> QED
  BY <1>3

\* A purchase beyond the limit of the table is no cheaper than one within it.
LEMMA WithinTheTable ==
  ASSUME NEW opts, Choosable(opts), NEW n \in Nat \ {0}, NEW w \in Nat, NEW limit \in Nat,
         limit >= n, \A i \in DOMAIN opts : limit >= n + opts[i].cap - 1,
         NEW t, \A k \in 0 .. limit : GoodColumn(opts, t[k + 1], k),
         NEW c \in Purchases(opts), SlotsOf(opts, c) >= n
  PROVE  \E k \in n .. limit : /\ t[k + 1].reached
                               /\ t[k + 1].price + (k - n) * w <= PriceOf(opts, c, n, w)
<1> DEFINE Met(b) == \E k \in n .. limit :
                       /\ t[k + 1].reached
                       /\ t[k + 1].price + (k - n) * w <= PriceOf(opts, b, n, w)
<1> DEFINE P == {s \in Nat : \A b \in Purchases(opts) :
                               SlotsOf(opts, b) = s /\ s >= n => Met(b)}
<1>1. ASSUME NEW s \in Nat, \A r \in 0 .. s - 1 : r \in P PROVE s \in P
  <2> SUFFICES ASSUME NEW b \in Purchases(opts), SlotsOf(opts, b) = s, s >= n PROVE Met(b)
    OBVIOUS
  <2>1. PriceOf(opts, b, n, w) = Bill(opts, b) + (s - n) * w
    BY PriceTypes
  <2>2. CASE s <= limit
    <3>1. GoodColumn(opts, t[s + 1], s)
      BY <2>2
    <3>2. t[s + 1].reached /\ t[s + 1].price <= Bill(opts, b) /\ t[s + 1].price \in Nat
      BY <3>1 DEF GoodColumn
    <3>3. PICK d \in Nat, e \in Nat : d = s - n /\ e = d * w
      <4>1. s - n \in Nat
        OBVIOUS
      <4>2. (s - n) * w \in Nat
        BY <4>1, ProductNat
      <4> QED BY <4>1, <4>2
    <3>4. t[s + 1].price + (s - n) * w <= PriceOf(opts, b, n, w)
      <4>1. Bill(opts, b) \in Nat
        BY PurchaseSums
      <4> QED BY <2>1, <3>2, <3>3, <4>1
    <3>5. s \in n .. limit
      BY <2>2
    <3> QED BY <3>2, <3>4, <3>5
  <2>3. CASE s > limit
    <3>1. PICK x \in DOMAIN opts : b[x] # 0
      BY OneLess
    <3>2. PICK d \in Purchases(opts) : /\ SlotsOf(opts, d) + opts[x].cap = s
                                       /\ Bill(opts, d) + opts[x].area = Bill(opts, b)
      BY <3>1, LeftOut
    <3>3. PICK r \in Nat : r = SlotsOf(opts, d)
      BY PurchaseSums
    <3>4. opts[x].cap \in Nat \ {0} /\ opts[x].area \in Nat /\ limit >= n + opts[x].cap - 1
      BY DEF Choosable
    <3>5. r \in 0 .. s - 1 /\ r >= n /\ r <= s
      BY <2>3, <3>2, <3>3, <3>4
    <3>6. Met(d)
      BY <1>1, <3>3, <3>5
    <3>7. PriceOf(opts, d, n, w) = Bill(opts, d) + (r - n) * w
      BY <3>3, <3>5, PriceTypes
    <3>8. (r - n) * w <= (s - n) * w /\ (r - n) * w \in Nat /\ (s - n) * w \in Nat
      <4>1. r - n \in Nat /\ s - n \in Nat /\ r - n <= s - n
        BY <3>5
      <4> QED BY <4>1, ProductMonotone
    <3>9. PriceOf(opts, d, n, w) <= PriceOf(opts, b, n, w)
      <4>1. Bill(opts, d) \in Nat /\ Bill(opts, b) \in Nat
        BY PurchaseSums
      <4>2. Bill(opts, d) <= Bill(opts, b)
        BY <3>2, <3>4, <4>1
      <4> QED BY <2>1, <3>7, <3>8, <4>1, <4>2
    <3>10. PICK k \in n .. limit : /\ t[k + 1].reached
                                   /\ t[k + 1].price + (k - n) * w <= PriceOf(opts, d, n, w)
      BY <3>6
    <3>11. t[k + 1].price + (k - n) * w \in Nat
      <4>1. k - n \in Nat /\ k \in 0 .. limit
        OBVIOUS
      <4>2. (k - n) * w \in Nat /\ t[k + 1].price \in Nat
        BY <4>1, ProductNat DEF GoodColumn
      <4> QED BY <4>2
    <3>12. PriceOf(opts, d, n, w) \in Nat /\ PriceOf(opts, b, n, w) \in Nat
      BY <3>3, <3>5, PriceTypes
    <3> QED BY <3>9, <3>10, <3>11, <3>12
  <2>4. s <= limit \/ s > limit
    OBVIOUS
  <2> QED BY <2>2, <2>3, <2>4
<1>2. \A s \in Nat : s \in P
  <2> HIDE DEF P
  <2> QED BY <1>1, NatStrongInduct
<1>3. SlotsOf(opts, c) \in P
  BY <1>2, PurchaseSums
<1> QED
  BY <1>3

\* The solver buys at least n slots, nothing that does is cheaper with its spares
\* priced in, and no package of the purchase can be left out.
LEMMA SolveIsLeast ==
  ASSUME NEW opts, Choosable(opts), NEW n \in Nat \ {0}, NEW w \in Nat
  PROVE  /\ Solve(opts, n, w) \in Purchases(opts)
         /\ SlotsOf(opts, Solve(opts, n, w)) >= n
         /\ \A b \in Purchases(opts) : SlotsOf(opts, b) >= n =>
              PriceOf(opts, Solve(opts, n, w), n, w) <= PriceOf(opts, b, n, w)
         /\ \A x \in DOMAIN opts : Solve(opts, n, w)[x] # 0 =>
              SlotsOf(opts, Solve(opts, n, w)) - opts[x].cap < n
<1>1. PICK limit, t :
        /\ limit \in Nat /\ limit >= n /\ \A i \in DOMAIN opts : limit >= n + opts[i].cap - 1
        /\ t = Table(opts, n) /\ Len(t) = limit + 1
        /\ \A k \in 0 .. limit : GoodColumn(opts, t[k + 1], k)
  BY TableIsGood
<1> DEFINE enough == {k \in n .. limit : t[k + 1].reached}
<1> DEFINE total == [k \in enough |-> t[k + 1].price + (k - n) * w]
<1> DEFINE K == Min({k \in enough : \A j \in enough : total[k] <= total[j]})
<1>2. BestSlots(t, n, w) = K
  <2>1. Len(t) - 1 = limit
    BY <1>1
  <2> DEFINE many == {k \in n .. Len(t) - 1 : t[k + 1].reached}
  <2>2. BestSlots(t, n, w) = Min({k \in many : \A j \in many :
          t[k + 1].price + (k - n) * w <= t[j + 1].price + (j - n) * w})
    BY Zenon DEF BestSlots
  <2>3. many = enough
    BY <2>1
  <2>4. {k \in many : \A j \in many : t[k + 1].price + (k - n) * w <= t[j + 1].price + (j - n) * w}
          = {k \in enough : \A j \in enough : total[k] <= total[j]}
    <3> HIDE DEF enough, many
    <3> QED BY <2>3
  <2> QED BY <2>2, <2>4, Zenon
<1>3. \A k \in enough : /\ k \in n .. limit /\ k \in 0 .. limit /\ t[k + 1].reached
                        /\ GoodColumn(opts, t[k + 1], k) /\ k - n \in Nat
                        /\ total[k] = t[k + 1].price + (k - n) * w /\ total[k] \in Nat
  <2> TAKE k \in enough
  <2>1. k \in n .. limit /\ k \in 0 .. limit /\ t[k + 1].reached /\ k - n \in Nat
    BY <1>1
  <2>2. GoodColumn(opts, t[k + 1], k)
    BY <1>1, <2>1
  <2>3. total[k] = t[k + 1].price + (k - n) * w
    <3> HIDE DEF enough
    <3> QED OBVIOUS
  <2>4. t[k + 1].price + (k - n) * w \in Nat
    <3>1. (k - n) * w \in Nat /\ t[k + 1].price \in Nat
      BY <2>1, <2>2, ProductNat DEF GoodColumn
    <3> QED BY <3>1
  <2> QED BY <2>1, <2>2, <2>3, <2>4
<1>4. \A b \in Purchases(opts) : SlotsOf(opts, b) >= n =>
        \E k \in enough : total[k] <= PriceOf(opts, b, n, w)
  <2> TAKE b \in Purchases(opts)
  <2> HAVE SlotsOf(opts, b) >= n
  <2>1. PICK k \in n .. limit : /\ t[k + 1].reached
                                /\ t[k + 1].price + (k - n) * w <= PriceOf(opts, b, n, w)
    BY <1>1, WithinTheTable
  <2>2. k \in enough
    BY <2>1
  <2> HIDE DEF enough, total
  <2> QED BY <1>3, <2>1, <2>2
<1> HIDE DEF total
<1>5. enough \subseteq Nat /\ enough # {}
  <2>1. \E b \in Purchases(opts) : SlotsOf(opts, b) >= n
    BY EnoughCanBeBought
  <2>2. \A k \in enough : k \in Nat
    BY <1>1
  <2> HIDE DEF enough
  <2> QED BY <1>4, <2>1, <2>2
<1> HIDE DEF enough
<1>6. /\ K \in enough /\ \A j \in enough : total[K] <= total[j]
      /\ \A j \in enough : total[j] = total[K] => K <= j
  BY <1>3, <1>5, FirstCheapest
<1> HIDE DEF K
<1>7. PICK c : c = t[K + 1].counts
  OBVIOUS
<1>8. Solve(opts, n, w) = c
  <2>1. Solve(opts, n, w) = Table(opts, n)[BestSlots(Table(opts, n), n, w) + 1].counts
    BY Zenon DEF Solve
  <2> QED BY <1>1, <1>2, <1>7, <2>1, Zenon
<1>9. /\ c \in Purchases(opts) /\ SlotsOf(opts, c) = K /\ K >= n /\ K \in Nat
      /\ Bill(opts, c) = t[K + 1].price
  <2>1. GoodColumn(opts, t[K + 1], K) /\ t[K + 1].reached /\ K \in n .. limit
    BY <1>3, <1>6
  <2> QED BY <1>7, <2>1 DEF GoodColumn
<1>10. PriceOf(opts, c, n, w) = total[K]
  <2>1. PriceOf(opts, c, n, w) = Bill(opts, c) + (SlotsOf(opts, c) - n) * w
    BY <1>9, PriceTypes
  <2> QED BY <1>3, <1>6, <1>9, <2>1
<1>11. ASSUME NEW b \in Purchases(opts), SlotsOf(opts, b) >= n
       PROVE  PriceOf(opts, c, n, w) <= PriceOf(opts, b, n, w)
  <2>1. PICK k \in enough : total[k] <= PriceOf(opts, b, n, w)
    BY <1>4, <1>11
  <2>2. total[K] <= total[k] /\ total[K] \in Nat /\ total[k] \in Nat
    BY <1>3, <1>6
  <2>3. PriceOf(opts, b, n, w) \in Nat
    BY <1>11, PriceTypes
  <2> QED BY <1>10, <2>1, <2>2, <2>3
<1>12. ASSUME NEW x \in DOMAIN opts, c[x] # 0
       PROVE  K - opts[x].cap < n
  <2> SUFFICES ASSUME K - opts[x].cap >= n PROVE FALSE
    <3>1. opts[x].cap \in Nat
      BY DEF Choosable
    <3> QED BY <1>9, <3>1
  <2>1. PICK d \in Purchases(opts) : /\ SlotsOf(opts, d) + opts[x].cap = SlotsOf(opts, c)
                                     /\ Bill(opts, d) + opts[x].area = Bill(opts, c)
    BY <1>9, <1>12, LeftOut
  <2>2. /\ SlotsOf(opts, d) \in Nat /\ Bill(opts, d) \in Nat /\ Bill(opts, c) \in Nat
        /\ opts[x].cap \in Nat \ {0} /\ opts[x].area \in Nat
    BY <1>9, PurchaseSums DEF Choosable
  <2>3. PICK k \in Nat : k = SlotsOf(opts, d)
    BY <2>2
  <2>4. k = K - opts[x].cap /\ k >= n /\ k < K
    BY <1>9, <2>1, <2>2, <2>3
  <2>5. k \in n .. limit /\ k \in 0 .. limit
    <3>1. K \in n .. limit
      BY <1>3, <1>6
    <3> QED BY <1>1, <2>4, <3>1
  <2>6. GoodColumn(opts, t[k + 1], k)
    BY <1>1, <2>5
  <2>7. t[k + 1].reached /\ t[k + 1].price <= Bill(opts, d) /\ t[k + 1].price \in Nat
    BY <2>3, <2>6 DEF GoodColumn
  <2>8. k \in enough
    BY <2>5, <2>7 DEF enough
  <2>9. total[k] <= total[K]
    <3>1. (k - n) * w <= (K - n) * w /\ (k - n) * w \in Nat /\ (K - n) * w \in Nat
      <4>1. k - n \in Nat /\ K - n \in Nat /\ k - n <= K - n
        BY <1>9, <2>4
      <4> QED BY <4>1, ProductMonotone
    <3>2. total[k] = t[k + 1].price + (k - n) * w /\ total[K] = t[K + 1].price + (K - n) * w
      BY <1>3, <1>6, <2>8
    <3>3. t[k + 1].price <= t[K + 1].price
      BY <1>9, <2>1, <2>2, <2>7
    <3> QED BY <1>9, <2>2, <2>7, <3>1, <3>2, <3>3
  <2>10. total[k] = total[K]
    <3>1. total[K] <= total[k] /\ total[k] \in Nat /\ total[K] \in Nat
      BY <1>3, <1>6, <2>8
    <3> QED BY <2>9, <3>1
  <2> QED BY <1>6, <1>9, <2>4, <2>8, <2>10
<1> QED
  BY <1>8, <1>9, <1>11, <1>12

(***************************************************************************)
(* Filling what was bought                                                 *)
(***************************************************************************)

Buys(opts, c) == FlattenSeq([i \in DOMAIN opts |-> [j \in 1 .. c[i] |-> opts[i]]])
BoughtBy(opts, c, b) == b = Buys(opts, c)

\* What is bought, package by package: an option of the purchase each, and in
\* all the slots and the bill of the purchase.
LEMMA BoughtPackages ==
  ASSUME NEW opts, Choosable(opts), NEW c \in Purchases(opts), NEW b, BoughtBy(opts, c, b)
  PROVE  \E L, caps, areas :
           /\ L \in Nat /\ b \in [1 .. L -> ToSet(opts)]
           /\ \A p \in 1 .. L : \E x \in DOMAIN opts : c[x] # 0 /\ b[p] = opts[x]
           /\ \A p \in 1 .. L : caps[p] = b[p].cap /\ areas[p] = b[p].area
           /\ SumFunctionOnSet(caps, 1 .. L) = SlotsOf(opts, c)
           /\ SumFunctionOnSet(areas, 1 .. L) = Bill(opts, c)
<1> DEFINE seqs == [i \in DOMAIN opts |-> [j \in 1 .. c[i] |-> opts[i]]]
<1>1. PICK n \in Nat : n = Len(opts) /\ DOMAIN opts = 1 .. n
  BY DEF Choosable
<1>2. c \in [1 .. n -> Nat]
  BY <1>1 DEF Purchases
<1>3. \A i \in 1 .. n : /\ opts[i].cap \in Nat /\ opts[i].area \in Nat /\ opts[i] \in ToSet(opts)
                        /\ i \in DOMAIN opts
  BY <1>1 DEF Choosable, ToSet
<1>4. b = FlattenSeq(seqs)
  BY Zenon DEF Buys, BoughtBy
<1>5. /\ seqs \in Seq(Seq(ToSet(opts))) /\ Len(seqs) = n
      /\ \A i \in 1 .. n : Len(seqs[i]) = c[i] /\ \A j \in 1 .. c[i] : seqs[i][j] = opts[i]
  <2>1. \A i \in 1 .. n : [j \in 1 .. c[i] |-> opts[i]] \in Seq(ToSet(opts))
    BY <1>2, <1>3
  <2>2. seqs = [i \in 1 .. n |-> [j \in 1 .. c[i] |-> opts[i]]]
    BY <1>1
  <2> QED BY <1>2, <2>1, <2>2
<1> HIDE DEF seqs
<1>6. PICK Q : Q = RowPlaces(n, c)
  OBVIOUS
<1>7. Slots(seqs) = Q
  <2>1. Slots(seqs) = {q \in (1 .. n) \X Nat : q[2] \in 1 .. Len(seqs[q[1]])}
    BY <1>5, Zenon DEF Slots
  <2>2. \A q \in (1 .. n) \X Nat : Len(seqs[q[1]]) = c[q[1]]
    BY <1>5
  <2> QED BY <1>6, <2>1, <2>2 DEF RowPlaces
<1>8. PICK L, at : /\ b \in Seq(ToSet(opts)) /\ L = Len(b) /\ Renames(at, 1 .. L, Q)
                   /\ \A p \in 1 .. L : b[p] = seqs[at[p][1]][at[p][2]]
  <2>1. PICK s : s = FlattenSeq(seqs)
    OBVIOUS
  <2>2. PICK at : /\ s \in Seq(ToSet(opts)) /\ Renames(at, 1 .. Len(s), Slots(seqs))
                  /\ \A p \in 1 .. Len(s) : s[p] = seqs[at[p][1]][at[p][2]]
    BY <1>5, <2>1, FlattenPositions
  <2> QED BY <1>4, <1>7, <2>1, <2>2
<1>9. \A p \in 1 .. L : /\ at[p] \in Q /\ at[p] \in (1 .. n) \X Nat /\ at[p][1] \in 1 .. n /\ c[at[p][1]] # 0
                        /\ b[p] = opts[at[p][1]]
  <2> TAKE p \in 1 .. L
  <2>1. at[p] \in Q /\ at[p] \in (1 .. n) \X Nat
    BY <1>6, <1>8 DEF Renames, RowPlaces
  <2>2. at[p][1] \in 1 .. n /\ at[p][2] \in 1 .. c[at[p][1]]
    BY <1>6, <2>1 DEF RowPlaces
  <2>3. c[at[p][1]] # 0
    BY <1>2, <2>2
  <2>4. b[p] = opts[at[p][1]]
    BY <1>5, <1>8, <2>2
  <2> QED BY <2>1, <2>2, <2>3, <2>4
<1>10. IsFiniteSet(1 .. L)
  <2>1. L \in Nat
    BY <1>8
  <2> QED BY <2>1, FS_Interval
<1>11. \E h : /\ \A p \in 1 .. L : h[p] = b[p].cap
             /\ SumFunctionOnSet(h, 1 .. L) = SlotsOf(opts, c)
  <2>1. PICK e, k :
          /\ e \in [1 .. n -> Nat] /\ k = CapsIn(opts, c)
          /\ \A i \in 1 .. n : k[i] = c[i] * e[i] /\ e[i] = opts[i].cap
    <3>1. PICK e \in [1 .. n -> Nat] : \A i \in 1 .. n : e[i] = opts[i].cap
      <4>1. [i \in 1 .. n |-> opts[i].cap] \in [1 .. n -> Nat]
        BY <1>3
      <4> QED BY <4>1
    <3>2. PICK k : k = CapsIn(opts, c)
      OBVIOUS
    <3>3. \A i \in 1 .. n : k[i] = c[i] * opts[i].cap
      BY <1>1, <3>2 DEF CapsIn
    <3>4. \A i \in 1 .. n : k[i] = c[i] * e[i]
      BY <3>1, <3>3
    <3> QED BY <3>1, <3>2, <3>4
  <2>2. PICK g : \A q \in (1 .. n) \X Nat : g[q] = e[q[1]]
    <3>1. \A q \in (1 .. n) \X Nat :
            [r \in (1 .. n) \X Nat |-> e[r[1]]][q] = e[q[1]]
      OBVIOUS
    <3> QED BY <3>1
  <2>3. Summable(g, Q) /\ SumFunctionOnSet(g, Q) = SumFunctionOnSet(k, 1 .. n)
    <3>1. ByRow(g, n, e) /\ RowTotals(k, n, c, e) /\ e \in [1 .. n -> Nat]
      BY <2>1, <2>2 DEF ByRow, RowTotals
    <3>2. /\ Summable(g, RowPlaces(n, c))
          /\ SumFunctionOnSet(g, RowPlaces(n, c)) = SumFunctionOnSet(k, 1 .. n)
      BY <1>1, <1>2, <3>1, SumRows
    <3> QED BY <1>6, <3>2
  <2>4. \A p \in 1 .. L : /\ [r \in 1 .. L |-> b[r].cap][p] = g[at[p]]
                          /\ [r \in 1 .. L |-> b[r].cap][p] \in Nat
    <3> TAKE p \in 1 .. L
    <3>1. at[p] \in (1 .. n) \X Nat /\ b[p] = opts[at[p][1]] /\ at[p][1] \in 1 .. n
      BY <1>9
    <3>2. g[at[p]] = opts[at[p][1]].cap
      BY <2>1, <2>2, <3>1
    <3> QED BY <1>3, <3>1, <3>2
  <2>5. PICK h : h = [r \in 1 .. L |-> b[r].cap]
    OBVIOUS
  <2>6. Summable(h, 1 .. L) /\ \A p \in 1 .. L : h[p] = g[at[p]]
    BY <1>10, <2>4, <2>5 DEF Summable
  <2>7. SumFunctionOnSet(h, 1 .. L) = SumFunctionOnSet(g, Q)
    BY <1>8, <2>3, <2>6, SumRenamed
  <2>8. SlotsOf(opts, c) = SumFunctionOnSet(k, 1 .. n)
    BY <1>1, <2>1, PurchaseSums
  <2> QED BY <2>3, <2>5, <2>7, <2>8
<1>12. \E h : /\ \A p \in 1 .. L : h[p] = b[p].area
             /\ SumFunctionOnSet(h, 1 .. L) = Bill(opts, c)
  <2>1. PICK e, k :
          /\ e \in [1 .. n -> Nat] /\ k = AreasIn(opts, c)
          /\ \A i \in 1 .. n : k[i] = c[i] * e[i] /\ e[i] = opts[i].area
    <3>1. PICK e \in [1 .. n -> Nat] : \A i \in 1 .. n : e[i] = opts[i].area
      <4>1. [i \in 1 .. n |-> opts[i].area] \in [1 .. n -> Nat]
        BY <1>3
      <4> QED BY <4>1
    <3>2. PICK k : k = AreasIn(opts, c)
      OBVIOUS
    <3>3. \A i \in 1 .. n : k[i] = c[i] * opts[i].area
      BY <1>1, <3>2 DEF AreasIn
    <3>4. \A i \in 1 .. n : k[i] = c[i] * e[i]
      BY <3>1, <3>3
    <3> QED BY <3>1, <3>2, <3>4
  <2>2. PICK g : \A q \in (1 .. n) \X Nat : g[q] = e[q[1]]
    <3>1. \A q \in (1 .. n) \X Nat :
            [r \in (1 .. n) \X Nat |-> e[r[1]]][q] = e[q[1]]
      OBVIOUS
    <3> QED BY <3>1
  <2>3. Summable(g, Q) /\ SumFunctionOnSet(g, Q) = SumFunctionOnSet(k, 1 .. n)
    <3>1. ByRow(g, n, e) /\ RowTotals(k, n, c, e) /\ e \in [1 .. n -> Nat]
      BY <2>1, <2>2 DEF ByRow, RowTotals
    <3>2. /\ Summable(g, RowPlaces(n, c))
          /\ SumFunctionOnSet(g, RowPlaces(n, c)) = SumFunctionOnSet(k, 1 .. n)
      BY <1>1, <1>2, <3>1, SumRows
    <3> QED BY <1>6, <3>2
  <2>4. \A p \in 1 .. L : /\ [r \in 1 .. L |-> b[r].area][p] = g[at[p]]
                          /\ [r \in 1 .. L |-> b[r].area][p] \in Nat
    <3> TAKE p \in 1 .. L
    <3>1. at[p] \in (1 .. n) \X Nat /\ b[p] = opts[at[p][1]] /\ at[p][1] \in 1 .. n
      BY <1>9
    <3>2. g[at[p]] = opts[at[p][1]].area
      BY <2>1, <2>2, <3>1
    <3> QED BY <1>3, <3>1, <3>2
  <2>5. PICK h : h = [r \in 1 .. L |-> b[r].area]
    OBVIOUS
  <2>6. Summable(h, 1 .. L) /\ \A p \in 1 .. L : h[p] = g[at[p]]
    BY <1>10, <2>4, <2>5 DEF Summable
  <2>7. SumFunctionOnSet(h, 1 .. L) = SumFunctionOnSet(g, Q)
    BY <1>8, <2>3, <2>6, SumRenamed
  <2>8. Bill(opts, c) = SumFunctionOnSet(k, 1 .. n)
    BY <1>1, <2>1, PurchaseSums
  <2> QED BY <2>3, <2>5, <2>7, <2>8
<1>13. \A p \in 1 .. L : \E x \in DOMAIN opts : c[x] # 0 /\ b[p] = opts[x]
  BY <1>3, <1>9
<1>14. L \in Nat /\ b \in [1 .. L -> ToSet(opts)]
  BY <1>8
<1> QED
  BY <1>11, <1>12, <1>13, <1>14

Filled(members, b) ==
  LET Fill(acc, part) ==
        [cursor |-> acc.cursor + part.cap,
         filled |-> Append(acc.filled,
                      Package(part, SubSeq(members, acc.cursor + 1,
                                           Min({acc.cursor + part.cap, Len(members)}))))]
  IN FoldLeft(Fill, [cursor |-> 0, filled |-> <<>>], b).filled

\* The packages filled one by one, by the last of those that are filled.
FillsGroup(it, members, b, S) ==
  it = [s \in SUBSET S |->
          IF s = {} THEN [cursor |-> 0, filled |-> <<>>]
          ELSE [cursor |-> it[s \ {Max(s)}].cursor + b[Max(s)].cap,
                filled |-> Append(it[s \ {Max(s)}].filled,
                             Package(b[Max(s)],
                                     SubSeq(members, it[s \ {Max(s)}].cursor + 1,
                                            Min({it[s \ {Max(s)}].cursor + b[Max(s)].cap,
                                                 Len(members)}))))]]

\* The fold that fills them is well defined.
LEMMA FillExists ==
  ASSUME NEW members, NEW b, NEW n \in Nat
  PROVE  \E it : FillsGroup(it, members, b, 1 .. n)
<1> DEFINE e0 == [cursor |-> 0, filled |-> <<>>]
<1> DEFINE Step(acc, i) ==
      [cursor |-> acc.cursor + b[i].cap,
       filled |-> Append(acc.filled,
                    Package(b[i], SubSeq(members, acc.cursor + 1,
                                         Min({acc.cursor + b[i].cap, Len(members)}))))]
<1> DEFINE Body(it, k) == [s \in SUBSET (1 .. k) |-> IF s = {} THEN e0
                             ELSE Step(it[s \ {Max(s)}], Max(s))]
<1> DEFINE P == {k \in Nat : \E it : it = Body(it, k)}
<1> HIDE DEF Step, e0
<1>1. 0 \in P
  <2> DEFINE e == [s \in SUBSET (1 .. 0) |-> e0]
  <2>1. e = Body(e, 0)
    <3>1. \A s \in SUBSET (1 .. 0) : s = {}
      OBVIOUS
    <3> QED BY <3>1
  <2> HIDE DEF Body
  <2> QED BY <2>1
<1>2. ASSUME NEW k \in Nat, k \in P PROVE k + 1 \in P
  <2>1. PICK f : f = Body(f, k)
    BY <1>2
  <2> DEFINE g == [s \in SUBSET (1 .. k + 1) |->
                     IF k + 1 \notin s THEN f[s] ELSE Step(f[s \ {k + 1}], k + 1)]
  <2>2. \A s \in SUBSET (1 .. k) : s \in SUBSET (1 .. k + 1) /\ g[s] = f[s]
    OBVIOUS
  <2>3. \A s \in SUBSET (1 .. k) : f[s] = IF s = {} THEN e0 ELSE Step(f[s \ {Max(s)}], Max(s))
    BY <2>1
  <2>4. ASSUME NEW s \in SUBSET (1 .. k + 1)
        PROVE  g[s] = IF s = {} THEN e0 ELSE Step(g[s \ {Max(s)}], Max(s))
    <3>1. CASE k + 1 \notin s
      <4>1. s \in SUBSET (1 .. k) /\ g[s] = f[s]
        BY <3>1
      <4>2. s \ {Max(s)} \in SUBSET (1 .. k)
        BY <4>1
      <4>3. g[s \ {Max(s)}] = f[s \ {Max(s)}]
        BY <2>2, <4>2
      <4> HIDE DEF g
      <4> QED BY <2>3, <4>1, <4>3
    <3>2. CASE k + 1 \in s
      <4>1. Max(s) = k + 1 /\ s \ {Max(s)} \in SUBSET (1 .. k) /\ s # {}
        BY <3>2, TopOf
      <4>2. g[s \ {Max(s)}] = f[s \ {Max(s)}]
        BY <2>2, <4>1
      <4>3. g[s] = Step(f[s \ {k + 1}], k + 1)
        BY <3>2
      <4> HIDE DEF g
      <4> QED BY <4>1, <4>2, <4>3
    <3> QED BY <3>1, <3>2
  <2>5. g = Body(g, k + 1)
    <3>1. DOMAIN g = SUBSET (1 .. k + 1) /\ g = [s \in SUBSET (1 .. k + 1) |-> g[s]]
      OBVIOUS
    <3> HIDE DEF g
    <3> QED BY <2>4, <3>1
  <2> HIDE DEF Body, g
  <2> QED BY <2>5
<1>3. n \in P
  <2> HIDE DEF P
  <2> QED BY <1>1, <1>2, NatInduct
<1>4. PICK f : f = Body(f, n)
  BY <1>3
<1>5. FillsGroup(f, members, b, 1 .. n)
  BY <1>4, Zenon DEF Step, FillsGroup, e0
<1> QED
  BY <1>5, Zenon

\* Each package takes the cells from where the one before it stopped counting.
FilledFrom(b, members, pre, p) ==
  Package(b[p], SubSeq(members, pre[p - 1] + 1, Min({pre[p - 1] + b[p].cap, Len(members)})))

IsFilled(g, members, b, L) ==
  /\ g \in Seq({g[i] : i \in 1 .. L}) /\ Len(g) = L
  /\ \E pre : /\ pre[0] = 0 /\ \A p \in 1 .. L : pre[p] = pre[p - 1] + b[p].cap
              /\ \A p \in 1 .. L : g[p] = FilledFrom(b, members, pre, p)

\* The fold makes such packages of what was bought.
LEMMA FilledPackages ==
  ASSUME NEW R, NEW L \in Nat, NEW b \in [1 .. L -> R], NEW members
  PROVE  IsFilled(Filled(members, b), members, b, L)
<1>1. L \in Nat /\ DOMAIN b = 1 .. L
  OBVIOUS
<1> DEFINE Body(it) ==
  [s \in SUBSET (DOMAIN b) |->
          IF s = {} THEN [cursor |-> 0, filled |-> <<>>]
          ELSE [cursor |-> it[s \ {Max(s)}].cursor + b[Max(s)].cap,
                filled |-> Append(it[s \ {Max(s)}].filled,
                             Package(b[Max(s)],
                                     SubSeq(members, it[s \ {Max(s)}].cursor + 1,
                                            Min({it[s \ {Max(s)}].cursor + b[Max(s)].cap,
                                                 Len(members)}))))]]
<1> DEFINE f == CHOOSE it : it = Body(it)
<1>2. Filled(members, b) = f[DOMAIN b].filled
  BY Zenon DEF Filled, FoldLeft, MapThenFoldSet
<1>3. f = Body(f)
  <2>1. PICK g : FillsGroup(g, members, b, 1 .. L)
    BY <1>1, FillExists
  <2>2. g = Body(g)
    <3>1. FillsGroup(g, members, b, DOMAIN b)
      BY <1>1, <2>1, Zenon
    <3> QED BY <3>1, Zenon DEF FillsGroup
  <2> HIDE DEF Body
  <2> QED BY <2>2
<1> HIDE DEF f
<1> DEFINE T(k) == f[1 .. k]
<1>4. T(0) = [cursor |-> 0, filled |-> <<>>]
  <2>1. 1 .. 0 = {} /\ {} \in SUBSET (DOMAIN b)
    OBVIOUS
  <2>2. f[{}] = [cursor |-> 0, filled |-> <<>>]
    BY <1>3, <2>1
  <2> QED BY <2>1, <2>2
<1> DEFINE Next1(acc, p) ==
      [cursor |-> acc.cursor + b[p].cap,
       filled |-> Append(acc.filled,
                    Package(b[p], SubSeq(members, acc.cursor + 1,
                                         Min({acc.cursor + b[p].cap, Len(members)}))))]
<1>5. ASSUME NEW k \in Nat, k + 1 \in 1 .. L
      PROVE  T(k + 1) = Next1(T(k), k + 1)
  <2>1. PICK s : s = 1 .. k + 1
    OBVIOUS
  <2>2. s \in SUBSET (1 .. k + 1) /\ k + 1 \in s /\ s # {}
    <3>1. k + 1 \in 1 .. k + 1
      OBVIOUS
    <3> QED BY <2>1, <3>1, Zenon
  <2>3. s \in SUBSET (DOMAIN b)
    <3>1. 1 .. k + 1 \subseteq 1 .. L
      BY <1>1, <1>5
    <3> QED BY <1>1, <2>1, <3>1
  <2>4. Max(s) = k + 1
    BY <2>2, TopOf
  <2>5. s \ {Max(s)} = 1 .. k
    BY <2>1, <2>4
  <2>6. f[s] = Next1(f[s \ {Max(s)}], Max(s))
    <3>1. f[s] = IF s = {} THEN [cursor |-> 0, filled |-> <<>>] ELSE Next1(f[s \ {Max(s)}], Max(s))
      <4>1. f = [r \in SUBSET (DOMAIN b) |->
                   IF r = {} THEN [cursor |-> 0, filled |-> <<>>]
                   ELSE Next1(f[r \ {Max(r)}], Max(r))]
        BY <1>3, Zenon
      <4> HIDE DEF Next1
      <4> QED BY <2>3, <4>1
    <3> HIDE DEF Next1
    <3> QED BY <2>2, <3>1
  <2> HIDE DEF Next1
  <2> QED BY <2>1, <2>4, <2>5, <2>6, Zenon
<1> HIDE DEF T
<1> DEFINE pre == [k \in 0 .. L |-> T(k).cursor]
<1>6. pre[0] = 0 /\ \A p \in 1 .. L : pre[p] = pre[p - 1] + b[p].cap
  <2>1. pre[0] = 0
    BY <1>1, <1>4
  <2>2. ASSUME NEW p \in 1 .. L PROVE pre[p] = pre[p - 1] + b[p].cap
    <3>1. PICK k \in Nat : p = k + 1
      <4>1. p - 1 \in Nat /\ p = (p - 1) + 1
        OBVIOUS
      <4> QED BY <4>1
    <3>2. T(p) = Next1(T(k), p)
      BY <1>5, <3>1
    <3>3. T(p).cursor = T(k).cursor + b[p].cap
      BY <3>2
    <3>4. p \in 0 .. L /\ k \in 0 .. L /\ p - 1 = k
      BY <1>1, <3>1
    <3> QED BY <3>3, <3>4
  <2> QED BY <2>1, <2>2
<1>7. \A k \in 0 .. L : pre[k] = T(k).cursor
  OBVIOUS
<1> HIDE DEF pre
<1> DEFINE Good(k) == /\ T(k).filled \in Seq({T(k).filled[i] : i \in DOMAIN T(k).filled})
                      /\ Len(T(k).filled) = k
                      /\ \A p \in 1 .. k : T(k).filled[p] = FilledFrom(b, members, pre, p)
<1> DEFINE P == {k \in Nat : k <= L => Good(k)}
<1>8. 0 \in P
  <2>1. PICK r : r = T(0).filled
    OBVIOUS
  <2>2. r = <<>>
    BY <1>4, <2>1
  <2>3. r \in Seq({r[i] : i \in DOMAIN r}) /\ Len(r) = 0 /\ \A p \in 1 .. 0 : FALSE
    BY <2>2
  <2>4. Good(0)
    BY <2>1, <2>3
  <2> HIDE DEF Good
  <2> QED BY <2>4
<1>9. ASSUME NEW k \in Nat, k \in P PROVE k + 1 \in P
  <2> SUFFICES ASSUME k + 1 <= L PROVE Good(k + 1)
    OBVIOUS
  <2>1. k + 1 \in 1 .. L /\ k <= L /\ k \in 0 .. L /\ (k + 1) - 1 = k
    BY <1>1
  <2>2. PICK t, u, c : t = T(k).filled /\ u = T(k + 1).filled /\ c = FilledFrom(b, members, pre, k + 1)
    OBVIOUS
  <2>3. /\ t \in Seq({t[i] : i \in DOMAIN t}) /\ Len(t) = k
        /\ \A p \in 1 .. k : t[p] = FilledFrom(b, members, pre, p)
    BY <1>9, <2>1, <2>2
  <2>4. u = Append(t, c)
    <3>1. T(k + 1) = Next1(T(k), k + 1)
      BY <1>5, <2>1
    <3>2. c = Package(b[k + 1], SubSeq(members, T(k).cursor + 1,
                                       Min({T(k).cursor + b[k + 1].cap, Len(members)})))
      BY <1>7, <2>1, <2>2, Zenon DEF FilledFrom
    <3> QED BY <2>2, <3>1, <3>2
  <2>5. /\ u \in Seq({u[i] : i \in DOMAIN u}) /\ Len(u) = k + 1
        /\ \A p \in 1 .. k : u[p] = t[p]
        /\ u[k + 1] = c
    <3>1. PICK S : S = {t[i] : i \in DOMAIN t} \cup {c}
      OBVIOUS
    <3>2. t \in Seq(S) /\ c \in S
      BY <2>3, <3>1
    <3>3. u \in Seq(S) /\ Len(u) = k + 1 /\ (\A p \in 1 .. k : u[p] = t[p]) /\ u[k + 1] = c
      BY <2>3, <2>4, <3>2
    <3> QED BY <3>3
  <2>6. \A p \in 1 .. k + 1 : u[p] = FilledFrom(b, members, pre, p)
    <3> TAKE p \in 1 .. k + 1
    <3>1. CASE p \in 1 .. k
      BY <2>3, <2>5, <3>1
    <3>2. CASE p = k + 1
      BY <2>2, <2>5, <3>2
    <3> QED BY <3>1, <3>2
  <2> QED BY <2>2, <2>5, <2>6
<1>10. L \in P
  <2> HIDE DEF P
  <2> QED BY <1>1, <1>8, <1>9, NatInduct
<1>11. Good(L)
  BY <1>1, <1>10
<1>12. Filled(members, b) = T(L).filled
  BY <1>1, <1>2 DEF T
<1>13. PICK r : r = T(L).filled
  OBVIOUS
<1>14. /\ r \in Seq({r[i] : i \in 1 .. L}) /\ Len(r) = L
       /\ \A p \in 1 .. L : r[p] = FilledFrom(b, members, pre, p)
  <2>1. /\ r \in Seq({r[i] : i \in DOMAIN r}) /\ Len(r) = L
        /\ \A p \in 1 .. L : r[p] = FilledFrom(b, members, pre, p)
    BY <1>11, <1>13
  <2>2. DOMAIN r = 1 .. L
    BY <1>1, <2>1
  <2> QED BY <2>1, <2>2
<1>15. IsFilled(r, members, b, L)
  BY <1>6, <1>14 DEF IsFilled
<1> QED
  BY <1>12, <1>13, <1>15, Zenon

\* Packages that hold each cell of a set once, and no other cell.
PacksOnce(ps, C) ==
  /\ \A i \in 1 .. Len(ps) : \A j \in 1 .. Len(ps[i].cells) : ps[i].cells[j] \in C
  /\ \A n \in C : \E i \in 1 .. Len(ps) : \E j \in 1 .. Len(ps[i].cells) : ps[i].cells[j] = n
  /\ \A i, k \in 1 .. Len(ps) : \A j \in 1 .. Len(ps[i].cells), m \in 1 .. Len(ps[k].cells) :
       ps[i].cells[j] = ps[k].cells[m] => i = k /\ j = m

\* Packages of some parts and cells, none empty, none fuller than its part.
Packages(P, C) == [part : P, cells : Seq(C)]
AllFit(ps) == \A i \in 1 .. Len(ps) : Len(ps[i].cells) \in 1 .. ps[i].part.cap

\* A slice, by positions.
LEMMA SubSeqPositions ==
  ASSUME NEW S, NEW s \in Seq(S), NEW a \in Nat, NEW e \in Nat, a < e, e <= Len(s)
  PROVE  /\ SubSeq(s, a + 1, e) \in Seq(S) /\ Len(SubSeq(s, a + 1, e)) = e - a
         /\ \A j \in 1 .. e - a : SubSeq(s, a + 1, e)[j] = s[a + j]
  OBVIOUS

\* The lesser of two numbers.
LEMMA MinOfTwo ==
  ASSUME NEW a \in Nat, NEW b \in Nat
  PROVE  Min({a, b}) \in Nat /\ Min({a, b}) = IF a <= b THEN a ELSE b
<1>1. PICK m, T : m = Min(T) /\ T = {a, b}
  OBVIOUS
<1>2. T \subseteq Nat /\ T # {}
  BY <1>1
<1>3. m \in T /\ \A y \in T : m <= y
  BY <1>1, <1>2, MinIsLeast
<1>4. m \in Nat /\ m = IF a <= b THEN a ELSE b
  BY <1>1, <1>3
<1> QED
  BY <1>1, <1>4

\* The packages of the purchase that the solver found, and what they hold.
LeastBought(opts, n, w, c, b, L, caps) ==
  /\ c = Solve(opts, n, w)
  /\ L \in Nat /\ b \in [1 .. L -> ToSet(opts)]
  /\ \A p \in 1 .. L : \E x \in DOMAIN opts : c[x] # 0 /\ b[p] = opts[x]
  /\ \A p \in 1 .. L : caps[p] = b[p].cap
  /\ SumFunctionOnSet(caps, 1 .. L) = SlotsOf(opts, c)

\* What Fill makes of a purchase: where each package begins and ends, the last
\* one alone with spares.
LEMMA GroupEnds ==
  ASSUME NEW opts, Choosable(opts), NEW w \in Nat, NEW n \in Nat \ {0},
         NEW c, NEW b, NEW L, NEW caps, LeastBought(opts, n, w, c, b, L, caps),
         NEW pre, pre[0] = 0, \A p \in 1 .. L : pre[p] = pre[p - 1] + b[p].cap
  PROVE  /\ L \in Nat \ {0} /\ \A p \in 1 .. L : b[p].cap \in Nat \ {0} /\ b[p].area \in Nat
         /\ \A p \in 0 .. L : pre[p] \in Nat
         /\ \A p, q \in 0 .. L : p <= q => pre[p] <= pre[q]
         /\ \A p \in 0 .. L - 1 : pre[p] < n
         /\ pre[L] = SlotsOf(opts, c) /\ pre[L] >= n
<1>1. /\ c \in Purchases(opts) /\ SlotsOf(opts, c) >= n
      /\ \A x \in DOMAIN opts : c[x] # 0 => SlotsOf(opts, c) - opts[x].cap < n
  <2>1. c = Solve(opts, n, w)
    BY DEF LeastBought
  <2> QED BY <2>1, SolveIsLeast
<1>2. /\ L \in Nat /\ \A p \in 1 .. L : \E x \in DOMAIN opts : c[x] # 0 /\ b[p] = opts[x]
      /\ SumFunctionOnSet(caps, 1 .. L) = SlotsOf(opts, c)
  BY DEF LeastBought
<1>3. L \in Nat
  BY <1>2
<1>4. \A p \in 1 .. L : b[p].cap \in Nat \ {0} /\ b[p].area \in Nat
  BY <1>2 DEF Choosable
<1>6. /\ \A p \in 1 .. L : caps[p] \in Nat
      /\ \A p \in 1 .. L : pre[p] = pre[p - 1] + caps[p]
  BY <1>4 DEF LeastBought
<1>7. \A k \in 0 .. L : pre[k] = SumFunctionOnSet(caps, 1 .. k) /\ pre[k] \in Nat
  BY <1>3, <1>6, PrefixTotal
<1>8. \A p, q \in 0 .. L : p <= q => pre[p] <= pre[q]
  BY <1>3, <1>6, PrefixRises
<1>9. pre[L] = SlotsOf(opts, c) /\ pre[L] >= n
  BY <1>1, <1>2, <1>3, <1>7
<1>10. L # 0
  BY <1>9
<1>11. pre[L - 1] < n
  <2>1. L \in 1 .. L /\ L - 1 \in 0 .. L
    BY <1>3, <1>10
  <2>2. PICK x \in DOMAIN opts : c[x] # 0 /\ b[L] = opts[x]
    BY <1>2, <2>1
  <2>3. SlotsOf(opts, c) - b[L].cap < n
    BY <1>1, <2>2
  <2>4. pre[L] = pre[L - 1] + b[L].cap /\ pre[L - 1] \in Nat /\ b[L].cap \in Nat
    BY <1>4, <1>7, <2>1
  <2> QED BY <1>9, <2>3, <2>4
<1>12. \A p \in 0 .. L - 1 : pre[p] < n
  <2> TAKE p \in 0 .. L - 1
  <2>1. p \in 0 .. L /\ L - 1 \in 0 .. L /\ p <= L - 1
    BY <1>3, <1>10
  <2>2. pre[p] <= pre[L - 1] /\ pre[p] \in Nat /\ pre[L - 1] \in Nat
    BY <1>7, <1>8, <2>1
  <2> QED BY <1>11, <2>2
<1> QED
  BY <1>3, <1>4, <1>7, <1>8, <1>9, <1>10, <1>12

\* A set in a list, each element once.
Listed(members, n, C) == members \in Seq(C) /\ n = Len(members) /\ Renames(members, 1 .. n, C)

\* Packages that hold a set of cells once each and cost what the solver found.
WellFilled(g, opts, w, n, C) ==
  /\ g \in Seq(Packages(ToSet(opts), C)) /\ AllFit(g) /\ PacksOnce(g, C)
  /\ PackCost(g, DOMAIN g, w) = PriceOf(opts, Solve(opts, n, w), n, w)

\* The free cells of a function are packed so.
LEMMA GroupIsPacked ==
  ASSUME NEW opts, Choosable(opts), NEW w \in Nat, NEW C, NEW members, NEW n \in Nat \ {0},
         Listed(members, n, C)
  PROVE  WellFilled(PackGroup(members, opts, w), opts, w, n, C)
<1> SUFFICES ASSUME NEW g, g = PackGroup(members, opts, w), members \in Seq(C),
                    n = Len(members), Renames(members, 1 .. n, C)
             PROVE  /\ g \in Seq(Packages(ToSet(opts), C)) /\ AllFit(g) /\ PacksOnce(g, C)
                    /\ PackCost(g, DOMAIN g, w) = PriceOf(opts, Solve(opts, n, w), n, w)
  BY Zenon DEF Listed, WellFilled
<1>1. PICK c, b : c = Solve(opts, n, w) /\ b = Buys(opts, c)
  OBVIOUS
<1>2. g = Filled(members, b)
  <2>1. PackGroup(members, opts, w)
          = Filled(members, Buys(opts, Solve(opts, Len(members), w)))
    BY Zenon DEF PackGroup, Filled, Buys
  <2> QED BY <1>1, <2>1, Zenon
<1>3. /\ c \in Purchases(opts) /\ SlotsOf(opts, c) >= n
  BY <1>1, SolveIsLeast
<1>4. PICK L, caps, areas :
        /\ L \in Nat /\ b \in [1 .. L -> ToSet(opts)]
        /\ \A p \in 1 .. L : \E x \in DOMAIN opts : c[x] # 0 /\ b[p] = opts[x]
        /\ \A p \in 1 .. L : caps[p] = b[p].cap /\ areas[p] = b[p].area
        /\ SumFunctionOnSet(caps, 1 .. L) = SlotsOf(opts, c)
        /\ SumFunctionOnSet(areas, 1 .. L) = Bill(opts, c)
  <2>1. BoughtBy(opts, c, b)
    BY <1>1 DEF BoughtBy
  <2> QED BY <1>3, <2>1, BoughtPackages
<1>5. /\ g \in Seq({g[i] : i \in 1 .. L}) /\ Len(g) = L
      /\ \E pre : /\ pre[0] = 0 /\ \A p \in 1 .. L : pre[p] = pre[p - 1] + b[p].cap
                  /\ \A p \in 1 .. L : g[p] = FilledFrom(b, members, pre, p)
  <2>1. IsFilled(Filled(members, b), members, b, L)
    BY <1>4, FilledPackages
  <2>2. IsFilled(g, members, b, L)
    BY <1>2, <2>1, Zenon
  <2> QED BY <2>2 DEF IsFilled
<1>6. PICK pre : /\ pre[0] = 0 /\ \A p \in 1 .. L : pre[p] = pre[p - 1] + b[p].cap
                 /\ \A p \in 1 .. L : g[p] = FilledFrom(b, members, pre, p)
  BY <1>5
<1>7. /\ L \in Nat \ {0} /\ \A p \in 1 .. L : b[p].cap \in Nat \ {0} /\ b[p].area \in Nat
      /\ \A p \in 0 .. L : pre[p] \in Nat
      /\ \A p, q \in 0 .. L : p <= q => pre[p] <= pre[q]
      /\ \A p \in 0 .. L - 1 : pre[p] < n
      /\ pre[L] = SlotsOf(opts, c) /\ pre[L] >= n
  <2>1. LeastBought(opts, n, w, c, b, L, caps)
    BY <1>1, <1>4 DEF LeastBought
  <2> QED BY <1>6, <2>1, GroupEnds
<1> DEFINE last(p) == IF pre[p] <= n THEN pre[p] ELSE n
<1>8. \A p \in 1 .. L : /\ p \in 0 .. L /\ p - 1 \in 0 .. L /\ p - 1 \in 0 .. L - 1
                        /\ pre[p - 1] \in Nat /\ last(p) \in Nat /\ pre[p] \in Nat
                        /\ pre[p] = pre[p - 1] + b[p].cap /\ pre[p - 1] < n
                        /\ pre[p - 1] < last(p) /\ last(p) <= n /\ last(p) <= pre[p]
  <2> TAKE p \in 1 .. L
  <2>1. p \in 0 .. L /\ p - 1 \in 0 .. L /\ p - 1 \in 0 .. L - 1
    BY <1>7
  <2>2. /\ pre[p - 1] \in Nat /\ pre[p] \in Nat /\ pre[p - 1] < n
        /\ pre[p] = pre[p - 1] + b[p].cap /\ b[p].cap \in Nat \ {0}
    BY <1>6, <1>7, <2>1
  <2>3. last(p) \in Nat /\ pre[p - 1] < last(p) /\ last(p) <= n /\ last(p) <= pre[p]
    BY <2>2
  <2> QED BY <2>1, <2>2, <2>3
<1>9. \A p \in 1 .. L : /\ g[p].part = b[p] /\ b[p] \in ToSet(opts) /\ g[p].cells \in Seq(C)
                        /\ g[p] = Package(b[p], g[p].cells)
                        /\ Len(g[p].cells) = last(p) - pre[p - 1]
                        /\ \A j \in 1 .. last(p) - pre[p - 1] : g[p].cells[j] = members[pre[p - 1] + j]
  <2> TAKE p \in 1 .. L
  <2>1. PICK a, e : a = pre[p - 1] /\ e = last(p)
    OBVIOUS
  <2>2. Min({pre[p - 1] + b[p].cap, Len(members)}) = e
    <3>1. pre[p - 1] + b[p].cap = pre[p] /\ pre[p] \in Nat /\ Len(members) = n
      BY <1>8
    <3>2. Min({pre[p], n}) = last(p)
      BY <1>8, MinOfTwo
    <3> HIDE DEF last
    <3> QED BY <2>1, <3>1, <3>2
  <2>3. g[p] = Package(b[p], SubSeq(members, a + 1, e))
    BY <1>6, <2>1, <2>2, Zenon DEF FilledFrom
  <2>4. a \in Nat /\ e \in Nat /\ a < e /\ e <= Len(members)
    BY <1>8, <2>1
  <2> HIDE DEF last
  <2>5. PICK s : s = SubSeq(members, a + 1, e)
    OBVIOUS
  <2>6. s \in Seq(C) /\ Len(s) = e - a /\ \A j \in 1 .. e - a : s[j] = members[a + j]
    BY <2>4, <2>5, SubSeqPositions
  <2>7. g[p] = Package(b[p], s)
    BY <2>3, <2>5, Zenon
  <2>8. g[p].part = b[p] /\ g[p].cells = s
    BY <2>7 DEF Package
  <2>9. b[p] \in ToSet(opts)
    BY <1>4
  <2>10. g[p] = Package(b[p], g[p].cells)
    BY <2>7, <2>8, Zenon
  <2>11. /\ s \in Seq(C) /\ Len(s) = last(p) - pre[p - 1]
         /\ \A j \in 1 .. last(p) - pre[p - 1] : s[j] = members[pre[p - 1] + j]
    BY <2>1, <2>6
  <2> QED BY <2>8, <2>9, <2>10, <2>11
<1>10. g \in Seq(Packages(ToSet(opts), C))
  <2>1. \A p \in 1 .. L : g[p] \in Packages(ToSet(opts), C)
    <3> TAKE p \in 1 .. L
    <3>1. PICK x, z : x = b[p] /\ z = g[p].cells
      OBVIOUS
    <3>2. x \in ToSet(opts) /\ z \in Seq(C) /\ g[p] = Package(x, z)
      BY <1>9, <3>1
    <3>3. g[p] = [part |-> x, cells |-> z]
      BY <3>2, Zenon DEF Package
    <3> QED BY <3>2, <3>3 DEF Packages
  <2> QED BY <1>5, <2>1
<1>11. AllFit(g)
  <2> SUFFICES ASSUME NEW p \in 1 .. L PROVE Len(g[p].cells) \in 1 .. g[p].part.cap
    BY <1>5 DEF AllFit
  <2>1. PICK a, e, k : /\ a = pre[p - 1] /\ e = last(p) /\ k = b[p].cap
                       /\ a \in Nat /\ e \in Nat /\ k \in Nat /\ a < e /\ e <= a + k
    <3>1. /\ pre[p - 1] \in Nat /\ last(p) \in Nat /\ b[p].cap \in Nat
          /\ pre[p - 1] < last(p) /\ last(p) <= pre[p - 1] + b[p].cap
      <4> HIDE DEF last
      <4>1. pre[p] = pre[p - 1] + b[p].cap /\ pre[p - 1] < last(p) /\ last(p) <= pre[p]
        BY <1>8
      <4> QED BY <1>7, <1>8, <4>1
    <3> HIDE DEF last
    <3> QED BY <3>1
  <2> HIDE DEF last
  <2>2. Len(g[p].cells) = e - a /\ g[p].part.cap = k
    BY <1>9, <2>1
  <2> QED BY <2>1, <2>2
<1>12. /\ members \in [1 .. n -> C] /\ \A r, q \in 1 .. n : members[r] = members[q] => r = q
       /\ \A x \in C : \E r \in 1 .. n : members[r] = x
  BY DEF Renames
<1>13. \A p \in 1 .. L : \A j \in 1 .. Len(g[p].cells) :
         /\ pre[p - 1] + j \in 1 .. n /\ g[p].cells[j] = members[pre[p - 1] + j]
         /\ j \in Nat \ {0} /\ pre[p - 1] + j <= pre[p]
  <2> TAKE p \in 1 .. L
  <2> TAKE j \in 1 .. Len(g[p].cells)
  <2>1. PICK a, e \in Nat : a = pre[p - 1] /\ e = last(p) /\ e <= n /\ e <= pre[p] /\ a < e
                            /\ Len(g[p].cells) = e - a /\ pre[p] \in Nat
    BY <1>8, <1>9
  <2> HIDE DEF last
  <2>2. j \in 1 .. e - a
    BY <2>1
  <2>3. a + j \in 1 .. n /\ a + j <= pre[p] /\ j \in Nat \ {0}
    BY <2>1, <2>2
  <2> QED BY <1>9, <2>1, <2>2, <2>3
<1>14. \A r \in 1 .. n : \E p \in 1 .. L : \E j \in 1 .. Len(g[p].cells) : r = pre[p - 1] + j
  <2> TAKE r \in 1 .. n
  <2> DEFINE H == {p \in 1 .. L : r <= pre[p]}
  <2>1. L \in H
    BY <1>7
  <2>2. H \subseteq Nat
    OBVIOUS
  <2>3. PICK p \in H : \A q \in H : p <= q
    <3> HIDE DEF H
    <3> QED BY <2>1, <2>2, NatSmallest
  <2>4. p \in 1 .. L /\ r <= pre[p]
    OBVIOUS
  <2>5. pre[p - 1] < r
    <3>1. CASE p = 1
      BY <1>6, <3>1
    <3>2. CASE p # 1
      <4>1. p - 1 \in 1 .. L /\ ~(p <= p - 1)
        BY <1>7, <2>4, <3>2
      <4>2. p - 1 \notin H
        BY <2>3, <4>1
      <4> QED BY <1>8, <2>4, <4>1, <4>2
    <3> QED BY <3>1, <3>2
  <2>6. r - pre[p - 1] \in 1 .. last(p) - pre[p - 1]
    <3>1. r <= last(p) /\ last(p) \in Nat /\ pre[p - 1] \in Nat
      BY <1>8, <2>4
    <3> HIDE DEF last
    <3> QED BY <2>5, <3>1
  <2>7. r = pre[p - 1] + (r - pre[p - 1])
    BY <1>8, <2>4
  <2>8. Len(g[p].cells) = last(p) - pre[p - 1]
    BY <1>9, <2>4
  <2> HIDE DEF last, H
  <2>9. PICK j : j = r - pre[p - 1]
    OBVIOUS
  <2>10. j \in 1 .. Len(g[p].cells) /\ r = pre[p - 1] + j
    BY <2>6, <2>7, <2>8, <2>9
  <2> QED BY <2>4, <2>10
<1>15. \A p, q \in 1 .. L : \A j \in 1 .. Len(g[p].cells), m \in 1 .. Len(g[q].cells) :
         pre[p - 1] + j = pre[q - 1] + m => p = q /\ j = m
  <2>1. \A p, q \in 1 .. L : \A j \in 1 .. Len(g[p].cells), m \in 1 .. Len(g[q].cells) :
          p < q => pre[p - 1] + j < pre[q - 1] + m
    <3> TAKE p, q \in 1 .. L
    <3> TAKE j \in 1 .. Len(g[p].cells), m \in 1 .. Len(g[q].cells)
    <3> HAVE p < q
    <3>1. pre[p - 1] + j <= pre[p] /\ m \in Nat \ {0} /\ j \in Nat
      BY <1>13
    <3>2. pre[p] <= pre[q - 1]
      <4>1. p <= q - 1 /\ p \in 0 .. L /\ q - 1 \in 0 .. L
        BY <1>8
      <4> QED BY <1>7, <4>1
    <3>3. pre[p] \in Nat /\ pre[q - 1] \in Nat /\ pre[p - 1] \in Nat
      BY <1>8
    <3> HIDE DEF last
    <3> QED BY <3>1, <3>2, <3>3
  <2> SUFFICES ASSUME NEW p \in 1 .. L, NEW q \in 1 .. L,
                      NEW j \in 1 .. Len(g[p].cells), NEW m \in 1 .. Len(g[q].cells),
                      pre[p - 1] + j = pre[q - 1] + m
               PROVE  p = q /\ j = m
    OBVIOUS
  <2>2. /\ j \in Nat /\ m \in Nat /\ pre[p - 1] \in Nat /\ pre[q - 1] \in Nat
    BY <1>8, <1>13
  <2> HIDE DEF last
  <2>3. ~(p < q) /\ ~(q < p)
    BY <2>1, <2>2
  <2>4. p = q
    BY <2>3
  <2> QED BY <2>2, <2>4
<1>16. PacksOnce(g, C)
  <2> HIDE DEF last
  <2>1. \A p \in 1 .. L : \A j \in 1 .. Len(g[p].cells) : g[p].cells[j] \in C
    BY <1>12, <1>13
  <2>2. \A x \in C : \E p \in 1 .. L : \E j \in 1 .. Len(g[p].cells) : g[p].cells[j] = x
    <3> TAKE x \in C
    <3>1. PICK r \in 1 .. n : members[r] = x
      BY <1>12
    <3>2. PICK p \in 1 .. L : \E j \in 1 .. Len(g[p].cells) : r = pre[p - 1] + j
      BY <1>14
    <3>3. PICK j \in 1 .. Len(g[p].cells) : r = pre[p - 1] + j
      BY <3>2
    <3>4. g[p].cells[j] = x
      BY <1>13, <3>1, <3>3
    <3> QED BY <3>4
  <2>3. \A p, q \in 1 .. L : \A j \in 1 .. Len(g[p].cells), m \in 1 .. Len(g[q].cells) :
          g[p].cells[j] = g[q].cells[m] => p = q /\ j = m
    <3> SUFFICES ASSUME NEW p \in 1 .. L, NEW q \in 1 .. L,
                        NEW j \in 1 .. Len(g[p].cells), NEW m \in 1 .. Len(g[q].cells),
                        g[p].cells[j] = g[q].cells[m]
                 PROVE  p = q /\ j = m
      OBVIOUS
    <3>1. members[pre[p - 1] + j] = members[pre[q - 1] + m]
      BY <1>13
    <3>2. pre[p - 1] + j = pre[q - 1] + m
      BY <1>12, <1>13, <3>1
    <3> QED BY <1>15, <3>2
  <2> QED BY <1>5, <2>1, <2>2, <2>3 DEF PacksOnce
<1>17. PackCost(g, DOMAIN g, w) = PriceOf(opts, Solve(opts, n, w), n, w)
  <2>1. PICK a, k : a = areas /\ k = [i \in DOMAIN g |-> Cost(g[i], w)]
    OBVIOUS
  <2>2. DOMAIN g = 1 .. L
    BY <1>5
  <2>3. \A p \in 1 .. L : a[p] \in Nat /\ a[p] = b[p].area
    BY <1>4, <1>7, <2>1
  <2>4. \A p \in 1 .. L : k[p] = a[p] + (b[p].cap - (last(p) - pre[p - 1])) * w
    <3> HIDE DEF last
    <3> QED BY <1>9, <2>1, <2>2, <2>3 DEF Cost, Spare
  <2>5. \A p \in 1 .. L : p # L => k[p] = a[p]
    <3> TAKE p \in 1 .. L
    <3> HAVE p # L
    <3>1. p \in 0 .. L - 1
      BY <1>7
    <3>2. pre[p] < n
      BY <1>7, <3>1
    <3>3. b[p].cap - (last(p) - pre[p - 1]) = 0
      <4>1. last(p) = pre[p] /\ b[p].cap \in Nat
        BY <1>7, <1>8, <3>2
      <4> HIDE DEF last
      <4> QED BY <1>8, <4>1
    <3> HIDE DEF last
    <3>4. 0 * w = 0
      OBVIOUS
    <3> QED BY <2>3, <2>4, <3>3, <3>4
  <2>6. PICK d \in Nat : d = (SlotsOf(opts, c) - n) * w
    <3>1. SlotsOf(opts, c) - n \in Nat
      BY <1>3, PurchaseSums
    <3>2. (SlotsOf(opts, c) - n) * w \in Nat
      BY <3>1, ProductNat
    <3> QED BY <3>2
  <2>7. k[L] = a[L] + d
    <3>1. L \in 1 .. L
      BY <1>7
    <3>2. last(L) = n
      BY <1>7, <1>8, <3>1
    <3>3. b[L].cap - (last(L) - pre[L - 1]) = SlotsOf(opts, c) - n
      <4>1. pre[L] = pre[L - 1] + b[L].cap /\ pre[L] = SlotsOf(opts, c)
            /\ pre[L - 1] \in Nat /\ b[L].cap \in Nat
        BY <1>7, <1>8, <3>1
      <4> HIDE DEF last
      <4> QED BY <3>2, <4>1
    <3> HIDE DEF last
    <3> QED BY <2>4, <2>6, <3>1, <3>3
  <2> HIDE DEF last
  <2>8. \A p \in 1 .. L : k[p] \in Nat
    BY <2>3, <2>5, <2>6, <2>7
  <2>9. Summable(a, 1 .. L) /\ Summable(k, 1 .. L)
    <3>1. IsFiniteSet(1 .. L)
      BY <1>7, FS_Interval
    <3> QED BY <2>3, <2>8, <3>1 DEF Summable
  <2>10. SumFunctionOnSet(k, 1 .. L) = SumFunctionOnSet(a, 1 .. L) + d
    <3>1. PICK T, x : T = 1 .. L /\ x = L /\ x \in T
      BY <1>7
    <3>2. /\ Summable(a, T) /\ Summable(k, T) /\ k[x] = a[x] + d
          /\ \A y \in T : y # x => k[y] = a[y]
      BY <2>5, <2>7, <2>9, <3>1
    <3>3. SumFunctionOnSet(k, T) = SumFunctionOnSet(a, T) + d
      BY <3>1, <3>2, SumBump
    <3> QED BY <3>1, <3>3
  <2>11. PackCost(g, DOMAIN g, w) = SumFunctionOnSet(k, 1 .. L)
    <3>1. PackCost(g, DOMAIN g, w) = SumFunctionOnSet(k, DOMAIN g)
      BY <2>1, Zenon DEF PackCost
    <3> QED BY <2>2, <3>1, Zenon
  <2>12. PriceOf(opts, c, n, w) = Bill(opts, c) + d
    BY <1>3, <2>6, PriceTypes
  <2> QED BY <1>1, <1>4, <2>1, <2>10, <2>11, <2>12
<1> QED
  BY <1>10, <1>11, <1>16, <1>17
(***************************************************************************)
(* Packages put together                                                   *)
(***************************************************************************)

\* Packages of rows of the library that hold the cells of a set once each, every
\* cell in a package of its function.
Packing(l, m, ps, C) ==
  /\ ps \in Seq(Packages(ToSet(l), C)) /\ AllFit(ps) /\ PacksOnce(ps, C)
  /\ \A i \in 1 .. Len(ps) : \A j \in 1 .. Len(ps[i].cells) :
       KeyOf(l, m, ps[i].cells[j]) = PackKey(ps[i].part)

\* What that says of each package, and of each cell.
Parted(l, m, ps, C) ==
  /\ Len(ps) \in Nat /\ DOMAIN ps = 1 .. Len(ps)
  /\ \A i \in 1 .. Len(ps) :
       /\ ps[i] = Package(ps[i].part, ps[i].cells)
       /\ ps[i].part \in ToSet(l) /\ ps[i].cells \in Seq(C)
       /\ Len(ps[i].cells) \in Nat /\ Len(ps[i].cells) \in 1 .. ps[i].part.cap
       /\ \A j \in 1 .. Len(ps[i].cells) :
            /\ ps[i].cells[j] \in C
            /\ KeyOf(l, m, ps[i].cells[j]) = PackKey(ps[i].part)
  /\ \A n \in C : \E i \in 1 .. Len(ps) : \E j \in 1 .. Len(ps[i].cells) : ps[i].cells[j] = n

\* A packing is so parted.
LEMMA PackingParts ==
  ASSUME NEW l, NEW m, NEW ps, NEW C, Packing(l, m, ps, C)
  PROVE  Parted(l, m, ps, C)
<1>1. ps \in Seq(Packages(ToSet(l), C))
  BY DEF Packing
<1>2. Len(ps) \in Nat /\ DOMAIN ps = 1 .. Len(ps)
  BY <1>1
<1>3. \A i \in 1 .. Len(ps) : ps[i] \in Packages(ToSet(l), C)
  BY <1>1
<1>4. \A x \in Packages(ToSet(l), C) :
        x = Package(x.part, x.cells) /\ x.part \in ToSet(l) /\ x.cells \in Seq(C)
  BY DEF Packages, Package
<1>5. \A i \in 1 .. Len(ps) :
        /\ ps[i] = Package(ps[i].part, ps[i].cells)
        /\ ps[i].part \in ToSet(l) /\ ps[i].cells \in Seq(C) /\ Len(ps[i].cells) \in Nat
  BY <1>3, <1>4
<1>6. /\ \A i \in 1 .. Len(ps) : Len(ps[i].cells) \in 1 .. ps[i].part.cap
      /\ \A i \in 1 .. Len(ps) : \A j \in 1 .. Len(ps[i].cells) :
           ps[i].cells[j] \in C /\ KeyOf(l, m, ps[i].cells[j]) = PackKey(ps[i].part)
      /\ \A n \in C : \E i \in 1 .. Len(ps) : \E j \in 1 .. Len(ps[i].cells) : ps[i].cells[j] = n
  BY DEF Packing, AllFit, PacksOnce
<1> QED
  BY <1>2, <1>5, <1>6 DEF Parted

\* No two places hold the same cell.
LEMMA PackingOnce ==
  ASSUME NEW l, NEW m, NEW ps, NEW C, Packing(l, m, ps, C),
         NEW i \in 1 .. Len(ps), NEW k \in 1 .. Len(ps),
         NEW j \in 1 .. Len(ps[i].cells), NEW r \in 1 .. Len(ps[k].cells),
         ps[i].cells[j] = ps[k].cells[r]
  PROVE  i = k /\ j = r
  BY DEF Packing, PacksOnce

\* Packings of disjoint sets of cells, the n first of a list.
Packings(l, m, seqs, n, C, D) ==
  /\ \A i \in 1 .. n : Packing(l, m, seqs[i], C[i])
  /\ \A i, k \in 1 .. n : C[i] \cap C[k] # {} => i = k
  /\ \A i \in 1 .. n : C[i] \subseteq D
  /\ \A x \in D : \E i \in 1 .. n : x \in C[i]

\* A list of the packages of some lists, each taken once.
Gathers(ps, N, seqs, at) ==
  /\ ps \in [1 .. N -> {ps[p] : p \in 1 .. N}]
  /\ Renames(at, 1 .. N, Slots(seqs))
  /\ \A p \in 1 .. N : ps[p] = seqs[at[p][1]][at[p][2]]

\* Packings of disjoint sets of cells, each package of each of them taken once.
LEMMA GatheredPacked ==
  ASSUME NEW l, NEW m, NEW seqs, NEW C, NEW D, Packings(l, m, seqs, Len(seqs), C, D),
         NEW N \in Nat, NEW ps, NEW at, Gathers(ps, N, seqs, at)
  PROVE  Packing(l, m, ps, D)
<1> USE DEF Packings, Gathers
<1>1. \A p \in 1 .. N : /\ at[p] = <<at[p][1], at[p][2]>>
                        /\ at[p][1] \in 1 .. Len(seqs) /\ at[p][2] \in 1 .. Len(seqs[at[p][1]])
  <2> TAKE p \in 1 .. N
  <2>1. at[p] \in Slots(seqs)
    BY DEF Renames
  <2> QED BY <2>1 DEF Slots
<1>2. \A i \in 1 .. Len(seqs) : C[i] \subseteq D
  OBVIOUS
<1>3. \A p \in 1 .. N : /\ ps[p] = Package(ps[p].part, ps[p].cells)
                        /\ ps[p].part \in ToSet(l) /\ ps[p].cells \in Seq(C[at[p][1]])
                        /\ Len(ps[p].cells) \in 1 .. ps[p].part.cap
                        /\ \A j \in 1 .. Len(ps[p].cells) :
                             /\ ps[p].cells[j] \in C[at[p][1]]
                             /\ KeyOf(l, m, ps[p].cells[j]) = PackKey(ps[p].part)
  <2> TAKE p \in 1 .. N
  <2>1. PICK i, k : i = at[p][1] /\ k = at[p][2]
    OBVIOUS
  <2>2. i \in 1 .. Len(seqs) /\ k \in 1 .. Len(seqs[i]) /\ ps[p] = seqs[i][k]
    BY <1>1, <2>1
  <2>3. Packing(l, m, seqs[i], C[i])
    BY <2>2
  <2>4. /\ seqs[i][k] = Package(seqs[i][k].part, seqs[i][k].cells)
        /\ seqs[i][k].part \in ToSet(l) /\ seqs[i][k].cells \in Seq(C[i])
        /\ Len(seqs[i][k].cells) \in 1 .. seqs[i][k].part.cap
        /\ \A j \in 1 .. Len(seqs[i][k].cells) :
             /\ seqs[i][k].cells[j] \in C[i]
             /\ KeyOf(l, m, seqs[i][k].cells[j]) = PackKey(seqs[i][k].part)
    <3>1. Parted(l, m, seqs[i], C[i])
      BY <2>3, PackingParts
    <3> QED BY <2>2, <3>1 DEF Parted
  <2> QED BY <2>1, <2>2, <2>4, Zenon
<1>4. ps \in Seq(Packages(ToSet(l), D)) /\ Len(ps) = N
  <2>1. \A p \in 1 .. N : ps[p] \in Packages(ToSet(l), D)
    <3> TAKE p \in 1 .. N
    <3>1. PICK x, z : x = ps[p].part /\ z = ps[p].cells
      OBVIOUS
    <3>2. ps[p] = Package(x, z) /\ x \in ToSet(l)
      BY <1>3, <3>1
    <3>3. z \in Seq(D)
      <4>1. at[p][1] \in 1 .. Len(seqs) /\ z \in Seq(C[at[p][1]])
        BY <1>1, <1>3, <3>1
      <4>2. C[at[p][1]] \subseteq D
        BY <1>2, <4>1
      <4>3. PICK E : E = C[at[p][1]]
        OBVIOUS
      <4> QED BY <4>1, <4>2, <4>3
    <3>4. ps[p] = [part |-> x, cells |-> z]
      BY <3>2, Zenon DEF Package
    <3> QED BY <3>2, <3>3, <3>4 DEF Packages
  <2>2. PICK Y : Y = Packages(ToSet(l), D)
    OBVIOUS
  <2>3. ps \in [1 .. N -> Y]
    BY <2>1, <2>2
  <2> QED BY <2>2, <2>3
<1>5. AllFit(ps)
  BY <1>3, <1>4 DEF AllFit
<1>6. \A p \in 1 .. N : \A j \in 1 .. Len(ps[p].cells) :
        ps[p].cells[j] \in D /\ KeyOf(l, m, ps[p].cells[j]) = PackKey(ps[p].part)
  BY <1>1, <1>2, <1>3
<1>7. \A n \in D : \E p \in 1 .. N : \E j \in 1 .. Len(ps[p].cells) : ps[p].cells[j] = n
  <2> TAKE n \in D
  <2>1. PICK i \in 1 .. Len(seqs) : n \in C[i]
    OBVIOUS
  <2>2. Packing(l, m, seqs[i], C[i])
    BY <2>1
  <2>3. /\ Len(seqs[i]) \in Nat
        /\ \A x \in C[i] : \E k \in 1 .. Len(seqs[i]) :
             \E j \in 1 .. Len(seqs[i][k].cells) : seqs[i][k].cells[j] = x
    <3>1. Parted(l, m, seqs[i], C[i])
      BY <2>2, PackingParts
    <3> QED BY <3>1 DEF Parted
  <2>4. PICK k \in 1 .. Len(seqs[i]) : \E j \in 1 .. Len(seqs[i][k].cells) : seqs[i][k].cells[j] = n
    BY <2>1, <2>3
  <2>5. <<i, k>> \in Slots(seqs)
    BY <2>3, <2>4 DEF Slots
  <2>6. PICK p \in 1 .. N : at[p] = <<i, k>>
    BY <2>5 DEF Renames
  <2>7. ps[p] = seqs[i][k]
    BY <2>6
  <2> QED BY <2>4, <2>7
<1>8. \A p, q \in 1 .. N : \A j \in 1 .. Len(ps[p].cells), r \in 1 .. Len(ps[q].cells) :
        ps[p].cells[j] = ps[q].cells[r] => p = q /\ j = r
  <2> SUFFICES ASSUME NEW p \in 1 .. N, NEW q \in 1 .. N,
                      NEW j \in 1 .. Len(ps[p].cells), NEW r \in 1 .. Len(ps[q].cells),
                      ps[p].cells[j] = ps[q].cells[r]
               PROVE  p = q /\ j = r
    OBVIOUS
  <2>1. PICK i : i = at[p][1]
    OBVIOUS
  <2>2. at[q][1] = i /\ i \in 1 .. Len(seqs)
    <3>1. ps[p].cells[j] \in C[at[p][1]] /\ ps[p].cells[j] \in C[at[q][1]]
      BY <1>3
    <3> QED BY <1>1, <2>1, <3>1
  <2>3. PICK a, b : a = at[p][2] /\ b = at[q][2]
    OBVIOUS
  <2>4. /\ a \in 1 .. Len(seqs[i]) /\ b \in 1 .. Len(seqs[i])
        /\ ps[p] = seqs[i][a] /\ ps[q] = seqs[i][b]
    BY <1>1, <2>1, <2>2, <2>3
  <2>5. Packing(l, m, seqs[i], C[i])
    BY <2>2
  <2>6. a = b /\ j = r
    <3>1. /\ j \in 1 .. Len(seqs[i][a].cells) /\ r \in 1 .. Len(seqs[i][b].cells)
          /\ seqs[i][a].cells[j] = seqs[i][b].cells[r]
      BY <2>4
    <3> HIDE DEF Packings, Gathers
    <3> QED BY <2>4, <2>5, <3>1 DEF Packing, PacksOnce
  <2>7. at[p] = at[q]
    <3>1. at[p] = <<i, a>>
      BY <1>1, <2>1, <2>3
    <3>2. at[q] = <<i, b>>
      BY <1>1, <2>2, <2>3
    <3> QED BY <2>6, <3>1, <3>2
  <2> QED BY <2>6, <2>7 DEF Renames
<1>9. PacksOnce(ps, D)
  BY <1>4, <1>6, <1>7, <1>8 DEF PacksOnce
<1> QED
  BY <1>4, <1>5, <1>6, <1>9 DEF Packing

\* Every package of the lists is in another list.
Gathered(F, seqs, n) ==
  \A i \in 1 .. n : \A k \in 1 .. Len(seqs[i]) : \E p \in 1 .. Len(F) : F[p] = seqs[i][k]

\* Packings of disjoint sets of cells, one after the other.
LEMMA FlattenPacked ==
  ASSUME NEW l, NEW m, NEW n \in Nat, NEW X, NEW seqs \in [1 .. n -> X], NEW C, NEW D,
         Packings(l, m, seqs, n, C, D)
  PROVE  Packing(l, m, FlattenSeq(seqs), D) /\ Gathered(FlattenSeq(seqs), seqs, n)
<1>1. PICK Y : Y = UNION {{seqs[i][k] : k \in 1 .. Len(seqs[i])} : i \in 1 .. n}
  OBVIOUS
<1>2. Len(seqs) = n
  OBVIOUS
<1>3. \A i \in 1 .. n : Packing(l, m, seqs[i], C[i]) /\ Parted(l, m, seqs[i], C[i])
  BY PackingParts DEF Packings
<1>4. \A i \in 1 .. n : Len(seqs[i]) \in Nat
  BY <1>3 DEF Parted
<1>5. \A i \in 1 .. n : seqs[i] \in Seq(Y)
  <2> TAKE i \in 1 .. n
  <2>1. PICK s : s = seqs[i]
    OBVIOUS
  <2>2. s \in Seq(Packages(ToSet(l), C[i]))
    BY <1>3, <2>1 DEF Packing
  <2>3. \A k \in 1 .. Len(s) : s[k] \in Y
    BY <1>1, <2>1
  <2>4. s \in Seq(Y)
    BY <2>2, <2>3
  <2> QED BY <2>1, <2>4
<1>6. seqs \in Seq(Seq(Y))
  <2>1. PICK Z : Z = Seq(Y)
    OBVIOUS
  <2>2. \A i \in 1 .. n : seqs[i] \in Z
    BY <1>5, <2>1
  <2>3. seqs \in Seq(Z)
    BY <2>2
  <2> QED BY <2>1, <2>3
<1>7. PICK F : F = FlattenSeq(seqs)
  OBVIOUS
<1>8. /\ F \in Seq(Y)
      /\ \E at : /\ Renames(at, 1 .. Len(F), Slots(seqs))
                 /\ \A p \in 1 .. Len(F) : F[p] = seqs[at[p][1]][at[p][2]]
  <2>1. /\ FlattenSeq(seqs) \in Seq(Y)
        /\ \E at : /\ Renames(at, 1 .. Len(FlattenSeq(seqs)), Slots(seqs))
                   /\ \A p \in 1 .. Len(FlattenSeq(seqs)) :
                        FlattenSeq(seqs)[p] = seqs[at[p][1]][at[p][2]]
    BY <1>6, FlattenPositions
  <2> QED BY <1>7, <2>1, Zenon
<1>9. PICK at : /\ Renames(at, 1 .. Len(F), Slots(seqs))
                /\ \A p \in 1 .. Len(F) : F[p] = seqs[at[p][1]][at[p][2]]
  BY <1>8
<1>10. PICK N \in Nat : N = Len(F) /\ F \in [1 .. N -> Y]
  BY <1>8
<1>11. Packing(l, m, F, D)
  <2>1. Packings(l, m, seqs, Len(seqs), C, D)
    BY <1>2, Zenon
  <2>2. Gathers(F, N, seqs, at)
    BY <1>9, <1>10 DEF Gathers
  <2> QED BY <1>10, <2>1, <2>2, GatheredPacked
<1>12. \A i \in 1 .. n : \A k \in 1 .. Len(seqs[i]) : \E p \in 1 .. Len(F) : F[p] = seqs[i][k]
  <2> TAKE i \in 1 .. n
  <2> TAKE k \in 1 .. Len(seqs[i])
  <2>1. <<i, k>> \in Slots(seqs)
    BY <1>2, <1>4 DEF Slots
  <2>2. PICK p \in 1 .. Len(F) : at[p] = <<i, k>>
    BY <1>9, <2>1 DEF Renames
  <2> QED BY <1>9, <2>2
<1>13. Gathered(F, seqs, n)
  BY <1>12, Zenon DEF Gathered
<1> QED
  BY <1>7, <1>11, <1>13, Zenon

\* Two lists laid end to end are one flattened.
LEMMA PairFlattened ==
  ASSUME NEW s, NEW t
  PROVE  FlattenSeq(<<s, t>>) = s \o t
<1> DEFINE f == CHOOSE g : Flattens(g, <<s, t>>, Len(<<s, t>>))
<1>1. FlattenSeq(<<s, t>>) = IF Len(<<s, t>>) = 0 THEN <<s, t>> ELSE f[Len(<<s, t>>)]
  BY Zenon DEF FlattenSeq, Flattens
<1>2. Len(<<s, t>>) = 2 /\ <<s, t>>[1] = s /\ <<s, t>>[2] = t /\ 2 \in Nat
  OBVIOUS
<1>3. PICK g : g = f
  OBVIOUS
<1>4. Flattens(g, <<s, t>>, 2)
  <2>1. \E h : Flattens(h, <<s, t>>, 2)
    BY <1>2, FlattenExists
  <2>2. Flattens(f, <<s, t>>, Len(<<s, t>>))
    BY <1>2, <2>1, Zenon
  <2> QED BY <1>2, <1>3, <2>2, Zenon
<1> HIDE DEF f
<1>5. g[1] = s /\ g[2] = g[1] \o t
  <2>1. PICK q : q = <<s, t>>
    OBVIOUS
  <2>2. q[1] = s /\ q[2] = t
    BY <2>1
  <2>3. \A i \in 1 .. 2 : g[i] = IF i = 1 THEN q[i] ELSE g[i - 1] \o q[i]
    <3>1. Flattens(g, q, 2)
      BY <1>4, <2>1, Zenon
    <3> QED BY <3>1 DEF Flattens
  <2>4. 1 \in 1 .. 2 /\ 2 \in 1 .. 2 /\ 2 # 1 /\ 2 - 1 = 1
    OBVIOUS
  <2>5. g[1] = q[1] /\ g[2] = g[1] \o q[2]
    BY <2>3, <2>4, Zenon
  <2> QED BY <2>2, <2>5, Zenon
<1>6. FlattenSeq(<<s, t>>) = g[2]
  BY <1>1, <1>2, <1>3
<1> QED
  BY <1>5, <1>6, Zenon

\* Two packings of disjoint sets of cells, one after the other.
LEMMA ConcatPacked ==
  ASSUME NEW l, NEW m, NEW s, NEW t, NEW C, NEW E, Packing(l, m, s, C), Packing(l, m, t, E),
         C \cap E = {}
  PROVE  /\ Packing(l, m, s \o t, C \cup E)
         /\ \A k \in 1 .. Len(s) : \E p \in 1 .. Len(s \o t) : (s \o t)[p] = s[k]
         /\ \A k \in 1 .. Len(t) : \E p \in 1 .. Len(s \o t) : (s \o t)[p] = t[k]
<1>1. PICK n \in Nat : 1 .. n = {1, 2}
  <2>1. 2 \in Nat /\ 1 .. 2 = {1, 2}
    OBVIOUS
  <2> QED BY <2>1
<1>2. PICK X, seqs :
        /\ seqs \in [1 .. n -> X] /\ seqs[1] = s /\ seqs[2] = t
        /\ FlattenSeq(seqs) = s \o t
  <2>1. <<s, t>> \in [{1, 2} -> {s, t}] /\ <<s, t>>[1] = s /\ <<s, t>>[2] = t
    OBVIOUS
  <2>2. FlattenSeq(<<s, t>>) = s \o t
    BY PairFlattened
  <2> QED BY <1>1, <2>1, <2>2, Zenon
<1>3. PICK D : D[1] = C /\ D[2] = E
  <2>1. <<C, E>>[1] = C /\ <<C, E>>[2] = E
    OBVIOUS
  <2> QED BY <2>1, Zenon
<1>4. Packings(l, m, seqs, n, D, C \cup E)
  BY <1>1, <1>2, <1>3 DEF Packings
<1>5. /\ Packing(l, m, FlattenSeq(seqs), C \cup E) /\ Gathered(FlattenSeq(seqs), seqs, n)
  <2>1. seqs \in [1 .. n -> X]
    BY <1>2
  <2> QED BY <1>4, <2>1, FlattenPacked
<1>6. 1 \in 1 .. n /\ 2 \in 1 .. n
  BY <1>1
<1>7. Packing(l, m, s \o t, C \cup E) /\ Gathered(s \o t, seqs, n)
  BY <1>2, <1>5, Zenon
<1> QED
  BY <1>2, <1>6, <1>7, Zenon DEF Gathered

\* A package that holds all of its cells.
LEMMA OnePacked ==
  ASSUME NEW l, NEW m, NEW part \in ToSet(l), NEW C, NEW k \in Nat \ {0}, NEW cells,
         cells \in Seq(C), Len(cells) = k, Renames(cells, 1 .. k, C), k \in 1 .. part.cap,
         \A n \in C : KeyOf(l, m, n) = PackKey(part)
  PROVE  Packing(l, m, <<Package(part, cells)>>, C)
<1>1. PICK x : x = Package(part, cells)
  OBVIOUS
<1>2. x.part = part /\ x.cells = cells
  BY <1>1 DEF Package
<1>3. x \in Packages(ToSet(l), C)
  BY <1>1 DEF Packages, Package
<1>4. PICK ps : ps = <<x>>
  OBVIOUS
<1>5. ps \in Seq(Packages(ToSet(l), C)) /\ Len(ps) = 1 /\ ps[1] = x /\ 1 .. Len(ps) = {1}
  BY <1>3, <1>4
<1>6. AllFit(ps)
  BY <1>2, <1>5 DEF AllFit
<1>7. /\ \A j \in 1 .. k : cells[j] \in C
      /\ \A a, b \in 1 .. k : cells[a] = cells[b] => a = b
      /\ \A n \in C : \E j \in 1 .. k : cells[j] = n
  BY DEF Renames
<1>8. PacksOnce(ps, C)
  BY <1>2, <1>5, <1>7 DEF PacksOnce
<1>9. \A i \in 1 .. Len(ps) : \A j \in 1 .. Len(ps[i].cells) :
        KeyOf(l, m, ps[i].cells[j]) = PackKey(ps[i].part)
  BY <1>2, <1>5, <1>7
<1>10. Packing(l, m, ps, C)
  BY <1>5, <1>6, <1>8, <1>9 DEF Packing
<1> QED
  BY <1>1, <1>4, <1>10, Zenon

\* Packages that are packings each, of disjoint sets of cells.
EachIsPacked(l, m, ps, n, C, D) ==
  /\ ps \in [1 .. n -> {ps[k] : k \in 1 .. n}]
  /\ \A k \in 1 .. n : Packing(l, m, <<ps[k]>>, C[k])
  /\ \A i, k \in 1 .. n : C[i] \cap C[k] # {} => i = k
  /\ \A i \in 1 .. n : C[i] \subseteq D
  /\ \A x \in D : \E i \in 1 .. n : x \in C[i]

\* Together they are one.
LEMMA EachPacked ==
  ASSUME NEW l, NEW m, NEW ps, NEW n \in Nat, NEW C, NEW D, EachIsPacked(l, m, ps, n, C, D)
  PROVE  Packing(l, m, ps, D)
<1>1. PICK seqs : /\ DOMAIN seqs = 1 .. n /\ Len(seqs) = n
                  /\ \A k \in 1 .. n : seqs[k] = <<ps[k]>> /\ Len(seqs[k]) = 1 /\ seqs[k][1] = ps[k]
  <2>1. PICK s : s = [k \in 1 .. n |-> <<ps[k]>>]
    OBVIOUS
  <2>2. DOMAIN s = 1 .. n /\ Len(s) = n
    BY <2>1
  <2>3. \A k \in 1 .. n : s[k] = <<ps[k]>>
    BY <2>1
  <2>4. \A k \in 1 .. n : Len(<<ps[k]>>) = 1 /\ <<ps[k]>>[1] = ps[k]
    OBVIOUS
  <2> QED BY <2>2, <2>3, <2>4
<1>2. Packings(l, m, seqs, n, C, D)
  <2>1. \A k \in 1 .. n : Packing(l, m, seqs[k], C[k])
    <3> TAKE k \in 1 .. n
    <3>1. seqs[k] = <<ps[k]>> /\ Packing(l, m, <<ps[k]>>, C[k])
      BY <1>1 DEF EachIsPacked
    <3> QED BY <3>1, Zenon
  <2> QED BY <2>1 DEF EachIsPacked, Packings
<1>3. Packings(l, m, seqs, Len(seqs), C, D)
  BY <1>1, <1>2
<1>4. PICK at : at \in [1 .. n -> Slots(seqs)] /\ \A k \in 1 .. n : at[k] = <<k, 1>>
  <2>1. \A k \in 1 .. n : <<k, 1>> \in Slots(seqs)
    BY <1>1 DEF Slots
  <2>2. PICK f : f = [k \in 1 .. n |-> <<k, 1>>]
    OBVIOUS
  <2>3. f \in [1 .. n -> Slots(seqs)] /\ \A k \in 1 .. n : f[k] = <<k, 1>>
    BY <2>1, <2>2
  <2> QED BY <2>3
<1>5. \A q \in Slots(seqs) : q[1] \in 1 .. n /\ q = <<q[1], 1>>
  <2> TAKE q \in Slots(seqs)
  <2>1. PICK a, b : q = <<a, b>> /\ a \in 1 .. Len(seqs) /\ b \in 1 .. Len(seqs[a])
    BY DEF Slots
  <2>2. a \in 1 .. n /\ Len(seqs[a]) = 1
    BY <1>1, <2>1
  <2>3. b = 1
    BY <2>1, <2>2
  <2> QED BY <2>1, <2>2, <2>3
<1>6. Renames(at, 1 .. n, Slots(seqs))
  BY <1>4, <1>5 DEF Renames
<1>7. \A p \in 1 .. n : ps[p] = seqs[at[p][1]][at[p][2]]
  BY <1>1, <1>4
<1>8. Gathers(ps, n, seqs, at)
  BY <1>6, <1>7 DEF Gathers, EachIsPacked
<1> QED
  BY <1>3, <1>8, GatheredPacked

\* A list in another order.
Reordered(t, s, p) ==
  Renames(p, 1 .. Len(s), 1 .. Len(s)) /\ t = [k \in 1 .. Len(s) |-> s[p[k]]]

\* A packing in another order.
LEMMA SortedPacked ==
  ASSUME NEW l, NEW m, NEW s, NEW C, Packing(l, m, s, C), NEW p, NEW t, Reordered(t, s, p)
  PROVE  /\ Packing(l, m, t, C)
         /\ \A k \in 1 .. Len(s) : \E j \in 1 .. Len(t) : t[j] = s[k]
<1>1. PICK n \in Nat : n = Len(s)
  BY PackingParts DEF Parted
<1>2. /\ p \in [1 .. n -> 1 .. n] /\ \A a, b \in 1 .. n : p[a] = p[b] => a = b
      /\ \A k \in 1 .. n : \E j \in 1 .. n : p[j] = k
  BY <1>1 DEF Renames, Reordered
<1>3. t \in [1 .. n -> {t[k] : k \in 1 .. n}] /\ Len(t) = n /\ \A k \in 1 .. n : t[k] = s[p[k]]
  BY <1>1 DEF Reordered
<1>4. PICK seqs, D : seqs = <<s>> /\ D = <<C>>
  OBVIOUS
<1>5. Len(seqs) = 1 /\ seqs[1] = s /\ D[1] = C /\ 1 .. Len(seqs) = {1}
  BY <1>4
<1>6. Packings(l, m, seqs, Len(seqs), D, C)
  BY <1>5 DEF Packings
<1>7. PICK at : at \in [1 .. n -> Slots(seqs)] /\ \A k \in 1 .. n : at[k] = <<1, p[k]>>
  <2>1. \A k \in 1 .. n : <<1, p[k]>> \in Slots(seqs)
    <3> TAKE k \in 1 .. n
    <3>1. PICK x : x = p[k] /\ x \in 1 .. n
      BY <1>2
    <3>2. x \in Nat /\ x \in 1 .. Len(seqs[1]) /\ 1 \in 1 .. Len(seqs)
      BY <1>1, <1>5, <3>1
    <3> QED BY <3>1, <3>2 DEF Slots
  <2>2. PICK f : f = [k \in 1 .. n |-> <<1, p[k]>>]
    OBVIOUS
  <2>3. f \in [1 .. n -> Slots(seqs)] /\ \A k \in 1 .. n : f[k] = <<1, p[k]>>
    BY <2>1, <2>2
  <2> QED BY <2>3
<1>8. \A q \in Slots(seqs) : q[2] \in 1 .. n /\ q = <<1, q[2]>>
  BY <1>1, <1>5 DEF Slots
<1>9. Renames(at, 1 .. n, Slots(seqs))
  <2>1. \A a, b \in 1 .. n : at[a] = at[b] => a = b
    <3> SUFFICES ASSUME NEW a \in 1 .. n, NEW b \in 1 .. n, at[a] = at[b] PROVE a = b
      OBVIOUS
    <3>1. <<1, p[a]>> = <<1, p[b]>>
      BY <1>7
    <3>2. p[a] = p[b]
      BY <3>1
    <3> QED BY <1>2, <3>2
  <2>2. \A q \in Slots(seqs) : \E k \in 1 .. n : at[k] = q
    <3> TAKE q \in Slots(seqs)
    <3>1. q[2] \in 1 .. n /\ q = <<1, q[2]>>
      BY <1>8
    <3>2. PICK k \in 1 .. n : p[k] = q[2]
      BY <1>2, <3>1
    <3> QED BY <1>7, <3>1, <3>2
  <2> QED BY <1>7, <2>1, <2>2 DEF Renames
<1>10. \A k \in 1 .. n : t[k] = seqs[at[k][1]][at[k][2]]
  BY <1>3, <1>5, <1>7
<1>11. Gathers(t, n, seqs, at)
  BY <1>3, <1>9, <1>10 DEF Gathers
<1>12. Packing(l, m, t, C)
  BY <1>6, <1>11, GatheredPacked
<1>13. \A k \in 1 .. n : \E j \in 1 .. n : t[j] = s[k]
  <2> TAKE k \in 1 .. n
  <2>1. PICK j \in 1 .. n : p[j] = k
    BY <1>2
  <2>2. t[j] = s[p[j]]
    BY <1>3
  <2> QED BY <2>1, <2>2, Zenon
<1> QED
  BY <1>1, <1>3, <1>12, <1>13

(***************************************************************************)
(* The packages of a function                                              *)
(***************************************************************************)

\* A build that the overrides do not stop.
Packable(l, m, gs, w) ==
  /\ l \in Libraries /\ m \in Netlists /\ gs \in Overrides /\ w \in Weights
  /\ Verdict(l, m, gs) = "packed"

\* The function of a cell the library knows has options to buy.
LEMMA OptionsChoosable ==
  ASSUME NEW l \in Libraries, NEW m, NEW n \in Resolved(l, m)
  PROVE  Choosable(Options(l, KeyOf(l, m, n)))
<1>1. PICK key, o : key = KeyOf(l, m, n) /\ o = Options(l, key)
  OBVIOUS
<1> DEFINE T == {i \in DOMAIN l : l[i].cell = m[n]}
<1>2. Len(l) \in Nat /\ DOMAIN l = 1 .. Len(l)
  BY RowTypes
<1>3. T \subseteq Nat /\ T # {} /\ \A i \in T : i <= Len(l)
  BY <1>2 DEF Resolved
<1>4. Max(T) \in T
  <2> HIDE DEF T
  <2> QED BY <1>2, <1>3, MaxIsGreatest
<1>5. PartOf(l, m[n]) = l[Max(T)]
  BY Zenon DEF PartOf
<1>6. l[Max(T)] \in ToSet(l)
  <2>1. T \subseteq DOMAIN l
    OBVIOUS
  <2> HIDE DEF T
  <2> QED BY <1>4, <2>1 DEF ToSet
<1>7. PackKey(l[Max(T)]) = key
  BY <1>1, <1>5, Zenon DEF KeyOf
<1> HIDE DEF T
<1>8. /\ o \in Seq(ToSet(l))
      /\ \A r \in ToSet(l) : PackKey(r) = key => \E i \in DOMAIN o : o[i] = r
  BY <1>1, OptionsAreRows
<1>9. PICK i \in DOMAIN o : TRUE
  BY <1>6, <1>7, <1>8
<1>10. Len(o) \in Nat \ {0} /\ DOMAIN o = 1 .. Len(o) /\ \A k \in DOMAIN o : o[k] \in ToSet(l)
  BY <1>8, <1>9
<1>11. Choosable(o)
  BY <1>10, RowTypes DEF Choosable
<1> QED
  BY <1>1, <1>11

\* What the overrides are when the packer accepts them.
Held(l, m, gs) ==
  /\ gs \in Seq(Seq(Nat)) /\ Len(gs) \in Nat /\ DOMAIN gs = 1 .. Len(gs)
  /\ \A i \in 1 .. Len(gs) :
       /\ gs[i] \in Seq(Nat) /\ gs[i] # <<>> /\ IsInjective(gs[i])
       /\ ToSet(gs[i]) \subseteq Resolved(l, m)
       /\ \A n \in ToSet(gs[i]) : KeyOf(l, m, n) = KeyOf(l, m, gs[i][1])
       /\ \E r \in ToSet(Options(l, KeyOf(l, m, gs[i][1]))) : ~(r.cap < Len(gs[i]))
  /\ \A i, k \in 1 .. Len(gs) : ToSet(gs[i]) \cap ToSet(gs[k]) # {} => i = k

\* They name cells of one function each, none of them twice, that fit a package.
LEMMA OverridesHeld ==
  ASSUME NEW l, NEW m, NEW gs, NEW w, Packable(l, m, gs, w)
  PROVE  Held(l, m, gs)
<1>1. gs \in Seq(Seq(Nat))
  BY OverridesAssumption DEF Packable
<1>2. Len(gs) \in Nat /\ DOMAIN gs = 1 .. Len(gs)
  BY <1>1
<1>3. \A i \in 1 .. Len(gs) : gs[i] \in Seq(Nat)
  BY <1>1
<1>4. /\ CollectForced(l, m, gs) = "packed"
      /\ \A i \in DOMAIN gs : ~TooLarge(l, m, gs[i])
  BY DEF Packable, Verdict
<1>5. \A i \in DOMAIN gs : gs[i] # <<>> /\ ~GroupRefused(l, m, gs, i)
  <2>1. {i \in DOMAIN gs : gs[i] = <<>> \/ GroupRefused(l, m, gs, i)} = {}
    BY <1>4 DEF CollectForced
  <2> QED BY <2>1
<1>6. \A i \in 1 .. Len(gs) :
        /\ gs[i] # <<>> /\ IsInjective(gs[i])
        /\ ToSet(gs[i]) \subseteq Resolved(l, m)
        /\ \A n \in ToSet(gs[i]) : KeyOf(l, m, n) = KeyOf(l, m, gs[i][1])
        /\ ToSet(gs[i]) \cap Forced(SubSeq(gs, 1, i - 1)) = {}
  <2> TAKE i \in 1 .. Len(gs)
  <2>1. gs[i] # <<>> /\ ~GroupRefused(l, m, gs, i)
    BY <1>2, <1>5
  <2> QED BY <2>1, Zenon DEF GroupRefused
<1>7. \A i \in 1 .. Len(gs) :
        \E r \in ToSet(Options(l, KeyOf(l, m, gs[i][1]))) : ~(r.cap < Len(gs[i]))
  <2> TAKE i \in 1 .. Len(gs)
  <2>1. ~TooLarge(l, m, gs[i])
    BY <1>2, <1>4
  <2> QED BY <2>1, Zenon DEF TooLarge
<1>8. \A i, k \in 1 .. Len(gs) : i < k => ToSet(gs[i]) \cap ToSet(gs[k]) = {}
  <2> SUFFICES ASSUME NEW i \in 1 .. Len(gs), NEW k \in 1 .. Len(gs), i < k
               PROVE  ToSet(gs[i]) \cap ToSet(gs[k]) = {}
    OBVIOUS
  <2>1. PICK s : s = SubSeq(gs, 1, k - 1)
    OBVIOUS
  <2>2. i \in DOMAIN s /\ s[i] = gs[i]
    BY <1>1, <1>2, <2>1
  <2>3. ToSet(gs[i]) \subseteq Forced(s)
    BY <2>2 DEF Forced
  <2>4. ToSet(gs[k]) \cap Forced(s) = {}
    BY <1>6, <2>1
  <2> QED BY <2>3, <2>4
<1>9. \A i, k \in 1 .. Len(gs) : ToSet(gs[i]) \cap ToSet(gs[k]) # {} => i = k
  <2> SUFFICES ASSUME NEW i \in 1 .. Len(gs), NEW k \in 1 .. Len(gs), i # k
               PROVE  ToSet(gs[i]) \cap ToSet(gs[k]) = {}
    OBVIOUS
  <2>1. i < k \/ k < i
    BY <1>2
  <2> QED BY <1>8, <2>1
<1> QED
  BY <1>1, <1>2, <1>3, <1>6, <1>7, <1>9 DEF Held

\* A list without repetitions, and its elements in order.
LEMMA ElementsInOrder ==
  ASSUME NEW g \in Seq(Nat), IsInjective(g)
  PROVE  /\ ToSet(g) \subseteq Nat /\ IsFiniteSet(ToSet(g)) /\ Len(g) \in Nat
         /\ InOrder(ToSet(g)) \in Seq(ToSet(g)) /\ Len(InOrder(ToSet(g))) = Len(g)
         /\ Renames(InOrder(ToSet(g)), 1 .. Len(g), ToSet(g))
<1>1. PICK n \in Nat : n = Len(g) /\ DOMAIN g = 1 .. n
  OBVIOUS
<1>2. ToSet(g) \subseteq Nat
  BY <1>1 DEF ToSet
<1>3. Renames(g, 1 .. n, ToSet(g))
  BY <1>1 DEF Renames, IsInjective, ToSet
<1>4. IsFiniteSet(1 .. n) /\ Cardinality(1 .. n) = n
  BY FS_Interval
<1>5. IsFiniteSet(ToSet(g)) /\ Cardinality(ToSet(g)) = n
  BY <1>3, <1>4, RenamesCount
<1>6. PICK S : S = ToSet(g)
  OBVIOUS
<1>7. /\ InOrder(S) \in Seq(S) /\ Len(InOrder(S)) = Cardinality(S)
      /\ Renames(InOrder(S), 1 .. Cardinality(S), S)
  BY <1>2, <1>5, <1>6, InOrderRenames
<1> QED
  BY <1>1, <1>2, <1>5, <1>6, <1>7, Zenon

\* What a package of one option costs with so many cells in it.
CostFor(opt, size, w) == opt.area + (opt.cap - size) * w

\* The best part is an option that is large enough, and none of those is cheaper.
LEMMA BestPartIsLeast ==
  ASSUME NEW opts, Choosable(opts), NEW size \in Nat, NEW w \in Nat,
         NEW z \in DOMAIN opts, opts[z].cap >= size
  PROVE  \E x \in DOMAIN opts :
           /\ BestPart(size, opts, w) = opts[x] /\ opts[x].cap >= size
           /\ \A y \in DOMAIN opts : opts[y].cap >= size =>
                CostFor(opts[x], size, w) <= CostFor(opts[y], size, w)
<1> DEFINE T == {i \in DOMAIN opts : opts[i].cap >= size}
<1> DEFINE cost == [i \in T |-> CostFor(opts[i], size, w)]
<1> DEFINE B == {i \in T : \A j \in T : cost[i] <= cost[j]}
<1>1. T \subseteq Nat /\ T # {} /\ T \subseteq DOMAIN opts
  BY DEF Choosable
<1>2. \A i \in T : cost[i] = CostFor(opts[i], size, w) /\ cost[i] \in Nat
  <2> TAKE i \in T
  <2>1. PICK c, a : c = opts[i].cap /\ a = opts[i].area /\ c \in Nat /\ a \in Nat /\ c >= size
    BY DEF Choosable
  <2>2. c - size \in Nat
    BY <2>1
  <2>3. (c - size) * w \in Nat
    BY <2>2, ProductNat
  <2>4. CostFor(opts[i], size, w) \in Nat
    BY <2>1, <2>3 DEF CostFor
  <2> QED BY <2>4
<1>3. /\ Min(B) \in T
      /\ \A j \in T : cost[Min(B)] <= cost[j]
  <2> HIDE DEF T, cost
  <2> QED BY <1>1, <1>2, FirstCheapest
<1>4. BestPart(size, opts, w) = opts[Min(B)]
  <2>1. BestPart(size, opts, w) = opts[Min({i \in T : \A j \in T :
          opts[i].area + (opts[i].cap - size) * w <= opts[j].area + (opts[j].cap - size) * w})]
    BY Zenon DEF BestPart
  <2>2. B = {i \in T : \A j \in T :
          opts[i].area + (opts[i].cap - size) * w <= opts[j].area + (opts[j].cap - size) * w}
    <3>1. \A i \in T : cost[i] = opts[i].area + (opts[i].cap - size) * w
      BY DEF CostFor
    <3> HIDE DEF T, cost
    <3> QED BY <3>1
  <2> HIDE DEF B, T
  <2> QED BY <2>1, <2>2, Zenon
<1>5. PICK x : x = Min(B)
  OBVIOUS
<1>6. x \in T /\ BestPart(size, opts, w) = opts[x] /\ \A j \in T : cost[x] <= cost[j]
  <2> HIDE DEF T, cost, B
  <2> QED BY <1>3, <1>4, <1>5
<1>7. x \in DOMAIN opts /\ opts[x].cap >= size
  BY <1>6
<1>8. \A y \in DOMAIN opts : opts[y].cap >= size => CostFor(opts[x], size, w) <= CostFor(opts[y], size, w)
  <2> SUFFICES ASSUME NEW y \in T PROVE CostFor(opts[x], size, w) <= CostFor(opts[y], size, w)
    OBVIOUS
  <2> HIDE DEF T, cost
  <2> QED BY <1>2, <1>6
<1> HIDE DEF T, cost, B
<1> QED
  BY <1>6, <1>7, <1>8

\* The function of an override, and the package the packer makes of it.
GroupKey(l, m, gs, i) == KeyOf(l, m, gs[i][1])
GroupPackage(l, m, gs, w, i) == PackForced(gs[i], Options(l, GroupKey(l, m, gs, i)), w)

\* The cells of an override in a package of their function, the cheapest that
\* holds them.
Overriding(l, m, gs, w, i) ==
  LET p == GroupPackage(l, m, gs, w, i)
  IN /\ Packing(l, m, <<p>>, ToSet(gs[i]))
     /\ PackKey(p.part) = GroupKey(l, m, gs, i)
     /\ Len(p.cells) = Len(gs[i]) /\ ToSet(p.cells) = ToSet(gs[i])
     /\ \A r \in ToSet(l) : PackKey(r) = GroupKey(l, m, gs, i) /\ r.cap >= Len(gs[i]) =>
          CostFor(p.part, Len(gs[i]), w) <= CostFor(r, Len(gs[i]), w)

\* So it is for every override.
LEMMA ForcedPacked ==
  ASSUME NEW l, NEW m, NEW gs, NEW w, Packable(l, m, gs, w), NEW i \in 1 .. Len(gs)
  PROVE  Overriding(l, m, gs, w, i)
<1>1. /\ gs[i] \in Seq(Nat) /\ gs[i] # <<>> /\ IsInjective(gs[i])
      /\ ToSet(gs[i]) \subseteq Resolved(l, m)
      /\ \A n \in ToSet(gs[i]) : KeyOf(l, m, n) = KeyOf(l, m, gs[i][1])
      /\ \E r \in ToSet(Options(l, KeyOf(l, m, gs[i][1]))) : ~(r.cap < Len(gs[i]))
  <2>1. Held(l, m, gs)
    BY OverridesHeld
  <2> QED BY <2>1 DEF Held
<1>2. PICK g, key, opts, size, S :
        /\ g = gs[i] /\ key = KeyOf(l, m, gs[i][1]) /\ opts = Options(l, key)
        /\ size = Len(g) /\ S = ToSet(g)
  OBVIOUS
<1>3. l \in Libraries /\ w \in Nat
  BY WeightAssumption DEF Packable
<1>4. size \in Nat \ {0} /\ g[1] \in S
  BY <1>1, <1>2 DEF ToSet
<1>5. /\ InOrder(S) \in Seq(S) /\ Len(InOrder(S)) = size /\ Renames(InOrder(S), 1 .. size, S)
  BY <1>1, <1>2, ElementsInOrder
<1>6. Choosable(opts)
  <2>1. g[1] \in Resolved(l, m)
    BY <1>1, <1>2, <1>4
  <2> QED BY <1>2, <1>3, <2>1, OptionsChoosable
<1>7. /\ opts \in Seq(ToSet(l)) /\ \A x \in DOMAIN opts : PackKey(opts[x]) = key
      /\ \A r \in ToSet(l) : PackKey(r) = key => \E x \in DOMAIN opts : opts[x] = r
  BY <1>2, <1>3, OptionsAreRows
<1>8. PICK z \in DOMAIN opts : opts[z].cap >= size
  <2>1. PICK r \in ToSet(opts) : ~(r.cap < size)
    BY <1>1, <1>2
  <2>2. PICK z \in DOMAIN opts : opts[z] = r
    BY DEF ToSet
  <2>3. opts[z].cap \in Nat /\ ~(opts[z].cap < size)
    BY <1>6, <2>1, <2>2 DEF Choosable
  <2> QED BY <1>4, <2>3
<1>9. PICK x \in DOMAIN opts :
        /\ BestPart(size, opts, w) = opts[x] /\ opts[x].cap >= size
        /\ \A y \in DOMAIN opts : opts[y].cap >= size =>
             CostFor(opts[x], size, w) <= CostFor(opts[y], size, w)
  BY <1>3, <1>4, <1>6, <1>8, BestPartIsLeast
<1>10. PICK part, cells : part = opts[x] /\ cells = InOrder(S)
  OBVIOUS
<1>11. GroupPackage(l, m, gs, w, i) = Package(part, cells)
  <2>1. GroupPackage(l, m, gs, w, i) = PackForced(g, opts, w)
    BY <1>2, Zenon DEF GroupPackage, GroupKey
  <2>2. PackForced(g, opts, w) = Package(BestPart(size, opts, w), InOrder(S))
    BY <1>2, Zenon DEF PackForced
  <2> QED BY <1>9, <1>10, <2>1, <2>2, Zenon
<1>12. part \in ToSet(l) /\ PackKey(part) = key /\ size \in 1 .. part.cap
  <2>1. part \in ToSet(l) /\ PackKey(part) = key
    BY <1>7, <1>10
  <2>2. part.cap \in Nat /\ part.cap >= size
    BY <1>6, <1>9, <1>10 DEF Choosable
  <2> QED BY <1>4, <2>1, <2>2
<1>13. Packing(l, m, <<Package(part, cells)>>, S)
  <2>1. cells \in Seq(S) /\ Len(cells) = size /\ Renames(cells, 1 .. size, S)
    BY <1>5, <1>10
  <2>2. \A n \in S : KeyOf(l, m, n) = PackKey(part)
    BY <1>1, <1>2, <1>12
  <2> QED BY <1>4, <1>12, <2>1, <2>2, OnePacked
<1>14. Len(cells) = size /\ ToSet(cells) = S
  <2>1. Len(cells) = size /\ cells \in [1 .. size -> S] /\ \A n \in S : \E j \in 1 .. size : cells[j] = n
    BY <1>5, <1>10 DEF Renames
  <2> QED BY <2>1 DEF ToSet
<1>15. \A r \in ToSet(l) : PackKey(r) = key /\ r.cap >= size => CostFor(part, size, w) <= CostFor(r, size, w)
  BY <1>7, <1>9, <1>10
<1>16. Package(part, cells).part = part /\ Package(part, cells).cells = cells
  BY DEF Package
<1>17. GroupKey(l, m, gs, i) = key
  BY <1>2, Zenon DEF GroupKey
<1>18. Len(gs[i]) = size /\ ToSet(gs[i]) = S
  BY <1>2
<1> QED
  BY <1>11, <1>12, <1>13, <1>14, <1>15, <1>16, <1>17, <1>18, Zenon DEF Overriding

\* What PackKeyed makes of the free cells of a function, and of the overrides.
FreePart(l, m, gs, w, key) ==
  IF InOrder(FreeOf(l, m, gs, key)) = <<>> THEN <<>>
  ELSE PackGroup(InOrder(FreeOf(l, m, gs, key)), Options(l, key), w)

UnitsOf(l, m, gs, key) == InOrder({i \in DOMAIN gs : KeyOf(l, m, gs[i][1]) = key})

ForcedPart(l, m, gs, w, key) ==
  [k \in DOMAIN UnitsOf(l, m, gs, key) |->
     PackForced(gs[UnitsOf(l, m, gs, key)[k]], Options(l, key), w)]

\* A cell the library knows is a natural number, and there are finitely many.
LEMMA ResolvedFinite ==
  ASSUME NEW l, NEW m \in Netlists
  PROVE  Resolved(l, m) \subseteq Nat /\ IsFiniteSet(Resolved(l, m))
<1>1. DOMAIN m \subseteq Nat /\ IsFiniteSet(DOMAIN m)
  BY NamesAssumption
<1>2. Resolved(l, m) \subseteq DOMAIN m
  BY DEF Resolved
<1> QED
  BY <1>1, <1>2, FS_Subset

\* The free cells of a function that has some are packed at the least cost.
FreePackedAt(l, m, gs, w, key, n) ==
  /\ n \in Nat \ {0} /\ n = Cardinality(FreeOf(l, m, gs, key)) /\ Choosable(Options(l, key))
  /\ PackCost(FreePart(l, m, gs, w, key), DOMAIN FreePart(l, m, gs, w, key), w)
       = PriceOf(Options(l, key), Solve(Options(l, key), n, w), n, w)

\* The free cells of a function are packed, once each.
LEMMA FreePacked ==
  ASSUME NEW l, NEW m, NEW gs, NEW w, Packable(l, m, gs, w), NEW key
  PROVE  /\ Packing(l, m, FreePart(l, m, gs, w, key), FreeOf(l, m, gs, key))
         /\ FreeOf(l, m, gs, key) # {} => \E n : FreePackedAt(l, m, gs, w, key, n)
<1>1. PICK C, opts, free, g : /\ C = FreeOf(l, m, gs, key) /\ opts = Options(l, key)
                              /\ free = InOrder(C) /\ g = FreePart(l, m, gs, w, key)
  OBVIOUS
<1>2. l \in Libraries /\ m \in Netlists /\ w \in Nat
  BY WeightAssumption DEF Packable
<1>3. C \subseteq Resolved(l, m) /\ \A n \in C : KeyOf(l, m, n) = key
  BY <1>1 DEF FreeOf, AllOf
<1>4. C \subseteq Nat /\ IsFiniteSet(C)
  BY <1>2, <1>3, ResolvedFinite, FS_Subset
<1>5. PICK n \in Nat : n = Cardinality(C)
  BY <1>4, FS_CardinalityType
<1>6. free \in Seq(C) /\ Len(free) = n /\ Renames(free, 1 .. n, C)
  BY <1>1, <1>4, <1>5, InOrderRenames
<1>7. CASE C = {}
  <2>1. n = 0
    BY <1>5, <1>7, FS_EmptySet
  <2>2. free = <<>>
    BY <1>6, <2>1
  <2>3. g = <<>>
    BY <1>1, <2>2, Zenon DEF FreePart
  <2>4. Packing(l, m, g, C)
    <3>1. <<>> \in Seq(Packages(ToSet(l), C)) /\ Len(<<>>) = 0 /\ 1 .. 0 = {}
      OBVIOUS
    <3> QED BY <1>7, <2>3, <3>1 DEF Packing, AllFit, PacksOnce
  <2> QED BY <1>1, <1>7, <2>4
<1>8. CASE C # {}
  <2>1. n \in Nat \ {0}
    BY <1>4, <1>5, <1>8, FS_EmptySet
  <2>2. g = PackGroup(free, opts, w)
    <3>1. free # <<>>
      BY <1>6, <2>1
    <3> QED BY <1>1, <3>1, Zenon DEF FreePart
  <2>3. Choosable(opts)
    <3>1. PICK x \in C : TRUE
      BY <1>8
    <3>2. x \in Resolved(l, m) /\ KeyOf(l, m, x) = key
      BY <1>3
    <3>3. Choosable(Options(l, KeyOf(l, m, x)))
      BY <1>2, <3>2, OptionsChoosable
    <3> QED BY <1>1, <3>2, <3>3, Zenon
  <2>4. WellFilled(g, opts, w, n, C)
    <3>1. Listed(free, n, C)
      BY <1>6 DEF Listed
    <3>2. WellFilled(PackGroup(free, opts, w), opts, w, n, C)
      BY <1>2, <2>1, <2>3, <3>1, GroupIsPacked
    <3> QED BY <2>2, <3>2, Zenon
  <2>5. /\ opts \in Seq(ToSet(l)) /\ \A x \in DOMAIN opts : PackKey(opts[x]) = key
    BY <1>1, <1>2, OptionsAreRows
  <2>6. \A r \in ToSet(opts) : r \in ToSet(l) /\ PackKey(r) = key
    BY <2>5 DEF ToSet
  <2>7. /\ g \in Seq(Packages(ToSet(opts), C)) /\ AllFit(g) /\ PacksOnce(g, C)
        /\ PackCost(g, DOMAIN g, w) = PriceOf(opts, Solve(opts, n, w), n, w)
    BY <2>4 DEF WellFilled
  <2>8. \A x \in Packages(ToSet(opts), C) :
          x \in Packages(ToSet(l), C) /\ x.part \in ToSet(opts) /\ x.cells \in Seq(C)
    BY <2>6 DEF Packages
  <2>9. Len(g) \in Nat /\ \A i \in 1 .. Len(g) : g[i] \in Packages(ToSet(opts), C)
    BY <2>7
  <2>10. g \in Seq(Packages(ToSet(l), C))
    <3>1. PICK X, Y : X = Packages(ToSet(opts), C) /\ Y = Packages(ToSet(l), C)
      OBVIOUS
    <3>2. X \subseteq Y /\ g \in Seq(X)
      BY <2>7, <2>8, <3>1
    <3>3. g \in Seq(Y)
      BY <3>2
    <3> QED BY <3>1, <3>3
  <2>11. \A i \in 1 .. Len(g) : \A j \in 1 .. Len(g[i].cells) :
           KeyOf(l, m, g[i].cells[j]) = PackKey(g[i].part)
    <3> SUFFICES ASSUME NEW i \in 1 .. Len(g), NEW j \in 1 .. Len(g[i].cells)
                 PROVE  KeyOf(l, m, g[i].cells[j]) = PackKey(g[i].part)
      OBVIOUS
    <3>1. g[i].cells[j] \in C
      BY <2>7 DEF PacksOnce
    <3>2. PackKey(g[i].part) = key
      BY <2>6, <2>8, <2>9
    <3> QED BY <1>3, <3>1, <3>2
  <2>12. Packing(l, m, g, C)
    BY <2>7, <2>10, <2>11 DEF Packing
  <2>13. FreePackedAt(l, m, gs, w, key, n)
    BY <1>1, <1>5, <2>1, <2>3, <2>7, Zenon DEF FreePackedAt
  <2> QED BY <1>1, <2>12, <2>13
<1> QED
  BY <1>7, <1>8

\* The overrides of a function are packed, once each.
LEMMA UnitsPacked ==
  ASSUME NEW l, NEW m, NEW gs, NEW w, Packable(l, m, gs, w), NEW key
  PROVE  /\ Packing(l, m, ForcedPart(l, m, gs, w, key), AllOf(l, m, gs, key) \cap Forced(gs))
         /\ \A i \in 1 .. Len(gs) : GroupKey(l, m, gs, i) = key =>
              \E k \in 1 .. Len(ForcedPart(l, m, gs, w, key)) :
                ForcedPart(l, m, gs, w, key)[k] = GroupPackage(l, m, gs, w, i)
<1>1. PICK U, units, ps, D :
        /\ U = {i \in DOMAIN gs : KeyOf(l, m, gs[i][1]) = key}
        /\ units = UnitsOf(l, m, gs, key) /\ ps = ForcedPart(l, m, gs, w, key)
        /\ D = AllOf(l, m, gs, key) \cap Forced(gs)
  OBVIOUS
<1>2. Held(l, m, gs)
  BY OverridesHeld
<1>3. Len(gs) \in Nat /\ DOMAIN gs = 1 .. Len(gs)
  BY <1>2 DEF Held
<1>4. U \subseteq Nat /\ IsFiniteSet(U) /\ U \subseteq 1 .. Len(gs)
  <2>1. IsFiniteSet(1 .. Len(gs))
    BY <1>3, FS_Interval
  <2>2. U \in SUBSET (1 .. Len(gs)) /\ 1 .. Len(gs) \subseteq Nat
    BY <1>1, <1>3
  <2>3. IsFiniteSet(U)
    BY <2>1, <2>2, FS_Subset
  <2> QED BY <2>2, <2>3
<1>5. PICK u \in Nat : u = Cardinality(U)
  BY <1>4, FS_CardinalityType
<1>6. units = InOrder(U)
  BY <1>1, Zenon DEF UnitsOf
<1>7. units \in Seq(U) /\ Len(units) = u /\ Renames(units, 1 .. u, U)
  BY <1>4, <1>5, <1>6, InOrderRenames
<1>8. /\ DOMAIN units = 1 .. u /\ \A k \in 1 .. u : units[k] \in U
      /\ \A a, b \in 1 .. u : units[a] = units[b] => a = b
      /\ \A i \in U : \E k \in 1 .. u : units[k] = i
  BY <1>7 DEF Renames
<1>9. \A i \in U : i \in 1 .. Len(gs) /\ KeyOf(l, m, gs[i][1]) = key
  BY <1>1, <1>4
<1>10. /\ DOMAIN ps = 1 .. u /\ Len(ps) = u /\ ps \in [1 .. u -> {ps[k] : k \in 1 .. u}]
       /\ \A k \in 1 .. u : ps[k] = GroupPackage(l, m, gs, w, units[k])
  <2>1. ps = [k \in DOMAIN units |-> PackForced(gs[units[k]], Options(l, key), w)]
    BY <1>1, Zenon DEF ForcedPart
  <2>2. ps = [k \in 1 .. u |-> PackForced(gs[units[k]], Options(l, key), w)]
    BY <1>8, <2>1, Zenon
  <2>3. \A k \in 1 .. u : PackForced(gs[units[k]], Options(l, key), w)
                            = GroupPackage(l, m, gs, w, units[k])
    <3> TAKE k \in 1 .. u
    <3>1. GroupKey(l, m, gs, units[k]) = key
      BY <1>8, <1>9, Zenon DEF GroupKey
    <3> QED BY <3>1, Zenon DEF GroupPackage
  <2>4. DOMAIN ps = 1 .. u /\ \A k \in 1 .. u : ps[k] = PackForced(gs[units[k]], Options(l, key), w)
    BY <2>2
  <2>5. Len(ps) = u
    BY <2>2
  <2>6. ps \in [1 .. u -> {ps[k] : k \in 1 .. u}]
    BY <2>2
  <2> QED BY <2>3, <2>4, <2>5, <2>6, Zenon
<1>11. PICK C : \A k \in 1 .. u : C[k] = ToSet(gs[units[k]])
  <2>1. PICK f : f = [k \in 1 .. u |-> ToSet(gs[units[k]])]
    OBVIOUS
  <2>2. \A k \in 1 .. u : f[k] = ToSet(gs[units[k]])
    BY <2>1
  <2> QED BY <2>2
<1>12. \A k \in 1 .. u : Packing(l, m, <<ps[k]>>, C[k])
  <2> TAKE k \in 1 .. u
  <2>1. PICK i \in 1 .. Len(gs) : i = units[k]
    BY <1>8, <1>9
  <2>2. Overriding(l, m, gs, w, i)
    BY ForcedPacked
  <2>3. Packing(l, m, <<GroupPackage(l, m, gs, w, i)>>, ToSet(gs[i]))
    BY <2>2, Zenon DEF Overriding
  <2>4. ps[k] = GroupPackage(l, m, gs, w, i) /\ C[k] = ToSet(gs[i])
    BY <1>10, <1>11, <2>1
  <2> QED BY <2>3, <2>4, Zenon
<1>13. \A i, k \in 1 .. u : C[i] \cap C[k] # {} => i = k
  <2> SUFFICES ASSUME NEW i \in 1 .. u, NEW k \in 1 .. u, C[i] \cap C[k] # {} PROVE i = k
    OBVIOUS
  <2>1. PICK a, b : a = units[i] /\ b = units[k] /\ a \in 1 .. Len(gs) /\ b \in 1 .. Len(gs)
    BY <1>8, <1>9
  <2>2. ToSet(gs[a]) \cap ToSet(gs[b]) # {}
    BY <1>11, <2>1
  <2>3. a = b
    BY <1>2, <2>1, <2>2 DEF Held
  <2> QED BY <1>8, <2>1, <2>3
<1>14. \A i \in 1 .. Len(gs) : /\ ToSet(gs[i]) \subseteq Resolved(l, m)
                               /\ \A n \in ToSet(gs[i]) : KeyOf(l, m, n) = KeyOf(l, m, gs[i][1])
  BY <1>2 DEF Held
<1>15. \A i \in 1 .. u : C[i] \subseteq D
  <2> TAKE i \in 1 .. u
  <2>1. PICK a \in 1 .. Len(gs) : a = units[i] /\ a \in U
    BY <1>8, <1>9
  <2>2. C[i] = ToSet(gs[a])
    BY <1>11, <2>1
  <2>3. ToSet(gs[a]) \subseteq AllOf(l, m, gs, key)
    BY <1>9, <1>14, <2>1 DEF AllOf
  <2>4. ToSet(gs[a]) \subseteq Forced(gs)
    BY <1>3 DEF Forced
  <2> QED BY <1>1, <2>2, <2>3, <2>4
<1>16. \A x \in D : \E i \in 1 .. u : x \in C[i]
  <2> TAKE x \in D
  <2>1. x \in Resolved(l, m) /\ KeyOf(l, m, x) = key /\ x \in Forced(gs)
    BY <1>1 DEF AllOf
  <2>2. PICK a \in 1 .. Len(gs) : x \in ToSet(gs[a])
    BY <1>3, <2>1 DEF Forced
  <2>3. KeyOf(l, m, gs[a][1]) = key
    BY <1>14, <2>1, <2>2
  <2>4. a \in U
    BY <1>1, <1>3, <2>3
  <2>5. PICK k \in 1 .. u : units[k] = a
    BY <1>8, <2>4
  <2> QED BY <1>11, <2>2, <2>5
<1>17. Packing(l, m, ps, D)
  <2>1. EachIsPacked(l, m, ps, u, C, D)
    BY <1>10, <1>12, <1>13, <1>15, <1>16 DEF EachIsPacked
  <2> QED BY <2>1, EachPacked
<1>18. \A i \in 1 .. Len(gs) : GroupKey(l, m, gs, i) = key =>
         \E k \in 1 .. Len(ps) : ps[k] = GroupPackage(l, m, gs, w, i)
  <2> SUFFICES ASSUME NEW i \in 1 .. Len(gs), GroupKey(l, m, gs, i) = key
               PROVE  \E k \in 1 .. Len(ps) : ps[k] = GroupPackage(l, m, gs, w, i)
    OBVIOUS
  <2>1. i \in U
    BY <1>1, <1>3 DEF GroupKey
  <2>2. PICK k \in 1 .. u : units[k] = i
    BY <1>8, <2>1
  <2> QED BY <1>10, <2>2
<1> QED
  BY <1>1, <1>17, <1>18, Zenon

\* The cells of a function are packed, once each; its free cells and its
\* overrides as before.
LEMMA KeyPacked ==
  ASSUME NEW l, NEW m, NEW gs, NEW w, Packable(l, m, gs, w), NEW key
  PROVE  /\ Packing(l, m, PackKeyed(l, m, gs, w, key), AllOf(l, m, gs, key))
         /\ \A k \in 1 .. Len(FreePart(l, m, gs, w, key)) :
              \E p \in 1 .. Len(PackKeyed(l, m, gs, w, key)) :
                PackKeyed(l, m, gs, w, key)[p] = FreePart(l, m, gs, w, key)[k]
         /\ \A i \in 1 .. Len(gs) : GroupKey(l, m, gs, i) = key =>
              \E p \in 1 .. Len(PackKeyed(l, m, gs, w, key)) :
                PackKeyed(l, m, gs, w, key)[p] = GroupPackage(l, m, gs, w, i)
<1>1. PICK s, t, C, D : /\ s = FreePart(l, m, gs, w, key) /\ t = ForcedPart(l, m, gs, w, key)
                        /\ C = FreeOf(l, m, gs, key) /\ D = AllOf(l, m, gs, key) \cap Forced(gs)
  OBVIOUS
<1>2. PackKeyed(l, m, gs, w, key) = s \o t
  <2>1. PackKeyed(l, m, gs, w, key) = FreePart(l, m, gs, w, key) \o ForcedPart(l, m, gs, w, key)
    BY Zenon DEF PackKeyed, FreePart, ForcedPart, UnitsOf
  <2> QED BY <1>1, <2>1, Zenon
<1>3. /\ Packing(l, m, s, C) /\ Packing(l, m, t, D)
      /\ \A i \in 1 .. Len(gs) : GroupKey(l, m, gs, i) = key =>
           \E k \in 1 .. Len(t) : t[k] = GroupPackage(l, m, gs, w, i)
  BY <1>1, FreePacked, UnitsPacked, Zenon
<1>4. C \cap D = {} /\ C \cup D = AllOf(l, m, gs, key)
  BY <1>1 DEF FreeOf
<1>5. /\ Packing(l, m, s \o t, C \cup D)
      /\ \A k \in 1 .. Len(s) : \E p \in 1 .. Len(s \o t) : (s \o t)[p] = s[k]
      /\ \A k \in 1 .. Len(t) : \E p \in 1 .. Len(s \o t) : (s \o t)[p] = t[k]
  <2> HIDE <1>1
  <2> QED BY <1>3, <1>4, ConcatPacked
<1>6. PICK r : r = s \o t
  OBVIOUS
<1>7. /\ Packing(l, m, r, AllOf(l, m, gs, key))
      /\ \A k \in 1 .. Len(s) : \E p \in 1 .. Len(r) : r[p] = s[k]
      /\ \A k \in 1 .. Len(t) : \E p \in 1 .. Len(r) : r[p] = t[k]
  BY <1>4, <1>5, <1>6, Zenon
<1>8. \A i \in 1 .. Len(gs) : GroupKey(l, m, gs, i) = key =>
        \E p \in 1 .. Len(r) : r[p] = GroupPackage(l, m, gs, w, i)
  <2> SUFFICES ASSUME NEW i \in 1 .. Len(gs), GroupKey(l, m, gs, i) = key
               PROVE  \E p \in 1 .. Len(r) : r[p] = GroupPackage(l, m, gs, w, i)
    OBVIOUS
  <2>1. PICK k \in 1 .. Len(t) : t[k] = GroupPackage(l, m, gs, w, i)
    BY <1>3
  <2>2. PICK p \in 1 .. Len(r) : r[p] = t[k]
    BY <1>7
  <2> QED BY <2>1, <2>2
<1>9. r = PackKeyed(l, m, gs, w, key) /\ s = FreePart(l, m, gs, w, key)
  BY <1>1, <1>2, <1>6, Zenon
<1>10. \A k \in 1 .. Len(s) : \E p \in 1 .. Len(r) : r[p] = s[k]
  BY <1>7
<1> HIDE <1>1, <1>6
<1> QED
  BY <1>7, <1>8, <1>9, <1>10

\* The functions of the cells.
KeysOf(l, m) == {KeyOf(l, m, n) : n \in Resolved(l, m)}

\* The result of the packer: all the cells once, and the packages of each function.
Packed(l, m, gs, w, ps) ==
  /\ Packing(l, m, ps, Resolved(l, m))
  /\ \A key \in KeysOf(l, m) : \A k \in 1 .. Len(FreePart(l, m, gs, w, key)) :
       \E p \in 1 .. Len(ps) : ps[p] = FreePart(l, m, gs, w, key)[k]
  /\ \A i \in 1 .. Len(gs) : \E p \in 1 .. Len(ps) : ps[p] = GroupPackage(l, m, gs, w, i)

\* The functions one after the other, and sorted at the end.
LEMMA AllPacked ==
  ASSUME NEW l, NEW m, NEW gs, NEW w, Packable(l, m, gs, w)
  PROVE  Packed(l, m, gs, w, PackAll(l, m, gs, w))
<1>1. PICK K, n, keys : K = KeysOf(l, m) /\ n = Cardinality(K) /\ keys = SetToSeq(K)
  OBVIOUS
<1>2. l \in Libraries /\ m \in Netlists
  BY DEF Packable
<1>3. IsFiniteSet(K) /\ n \in Nat
  <2>1. IsFiniteSet(Resolved(l, m))
    BY <1>2, ResolvedFinite
  <2>2. PICK f : f = [x \in Resolved(l, m) |-> KeyOf(l, m, x)]
    OBVIOUS
  <2>3. f \in Surjection(Resolved(l, m), K)
    BY <1>1, <2>2 DEF KeysOf, Surjection
  <2>4. IsFiniteSet(K)
    BY <2>1, <2>3, FS_Surjection
  <2> QED BY <1>1, <2>4, FS_CardinalityType
<1>4. /\ \A i \in 1 .. n : keys[i] \in K
      /\ \A i, k \in 1 .. n : keys[i] = keys[k] => i = k
      /\ \A key \in K : \E i \in 1 .. n : keys[i] = key
  <2>1. Renames(keys, 1 .. n, K)
    <3>1. Renames(SetToSeq(K), 1 .. Cardinality(K), K)
      BY <1>3, SetInAList
    <3> QED BY <1>1, <3>1, Zenon
  <2> QED BY <2>1 DEF Renames
<1> DEFINE seqs == [i \in 1 .. n |-> PackKeyed(l, m, gs, w, keys[i])]
<1>5. PackAll(l, m, gs, w) = StableSort(FlattenSeq(seqs), PackedBefore)
  <2>1. PackAll(l, m, gs, w)
          = StableSort(FlattenSeq([i \in 1 .. Cardinality(KeysOf(l, m)) |->
                                     PackKeyed(l, m, gs, w, SetToSeq(KeysOf(l, m))[i])]),
                       PackedBefore)
    BY Zenon DEF PackAll, KeysOf
  <2> QED BY <1>1, <2>1, Zenon
<1>6. \A i \in 1 .. n : seqs[i] = PackKeyed(l, m, gs, w, keys[i])
  OBVIOUS
<1>7. seqs \in [1 .. n -> {seqs[i] : i \in 1 .. n}]
  OBVIOUS
<1>8. PICK q : q = seqs
  OBVIOUS
<1>9. /\ \A i \in 1 .. n : q[i] = PackKeyed(l, m, gs, w, keys[i])
      /\ q \in [1 .. n -> {q[i] : i \in 1 .. n}]
      /\ PackAll(l, m, gs, w) = StableSort(FlattenSeq(q), PackedBefore)
  <2> HIDE DEF seqs
  <2> QED BY <1>5, <1>6, <1>7, <1>8, Zenon
<1> HIDE DEF seqs
<1> HIDE <1>8
<1>10. PICK C : \A i \in 1 .. n : C[i] = AllOf(l, m, gs, keys[i])
  <2>1. PICK f : f = [i \in 1 .. n |-> AllOf(l, m, gs, keys[i])]
    OBVIOUS
  <2>2. \A i \in 1 .. n : f[i] = AllOf(l, m, gs, keys[i])
    BY <2>1
  <2> QED BY <2>2
<1>11. PICK R : R = Resolved(l, m)
  OBVIOUS
<1>12. Packings(l, m, q, n, C, R)
  <2>1. \A i \in 1 .. n : Packing(l, m, q[i], C[i])
    <3> TAKE i \in 1 .. n
    <3>1. PICK key : key = keys[i]
      OBVIOUS
    <3>2. Packing(l, m, PackKeyed(l, m, gs, w, key), AllOf(l, m, gs, key))
      BY KeyPacked
    <3>3. q[i] = PackKeyed(l, m, gs, w, key) /\ C[i] = AllOf(l, m, gs, key)
      BY <1>9, <1>10, <3>1
    <3> QED BY <3>2, <3>3, Zenon
  <2>2. \A i \in 1 .. n : C[i] \subseteq R /\ \A x \in C[i] : KeyOf(l, m, x) = keys[i]
    BY <1>10, <1>11 DEF AllOf
  <2>3. \A i, k \in 1 .. n : C[i] \cap C[k] # {} => i = k
    <3> SUFFICES ASSUME NEW i \in 1 .. n, NEW k \in 1 .. n, NEW x, x \in C[i], x \in C[k]
                 PROVE  i = k
      OBVIOUS
    <3>1. keys[i] = keys[k]
      BY <2>2
    <3> QED BY <1>4, <3>1
  <2>4. \A x \in R : \E i \in 1 .. n : x \in C[i]
    <3> TAKE x \in R
    <3>1. KeyOf(l, m, x) \in K
      BY <1>1, <1>11 DEF KeysOf
    <3>2. PICK i \in 1 .. n : keys[i] = KeyOf(l, m, x)
      BY <1>4, <3>1
    <3>3. x \in AllOf(l, m, gs, keys[i])
      BY <1>11, <3>2 DEF AllOf
    <3> QED BY <1>10, <3>3
  <2> QED BY <2>1, <2>2, <2>3, <2>4 DEF Packings
<1>13. PICK F : F = FlattenSeq(q)
  OBVIOUS
<1>14. Packing(l, m, F, R) /\ Gathered(F, q, n)
  <2>1. PICK X : q \in [1 .. n -> X]
    BY <1>9
  <2>2. Packing(l, m, FlattenSeq(q), R) /\ Gathered(FlattenSeq(q), q, n)
    BY <1>3, <1>12, <2>1, FlattenPacked
  <2> QED BY <1>13, <2>2, Zenon
<1>15. PICK t : t = StableSort(F, PackedBefore)
  OBVIOUS
<1>16. \E p : Reordered(t, F, p)
  <2>1. Parted(l, m, F, R)
    BY <1>14, PackingParts
  <2>2. Len(F) \in Nat
    BY <2>1 DEF Parted
  <2>3. \A i \in 1 .. Len(F) : F[i].part.suffix \in Nat /\ F[i].cells[1] \in Nat
    <3> TAKE i \in 1 .. Len(F)
    <3>1. /\ F[i].part \in ToSet(l) /\ Len(F[i].cells) \in 1 .. F[i].part.cap
          /\ \A j \in 1 .. Len(F[i].cells) : F[i].cells[j] \in R
      BY <2>1 DEF Parted
    <3>2. F[i].part.suffix \in Nat /\ F[i].part.cap \in Nat
      BY <1>2, <3>1, RowTypes
    <3>3. 1 \in 1 .. Len(F[i].cells)
      BY <3>1, <3>2
    <3>4. F[i].cells[1] \in Nat
      BY <1>2, <1>11, <3>1, <3>3, ResolvedFinite
    <3> QED BY <3>2, <3>4
  <2>4. \E p : /\ Renames(p, 1 .. Len(F), 1 .. Len(F))
               /\ StableSort(F, PackedBefore) = [k \in 1 .. Len(F) |-> F[p[k]]]
    <3> HIDE <1>13
    <3> QED BY <2>2, <2>3, PackedSorted
  <2> QED BY <1>15, <2>4, Zenon DEF Reordered
<1>17. PICK p : Reordered(t, F, p)
  BY <1>16
<1>18. /\ Packing(l, m, t, R)
       /\ \A k \in 1 .. Len(F) : \E j \in 1 .. Len(t) : t[j] = F[k]
  <2> HIDE <1>13, <1>15
  <2> QED BY <1>14, <1>17, SortedPacked
<1>19. PackAll(l, m, gs, w) = t
  BY <1>9, <1>13, <1>15, Zenon
<1> HIDE <1>13, <1>15
<1>20. \A key \in K : \A p1 \in 1 .. Len(PackKeyed(l, m, gs, w, key)) :
         \E j \in 1 .. Len(t) : t[j] = PackKeyed(l, m, gs, w, key)[p1]
  <2> TAKE key \in K
  <2>1. PICK i \in 1 .. n : keys[i] = key
    BY <1>4
  <2>2. q[i] = PackKeyed(l, m, gs, w, key)
    BY <1>9, <2>1
  <2>3. \A k \in 1 .. Len(q[i]) : \E j \in 1 .. Len(t) : t[j] = q[i][k]
    <3> TAKE k \in 1 .. Len(q[i])
    <3>1. PICK a \in 1 .. Len(F) : F[a] = q[i][k]
      BY <1>14 DEF Gathered
    <3>2. PICK j \in 1 .. Len(t) : t[j] = F[a]
      BY <1>18
    <3> QED BY <3>1, <3>2
  <2> QED BY <2>2, <2>3, Zenon
<1>21. \A key \in K : \A k \in 1 .. Len(FreePart(l, m, gs, w, key)) :
         \E j \in 1 .. Len(t) : t[j] = FreePart(l, m, gs, w, key)[k]
  <2> TAKE key \in K
  <2> TAKE k \in 1 .. Len(FreePart(l, m, gs, w, key))
  <2>1. PICK a \in 1 .. Len(PackKeyed(l, m, gs, w, key)) :
          PackKeyed(l, m, gs, w, key)[a] = FreePart(l, m, gs, w, key)[k]
    BY KeyPacked
  <2>2. PICK j \in 1 .. Len(t) : t[j] = PackKeyed(l, m, gs, w, key)[a]
    BY <1>20
  <2> QED BY <2>1, <2>2, Zenon
<1>22. \A i \in 1 .. Len(gs) : \E j \in 1 .. Len(t) : t[j] = GroupPackage(l, m, gs, w, i)
  <2> TAKE i \in 1 .. Len(gs)
  <2>1. PICK key : key = GroupKey(l, m, gs, i)
    OBVIOUS
  <2>2. key \in K
    <3>1. Held(l, m, gs)
      BY OverridesHeld
    <3>2. gs[i] \in Seq(Nat) /\ gs[i] # <<>> /\ ToSet(gs[i]) \subseteq Resolved(l, m)
      BY <3>1 DEF Held
    <3>3. gs[i][1] \in ToSet(gs[i])
      BY <3>2 DEF ToSet
    <3> QED BY <1>1, <2>1, <3>2, <3>3 DEF GroupKey, KeysOf
  <2>3. PICK a \in 1 .. Len(PackKeyed(l, m, gs, w, key)) :
          PackKeyed(l, m, gs, w, key)[a] = GroupPackage(l, m, gs, w, i)
    BY <2>1, KeyPacked
  <2>4. PICK j \in 1 .. Len(t) : t[j] = PackKeyed(l, m, gs, w, key)[a]
    BY <1>20, <2>2
  <2> QED BY <2>3, <2>4, Zenon
<1>23. Packed(l, m, gs, w, t)
  BY <1>1, <1>11, <1>18, <1>21, <1>22, Zenon DEF Packed
<1> QED
  BY <1>19, <1>23, Zenon

(***************************************************************************)
(* What the packer promises of a result                                    *)
(***************************************************************************)

\* The cells of the packages, one after the other, are the cells of the set, each
\* of them once.
LEMMA CellsOnce ==
  ASSUME NEW l, NEW m, NEW ps, NEW C, Packing(l, m, ps, C), IsFiniteSet(C)
  PROVE  FlattenSeq([i \in DOMAIN ps |-> ps[i].cells]) \in SetToSeqs(C)
<1>1. Parted(l, m, ps, C)
  BY PackingParts
<1>2. PICK n \in Nat : n = Len(ps) /\ DOMAIN ps = 1 .. n
  BY <1>1 DEF Parted
<1>3. /\ \A i \in 1 .. n : ps[i].cells \in Seq(C) /\ Len(ps[i].cells) \in Nat
      /\ \A i \in 1 .. n : \A j \in 1 .. Len(ps[i].cells) : ps[i].cells[j] \in C
      /\ \A x \in C : \E i \in 1 .. n : \E j \in 1 .. Len(ps[i].cells) : ps[i].cells[j] = x
  BY <1>1, <1>2 DEF Parted
<1>4. \A i, k \in 1 .. n : \A j \in 1 .. Len(ps[i].cells), r \in 1 .. Len(ps[k].cells) :
        ps[i].cells[j] = ps[k].cells[r] => i = k /\ j = r
  BY <1>2 DEF Packing, PacksOnce
<1>5. PICK cs : cs = [i \in DOMAIN ps |-> ps[i].cells]
  OBVIOUS
<1>6. Len(cs) = n /\ \A i \in 1 .. n : cs[i] = ps[i].cells
  BY <1>2, <1>5
<1>7. cs \in Seq(Seq(C))
  <2>1. PICK Z : Z = Seq(C)
    OBVIOUS
  <2>2. \A i \in 1 .. n : cs[i] \in Z
    BY <1>3, <1>6, <2>1
  <2>3. cs = [i \in 1 .. n |-> cs[i]]
    BY <1>2, <1>5
  <2>4. cs \in Seq(Z)
    BY <2>2, <2>3
  <2> QED BY <2>1, <2>4
<1>8. PICK F, at : /\ F = FlattenSeq(cs) /\ F \in Seq(C) /\ Renames(at, 1 .. Len(F), Slots(cs))
                   /\ \A p \in 1 .. Len(F) : F[p] = cs[at[p][1]][at[p][2]]
  <2> HIDE <1>5
  <2>1. PICK f : f = FlattenSeq(cs)
    OBVIOUS
  <2>2. /\ f \in Seq(C)
        /\ \E at : /\ Renames(at, 1 .. Len(f), Slots(cs))
                   /\ \A p \in 1 .. Len(f) : f[p] = cs[at[p][1]][at[p][2]]
    BY <1>7, <2>1, FlattenPositions
  <2> QED BY <2>1, <2>2
<1>9. PICK N \in Nat : N = Len(F) /\ F \in [1 .. N -> C]
  BY <1>8
<1>10. \A p \in 1 .. N : /\ at[p] \in Slots(cs) /\ at[p] = <<at[p][1], at[p][2]>>
                         /\ at[p][1] \in 1 .. n /\ at[p][2] \in 1 .. Len(ps[at[p][1]].cells)
                         /\ F[p] = ps[at[p][1]].cells[at[p][2]]
  <2> TAKE p \in 1 .. N
  <2>1. at[p] \in Slots(cs) /\ F[p] = cs[at[p][1]][at[p][2]]
    BY <1>8, <1>9 DEF Renames
  <2>2. /\ at[p] = <<at[p][1], at[p][2]>> /\ at[p][1] \in 1 .. n
        /\ at[p][2] \in 1 .. Len(cs[at[p][1]])
    BY <1>6, <2>1 DEF Slots
  <2> QED BY <1>6, <2>1, <2>2
<1>11. \A p, q \in 1 .. N : F[p] = F[q] => p = q
  <2> SUFFICES ASSUME NEW p \in 1 .. N, NEW q \in 1 .. N, F[p] = F[q] PROVE p = q
    OBVIOUS
  <2>1. PICK i, k, j, r : at[p] = <<i, j>> /\ at[q] = <<k, r>>
    BY <1>10
  <2>2. /\ i \in 1 .. n /\ k \in 1 .. n
        /\ j \in 1 .. Len(ps[i].cells) /\ r \in 1 .. Len(ps[k].cells)
        /\ F[p] = ps[i].cells[j] /\ F[q] = ps[k].cells[r]
    BY <1>10, <2>1
  <2>3. ps[i].cells[j] = ps[k].cells[r]
    BY <2>2
  <2>4. i = k /\ j = r
    BY <1>4, <2>2, <2>3
  <2>5. at[p] = at[q]
    BY <2>1, <2>4
  <2> QED BY <1>8, <1>9, <2>5 DEF Renames
<1>12. \A x \in C : \E p \in 1 .. N : F[p] = x
  <2> TAKE x \in C
  <2>1. PICK i \in 1 .. n : \E j \in 1 .. Len(ps[i].cells) : ps[i].cells[j] = x
    BY <1>3
  <2>2. PICK j \in 1 .. Len(ps[i].cells) : ps[i].cells[j] = x
    BY <2>1
  <2>3. <<i, j>> \in Slots(cs)
    BY <1>3, <1>6, <2>2 DEF Slots
  <2>4. PICK p \in 1 .. N : at[p] = <<i, j>>
    BY <1>8, <1>9, <2>3 DEF Renames
  <2> QED BY <1>10, <2>2, <2>4
<1>13. Renames(F, 1 .. N, C)
  BY <1>9, <1>11, <1>12 DEF Renames
<1>14. N = Cardinality(C)
  <2>1. \A k \in Nat : IsFiniteSet(1 .. k) /\ Cardinality(1 .. k) = k
    <3> TAKE k \in Nat
    <3> QED BY FS_Interval
  <2>2. IsFiniteSet(1 .. N) /\ Cardinality(1 .. N) = N
    BY <2>1, Zenon
  <2> QED BY <1>13, <2>2, RenamesCount
<1>15. F \in SetToSeqs(C)
  BY <1>9, <1>11, <1>14 DEF SetToSeqs
<1> QED
  BY <1>5, <1>8, <1>15, Zenon

\* What SpentOn sums, as a sum over the positions of some packages.
SpentIn(ps, cells, w) ==
  PackCost(ps, {i \in DOMAIN ps : ToSet(ps[i].cells) \cap cells # {}}, w)

\* Packages that are all among some others.
PartsOf(g, ps) == \A k \in 1 .. Len(g) : \E j \in 1 .. Len(ps) : ps[j] = g[k]

\* Two packings of which the one is part of the other: its cells are in no
\* other package, and cost as much in either.
LEMMA PartCosts ==
  ASSUME NEW l \in Libraries, NEW m, NEW w \in Nat, NEW ps, NEW C, Packing(l, m, ps, C),
         NEW g, NEW E, Packing(l, m, g, E),
         PartsOf(g, ps)
  PROVE  SpentIn(ps, E, w) = PackCost(g, DOMAIN g, w)
<1>1. Parted(l, m, ps, C) /\ Parted(l, m, g, E)
  BY PackingParts
<1>2. PICK n, u \in Nat : n = Len(ps) /\ u = Len(g) /\ DOMAIN ps = 1 .. n /\ DOMAIN g = 1 .. u
  BY <1>1 DEF Parted
<1>3. /\ \A i \in 1 .. n : ps[i].part \in ToSet(l) /\ Len(ps[i].cells) \in 1 .. ps[i].part.cap
                           /\ DOMAIN ps[i].cells = 1 .. Len(ps[i].cells)
      /\ \A i \in 1 .. u : g[i].part \in ToSet(l) /\ Len(g[i].cells) \in 1 .. g[i].part.cap
                           /\ DOMAIN g[i].cells = 1 .. Len(g[i].cells)
                           /\ \A j \in 1 .. Len(g[i].cells) : g[i].cells[j] \in E
      /\ \A x \in E : \E i \in 1 .. u : \E j \in 1 .. Len(g[i].cells) : g[i].cells[j] = x
  <2>1. \A i \in 1 .. n : ps[i].part \in ToSet(l) /\ Len(ps[i].cells) \in 1 .. ps[i].part.cap
                          /\ ps[i].cells \in Seq(C)
    BY <1>1, <1>2 DEF Parted
  <2>2. \A i \in 1 .. u : g[i].part \in ToSet(l) /\ Len(g[i].cells) \in 1 .. g[i].part.cap
                          /\ g[i].cells \in Seq(E)
                          /\ \A j \in 1 .. Len(g[i].cells) : g[i].cells[j] \in E
    BY <1>1, <1>2 DEF Parted
  <2>3. \A S : \A q \in Seq(S) : DOMAIN q = 1 .. Len(q)
    OBVIOUS
  <2>4. \A x \in E : \E i \in 1 .. u : \E j \in 1 .. Len(g[i].cells) : g[i].cells[j] = x
    BY <1>1, <1>2 DEF Parted
  <2> QED BY <2>1, <2>2, <2>3, <2>4
<1>4. /\ \A i, k \in 1 .. n : \A j \in 1 .. Len(ps[i].cells), r \in 1 .. Len(ps[k].cells) :
           ps[i].cells[j] = ps[k].cells[r] => i = k
      /\ \A i, k \in 1 .. u : \A j \in 1 .. Len(g[i].cells), r \in 1 .. Len(g[k].cells) :
           g[i].cells[j] = g[k].cells[r] => i = k
  BY <1>2 DEF Packing, PacksOnce
<1>5. \A p : p.part \in ToSet(l) /\ Len(p.cells) \in 1 .. p.part.cap => Cost(p, w) \in Nat
  <2> SUFFICES ASSUME NEW p, p.part \in ToSet(l), Len(p.cells) \in 1 .. p.part.cap
               PROVE  Cost(p, w) \in Nat
    OBVIOUS
  <2>1. p.part.cap \in Nat /\ p.part.area \in Nat
    BY RowTypes
  <2>2. PICK a, c, k \in Nat : a = p.part.area /\ c = p.part.cap /\ k = Len(p.cells) /\ k <= c
    BY <2>1
  <2>3. (c - k) * w \in Nat
    <3>1. c - k \in Nat
      BY <2>2
    <3> QED BY <3>1, ProductNat
  <2>4. Cost(p, w) = a + (c - k) * w
    BY <2>2 DEF Cost, Spare
  <2> QED BY <2>2, <2>3, <2>4
<1>6. PICK f, h, X : /\ f = [i \in DOMAIN g |-> Cost(g[i], w)]
                     /\ h = [i \in DOMAIN ps |-> Cost(ps[i], w)]
                     /\ X = {i \in DOMAIN ps : ToSet(ps[i].cells) \cap E # {}}
  OBVIOUS
<1>7. /\ \A i \in 1 .. u : f[i] = Cost(g[i], w) /\ f[i] \in Nat
      /\ \A i \in 1 .. n : h[i] = Cost(ps[i], w) /\ h[i] \in Nat
  BY <1>2, <1>3, <1>5, <1>6
<1>8. X \subseteq 1 .. n /\ Summable(f, 1 .. u) /\ Summable(h, X)
  <2>1. X \in SUBSET (1 .. n)
    BY <1>2, <1>6
  <2>2. IsFiniteSet(1 .. n) /\ IsFiniteSet(1 .. u)
    BY FS_Interval
  <2>3. IsFiniteSet(X)
    BY <2>1, <2>2, FS_Subset
  <2> QED BY <1>7, <2>1, <2>2, <2>3 DEF Summable
<1>9. PICK at \in [1 .. u -> 1 .. n] : \A k \in 1 .. u : ps[at[k]] = g[k]
  <2>1. PICK e : e = [k \in 1 .. u |-> CHOOSE j \in 1 .. n : ps[j] = g[k]]
    OBVIOUS
  <2>2. \A k \in 1 .. u : e[k] \in 1 .. n /\ ps[e[k]] = g[k]
    BY <1>2, <2>1 DEF PartsOf
  <2>3. e \in [1 .. u -> 1 .. n]
    BY <2>1, <2>2
  <2> QED BY <2>2, <2>3
<1>10. \A k \in 1 .. u : 1 \in 1 .. Len(g[k].cells) /\ g[k].cells[1] \in E
  <2> TAKE k \in 1 .. u
  <2>1. g[k].part \in ToSet(l) /\ Len(g[k].cells) \in 1 .. g[k].part.cap
    BY <1>3
  <2>2. g[k].part.cap \in Nat
    BY <2>1, RowTypes
  <2>3. 1 \in 1 .. Len(g[k].cells)
    BY <2>1, <2>2
  <2> QED BY <1>3, <2>3
<1>11. Renames(at, 1 .. u, X)
  <2>1. \A k \in 1 .. u : at[k] \in X
    <3> TAKE k \in 1 .. u
    <3>1. PICK y : y = at[k] /\ y \in 1 .. n /\ ps[y] = g[k]
      BY <1>9
    <3>2. g[k].cells[1] \in ToSet(g[k].cells)
      BY <1>3, <1>10 DEF ToSet
    <3>3. ToSet(ps[y].cells) \cap E # {}
      BY <1>10, <3>1, <3>2
    <3> QED BY <1>2, <1>6, <3>1, <3>3
  <2>2. \A a, b \in 1 .. u : at[a] = at[b] => a = b
    <3> SUFFICES ASSUME NEW a \in 1 .. u, NEW b \in 1 .. u, at[a] = at[b] PROVE a = b
      OBVIOUS
    <3>1. g[a] = g[b]
      BY <1>9
    <3> QED BY <1>4, <1>10, <3>1
  <2>3. \A i \in X : \E k \in 1 .. u : at[k] = i
    <3> TAKE i \in X
    <3>1. PICK x \in E : x \in ToSet(ps[i].cells)
      BY <1>6
    <3>2. i \in 1 .. n
      BY <1>8
    <3>3. PICK j \in 1 .. Len(ps[i].cells) : ps[i].cells[j] = x
      BY <1>3, <3>1, <3>2 DEF ToSet
    <3>4. PICK k \in 1 .. u : \E r \in 1 .. Len(g[k].cells) : g[k].cells[r] = x
      BY <1>3
    <3>5. PICK r \in 1 .. Len(g[k].cells) : g[k].cells[r] = x
      BY <3>4
    <3>6. PICK y \in 1 .. n : y = at[k] /\ ps[y] = g[k]
      BY <1>9
    <3>7. r \in 1 .. Len(ps[y].cells) /\ ps[y].cells[r] = x
      BY <3>5, <3>6
    <3>8. y = i
      BY <1>4, <3>2, <3>3, <3>7
    <3> QED BY <3>6, <3>8
  <2> QED BY <1>9, <2>1, <2>2, <2>3 DEF Renames
<1>12. \A k \in 1 .. u : f[k] = h[at[k]]
  BY <1>7, <1>9
<1>13. SumFunctionOnSet(f, 1 .. u) = SumFunctionOnSet(h, X)
  <2> HIDE <1>6
  <2> QED BY <1>8, <1>11, <1>12, SumRenamed
<1>14. SpentIn(ps, E, w) = SumFunctionOnSet(h, X)
  BY <1>6, Zenon DEF SpentIn, PackCost
<1>15. PackCost(g, DOMAIN g, w) = SumFunctionOnSet(f, 1 .. u)
  <2>1. PackCost(g, DOMAIN g, w) = SumFunctionOnSet(f, DOMAIN g)
    BY <1>6, Zenon DEF PackCost
  <2> QED BY <1>2, <2>1, Zenon
<1> QED
  BY <1>13, <1>14, <1>15, Zenon

(***************************************************************************)
(* The packer                                                              *)
(***************************************************************************)

\* The inductive invariant: the inputs of the build stay what they were, and
\* the packages, once there are any, are those of these inputs, which no
\* override was refused for.
IInv ==
  /\ lib \in Libraries /\ mapped \in Netlists /\ groups \in Overrides /\ weight \in Weights
  /\ status \in {"ready", "packed", "PackError", "AssertionError"}
  /\ status # "packed" => packages = <<>>
  /\ status = "packed" =>
       /\ Verdict(lib, mapped, groups) = "packed"
       /\ packages = PackAll(lib, mapped, groups, weight)

\* The packer packs, or it refuses an override in one of two ways.
LEMMA VerdictTypes ==
  \A l, m, gs : Verdict(l, m, gs) \in {"packed", "PackError", "AssertionError"}
<1> TAKE l, m, gs
<1>1. CollectForced(l, m, gs) \in {"packed", "PackError", "AssertionError"}
  BY Zenon DEF CollectForced
<1> QED
  BY <1>1, Zenon DEF Verdict

\* The invariant holds at the start, and every step keeps it.
LEMMA InvariantHolds == Spec => []IInv
<1>1. Init => IInv
  BY Zenon DEF Init, IInv
<1>2. IInv /\ [Next]_vars => IInv'
  <2> SUFFICES ASSUME IInv, [Next]_vars PROVE IInv'
    OBVIOUS
  <2>1. ASSUME Pack PROVE IInv'
    <3>1. /\ lib' = lib /\ mapped' = mapped /\ groups' = groups /\ weight' = weight
          /\ status' = "packed" /\ Verdict(lib, mapped, groups) = "packed"
          /\ packages' = PackAll(lib, mapped, groups, weight)
      BY <2>1, Zenon DEF Pack
    <3>2. lib \in Libraries /\ mapped \in Netlists /\ groups \in Overrides /\ weight \in Weights
      BY Zenon DEF IInv
    <3> QED BY <3>1, <3>2, Zenon DEF IInv
  <2>2. ASSUME Refuse PROVE IInv'
    <3>1. /\ lib' = lib /\ mapped' = mapped /\ groups' = groups /\ weight' = weight
          /\ packages' = packages /\ status = "ready"
          /\ status' = Verdict(lib, mapped, groups) /\ status' # "packed"
      BY <2>2, Zenon DEF Refuse
    <3>2. /\ lib \in Libraries /\ mapped \in Netlists /\ groups \in Overrides
          /\ weight \in Weights /\ packages = <<>>
      BY <3>1 DEF IInv
    <3>3. status' \in {"ready", "packed", "PackError", "AssertionError"}
      BY <3>1, VerdictTypes, Zenon
    <3> QED BY <3>1, <3>2, <3>3, Zenon DEF IInv
  <2>3. ASSUME UNCHANGED vars PROVE IInv'
    <3>1. /\ lib' = lib /\ mapped' = mapped /\ groups' = groups /\ weight' = weight
          /\ status' = status /\ packages' = packages
      BY <2>3, Zenon DEF vars
    <3> QED BY <3>1, Zenon DEF IInv
  <2> QED BY <2>1, <2>2, <2>3 DEF Next
<1> QED
  BY <1>1, <1>2, PTL DEF Spec

\* What the invariant says of the packages of a build that has some.
LEMMA PackagesPacked ==
  ASSUME IInv, status = "packed"
  PROVE  /\ Packable(lib, mapped, groups, weight)
         /\ Packed(lib, mapped, groups, weight, packages)
<1>1. Packable(lib, mapped, groups, weight) /\ packages = PackAll(lib, mapped, groups, weight)
  BY Zenon DEF IInv, Packable
<1>2. Packed(lib, mapped, groups, weight, PackAll(lib, mapped, groups, weight))
  BY <1>1, AllPacked
<1> QED
  BY <1>1, <1>2, Zenon

\* Every package the packer makes is a row of this build's parts table with
\* cells of this build's netlist.
THEOREM TypeCorrect == Spec => []TypeOK
<1>1. IInv => TypeOK
  <2> SUFFICES ASSUME IInv PROVE TypeOK
    OBVIOUS
  <2>1. /\ status \in {"ready", "packed", "PackError", "AssertionError"}
        /\ status # "packed" => packages = <<>>
    BY Zenon DEF IInv
  <2>2. packages \in Seq([part : ToSet(lib), cells : Seq(DOMAIN mapped)])
    <3> DEFINE Z == [part : ToSet(lib), cells : Seq(DOMAIN mapped)]
    <3>1. CASE status = "packed"
      <4>1. Packing(lib, mapped, packages, Resolved(lib, mapped))
        BY <3>1, PackagesPacked DEF Packed
      <4>2. packages \in Seq(Packages(ToSet(lib), Resolved(lib, mapped)))
        BY <4>1 DEF Packing
      <4>3. Resolved(lib, mapped) \subseteq DOMAIN mapped
        BY DEF Resolved
      <4>4. \A D : Resolved(lib, mapped) \subseteq D => Seq(Resolved(lib, mapped)) \subseteq Seq(D)
        OBVIOUS
      <4>5. Packages(ToSet(lib), Resolved(lib, mapped)) \subseteq Z
        BY <4>3, <4>4 DEF Packages
      <4>6. \A X, Y : X \subseteq Y => Seq(X) \subseteq Seq(Y)
        OBVIOUS
      <4> QED BY <4>2, <4>5, <4>6, Zenon
    <3>2. CASE status # "packed"
      <4>1. packages = <<>>
        BY <2>1, <3>2
      <4>2. \A S : <<>> \in Seq(S)
        OBVIOUS
      <4> QED BY <4>1, <4>2, Zenon
    <3> QED BY <3>1, <3>2
  <2> QED BY <2>1, <2>2 DEF TypeOK
<1> QED
  BY <1>1, InvariantHolds, PTL

\* Every cell the library knows is in exactly one package, of its own function
\* and no fuller than the package allows: forced and free cells, whatever the
\* parts table, the netlist and the overrides.
THEOREM CellsArePackedOnce == Spec => []EveryCellOnce
<1>1. IInv => EveryCellOnce
  <2> SUFFICES ASSUME IInv, status = "packed"
               PROVE  /\ FlattenSeq([i \in DOMAIN packages |-> packages[i].cells])
                           \in SetToSeqs(Resolved(lib, mapped))
                      /\ \A i \in DOMAIN packages :
                           /\ Len(packages[i].cells) \in 1 .. packages[i].part.cap
                           /\ \A n \in ToSet(packages[i].cells) :
                                KeyOf(lib, mapped, n) = PackKey(packages[i].part)
    BY Zenon DEF EveryCellOnce
  <2>1. Packing(lib, mapped, packages, Resolved(lib, mapped))
    BY PackagesPacked DEF Packed
  <2>2. IsFiniteSet(Resolved(lib, mapped))
    <3>1. mapped \in Netlists
      BY Zenon DEF IInv
    <3> QED BY <3>1, ResolvedFinite
  <2>3. FlattenSeq([i \in DOMAIN packages |-> packages[i].cells])
          \in SetToSeqs(Resolved(lib, mapped))
    BY <2>1, <2>2, CellsOnce
  <2>4. Parted(lib, mapped, packages, Resolved(lib, mapped))
    BY <2>1, PackingParts
  <2>5. ASSUME NEW i \in DOMAIN packages
        PROVE  /\ Len(packages[i].cells) \in 1 .. packages[i].part.cap
               /\ \A n \in ToSet(packages[i].cells) :
                    KeyOf(lib, mapped, n) = PackKey(packages[i].part)
    <3>1. /\ Len(packages[i].cells) \in 1 .. packages[i].part.cap
          /\ packages[i].cells \in Seq(Resolved(lib, mapped))
          /\ \A j \in 1 .. Len(packages[i].cells) :
               KeyOf(lib, mapped, packages[i].cells[j]) = PackKey(packages[i].part)
      BY <2>4, <2>5 DEF Parted
    <3>2. \A S : \A q \in Seq(S) : \A n \in ToSet(q) : \E j \in 1 .. Len(q) : q[j] = n
      BY DEF ToSet
    <3>3. \A n \in ToSet(packages[i].cells) :
            \E j \in 1 .. Len(packages[i].cells) : packages[i].cells[j] = n
      BY <3>1, <3>2, Zenon
    <3> QED BY <3>1, <3>3, Zenon
  <2> QED BY <2>3, <2>5, Zenon
<1> QED
  BY <1>1, InvariantHolds, PTL

\* A package costs what its part costs for so many cells, and what another part
\* would cost for them if that part were put in its place.
LEMMA CostIsCostFor ==
  ASSUME NEW p, NEW w, p = Package(p.part, p.cells)
  PROVE  /\ Cost(p, w) = CostFor(p.part, Len(p.cells), w)
         /\ \A r : Cost([p EXCEPT !.part = r], w) = CostFor(r, Len(p.cells), w)
<1>1. \A q : Cost(q, w) = CostFor(q.part, Len(q.cells), w)
  BY Zenon DEF Cost, Spare, CostFor
<1>2. "part" \in DOMAIN p /\ "cells" \in DOMAIN p
  <2>1. \A part, cells : "part" \in DOMAIN Package(part, cells) /\ "cells" \in DOMAIN Package(part, cells)
    BY DEF Package
  <2> QED BY <2>1, Zenon
<1>3. \A r : [p EXCEPT !.part = r].part = r /\ [p EXCEPT !.part = r].cells = p.cells
  <2>1. \A q, r : "part" \in DOMAIN q /\ "cells" \in DOMAIN q =>
          [q EXCEPT !.part = r].part = r /\ [q EXCEPT !.part = r].cells = q.cells
    OBVIOUS
  <2> QED BY <1>2, <2>1, Zenon
<1> QED
  BY <1>1, <1>3, Zenon

\* Every override has a package of its own, its cells and no others, and no
\* other row of the parts table that could hold them costs less.
THEOREM OverridesAreMet == Spec => []OverridesMet
<1>1. IInv => OverridesMet
  <2> SUFFICES ASSUME IInv, status = "packed", NEW i \in DOMAIN groups
               PROVE  \E j \in DOMAIN packages :
                        /\ ToSet(packages[j].cells) = ToSet(groups[i])
                        /\ \A r \in ToSet(lib) :
                             PackKey(r) = PackKey(packages[j].part) /\ r.cap >= Len(groups[i])
                               => Cost(packages[j], weight)
                                    <= Cost([packages[j] EXCEPT !.part = r], weight)
    BY Zenon DEF OverridesMet
  <2>1. /\ Packable(lib, mapped, groups, weight)
        /\ Packed(lib, mapped, groups, weight, packages)
    BY PackagesPacked
  <2>2. i \in 1 .. Len(groups)
    <3>1. Held(lib, mapped, groups)
      BY <2>1, OverridesHeld
    <3> QED BY <3>1 DEF Held
  <2>3. PICK j \in 1 .. Len(packages) :
          packages[j] = GroupPackage(lib, mapped, groups, weight, i)
    BY <2>1, <2>2 DEF Packed
  <2>4. /\ Parted(lib, mapped, packages, Resolved(lib, mapped))
    BY <2>1, PackingParts DEF Packed
  <2>5. j \in DOMAIN packages /\ packages[j] = Package(packages[j].part, packages[j].cells)
    BY <2>4 DEF Parted
  <2>6. Overriding(lib, mapped, groups, weight, i)
    BY <2>1, <2>2, ForcedPacked
  <2>7. /\ PackKey(packages[j].part) = GroupKey(lib, mapped, groups, i)
        /\ Len(packages[j].cells) = Len(groups[i])
        /\ ToSet(packages[j].cells) = ToSet(groups[i])
        /\ \A r \in ToSet(lib) :
             PackKey(r) = GroupKey(lib, mapped, groups, i) /\ r.cap >= Len(groups[i]) =>
               CostFor(packages[j].part, Len(groups[i]), weight)
                 <= CostFor(r, Len(groups[i]), weight)
    BY <2>3, <2>6, Zenon DEF Overriding
  <2>8. ASSUME NEW r \in ToSet(lib), PackKey(r) = PackKey(packages[j].part),
               r.cap >= Len(groups[i])
        PROVE  Cost(packages[j], weight) <= Cost([packages[j] EXCEPT !.part = r], weight)
    <3>1. Cost(packages[j], weight) = CostFor(packages[j].part, Len(groups[i]), weight)
      BY <2>5, <2>7, CostIsCostFor, Zenon
    <3>2. Cost([packages[j] EXCEPT !.part = r], weight) = CostFor(r, Len(groups[i]), weight)
      <4>1. \A q : Cost([packages[j] EXCEPT !.part = q], weight)
                    = CostFor(q, Len(packages[j].cells), weight)
        <5>1. PICK p : p = packages[j]
          OBVIOUS
        <5>2. p = Package(p.part, p.cells)
          BY <2>5, <5>1, Zenon
        <5>3. \A q : Cost([p EXCEPT !.part = q], weight) = CostFor(q, Len(p.cells), weight)
          <6> HIDE <5>1
          <6> QED BY <5>2, CostIsCostFor, Zenon
        <5> QED BY <5>1, <5>3, Zenon
      <4>2. Cost([packages[j] EXCEPT !.part = r], weight)
              = CostFor(r, Len(packages[j].cells), weight)
        BY <4>1, Zenon
      <4> QED BY <2>7, <4>2, Zenon
    <3>3. CostFor(packages[j].part, Len(groups[i]), weight) <= CostFor(r, Len(groups[i]), weight)
      BY <2>7, <2>8, Zenon
    <3> QED BY <3>1, <3>2, <3>3, Zenon
  <2> QED BY <2>5, <2>7, <2>8, Zenon
<1> QED
  BY <1>1, InvariantHolds, PTL

\* Packages none of which holds a cell of a set cost nothing for it.
LEMMA NothingSpent ==
  ASSUME NEW ps, NEW w
  PROVE  SpentIn(ps, {}, w) = 0
<1>1. {i \in DOMAIN ps : ToSet(ps[i].cells) \cap {} # {}} = {}
  OBVIOUS
<1>2. SpentIn(ps, {}, w) = SumFunctionOnSet([i \in DOMAIN ps |-> Cost(ps[i], w)], {})
  BY <1>1, Zenon DEF SpentIn, PackCost
<1>3. \A f : SumFunctionOnSet(f, {}) = 0
  <2> TAKE f
  <2>1. Summable(f, {})
    BY FS_EmptySet DEF Summable
  <2> QED BY <2>1, SumFacts
<1> QED
  BY <1>2, <1>3, Zenon

\* The free cells of every function are packed for the least cost, spares priced
\* in: no purchase that covers them is cheaper.
THEOREM FreeCellsCostLeast == Spec => []FreeCellsAtLeastCost
<1>1. IInv => FreeCellsAtLeastCost
  <2> DEFINE free(key) == FreeOf(lib, mapped, groups, key)
  <2> SUFFICES ASSUME IInv, status = "packed", NEW x \in Resolved(lib, mapped),
                      NEW key, key = KeyOf(lib, mapped, x),
                      NEW c \in Covers(Options(lib, key), Cardinality(free(key)))
               PROVE  SpentOn(free(key))
                        <= PriceOf(Options(lib, key), c, Cardinality(free(key)), weight)
    BY Zenon DEF FreeCellsAtLeastCost
  <2>1. /\ Packable(lib, mapped, groups, weight)
        /\ Packed(lib, mapped, groups, weight, packages)
        /\ lib \in Libraries /\ mapped \in Netlists /\ weight \in Nat
    <3>1. lib \in Libraries /\ mapped \in Netlists /\ weight \in Weights
      BY Zenon DEF IInv
    <3> QED BY <3>1, PackagesPacked, WeightAssumption
  <2>2. PICK opts, n, E : /\ opts = Options(lib, key) /\ E = free(key) /\ n = Cardinality(E)
    OBVIOUS
  <2>3. Choosable(opts)
    BY <2>1, <2>2, OptionsChoosable
  <2>4. IsFiniteSet(E) /\ n \in Nat
    <3>1. E \subseteq Resolved(lib, mapped)
      BY <2>2 DEF FreeOf, AllOf
    <3>2. IsFiniteSet(Resolved(lib, mapped))
      BY <2>1, ResolvedFinite
    <3>3. IsFiniteSet(E)
      BY <3>1, <3>2, FS_Subset
    <3> QED BY <2>2, <3>3, FS_CardinalityType
  <2>5. c \in Purchases(opts) /\ SlotsOf(opts, c) >= n
    <3>1. c \in Covers(opts, n)
      BY <2>2
    <3>2. c \in [DOMAIN opts -> 0 .. n] /\ SlotsOf(opts, c) >= n
      BY <3>1, Zenon DEF Covers
    <3> QED BY <2>4, <3>2 DEF Purchases
  <2>6. SpentOn(E) = SpentIn(packages, E, weight)
    BY Zenon DEF SpentOn, SpentIn
  <2>7. ASSUME E = {} PROVE SpentOn(E) <= PriceOf(opts, c, n, weight)
    <3>1. SpentOn(E) = 0
      BY <2>6, <2>7, NothingSpent, Zenon
    <3>2. PriceOf(opts, c, n, weight) \in Nat
      BY <2>1, <2>3, <2>4, <2>5, PriceTypes
    <3> QED BY <3>1, <3>2
  <2>8. ASSUME E # {} PROVE SpentOn(E) <= PriceOf(opts, c, n, weight)
    <3>1. /\ Packing(lib, mapped, FreePart(lib, mapped, groups, weight, key), E)
          /\ \E k : FreePackedAt(lib, mapped, groups, weight, key, k)
      BY <2>1, <2>2, <2>8, FreePacked
    <3>2. PICK g : g = FreePart(lib, mapped, groups, weight, key)
      OBVIOUS
    <3>3. /\ n \in Nat \ {0}
          /\ PackCost(g, DOMAIN g, weight) = PriceOf(opts, Solve(opts, n, weight), n, weight)
      BY <2>2, <3>1, <3>2, Zenon DEF FreePackedAt
    <3>4. Packing(lib, mapped, g, E) /\ Packing(lib, mapped, packages, Resolved(lib, mapped))
      BY <2>1, <3>1, <3>2, Zenon DEF Packed
    <3>5. PartsOf(g, packages)
      <4>1. key \in KeysOf(lib, mapped)
        BY Zenon DEF KeysOf
      <4> QED BY <2>1, <3>2, <4>1, Zenon DEF Packed, PartsOf
    <3>6. SpentIn(packages, E, weight) = PackCost(g, DOMAIN g, weight)
      <4> HIDE <2>2, <3>2
      <4> QED BY <2>1, <3>4, <3>5, PartCosts
    <3>7. PriceOf(opts, Solve(opts, n, weight), n, weight) <= PriceOf(opts, c, n, weight)
      <4> HIDE <2>2
      <4> QED BY <2>1, <2>3, <2>5, <3>3, SolveIsLeast
    <3> QED BY <2>6, <3>3, <3>6, <3>7, Zenon
  <2>9. SpentOn(E) <= PriceOf(opts, c, n, weight)
    BY <2>7, <2>8
  <2> QED BY <2>2, <2>9, Zenon
<1> QED
  BY <1>1, InvariantHolds, PTL
=============================================================================
