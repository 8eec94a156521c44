------------------------------- MODULE Packer -------------------------------
(***************************************************************************)
(* From mapped cells to physical packages: the packer the build runs over  *)
(* the netlist Yosys mapped, under the packing overrides of design.yaml,   *)
(* and the package count that the size estimate quotes for the same        *)
(* netlist.                                                                *)
(*                                                                         *)
(* A row of parts.csv keeps what the packer reads: the Liberty cell, the   *)
(* tier, the function's text as the row spells it, the rank of its         *)
(* part_suffix in the sort order, gates_per_pkg (cap) and area.  Costs are *)
(* integers (tenths), so that the tolerance _EPS of the float comparisons  *)
(* has nothing to tell apart.  A mapped cell is its stable name, a natural *)
(* number in the order names sort, and the Liberty cell it instantiates.   *)
(***************************************************************************)
EXTENDS Integers, Sequences, SequencesExt, FiniteSetsExt

CONSTANTS
  Libraries,     \* sequences of rows, in file order
  Netlists,      \* functions from stable names to Liberty cells
  Overrides,     \* sequences of groups (sequences of stable names)
  Weights        \* values of spare_leakage_weight

Rows == UNION {ToSet(l) : l \in Libraries}

\* A library row that holds no gate, or a negative weight, is accepted by the
\* loader and by --spare-weight; the packer is modelled for the rest.
ASSUME LibraryAssumption ==
  /\ \A l \in Libraries : l \in Seq(Rows)
  /\ \A r \in Rows : r.cap \in Nat \ {0} /\ r.area \in Nat /\ r.suffix \in Nat
ASSUME WeightAssumption == Weights \subseteq Nat
ASSUME NamesAssumption ==
  \A n \in Netlists : DOMAIN n \subseteq Nat /\ IsFiniteSet(DOMAIN n)
ASSUME OverridesAssumption == \A gs \in Overrides : gs \in Seq(Seq(Nat))

VARIABLES
  lib,           \* the parts table of this build
  mapped,        \* the cells of mapped.json
  groups,        \* packing.force_groups of the specification
  weight,        \* spare_leakage_weight of this build
  status,        \* "ready", "packed", "PackError" or "AssertionError"
  packages       \* PackingResult.packed, in its final order

vars == <<lib, mapped, groups, weight, status, packages>>

-----------------------------------------------------------------------------
(* The parts and the cells. *)

\* The row a cell resolves to: the last one that lists it, as in a dict built
\* from the rows in file order.
PartOf(l, c) == l[Max({i \in DOMAIN l : l[i].cell = c})]

\* The cells the library knows; the build notes the others and drops them.
Resolved(l, m) == {n \in DOMAIN m : \E i \in DOMAIN l : l[i].cell = m[n]}

\* What may share a package: the function's text for a gate, else the cell.
PackKey(r) == <<r.tier, IF r.tier = "G" THEN r.text ELSE r.cell>>

KeyOf(l, m, n) == PackKey(PartOf(l, m[n]))

\* Sorted, elements of which neither goes before the other left as they were.
StableSort(s, Before(_, _)) ==
  LET Ahead(i) == {j \in 1 .. Len(s) :
                     Before(s[j], s[i]) \/ (~Before(s[i], s[j]) /\ j < i)}
  IN [k \in 1 .. Len(s) |->
        s[CHOOSE i \in 1 .. Len(s) : Cardinality(Ahead(i)) = k - 1]]

InOrder(S) == StableSort(SetToSeq(S), <)

Options(l, key) ==
  LET rows == InOrder({i \in DOMAIN l : PackKey(l[i]) = key})
  IN StableSort([k \in DOMAIN rows |-> l[rows[k]]], LAMBDA r, s : r.suffix < s.suffix)

-----------------------------------------------------------------------------
(* The cheapest packages that provide at least n slots: a table of the     *)
(* best price for exactly k slots, then the best k.                        *)

\* One column: the first option that reaches k slots at the least price, with
\* the packages bought so far.
Column(opts, table, k) ==
  LET reach == {i \in DOMAIN opts : opts[i].cap <= k
                                    /\ table[k - opts[i].cap + 1].reached}
      price(i) == table[k - opts[i].cap + 1].price + opts[i].area
      best == Min({i \in reach : \A j \in reach : price(i) <= price(j)})
  IN IF reach = {}
     THEN [reached |-> FALSE, price |-> 0, counts |-> [i \in DOMAIN opts |-> 0]]
     ELSE [reached |-> TRUE, price |-> price(best),
           counts |-> [table[k - opts[best].cap + 1].counts EXCEPT ![best] = @ + 1]]

Table(opts, n) ==
  LET limit == n + Max({r.cap : r \in ToSet(opts)}) - 1
      none == [reached |-> TRUE, price |-> 0, counts |-> [i \in DOMAIN opts |-> 0]]
  IN FoldLeft(LAMBDA t, k : Append(t, Column(opts, t, k)),
              <<none>>, [k \in 1 .. limit |-> k])

\* A solver that forgets what its spares cost.
CheapestSlots(table, n, w) ==
  LET enough == {k \in n .. Len(table) - 1 : table[k + 1].reached}
  IN Min({k \in enough : \A j \in enough : table[k + 1].price <= table[j + 1].price})

\* The number of slots whose price and spares come cheapest together.
BestSlots(table, n, w) ==
  LET enough == {k \in n .. Len(table) - 1 : table[k + 1].reached}
      total(k) == table[k + 1].price + (k - n) * w
  IN Min({k \in enough : \A j \in enough : total(k) <= total(j)})

Solve(opts, n, w) ==
  LET table == Table(opts, n) IN table[BestSlots(table, n, w) + 1].counts

-----------------------------------------------------------------------------
(* Filling the packages. *)

Package(part, cells) == [part |-> part, cells |-> cells]
Spare(p) == p.part.cap - Len(p.cells)
Cost(p, w) == p.part.area + Spare(p) * w

\* The free cells of one function, in name order, fill the packages that were
\* bought in the order of the options.
PackGroup(members, opts, w) ==
  LET counts == Solve(opts, Len(members), w)
      bought == FlattenSeq([i \in DOMAIN opts |-> [j \in 1 .. counts[i] |-> opts[i]]])
      Fill(acc, part) ==
        [cursor |-> acc.cursor + part.cap,
         filled |-> Append(acc.filled,
                      Package(part, SubSeq(members, acc.cursor + 1,
                                           Min({acc.cursor + part.cap, Len(members)}))))]
  IN FoldLeft(Fill, [cursor |-> 0, filled |-> <<>>], bought).filled

\* The first package that is large enough, whatever it costs.
FirstPart(size, opts, w) == opts[Min({i \in DOMAIN opts : opts[i].cap >= size})]

BestPart(size, opts, w) ==
  LET feasible == {i \in DOMAIN opts : opts[i].cap >= size}
      cost(i) == opts[i].area + (opts[i].cap - size) * w
  IN opts[Min({i \in feasible : \A j \in feasible : cost(i) <= cost(j)})]

PackForced(group, opts, w) ==
  Package(BestPart(Len(group), opts, w), InOrder(ToSet(group)))

Forced(gs) == UNION {ToSet(gs[i]) : i \in DOMAIN gs}

\* A packer that forgets which cells the overrides speak for.
AllOf(l, m, gs, key) == {n \in Resolved(l, m) : KeyOf(l, m, n) = key}

FreeOf(l, m, gs, key) == AllOf(l, m, gs, key) \ Forced(gs)

PackKeyed(l, m, gs, w, key) ==
  LET opts == Options(l, key)
      free == InOrder(FreeOf(l, m, gs, key))
      units == InOrder({i \in DOMAIN gs : KeyOf(l, m, gs[i][1]) = key})
  IN (IF free = <<>> THEN <<>> ELSE PackGroup(free, opts, w))
     \o [k \in DOMAIN units |-> PackForced(gs[units[k]], opts, w)]

\* The order of the BOM and of the reference designators: by suffix, then by
\* the names inside, of which the first tells two packages apart.
PackedBefore(p, q) ==
  \/ p.part.suffix < q.part.suffix
  \/ p.part.suffix = q.part.suffix /\ p.cells[1] < q.cells[1]

PackAll(l, m, gs, w) ==
  LET keys == {KeyOf(l, m, n) : n \in Resolved(l, m)}
  IN StableSort(FlattenSeq([i \in 1 .. Cardinality(keys) |->
                              PackKeyed(l, m, gs, w, SetToSeq(keys)[i])]),
                PackedBefore)

\* What the packages at some positions of a list cost.
PackCost(ps, at, w) == SumFunctionOnSet([i \in DOMAIN ps |-> Cost(ps[i], w)], at)

-----------------------------------------------------------------------------
(* The overrides. *)

\* A group is refused for a name that was used before, a name no cell has, or
\* cells of different functions.
GroupRefused(l, m, gs, i) ==
  \/ ~IsInjective(gs[i])
  \/ ToSet(gs[i]) \cap Forced(SubSeq(gs, 1, i - 1)) # {}
  \/ ~ ToSet(gs[i]) \subseteq Resolved(l, m)
  \/ \E n \in ToSet(gs[i]) : KeyOf(l, m, n) # KeyOf(l, m, gs[i][1])

\* The first group at fault ends the build; an empty one fails the assertion
\* that it has a function.
CollectForced(l, m, gs) ==
  LET faults == {i \in DOMAIN gs : gs[i] = <<>> \/ GroupRefused(l, m, gs, i)}
  IN IF faults = {} THEN "packed"
     ELSE IF gs[Min(faults)] = <<>> THEN "AssertionError" ELSE "PackError"

\* The functions are packed one by one; a group no package can hold is met there.
TooLarge(l, m, g) ==
  \A r \in ToSet(Options(l, KeyOf(l, m, g[1]))) : r.cap < Len(g)

Verdict(l, m, gs) ==
  LET collected == CollectForced(l, m, gs)
  IN IF collected = "packed" /\ \E i \in DOMAIN gs : TooLarge(l, m, gs[i])
     THEN "PackError" ELSE collected

-----------------------------------------------------------------------------
Init ==
  /\ lib \in Libraries
  /\ mapped \in Netlists
  /\ groups \in Overrides
  /\ weight \in Weights
  /\ status = "ready"
  /\ packages = <<>>

Pack ==
  /\ status = "ready"
  /\ Verdict(lib, mapped, groups) = "packed"
  /\ status' = "packed"
  /\ packages' = PackAll(lib, mapped, groups, weight)
  /\ UNCHANGED <<lib, mapped, groups, weight>>

Refuse ==
  /\ status = "ready"
  /\ Verdict(lib, mapped, groups) # "packed"
  /\ status' = Verdict(lib, mapped, groups)
  /\ UNCHANGED <<lib, mapped, groups, weight, packages>>

Next == Pack \/ Refuse

Spec == Init /\ [][Next]_vars

-----------------------------------------------------------------------------
(* Properties.  The packages are compared with what the overrides and the  *)
(* objective of the packer's documentation ask for, by enumeration.        *)

\* Type invariant: a package is a row of this build's parts table with cells of
\* this build's netlist.
TypeOK ==
  /\ status \in {"ready", "packed", "PackError", "AssertionError"}
  /\ packages \in Seq([part : ToSet(lib), cells : Seq(DOMAIN mapped)])
  /\ status # "packed" => packages = <<>>

\* Every gate of the netlist is in exactly one package, of its own function and
\* no fuller than the package allows, and no package is bought for nothing,
\* though forced and free cells are packed by different code and the packages
\* are filled by slicing (pack, _pack_group, _pack_forced).
EveryCellOnce ==
  status = "packed" =>
    /\ FlattenSeq([i \in DOMAIN packages |-> packages[i].cells])
         \in SetToSeqs(Resolved(lib, mapped))
    /\ \A i \in DOMAIN packages :
         /\ Len(packages[i].cells) \in 1 .. packages[i].part.cap
         /\ \A n \in ToSet(packages[i].cells) :
              KeyOf(lib, mapped, n) = PackKey(packages[i].part)

\* The slots that one way to buy packages, options to counts, provides, and its
\* price when at least n of them are needed.
SlotsOf(opts, c) == SumFunction([i \in DOMAIN opts |-> c[i] * opts[i].cap])

PriceOf(opts, c, n, w) ==
  SumFunction([i \in DOMAIN opts |-> c[i] * opts[i].area]) + (SlotsOf(opts, c) - n) * w

Covers(opts, n) == {c \in [DOMAIN opts -> 0 .. n] : SlotsOf(opts, c) >= n}

SpentOn(cells) ==
  PackCost(packages, {i \in DOMAIN packages : ToSet(packages[i].cells) \cap cells # {}},
           weight)

\* No way to buy packages for the free cells of a function, as the packer groups
\* them, is cheaper than the one taken, spares priced in (_solve).
FreeCellsAtLeastCost ==
  status = "packed" =>
    \A key \in {KeyOf(lib, mapped, n) : n \in Resolved(lib, mapped)} :
      LET free == FreeOf(lib, mapped, groups, key)
          opts == Options(lib, key)
      IN \A c \in Covers(opts, Cardinality(free)) :
           SpentOn(free) <= PriceOf(opts, c, Cardinality(free), weight)

\* Every override is met: its cells, and no others, share one package, and no
\* package that holds them costs less (_collect_forced, _best_part).
OverridesMet ==
  status = "packed" =>
    \A i \in DOMAIN groups : \E j \in DOMAIN packages :
      /\ ToSet(packages[j].cells) = ToSet(groups[i])
      /\ \A r \in ToSet(lib) :
           PackKey(r) = PackKey(packages[j].part) /\ r.cap >= Len(groups[i])
             => Cost(packages[j], weight) <= Cost([packages[j] EXCEPT !.part = r], weight)

\* packer.py:101 says the full library is used to find packaging options, such
\* as a two-gate 74AUP2G02 alongside a one-gate 74AUP1G02 for the same function;
\* so no choice among all the rows of a gate's cell is cheaper than the one
\* taken.  The rows are found by the text of their function.
EveryPackagingOptionIsUsed ==
  status = "packed" /\ groups = <<>> =>
    \A cell \in {mapped[n] : n \in Resolved(lib, mapped)} :
      LET members == {n \in Resolved(lib, mapped) : mapped[n] = cell}
          rows == InOrder({i \in DOMAIN lib : lib[i].cell = cell})
          opts == [k \in DOMAIN rows |-> lib[rows[k]]]
      IN \A c \in Covers(opts, Cardinality(members)) :
           SpentOn(members) <= PriceOf(opts, c, Cardinality(members), weight)
=============================================================================
