------------------------------- MODULE Netlist -------------------------------
(***************************************************************************)
(* The netlist Yosys maps a design to, and what is read out of it: the     *)
(* parts its cells stand for, the stable names that outlive a synthesis,   *)
(* and the values of its outputs under one input assignment.               *)
(*                                                                         *)
(* A net is a natural number, the place of its name in the order names     *)
(* sort in; 0 and 1 are the constants, 2 and 3 the names GND and VCC.  An  *)
(* instance is a natural number likewise.  A document of `write_json' is   *)
(*   [ports    : sequences of [name, bit, direction],                      *)
(*    netnames : sequences of [name, bit],                                 *)
(*    cells    : functions from instances to [cell, bits], bits a          *)
(*               function from pins to bits]                               *)
(* where a bit is 0 or 1 for a constant and a larger number otherwise.     *)
(***************************************************************************)
EXTENDS Library

CONSTANT CellOrder     \* the Liberty cells, in the order their names sort

Constants == {0, 1}

-----------------------------------------------------------------------------
(* parse_mapped_json and resolve_parts. *)

\* The last name in the document is kept, and a port's name wins.
NetOf(json, bit) ==
  LET ports == {i \in DOMAIN json.ports : json.ports[i].bit = bit}
      nets == {i \in DOMAIN json.netnames : json.netnames[i].bit = bit}
  IN IF bit \in Constants THEN bit
     ELSE IF ports # {} THEN json.ports[Max(ports)].name
     ELSE json.netnames[Max(nets)].name

PortsOf(json, direction) ==
  {p.name : p \in {q \in ToSet(json.ports) : q.direction = direction}}

ParseMapped(json) ==
  [cells |-> [n \in DOMAIN json.cells |->
                [cell |-> json.cells[n].cell,
                 nets |-> [pin \in DOMAIN json.cells[n].bits |->
                             NetOf(json, json.cells[n].bits[pin])]]],
   inputs |-> PortsOf(json, "input"), outputs |-> PortsOf(json, "output")]

Known(rows, cell) == \E i \in DOMAIN rows : rows[i].cell = cell
RowOf(rows, cell) == rows[Max({i \in DOMAIN rows : rows[i].cell = cell})]

\* Every cell with its part; directions are those of the part's pin table.
ResolveCell(rows, c) ==
  LET r == RowOf(rows, c.cell)
      pinned == Known(rows, c.cell) /\ HasPins(r)
      used == DOMAIN c.nets
  IN c @@ [tier |-> IF Known(rows, c.cell) THEN r.tier ELSE "",
           ins |-> IF pinned THEN used \cap InputPins(r) ELSE {},
           outs |-> IF pinned THEN used \cap {OutputPin(r)} ELSE {}]

ResolveParts(rows, netlist) ==
  [netlist EXCEPT !.cells = [n \in DOMAIN @ |-> ResolveCell(rows, @[n])]]

\* What a build goes on with: the cells the library knows.
Resolved(rows, netlist) ==
  LET known == {n \in DOMAIN netlist.cells : Known(rows, netlist.cells[n].cell)}
  IN [netlist EXCEPT !.cells = Restrict(@, known)]

-----------------------------------------------------------------------------
(* Stable names.  The digest of a cone is folded from the labels of its    *)
(* pins; a name is the cell, eight digits of the digest, and an index      *)
(* where several cells have the two in common.                             *)

PinOrder == <<"A", "B", "C", "CK", "D", "Q", "RST_N", "SET_N", "Y">>
InPinOrder(pins) == SelectSeq(PinOrder, LAMBDA p : p \in pins)

Digest(start, labels) == FoldLeft(LAMBDA h, l : (h * 31 + l) % 9973, start, labels)
CellRank(cell) == Min({i \in DOMAIN CellOrder : CellOrder[i] = cell})

Sequential(c) == c.tier \in {"F", "M"}
Combinational(c) == c.tier \in {"", "G"}

\* The instances that drive a net; there is one, or none.
Drivers(cells, net) ==
  {n \in DOMAIN cells : \E p \in cells[n].outs : cells[n].nets[p] = net}

\* Kahn's order, the least name first.  A cell waits for as many drivers as it
\* has driven pins, so one that reads a driver twice is left to the end, where
\* the rest follow in the order of their names.
TopoOrder(cells) ==
  LET comb == {n \in DOMAIN cells : Combinational(cells[n])}
      driven(n) == {p \in cells[n].ins : Drivers(cells, cells[n].nets[p]) \cap (comb \ {n}) # {}}
      sources(n) == UNION {Drivers(cells, cells[n].nets[p]) : p \in driven(n)}
      Step(order, k) ==
        LET ready == {n \in comb \ ToSet(order) :
                        Cardinality(sources(n) \cap ToSet(order)) = Cardinality(driven(n))}
        IN IF ready = {} THEN order ELSE Append(order, Min(ready))
      sorted == FoldLeft(Step, <<>>, SetToSortSeq(comb, <))
  IN sorted \o SetToSortSeq(comb \ ToSet(sorted), <)

NamingOrder(cells) ==
  TopoOrder(cells)
    \o SetToSortSeq({n \in DOMAIN cells : Sequential(cells[n])}, <)
    \o SetToSortSeq({n \in DOMAIN cells : cells[n].tier = "S"}, <)

\* What a pin contributes: a constant, an input's name, the cell and instance
\* of a flop, the digest of the driver where it is known, else the net's name.
NetLabel(netlist, sigs, net) ==
  LET cells == netlist.cells
      drivers == Drivers(cells, net)
      flops == {n \in drivers : Sequential(cells[n])}
  IN IF net \in Constants THEN net
     ELSE IF net \in netlist.inputs THEN 100 + net
     ELSE IF flops # {}
     THEN LET flop == Min(flops) IN Digest(7, <<CellRank(cells[flop].cell), flop>>)
     ELSE IF drivers # {} /\ Min(drivers) \in DOMAIN sigs THEN sigs[Min(drivers)]
     ELSE 200 + net

ConeSig(netlist, sigs, n) ==
  LET pins == InPinOrder(netlist.cells[n].ins)
  IN Digest(CellRank(netlist.cells[n].cell),
            [i \in DOMAIN pins |-> NetLabel(netlist, sigs, netlist.cells[n].nets[pins[i]])])

Signatures(netlist) ==
  FoldLeft(LAMBDA sigs, n : (n :> ConeSig(netlist, sigs, n)) @@ sigs, <<>>,
           NamingOrder(netlist.cells))

\* The net of the first output pin; none for a cell without one.
OutputNet(c) ==
  IF c.outs = {} THEN 0 ELSE c.nets[InPinOrder(c.outs)[1]]

\* Cells that share cell and digest, told apart by their output nets, and
\* by their instances where those agree too.
TwinsInInstanceOrder(cells, twins) == SetToSortSeq(twins, <)

TwinsInOrder(cells, twins) ==
  SetToSortSeq(twins, LAMBDA m, n :
    \/ OutputNet(cells[m]) < OutputNet(cells[n])
    \/ (OutputNet(cells[m]) = OutputNet(cells[n]) /\ m < n))

\* Instances to stable names, numbers in the order the names sort.
StableCellNames(netlist) ==
  LET cells == netlist.cells
      sigs == Signatures(netlist)
      base(n) == CellRank(cells[n].cell) * 10000 + sigs[n]
      twins(n) == {m \in DOMAIN cells : base(m) = base(n)}
      index(n) == IF twins(n) = {n} THEN 0
                  ELSE CHOOSE i \in DOMAIN TwinsInOrder(cells, twins(n)) :
                         TwinsInOrder(cells, twins(n))[i] = n
  IN [n \in DOMAIN cells |-> base(n) * 10 + index(n)]

-----------------------------------------------------------------------------
(* simulate: the combinational cone under one assignment of values to      *)
(* inputs.  2 stands for a value that is not known.                        *)

Unknown == 2
BitOf(b) == IF b THEN 1 ELSE 0

\* The rows the evaluator takes functions from: the last gate of each cell.
FunctionRows(rows, cell) ==
  {i \in DOMAIN rows : rows[i].cell = cell /\ rows[i].tier = "G" /\ rows[i].function.text # ""}

CellValue(rows, c, values) ==
  LET of == FunctionRows(rows, c.cell)
      value(p) == IF c.nets[p] \in Constants THEN c.nets[p]
                  ELSE IF c.nets[p] \in DOMAIN values THEN values[c.nets[p]] ELSE Unknown
  IN IF of = {} \/ \E p \in c.ins : value(p) = Unknown THEN Unknown
     ELSE BitOf(Evaluate(rows[Max(of)].function, {p \in c.ins : value(p) = 1}))

\* One pass over the cells in the order of their names.
EvaluateRound(rows, cells, values) ==
  LET Step(vs, n) ==
        LET nets == {cells[n].nets[p] : p \in cells[n].outs} \ Constants
            value == CellValue(rows, cells[n], vs)
        IN [net \in nets |-> value] @@ vs
  IN FoldLeft(Step, values, SetToSortSeq(DOMAIN cells, <))

\* As many passes as there are cells, and one; a pass that changes nothing
\* ends the loop, and so would those after it.  An input that is not assigned,
\* a clock, is not known.
EvaluateMapped(rows, netlist, assigned) ==
  LET start == [i \in netlist.inputs |->
                  IF i \in DOMAIN assigned THEN assigned[i] ELSE Unknown]
      settled == FoldLeft(LAMBDA vs, k : EvaluateRound(rows, netlist.cells, vs), start,
                          [k \in 1 .. Cardinality(DOMAIN netlist.cells) + 1 |-> k])
  IN [o \in netlist.outputs |-> IF o \in DOMAIN settled THEN settled[o] ELSE Unknown]

\* Variant: every output is compared, known or not.
DivergesAnywhere(expected, actual) ==
  \E o \in DOMAIN expected : o \in DOMAIN actual /\ actual[o] # expected[o]

Diverges(expected, actual) ==
  \E o \in DOMAIN expected :
    o \in DOMAIN actual /\ actual[o] # Unknown /\ actual[o] # expected[o]
=============================================================================
