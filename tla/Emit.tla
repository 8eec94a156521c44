-------------------------------- MODULE Emit --------------------------------
(***************************************************************************)
(* What a build hands over: reference designators, the bill of materials   *)
(* and the KiCad netlist of the packed board.                              *)
(*                                                                         *)
(* A board is a sequence of packages [part, cells] in the order the packer *)
(* leaves them: part is a cited part, cells the stable names that share    *)
(* it, and the i-th package is U<i>.  A node is a package and a physical   *)
(* pin of it.                                                              *)
(***************************************************************************)
EXTENDS Netlist

Gnd == 2
Vcc == 3

-----------------------------------------------------------------------------
(* Reference designators. *)

\* The identity of a package is the list of its cells.
RefdesMap(board) ==
  [id \in {board[i].cells : i \in DOMAIN board} |->
     CHOOSE i \in DOMAIN board : board[i].cells = id]

RefdesDelta(previous, current) ==
  LET kept == DOMAIN previous \cap DOMAIN current
  IN [added |-> DOMAIN current \ kept, removed |-> DOMAIN previous \ kept,
      renumbered |-> {id \in kept : previous[id] # current[id]},
      unchanged |-> Cardinality({id \in kept : previous[id] = current[id]})]

-----------------------------------------------------------------------------
(* The bill of materials: one line for a part number, which takes all but  *)
(* the designators from the first package that has it.                     *)

Numbers(board) == {PartNumber(board[i].part) : i \in DOMAIN board}

BomRow(board, number) ==
  LET refdes == {i \in DOMAIN board : PartNumber(board[i].part) = number}
      first == board[Min(refdes)].part
  IN [number |-> number, refdes |-> refdes, quantity |-> Cardinality(refdes),
      package |-> first.package, tier |-> first.tier, cap |-> first.cap,
      unverified |-> ~first.electrical]

CollectBom(board) == {BomRow(board, number) : number \in Numbers(board)}

-----------------------------------------------------------------------------
(* Pins of a package: names are a gate and a signal, gate 0 for the power  *)
(* pins and where the package holds a single gate.                         *)

PinName(r, gate, signal) == IF r.cap > 1 THEN <<gate, signal>> ELSE <<0, signal>>

\* Without a pin map the pins are numbered gate by gate, then VCC and GND.
PositionalNumber(r, name) ==
  LET signals == InPinOrder(Signals(r))
      place == CHOOSE i \in DOMAIN signals : signals[i] = name[2]
      gate == IF r.cap > 1 THEN name[1] ELSE 1
  IN IF name[2] = "VCC" THEN r.cap * Len(signals) + 1
     ELSE IF name[2] = "GND" THEN r.cap * Len(signals) + 2
     ELSE (gate - 1) * Len(signals) + place

\* With one, the map's own numbers; a signal that is listed twice keeps the
\* later pin.
MappedPins(r, name) ==
  {x.pin : x \in {y \in r.pinmap : PinName(r, y.gate, y.signal) = name}}

PinNumber(r, name) ==
  IF r.pinmap = {} THEN PositionalNumber(r, name) ELSE Max(MappedPins(r, name))

\* The names a package is wired by.
WiredNames(r) ==
  {PinName(r, gate, signal) : gate \in 1 .. r.cap, signal \in Signals(r)}
    \cup {<<0, "VCC">>, <<0, "GND">>}

\* A part without a pin table, or whose pin map lists a signal its cell does
\* not have, or lacks one that it has, ends the build with a KeyError.
EmitRefused(r) ==
  \/ ~HasPins(r)
  \/ /\ r.pinmap # {}
     /\ \/ \E x \in r.pinmap : x.signal \notin Signals(r) \cup {"VCC", "GND", "NC"}
        \/ \E name \in WiredNames(r) : MappedPins(r, name) = {}

\* _pin_notices: what the netlist says of the numbers of a part.
PinNotice(r) ==
  IF r.pinmap = {} THEN "positional" ELSE IF r.pinned THEN "cited" ELSE "placeholder"

PinNotices(board) ==
  {LET first == Min({i \in DOMAIN board : PartNumber(board[i].part) = number})
   IN <<number, PinNotice(board[first].part)>> : number \in Numbers(board)}

-----------------------------------------------------------------------------
(* The netlist of the packed board.  cellOf takes a stable name back to    *)
(* the mapped cell.                                                        *)

Rail(net) == CASE net = 0 -> Gnd [] net = 1 -> Vcc [] OTHER -> net

\* Every gate of a package wired to the pins of its first.
SlotNetsUnscoped(board, cellOf, i, slot) ==
  LET p == board[i]
      Node(signal) == <<i, PinNumber(p.part, PinName(p.part, 1, signal))>>
      nets == cellOf[p.cells[Min({slot, Len(p.cells)})]].nets
  IN {<<Rail(nets[signal]), Node(signal)>> : signal \in Signals(p.part) \cap DOMAIN nets}

\* A spare gate's inputs are grounded; its output, and a pin the cell does not
\* connect, are left open.
SlotNets(board, cellOf, i, slot) ==
  LET p == board[i]
      Node(signal) == <<i, PinNumber(p.part, PinName(p.part, slot, signal))>>
  IN IF slot > Len(p.cells)
     THEN {<<Gnd, Node(signal)>> : signal \in InputPins(p.part)}
     ELSE LET nets == cellOf[p.cells[slot]].nets
          IN {<<Rail(nets[signal]), Node(signal)>> : signal \in Signals(p.part) \cap DOMAIN nets}

PowerNets(board, i) ==
  {<<Vcc, <<i, PinNumber(board[i].part, <<0, "VCC">>)>>>>,
   <<Gnd, <<i, PinNumber(board[i].part, <<0, "GND">>)>>>>}

BuildNets(board, cellOf) ==
  UNION {PowerNets(board, i)
           \cup UNION {SlotNets(board, cellOf, i, slot) : slot \in 1 .. board[i].part.cap}
         : i \in DOMAIN board}
=============================================================================
