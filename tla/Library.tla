------------------------------ MODULE Library ------------------------------
(***************************************************************************)
(* The parts library of a project: parts.csv, the two citation tables of   *)
(* its refs file, the pin maps of pins.csv with their own citations, and   *)
(* what is made of them: the parts a build works with, the Liberty cells   *)
(* Yosys may map to, and the pin-map checks of `gatepack lib check'.       *)
(*                                                                         *)
(* A row keeps its columns.  Cells, tiers, families, suffixes and packages *)
(* are their texts; rank is the place of part_suffix in the order texts    *)
(* sort in; mfrs and equivalents are counts, and wellFormed says that the  *)
(* numbers and the equivalents column parse.  Voltages and areas are       *)
(* integers (tenths).  A function is its text with its meaning: whether it *)
(* parses, the pins it names, and the sets of pins that make it true.      *)
(* A line of a citation table is [bar, key, filled, status]: whether it is *)
(* a table row at all, its first cell, whether the cells between carry a   *)
(* document, and its last cell, of which only three meanings matter.       *)
(***************************************************************************)
EXTENDS Integers, Sequences, SequencesExt, FiniteSetsExt, Functions, TLC

-----------------------------------------------------------------------------
(* Rows of parts.csv. *)

Tiers == {"G", "F", "M", "S"}

\* What ends the loading of the table.
RowRefused(r) ==
  \/ r.cell = "" \/ ~r.wellFormed
  \/ r.tier \notin Tiers
  \/ r.inputs < 0 \/ r.cap < 0
  \/ r.area < 0 \/ r.vmin < 0 \/ r.vmax < 0
  \/ r.vmin > r.vmax

LoadRefused(rows) == \E i \in DOMAIN rows : RowRefused(rows[i])

StartsWith(text, start) ==
  Len(start) <= Len(text) /\ SubSeq(text, 1, Len(start)) = start

\* The number the BOM orders by; a part without a suffix is known by its cell,
\* and a suffix may carry the family.
PartNumber(r) ==
  IF r.suffix = "" THEN r.cell
  ELSE IF r.family \in {"", "-"} THEN r.suffix
  ELSE IF StartsWith(r.suffix, r.family) THEN "74" \o r.suffix
  ELSE "74" \o r.family \o r.suffix

SecondSourced(r) == r.mfrs + r.equivalents >= 2
VccCompatible(r, vcc) == vcc \in r.vmin .. r.vmax

-----------------------------------------------------------------------------
(* Pins. *)

GatePins == <<"A", "B", "C", "D">>

FlopPins ==
  [DFF |-> {"D", "CK"}, DFF_R |-> {"D", "CK", "RST_N"},
   DFF_S |-> {"D", "CK", "SET_N"}, DFF_SR |-> {"D", "CK", "SET_N", "RST_N"}]

\* Only gates and the flops above have a pin table here.
HasPins(r) == r.tier = "G" \/ (r.tier = "F" /\ r.cell \in DOMAIN FlopPins)
InputPins(r) ==
  IF r.tier = "G" THEN {GatePins[i] : i \in 1 .. r.inputs} ELSE FlopPins[r.cell]
OutputPin(r) == IF r.tier = "G" THEN "Y" ELSE "Q"
Signals(r) == InputPins(r) \cup {OutputPin(r)}

-----------------------------------------------------------------------------
(* Functions. *)

Translatable(r) == r.function.parses /\ r.function.uses \subseteq InputPins(r)

\* The value of a function when exactly the pins of high are at 1.
Evaluate(function, high) == high \in function.minterms

-----------------------------------------------------------------------------
(* The Liberty file. *)

DropReason(r, vcc, single) ==
  IF r.tier \notin {"G", "F"} THEN "tier"
  ELSE IF ~SecondSourced(r) /\ ~single THEN "single-sourced"
  ELSE IF ~VccCompatible(r, vcc) THEN "vcc-incompatible" ELSE "none"

SelectForLiberty(rows, vcc, single) ==
  SelectSeq(rows, LAMBDA r : DropReason(r, vcc, single) = "none")

Smaller(r, s) == r.cap < s.cap \/ (r.cap = s.cap /\ r.rank < s.rank)

\* One row for each cell, the smallest, in the order the cells first appear.
RepresentativeParts(rows) ==
  LET cells == FoldLeft(LAMBDA cs, r : IF r.cell \in ToSet(cs) THEN cs
                                       ELSE Append(cs, r.cell), <<>>, rows)
      of(c) == {i \in DOMAIN rows : rows[i].cell = c}
  IN [i \in DOMAIN cells |->
        rows[Min({j \in of(cells[i]) :
                    \A k \in of(cells[i]) : ~Smaller(rows[k], rows[j])})]]

FlopAttributes ==
  LET edge == {"next_state", "clocked_on"}
  IN [DFF |-> edge, DFF_R |-> edge \cup {"clear"}, DFF_S |-> edge \cup {"preset"},
      DFF_SR |-> edge \cup {"clear", "preset", "clear_preset_var1", "clear_preset_var2"}]

BlockRefused(r) ==
  \/ /\ r.tier = "G"
     /\ r.function.text = "" \/ ~Translatable(r)
  \/ /\ r.tier = "F"
     /\ r.cell \notin DOMAIN FlopPins \/ Cardinality(FlopPins[r.cell]) # r.inputs

\* A flop's group is written in the order of its table; its clear and preset
\* attributes come from the same entry.
GCellBlock(r) ==
  [name |-> r.cell, inputs |-> InputPins(r), minterms |-> r.function.minterms, ff |-> {}]
FCellBlock(r) ==
  [name |-> r.cell, inputs |-> FlopPins[r.cell], minterms |-> {},
   ff |-> FlopAttributes[r.cell]]
CellBlock(r) == IF r.tier = "G" THEN GCellBlock(r) ELSE FCellBlock(r)

\* The self-check of the emitted text: each cell expected exactly once, and the
\* flop attributes that the table asks for.
ValidLibrary(blocks, expected) ==
  /\ \A i, j \in DOMAIN blocks : blocks[i].name = blocks[j].name => i = j
  /\ {blocks[i].name : i \in DOMAIN blocks} = expected
  /\ \A i \in DOMAIN blocks :
       blocks[i].ff # {} => blocks[i].ff = FlopAttributes[blocks[i].name]

\* The blocks of the library, or none where an error is raised.
GenerateLiberty(rows, vcc, single) ==
  LET included == SelectForLiberty(rows, vcc, single)
      chosen == RepresentativeParts(included)
      blocks == [i \in DOMAIN chosen |-> CellBlock(chosen[i])]
      expected == {r.cell : r \in ToSet(included)}
  IN IF (\E i \in DOMAIN chosen : BlockRefused(chosen[i])) \/ ~ValidLibrary(blocks, expected)
     THEN <<>> ELSE blocks

-----------------------------------------------------------------------------
(* Citations. *)

Headers == {"cell", "part_number", "part_suffix"}

\* The rows of the table headed header, a later one in place of an earlier; a
\* line outside any table ends the one before it.
ParseTable(lines, header) ==
  LET Step(acc, line) ==
        IF ~line.bar THEN [acc EXCEPT !.active = FALSE]
        ELSE IF line.key \in Headers THEN [acc EXCEPT !.active = line.key = header]
        ELSE IF acc.active THEN [acc EXCEPT !.rows = (line.key :> line) @@ @]
        ELSE acc
  IN FoldLeft(Step, [active |-> FALSE, rows |-> <<>>], lines).rows

Status(table, key) == IF key \in DOMAIN table THEN table[key].status ELSE "none"

\* Only the words count: no citation, or one that says unverified or
\* placeholder, leaves the value a placeholder.
Verified(status) == status \notin {"none", "unverified", "placeholder"}

MissingCitations(rows, refs) ==
  {r.cell : r \in ToSet(rows)} \ DOMAIN ParseTable(refs, "cell")

\* A pin map needs the document as well as the word.
PinVerified(table, suffix) ==
  /\ suffix \in DOMAIN table
  /\ Verified(table[suffix].status)
  /\ table[suffix].filled

-----------------------------------------------------------------------------
(* Pin maps: rows [suffix, package, pin, signal, gate], gate 0 for none. *)

Key(r) == <<r.suffix, r.package>>

\* Two rows may repeat a pin, not disagree about it.
PinsRefused(pins) ==
  \E x, y \in ToSet(pins) : Key(x) = Key(y) /\ x.pin = y.pin /\ x # y

\* The pins of one ordered part; none where the file does not list it.
PinMapOf(pins, key) == {x \in ToSet(pins) : Key(x) = key}
Gates(pm) == {x.gate : x \in pm} \ {0}

PackagePinCounts ==
  ("SOT-353" :> 5) @@ ("SOT-363" :> 6) @@ ("VSSOP-8" :> 8) @@ ("SO-16" :> 16) @@ ("SOT-23" :> 3)

PinCountOK(pm, r) ==
  r.package \in DOMAIN PackagePinCounts /\ Cardinality(pm) = PackagePinCounts[r.package]
PowerPinsOK(pm) ==
  \A rail \in {"VCC", "GND"} : Cardinality({x \in pm : x.signal = rail}) = 1
GateCoverageOK(pm, r) == Gates(pm) = 1 .. r.cap
GateIOOK(pm, r) ==
  r.tier \in {"G", "F"} =>
    /\ HasPins(r)
    /\ \A g \in Gates(pm) : {x.signal : x \in {y \in pm : y.gate = g}} = Signals(r)
PinNumberingOK(pm) == {x.pin : x \in pm} = 1 .. Cardinality(pm)

PinMapOK(pm, r) ==
  /\ PinCountOK(pm, r) /\ PowerPinsOK(pm) /\ GateCoverageOK(pm, r)
  /\ GateIOOK(pm, r) /\ PinNumberingOK(pm)

\* Every pin map is compared with one row, the last that has its suffix.
CheckPinMaps(rows, pins) ==
  \A key \in {Key(x) : x \in ToSet(pins)} :
    LET of == {i \in DOMAIN rows : rows[i].suffix = key[1]}
    IN /\ of # {}
       /\ rows[Max(of)].package = key[2]
       /\ PinMapOK(PinMapOf(pins, key), rows[Max(of)])

-----------------------------------------------------------------------------
(* The parts a build works with: rows with what is known of them. *)

\* Packaging citations looked up by cell, as the electrical ones are.
CitePartByCell(file, r) ==
  r @@ [electrical |-> Verified(Status(ParseTable(file.refs, "cell"), r.cell)),
        packaging |-> Verified(Status(ParseTable(file.refs, "part_number"), r.cell))
                      \/ Verified(Status(ParseTable(file.refs, "cell"), r.cell)),
        pinmap |-> PinMapOf(file.pins, Key(r)),
        pinned |-> PinVerified(ParseTable(file.pinRefs, "part_suffix"), r.suffix)]

CitePart(file, r) ==
  r @@ [electrical |-> Verified(Status(ParseTable(file.refs, "cell"), r.cell)),
        packaging |-> Verified(Status(ParseTable(file.refs, "part_number"), PartNumber(r))),
        pinmap |-> PinMapOf(file.pins, Key(r)),
        pinned |-> PinVerified(ParseTable(file.pinRefs, "part_suffix"), r.suffix)]

LoadPartsCited(file) == [i \in DOMAIN file.rows |-> CitePart(file, file.rows[i])]

\* lib check: what the table, its citations and its pin maps must satisfy.  With
\* --json the missing citations are part of the answer and fail nothing.
LibCheck(file, json) ==
  /\ ~LoadRefused(file.rows)
  /\ ~PinsRefused(file.pins)
  /\ json \/ MissingCitations(file.rows, file.refs) = {}
  /\ CheckPinMaps(file.rows, file.pins)
=============================================================================
