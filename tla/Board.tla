-------------------------------- MODULE Board --------------------------------
(***************************************************************************)
(* One synchronous design taken from its parts library to a board: the     *)
(* commands `lib check', `estimate', `build' and `simulate' over the same  *)
(* project, every build and every estimate with a synthesis of its own,    *)
(* which numbers the instances afresh, and packing overrides that are      *)
(* written down in the names of one build and read by the next.            *)
(*                                                                         *)
(* A design is what the tool chain makes of a specification:               *)
(*   [json     : the mapped netlist Yosys writes, see Netlist,             *)
(*    inputs   : sequence of the input nets, outputs : set of output nets, *)
(*    states   : how many states it has,                                   *)
(*    expected : from a state and the inputs at 1 to the outputs at 1,     *)
(*    supplied : cells of its macros, clock source and reset source,       *)
(*    flops, fanout : what the front end counts].                          *)
(***************************************************************************)
EXTENDS Emit

CONSTANTS
  Designs,       \* designs
  Files,         \* parts libraries: [rows, refs, pins, pinRefs]
  Renumberings,  \* what a synthesis may do to the instance numbers
  Weight,        \* spare_leakage_weight, the default one
  Supply,        \* constraints.vcc
  Thresholds,    \* [package, flop, fanout : [green, amber]]
  MaxRows        \* rows the simulation table may have

VARIABLES
  design, file,
  mapped,        \* mapped.json in the build directory, or None
  groups,        \* packing.force_groups of the specification
  checked,       \* the answers of lib check, with --json and without
  verdict,       \* the estimate's, or None
  board,         \* the outcome of the last build
  refdes,        \* refdes.json in the output directory
  table          \* the simulation table, or None

vars == <<design, file, mapped, groups, checked, verdict, board, refdes, table>>

None == [none |-> TRUE]

Packing == INSTANCE Packer WITH
  Libraries <- {}, Netlists <- {}, Overrides <- {}, Weights <- {},
  lib <- <<>>, mapped <- <<>>, groups <- <<>>, weight <- 0,
  status <- "ready", packages <- <<>>

\* Yosys: the same cells under other instance numbers.
Renumber(json, f) ==
  [json EXCEPT !.cells = [n \in {f[m] : m \in DOMAIN @} |->
                            @[CHOOSE m \in DOMAIN @ : f[m] = n]]]

-----------------------------------------------------------------------------
(* What build and estimate share. *)

\* A macro or a supply cell that cannot run at the project's voltage; cells the
\* library does not list are let through.
VccIncompatible(d, rows) ==
  \E cell \in d.supplied : Known(rows, cell) /\ ~VccCompatible(RowOf(rows, cell), Supply)

\* The columns the packer reads, and the part they belong to.
PackRow(part) ==
  [cell |-> part.cell, tier |-> part.tier, text |-> part.function.text,
   suffix |-> part.rank, cap |-> part.cap, area |-> part.area, part |-> part]
PackKeyOf(part) == Packing!PackKey(PackRow(part))
PackRows(parts) == [i \in DOMAIN parts |-> PackRow(parts[i])]

\* The first of the checks before the synthesis that fails; cited is whether the
\* pin maps are read with the table, as a build does.
Unready(f, d, cited) ==
  IF LoadRefused(f.rows) THEN "PartError"
  ELSE IF cited /\ PinsRefused(f.pins) THEN "PinMapError"
  ELSE IF VccIncompatible(d, f.rows) THEN "VccIncompatible"
  ELSE IF GenerateLiberty(f.rows, Supply, FALSE) = <<>> THEN "LibertyError" ELSE "ready"

-----------------------------------------------------------------------------
(* estimate. *)

Band(value, limit) ==
  IF value = None THEN "unknown"
  ELSE IF value.count <= limit.green THEN "green"
  ELSE IF value.count <= limit.amber THEN "amber" ELSE "red"

\* The gates of the netlist, which is what is packed.
CountGates(rows, json) == [count |-> Cardinality(DOMAIN json.cells)]

\* The packer's count, or none where a cell has no part.
CountPackages(rows, json) ==
  LET cells == ParseMapped(json).cells
      names == [n \in DOMAIN cells |-> cells[n].cell]
  IN IF \E n \in DOMAIN cells : ~Known(rows, cells[n].cell) THEN None
     ELSE [count |-> Len(Packing!PackAll(PackRows(rows), names, <<>>, Weight))]

Assess(packageCount, flopCount, fanout) ==
  LET bands == {Band(packageCount, Thresholds.package), Band(flopCount, Thresholds.flop),
                Band(fanout, Thresholds.fanout)}
      overall == IF "red" \in bands THEN "red"
                 ELSE IF "amber" \in bands THEN "amber" ELSE "green"
  IN [overall |-> overall, packages |-> packageCount]

-----------------------------------------------------------------------------
(* build. *)

\* A package of the packer with the part its row belongs to.
Assigned(packages) ==
  [i \in DOMAIN packages |-> [part |-> packages[i].part.part, cells |-> packages[i].cells]]

\* Gates that share a die on the word of a citation nobody made.
UnverifiedDies(assigned) ==
  {i \in DOMAIN assigned : /\ ~assigned[i].part.packaging
                           /\ assigned[i].part.cap > 1
                           /\ Len(assigned[i].cells) > 1}

Failed(status) ==
  [status |-> status, packages |-> <<>>, nets |-> {}, bom |-> {}, groups |-> groups]

\* The packages of the build, or the first of its refusals.
Finish(assigned, cells, allow) ==
  IF \E i \in DOMAIN assigned : EmitRefused(assigned[i].part) THEN Failed("KeyError")
  ELSE IF UnverifiedDies(assigned) # {} /\ ~allow THEN Failed("UnverifiedGatesPerPackage")
  ELSE [status |-> "built", packages |-> assigned, nets |-> BuildNets(assigned, cells),
        bom |-> CollectBom(assigned), groups |-> groups]

PackCells(rows, packable, cells, allow) ==
  LET outcome == Packing!Verdict(rows, packable, groups)
  IN IF outcome # "packed" THEN Failed(outcome)
     ELSE Finish(Assigned(Packing!PackAll(rows, packable, groups, Weight)), cells, allow)

\* The cells under other names.
Renamed(cells, names) ==
  [s \in {names[n] : n \in DOMAIN names} |->
     cells[CHOOSE n \in DOMAIN names : names[n] = s]]

PackRenamed(parts, cells, allow) ==
  PackCells(PackRows(parts), [s \in DOMAIN cells |-> cells[s].cell], cells, allow)

BuildNetlist(parts, netlist, allow) ==
  PackRenamed(parts, Renamed(netlist.cells, StableCellNames(netlist)), allow)

\* From a mapped netlist to the outcome of the build.
Assemble(parts, json, allow) ==
  BuildNetlist(parts, Resolved(parts, ResolveParts(parts, ParseMapped(json))), allow)

-----------------------------------------------------------------------------
(* simulate. *)

\* The first input is the most significant bit of a row's number.
Assignment(d, code) ==
  [name \in ToSet(d.inputs) |->
     LET i == CHOOSE j \in DOMAIN d.inputs : d.inputs[j] = name
     IN (code \div 2 ^ (Len(d.inputs) - i)) % 2]

TotalRows(d) == d.states * 2 ^ Len(d.inputs)

SimulationRow(d, rows, netlist, k) ==
  LET state == k \div 2 ^ Len(d.inputs)
      assigned == Assignment(d, k % 2 ^ Len(d.inputs))
      high == {i \in DOMAIN assigned : assigned[i] = 1}
      expected == [o \in d.outputs |-> BitOf(o \in d.expected[state, high])]
      actual == EvaluateMapped(rows, netlist, assigned)
  IN [state |-> state, high |-> high, actual |-> actual,
      diverges |-> Diverges(expected, actual)]

\* Without a mapped netlist the rows carry no actual value.
SimulationTable(d, rows) ==
  LET limit == Min({TotalRows(d), MaxRows})
      netlist == ResolveParts(rows, ParseMapped(mapped))
  IN [exhaustive |-> TotalRows(d) <= MaxRows,
      rows |-> IF mapped = None THEN {}
               ELSE {SimulationRow(d, rows, netlist, k) : k \in 0 .. limit - 1}]

-----------------------------------------------------------------------------
Init ==
  /\ design \in Designs
  /\ file \in Files
  /\ mapped = None /\ groups = <<>> /\ checked = {} /\ verdict = None
  /\ board = [status |-> "none", packages |-> <<>>, nets |-> {}, bom |-> {}, groups |-> <<>>]
  /\ refdes = <<>> /\ table = None

\* _cmd_lib_check.
CheckLibrary ==
  /\ checked' = {json \in BOOLEAN : LibCheck(file, json)}
  /\ UNCHANGED <<design, file, mapped, groups, verdict, board, refdes, table>>

\* run_estimate; a refusal answers nothing.
Estimate(f) ==
  LET json == Renumber(design.json, f)
  IN /\ Unready(file, design, FALSE) = "ready"
     /\ mapped' = json
     /\ verdict' = Assess(CountPackages(file.rows, json), [count |-> design.flops],
                          [count |-> design.fanout])
     /\ UNCHANGED <<design, file, groups, checked, board, refdes, table>>

\* run_build, without a netlist of the user's and with or without the flag that
\* allows unverified packages.  A build that fails after the synthesis leaves
\* its mapped.json behind and the artefacts of the build before.
Build(f, allow) ==
  /\ Unready(file, design, TRUE) = "ready"
  /\ mapped' = Renumber(design.json, f)
  /\ \E outcome \in {Assemble(LoadPartsCited(file), Renumber(design.json, f), allow)} :
       /\ board' = outcome
       /\ refdes' = IF outcome.status = "built" THEN RefdesMap(outcome.packages) ELSE refdes
  /\ UNCHANGED <<design, file, groups, checked, verdict, table>>

BuildRefused ==
  /\ Unready(file, design, TRUE) # "ready"
  /\ board' = Failed(Unready(file, design, TRUE))
  /\ UNCHANGED <<design, file, mapped, groups, checked, verdict, refdes, table>>

\* The user puts two gates of the last board in one package, gates of the same
\* function for which there is a package that holds two.
Regroup ==
  /\ board.status = "built" /\ groups = <<>>
  /\ \E i, j \in DOMAIN board.packages :
       /\ i < j
       /\ PackKeyOf(board.packages[i].part) = PackKeyOf(board.packages[j].part)
       /\ \E r \in ToSet(file.rows) : r.cap > 1 /\ PackKeyOf(r) = PackKeyOf(board.packages[i].part)
       /\ groups' = <<<<board.packages[i].cells[1], board.packages[j].cells[1]>>>>
  /\ UNCHANGED <<design, file, mapped, checked, verdict, board, refdes, table>>

Simulate ==
  /\ ~LoadRefused(file.rows)
  /\ table' = SimulationTable(design, file.rows)
  /\ UNCHANGED <<design, file, mapped, groups, checked, verdict, board, refdes>>

Next ==
  \/ CheckLibrary
  \/ \E f \in Renumberings : Estimate(f)
  \/ \E f \in Renumberings, allow \in BOOLEAN : Build(f, allow)
  \/ BuildRefused
  \/ Regroup
  \/ Simulate

Spec == Init /\ [][Next]_vars

-----------------------------------------------------------------------------
(* Properties. *)

Clocked == \E n \in DOMAIN design.json.cells : design.json.cells[n].cell \in DOMAIN FlopPins
Bits == {p.bit : p \in ToSet(design.json.ports)} \cup {p.bit : p \in ToSet(design.json.netnames)}

\* What the gates of the netlist compute, on the bits of the document: every
\* assignment of values to bits that all its library gates respect.
Valuations(json, high) ==
  {v \in [Bits \cup Constants -> {0, 1}] :
     /\ v[0] = 0 /\ v[1] = 1
     /\ \A p \in ToSet(json.ports) :
          p.name \in ToSet(design.inputs) => v[p.bit] = BitOf(p.name \in high)
     /\ \A n \in DOMAIN json.cells :
          LET c == json.cells[n] IN
            Known(file.rows, c.cell) /\ RowOf(file.rows, c.cell).tier = "G" =>
              v[c.bits["Y"]] =
                BitOf(Evaluate(RowOf(file.rows, c.cell).function,
                               {p \in DOMAIN c.bits \ {"Y"} : v[c.bits[p]] = 1}))}

OutputBits(json) == {<<p.name, p.bit>> : p \in {q \in ToSet(json.ports) : q.direction = "output"}}

\* The divergence table of `simulate' shows what the mapped gates compute: a
\* value it calls known is the value of every assignment the gates respect,
\* whatever the order of the cells; without flops and foreign cells every value
\* is known; and a row is marked exactly where the gates give an output whose
\* value is known another value than the specification does in that state
\* (evaluate_mapped_netlist, build_simulation_table).
SimulationIsTruthful ==
  table # None => \A row \in table.rows :
    LET outputs == OutputBits(design.json)
        valuations == Valuations(design.json, row.high)
        wanted(o) == BitOf(o[1] \in design.expected[row.state, row.high])
    IN /\ \A o \in outputs :
            /\ row.actual[o[1]] # Unknown =>
                 \A v \in valuations : v[o[2]] = row.actual[o[1]]
            /\ row.actual[o[1]] = Unknown =>
                 \/ Clocked
                 \/ \E n \in DOMAIN mapped.cells : ~Known(file.rows, mapped.cells[n].cell)
       /\ row.diverges <=>
            \E o \in outputs, v \in valuations :
              row.actual[o[1]] # Unknown /\ v[o[2]] # wanted(o)

\* The physical pins that carry a signal of one gate of a package: as its pin
\* map says, or where there is none by position.
PhysicalPins(part, slot, signal) ==
  IF part.pinmap = {} THEN {PositionalNumber(part, PinName(part, slot, signal))}
  ELSE {x.pin : x \in {y \in part.pinmap : y.signal = signal /\ (part.cap = 1 \/ y.gate = slot)}}

\* A gate of the library drives the bit.
Driven(bit) ==
  \E n \in DOMAIN design.json.cells :
    LET c == design.json.cells[n] IN Known(file.rows, c.cell) /\ c.bits["Y"] = bit

NetsAt(node) == {w[1] : w \in {x \in board.nets : x[2] = node}}

\* The board as a circuit: assignments of values to its nets that the gates
\* respect, each read at its physical pins.
BoardValuations(high) ==
  LET nets == {w[1] : w \in board.nets}
      at(v, i, slot, signal) ==
        {v[net] : net \in UNION {NetsAt(<<i, pin>>) :
                                   pin \in PhysicalPins(board.packages[i].part, slot, signal)}}
      gates == {i \in DOMAIN board.packages : board.packages[i].part.tier = "G"}
  IN {v \in [nets \cup {Gnd, Vcc} -> {0, 1}] :
        /\ v[Gnd] = 0 /\ v[Vcc] = 1
        /\ \A net \in nets \cap ToSet(design.inputs) : v[net] = BitOf(net \in high)
        /\ \A i \in gates : \A slot \in DOMAIN board.packages[i].cells :
             LET part == board.packages[i].part
             IN BitOf(Evaluate(part.function,
                               {s \in InputPins(part) : at(v, i, slot, s) = {1}}))
                  \in at(v, i, slot, OutputPin(part))}

\* The packed, pin-numbered netlist handed to KiCad is the circuit Yosys mapped:
\* no physical pin is on two nets, every supply pin is on its rail, and for
\* every input the board settles, and has at each output that a gate drives the
\* value that the gates of the mapped netlist give it, however packing shared
\* the packages, names were assigned and pins were numbered (pack,
\* stable_cell_names, _build_nets, _pinmap_entries).
BoardComputesTheNetlist ==
  board.status = "built" =>
    /\ \A w, x \in board.nets : w[2] = x[2] => w[1] = x[1]
    /\ \A i \in DOMAIN board.packages :
         LET map == board.packages[i].part.pinmap IN
           \A x \in map : /\ x.signal = "VCC" => NetsAt(<<i, x.pin>>) \subseteq {Vcc}
                          /\ x.signal = "GND" => NetsAt(<<i, x.pin>>) \subseteq {Gnd}
                          /\ x.signal = "NC" => NetsAt(<<i, x.pin>>) = {}
    /\ ~Clocked => \A high \in SUBSET ToSet(design.inputs) :
         /\ BoardValuations(high) # {}
         /\ \A v \in BoardValuations(high), u \in Valuations(design.json, high),
               o \in OutputBits(design.json) :
              Driven(o[2]) => /\ NetOf(design.json, o[2]) \in DOMAIN v
                              /\ v[NetOf(design.json, o[2])] = u[o[2]]

\* No board is handed over in which gates share a die on the word of nobody: a
\* package that holds several is cited, under its own number, in the packaging
\* table, unless the user allowed it (_gate_unverified_gates_per_pkg,
\* mark_packaging_verification).
SharedDiesAreCited ==
  [][\A f \in Renumberings : Build(f, FALSE) /\ board'.status = "built" =>
       \A i \in DOMAIN board'.packages :
         Len(board'.packages[i].cells) > 1 =>
           Verified(Status(ParseTable(file.refs, "part_number"),
                           PartNumber(board'.packages[i].part)))]_vars

\* A gate that reads another on two pins waits for it twice and is never ready:
\* it is left to the end, and with it, in the order of the instances, all that
\* waits for it.
LeftWaiting ==
  \E n, k \in DOMAIN design.json.cells :
    LET bits(m) == design.json.cells[m].bits
        reads(m, bit) == {p \in DOMAIN bits(m) \ {"Y"} : bits(m)[p] = bit}
    IN /\ \E m \in DOMAIN design.json.cells \ {n} : Cardinality(reads(n, bits(m)["Y"])) > 1
       /\ k # n /\ reads(k, bits(n)["Y"]) # {}

\* An override written in the names of an earlier build still finds its gates,
\* and the same overrides give the same packages, nets and designators.
NothingMoves ==
  /\ board'.status # "PackError"
  /\ board.status = "built" /\ board'.status = "built" /\ board.groups = board'.groups =>
       /\ board'.packages = board.packages /\ board'.nets = board.nets
       /\ RefdesDelta(refdes, refdes').renumbered = {}

\* A synthesis renumbers the instances, and nothing the user keeps from one
\* build to the next depends on that, for a design without flops in which no
\* gate waits for one that reads another twice (stable_cell_names, _topo_order,
\* _collect_forced, assign_refdes).
RenumberingChangesNothing == [][~Clocked /\ ~LeftWaiting => NothingMoves]_vars

\* Without that exception it fails: the digests of gates left waiting follow
\* the order of their instances, and so do their names.
RenumberingNeverShows == [][~Clocked => NothingMoves]_vars

\* The estimate prices the board that is built: where every cell has a part and
\* no override stands, the count behind its verdict is the number of packages
\* (estimate.py _count_packages, assess).
EstimateIsOfTheBoard ==
  board.status = "built" /\ board.groups = <<>> /\ verdict # None =>
    verdict.packages = None \/ verdict.packages.count = Len(board.packages)
=============================================================================
