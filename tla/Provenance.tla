----------------------------- MODULE Provenance -----------------------------
(***************************************************************************)
(* Which part of a specification a gate comes from: the gp_src attributes  *)
(* of the netlists Yosys writes before and after mapping, the coverage     *)
(* measured from them, and the forward matching of cells.                  *)
(*                                                                         *)
(* A document is as in Netlist; its names also carry src and its cells src *)
(* and outs: src is the construct gp_src names or NoSource, outs the       *)
(* output pins port_directions gives, {} where it is absent.               *)
(***************************************************************************)
EXTENDS Netlist

NoSource == "none"

-----------------------------------------------------------------------------
(* capture.py: names are of the document, and a bit is known by the last   *)
(* name that the document gives it; a port has no say.                     *)

NamesOf(doc, bit) == {i \in DOMAIN doc.netnames : doc.netnames[i].bit = bit}

Captured(doc, bit) ==
  IF bit \in Constants THEN bit ELSE doc.netnames[Max(NamesOf(doc, bit))].name

CapturedInputs(doc) == {Captured(doc, p.bit) : p \in {q \in ToSet(doc.ports) : q.direction = "input"}}

\* From nets, and from cells, to constructs.
NetSources(doc) ==
  LET with == {i \in DOMAIN doc.netnames : doc.netnames[i].src # NoSource}
  IN [name \in {doc.netnames[i].name : i \in with} |->
        doc.netnames[CHOOSE i \in with : doc.netnames[i].name = name].src]
CellSources(doc) ==
  [n \in {m \in DOMAIN doc.cells : doc.cells[m].src # NoSource} |-> doc.cells[n].src]

-----------------------------------------------------------------------------
(* coverage.py. *)

CarrierCoverage(premap, mapped, post) ==
  LET exact == DOMAIN premap \cap DOMAIN mapped
      inferred == (DOMAIN premap \ exact) \cap DOMAIN post
  IN [total |-> Cardinality(DOMAIN premap), exact |-> Cardinality(exact),
      inferred |-> Cardinality(inferred),
      absent |-> Cardinality(DOMAIN premap \ (exact \cup inferred))]

FlopCells == DOMAIN FlopPins
CoveragePorts(c) == IF c.outs # {} THEN c.outs ELSE IF c.cell \in FlopCells THEN {"Q"} ELSE {"Y"}

\* The cells that drive a net, found by the net's captured name.
DrivingCells(doc, name) ==
  {n \in DOMAIN doc.cells : \E p \in CoveragePorts(doc.cells[n]) \cap DOMAIN doc.cells[n].bits :
     Captured(doc, doc.cells[n].bits[p]) = name}

\* Where a construct ended up; none for one that left no trace.
Entry(premap, mapped, post, path) ==
  LET nets == {n \in DOMAIN NetSources(premap) : NetSources(premap)[n] = path}
      cells == {c \in DOMAIN CellSources(premap) : CellSources(premap)[c] = path}
      exactNets == nets \cap DOMAIN NetSources(mapped)
      exactCells == cells \cap DOMAIN CellSources(mapped)
      dropped == (nets \ exactNets) \cap DOMAIN NetSources(post)
  IN IF exactNets \cup exactCells # {}
     THEN {[pointer |-> path, nets |-> exactNets, confidence |-> "exact",
            cells |-> UNION {DrivingCells(mapped, n) : n \in exactNets} \cup exactCells]}
     ELSE IF dropped # {}
     THEN {[pointer |-> path, nets |-> dropped, confidence |-> "inferred", cells |-> {}]}
     ELSE {}

Paths(premap) == Range(NetSources(premap)) \cup Range(CellSources(premap))

MeasureCoverage(premap, mapped, post) ==
  [net |-> CarrierCoverage(NetSources(premap), NetSources(mapped), NetSources(post)),
   cell |-> CarrierCoverage(CellSources(premap), CellSources(mapped), CellSources(post)),
   entries |-> UNION {Entry(premap, mapped, post, path) : path \in Paths(premap)},
   constructs |-> Cardinality(Paths(premap))]

-----------------------------------------------------------------------------
(* match.py: one side of the match.  functions takes the combinational     *)
(* types to what they compute; every other cell is a leaf boundary.        *)

Primitive(pins, minterms) == [uses |-> pins, minterms |-> minterms]
PremapPrimitives ==
  ("$_NOT_" :> Primitive({"A"}, {{}})) @@
  ("$_AND_" :> Primitive({"A", "B"}, {{"A", "B"}})) @@
  ("$_OR_" :> Primitive({"A", "B"}, {{"A"}, {"B"}, {"A", "B"}})) @@
  ("$_MUX_" :> Primitive({"A", "B", "S"},
                         {{"A"}, {"A", "B"}, {"B", "S"}, {"A", "B", "S"}}))

\* Without port_directions every cell that is no primitive is taken to drive Y.
PrimitiveFlops == {"$_DFF_P_", "$_DFF_PN0_", "$_DFF_PN1_"}
MatchPorts(c) == IF c.outs # {} THEN c.outs ELSE IF c.cell \in PrimitiveFlops THEN {"Q"} ELSE {"Y"}
OutBits(c) == {c.bits[p] : p \in MatchPorts(c) \cap DOMAIN c.bits} \ Constants
InBits(c) == {c.bits[p] : p \in DOMAIN c.bits \ MatchPorts(c)}

Evaluable(doc, functions) == {n \in DOMAIN doc.cells : doc.cells[n].cell \in DOMAIN functions}

\* The leaf a net is: an input, the output of a leaf boundary, or undriven.
LeafOf(doc, functions, bit) ==
  LET name == Captured(doc, bit)
      behind == {n \in DOMAIN doc.cells \ Evaluable(doc, functions) : bit \in OutBits(doc.cells[n])}
      drivers == {n \in Evaluable(doc, functions) : bit \in OutBits(doc.cells[n])}
  IN IF name \in CapturedInputs(doc) THEN {<<"input", name>>}
     ELSE IF behind # {} THEN {<<"seq", CHOOSE n \in behind : TRUE>>}
     ELSE IF drivers = {} THEN {<<"undriven", name>>} ELSE {}

\* Leaves first, as far as the cells go: the cells whose support is known.
Support(doc, functions) ==
  LET cells == Evaluable(doc, functions)
      driver(bit) == {m \in cells : bit \in OutBits(doc.cells[m])}
      Of(known, n) ==
        UNION {LET leaf == LeafOf(doc, functions, bit)
               IN IF leaf # {} THEN leaf ELSE UNION {known[m] : m \in driver(bit)}
               : bit \in InBits(doc.cells[n]) \ Constants}
      Ready(known, n) ==
        \A bit \in InBits(doc.cells[n]) \ Constants :
          LeafOf(doc, functions, bit) # {} \/ driver(bit) \subseteq DOMAIN known
      Step(known, k) ==
        LET ready == {n \in cells \ DOMAIN known : Ready(known, n)}
        IN [n \in ready |-> Of(known, n)] @@ known
  IN FoldLeft(Step, <<>>, [i \in 1 .. Cardinality(cells) |-> i])

\* The value of every cell of known support when exactly the leaves of high are.
ConeValues(doc, functions, support, high) ==
  LET driver(bit) == CHOOSE m \in DOMAIN support : bit \in OutBits(doc.cells[m])
      Value(vals, bit) ==
        IF bit \in Constants THEN bit = 1
        ELSE LET leaf == LeafOf(doc, functions, bit)
             IN IF leaf # {} THEN leaf \subseteq high
                ELSE vals[driver(bit)]
      Ready(vals, n) ==
        \A bit \in InBits(doc.cells[n]) \ Constants :
          LeafOf(doc, functions, bit) # {} \/ driver(bit) \in DOMAIN vals
      Step(vals, k) ==
        [n \in {m \in DOMAIN support \ DOMAIN vals : Ready(vals, m)} |->
           {p \in DOMAIN doc.cells[n].bits \ MatchPorts(doc.cells[n]) :
              Value(vals, doc.cells[n].bits[p])}
             \in functions[doc.cells[n].cell].minterms] @@ vals
  IN FoldLeft(Step, <<>>, [i \in 1 .. Cardinality(DOMAIN support) |-> i])

\* The table alone: the same for other leaves.
TableOnly(doc, functions, support, n) ==
  [keys |-> {Cardinality(support[n])},
   table |-> {Cardinality(high) : high \in
                {h \in SUBSET support[n] : ConeValues(doc, functions, support, h)[n]}}]

\* The leaves a cell depends on with its truth table over them.
Signature(doc, functions, support, n) ==
  [keys |-> support[n],
   table |-> {high \in SUBSET support[n] : ConeValues(doc, functions, support, high)[n]}]

-----------------------------------------------------------------------------
(* match.py: links. *)

Link(kind, premap, mapped, confidence, source) ==
  [kind |-> kind, premap |-> premap, mapped |-> mapped, confidence |-> confidence, source |-> source]

\* A cell's own source, else that of the net it drives.
SourceOf(doc, n) ==
  LET nets == {Captured(doc, bit) : bit \in OutBits(doc.cells[n])} \cap DOMAIN NetSources(doc)
  IN IF doc.cells[n].src # NoSource THEN doc.cells[n].src
     ELSE IF nets # {} THEN NetSources(doc)[CHOOSE net \in nets : TRUE] ELSE NoSource

\* A flop keeps its attribute, or at least its name.
MatchSequential(premap, mapped) ==
  LET flops == {n \in DOMAIN mapped.cells : mapped.cells[n].cell \in FlopCells}
      kept == {n \in DOMAIN premap.cells : premap.cells[n].cell \in PrimitiveFlops}
  IN {Link("sequential", {n}, {n}, "high", mapped.cells[n].src) :
        n \in {m \in flops : mapped.cells[m].src # NoSource}}
     \cup {Link("sequential_by_name", {n}, {n}, "medium", SourceOf(premap, n)) :
             n \in {m \in flops \cap kept : mapped.cells[m].src = NoSource}}

\* A gate is known by the net it drives.
MatchNetAttributes(mapped, functions, skip) ==
  {Link("net_attribute", {}, {n}, "high", SourceOf([mapped EXCEPT !.cells[n].src = NoSource], n)) :
     n \in {m \in Evaluable(mapped, functions) \ skip :
              SourceOf([mapped EXCEPT !.cells[m].src = NoSource], m) # NoSource}}

\* The rest are linked where both sides compute the same of the same leaves.
ConeLink(premap, ps, ms) ==
  LET named == {p \in ps : SourceOf(premap, p) # NoSource}
      source == IF named = {} THEN NoSource ELSE SourceOf(premap, Min(named))
      one == Cardinality(ps) = 1
      kind == IF one /\ Cardinality(ms) = 1 THEN "one_to_one"
              ELSE IF one THEN "duplicated"
              ELSE IF Cardinality(ms) = 1 THEN "merged" ELSE "many_to_many"
      confidence == CASE kind = "one_to_one" -> "high" [] kind = "many_to_many" -> "low"
                      [] OTHER -> "medium"
  IN Link(kind, ps, ms, confidence, source)

MatchCombinational(premap, mapped, functions, skipPremap, skipMapped) ==
  LET pSupport == Support(premap, PremapPrimitives)
      mSupport == Support(mapped, functions)
      pSig == [p \in DOMAIN pSupport \ skipPremap |->
                 Signature(premap, PremapPrimitives, pSupport, p)]
      mSig == [m \in DOMAIN mSupport \ skipMapped |-> Signature(mapped, functions, mSupport, m)]
  IN {ConeLink(premap, {p \in DOMAIN pSig : pSig[p] = sig}, {m \in DOMAIN mSig : mSig[m] = sig}) :
        sig \in Range(pSig) \cap Range(mSig)}

Carrier(kind) ==
  CASE kind = "net_attribute" -> "net_attribute"
    [] kind = "sequential" -> "cell_attribute"
    [] kind = "sequential_by_name" -> "sequential_name"
    [] OTHER -> "cone_signature"

MappedOf(links) == UNION {l.mapped : l \in links}

\* The links, the carrier of each cell and the cells that reach a source.
Report(mapped, links) ==
  LET CarrierOf(n) == IF n \notin MappedOf(links) THEN "unmatched"
                      ELSE Carrier((CHOOSE l \in links : n \in l.mapped).kind)
  IN [links |-> links, carriers |-> [n \in DOMAIN mapped.cells |-> CarrierOf(n)],
      traceable |-> {n \in MappedOf(links) :
                       \E l \in links : n \in l.mapped /\ l.source # NoSource}]

MatchNetlists(premap, mapped, functions) ==
  LET sequential == MatchSequential(premap, mapped)
      nets == MatchNetAttributes(mapped, functions, MappedOf(sequential))
      cones == MatchCombinational(premap, mapped, functions,
                 UNION {l.premap : l \in sequential} \cap DOMAIN premap.cells,
                 MappedOf(sequential \cup nets))
  IN Report(mapped, sequential \cup nets \cup cones)
=============================================================================
