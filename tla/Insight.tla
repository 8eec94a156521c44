------------------------------- MODULE Insight -------------------------------
(***************************************************************************)
(* What a build directory is asked once a synthesis has written it: the    *)
(* analyses of the mapped netlist, from the directory alone or with the    *)
(* design at hand, the provenance of its gates and the forward match of    *)
(* its cells.  The answers are computed from the files found there, which  *)
(* a synthesis writes one after the other and an interrupted one leaves    *)
(* half replaced.                                                          *)
(***************************************************************************)
EXTENDS Testability, Provenance

CONSTANTS
  Histories,      \* sequences of designs, each an edit of the one before
  Rows,           \* the rows of parts.csv
  Supply,         \* the supply of the project
  Renumberings,   \* permutations of the instances of gates
  VectorCap       \* the largest vector space that is exhausted

VARIABLES
  edits,          \* the designs still to come, the present one first
  stage,          \* the last file a running synthesis has written, or idle
  dir,            \* the files: blocks of cells.lib, and documents or nothing
  answer          \* what the last command printed

vars == <<edits, stage, dir, answer>>

\* A design is what Yosys makes of it, [premap, mapped, data]: a document or
\* nothing, a document, and the inputs other than clock and reset.
design == Head(edits)

Nothing == {}
ContentOf(file) == CHOOSE content \in file : TRUE
NoAnswer == [kind |-> "none"]

-----------------------------------------------------------------------------
(* What is made of the files. *)

\* abc numbers its cells as it meets them; a flop keeps its name.
NumberGates(doc, r) ==
  LET name(n) == IF doc.cells[n].cell \in FlopCells \/ n \notin DOMAIN r THEN n ELSE r[n]
  IN [doc EXCEPT !.cells = [m \in {name(n) : n \in DOMAIN @} |->
                              @[CHOOSE n \in DOMAIN @ : name(n) = m]]]

\* The blocks of cells.lib as parts, without what only parts.csv has.
LoadPartsFromLiberty(blocks) ==
  [i \in DOMAIN blocks |->
     [cell |-> blocks[i].name, tier |-> IF blocks[i].ff # {} THEN "F" ELSE "G",
      inputs |-> Cardinality(blocks[i].inputs), cap |-> 1, tpd |-> 0,
      function |-> [text |-> IF blocks[i].ff # {} THEN "" ELSE "function", parses |-> TRUE,
                    uses |-> blocks[i].inputs, minterms |-> blocks[i].minterms]]]

Analysis(mode, rows, netlist, data) ==
  LET nl == With(rows, ResolveParts(rows, netlist))
  IN [kind |-> "analysis", mode |-> mode, nl |-> nl,
      faults |-> AnalyzeFaults(nl, data, VectorCap), uncollapsed |-> Uncollapsed(nl),
      scoap |-> AnalyzeScoap(nl), timing |-> TimingAnalysis(nl), flops |-> ClockFanout(nl)]

Unavailable(why) == [kind |-> "unavailable", why |-> why]

\* No gate without a library, and no zeros for what is not there.
DirOnlyPayload ==
  LET netlist == ParseMapped(ContentOf(dir.mapped))
  IN IF dir.mapped = Nothing THEN Unavailable("no mapped netlist")
     ELSE IF dir.lib = <<>> THEN Unavailable("no library")
     ELSE Analysis("directory", LoadPartsFromLiberty(dir.lib), netlist, netlist.inputs)

FullAnalysisPayload ==
  IF dir.mapped = Nothing THEN Unavailable("no mapped netlist")
  ELSE Analysis("full", Rows, Resolved(Rows, ParseMapped(ContentOf(dir.mapped))), design.data)

\* Nothing writes the third netlist that coverage would take.
NotCaptured == [ports |-> <<>>, netnames |-> <<>>, cells |-> <<>>]

ProvenancePayload ==
  IF dir.mapped = Nothing THEN Unavailable("not built")
  ELSE IF dir.premap = Nothing THEN Unavailable("no pre-map stage")
  ELSE [kind |-> "provenance",
        report |-> MeasureCoverage(ContentOf(dir.premap), ContentOf(dir.mapped), NotCaptured)]

LibraryFunctions ==
  [cell \in {r.cell : r \in {q \in ToSet(Rows) : q.tier = "G"}} |-> RowOf(Rows, cell).function]

-----------------------------------------------------------------------------
Init ==
  /\ edits \in Histories
  /\ stage = "idle"
  /\ dir = [lib |-> <<>>, premap |-> Nothing, mapped |-> Nothing]
  /\ answer = NoAnswer

\* The library goes first, by the command itself; the netlists are Yosys'.
WriteLibrary ==
  /\ stage = "idle" /\ answer = NoAnswer
  /\ stage' = "library"
  /\ dir' = [dir EXCEPT !.lib = GenerateLiberty(Rows, Supply, FALSE)]
  /\ UNCHANGED <<edits, answer>>

\* A design synthesised from its flow table has none, and an old one stays.
WritePremap ==
  /\ stage = "library"
  /\ stage' = "premap"
  /\ dir' = IF design.premap = Nothing THEN dir ELSE [dir EXCEPT !.premap = design.premap]
  /\ UNCHANGED <<edits, answer>>

WriteMapped ==
  /\ stage = "premap"
  /\ stage' = "idle"
  /\ \E r \in Renumberings : dir' = [dir EXCEPT !.mapped = {NumberGates(design.mapped, r)}]
  /\ UNCHANGED <<edits, answer>>

\* A synthesis that fails, or is stopped, leaves what it has written.
Stopped ==
  /\ stage # "idle"
  /\ stage' = "idle"
  /\ UNCHANGED <<edits, dir, answer>>

Edit ==
  /\ stage = "idle" /\ answer = NoAnswer /\ Len(edits) > 1
  /\ edits' = Tail(edits)
  /\ UNCHANGED <<stage, dir, answer>>

Ask(payload) ==
  /\ stage = "idle" /\ answer = NoAnswer
  /\ answer' = payload
  /\ UNCHANGED <<edits, stage, dir>>

AnalyseDir == Ask(DirOnlyPayload)
AnalyseFull == Ask(FullAnalysisPayload)
AskProvenance == Ask(ProvenancePayload)
Match ==
  /\ dir.premap # Nothing /\ dir.mapped # Nothing
  /\ Ask([kind |-> "match",
          result |-> MatchNetlists(ContentOf(dir.premap), ContentOf(dir.mapped),
                                   LibraryFunctions)])
Dismiss ==
  /\ answer # NoAnswer
  /\ answer' = NoAnswer
  /\ UNCHANGED <<edits, stage, dir>>

Next ==
  \/ WriteLibrary \/ WritePremap \/ WriteMapped \/ Stopped \/ Edit
  \/ AnalyseDir \/ AnalyseFull \/ AskProvenance \/ Match \/ Dismiss

Spec == Init /\ [][Next]_vars

-----------------------------------------------------------------------------
(* What the analyses should say, from the netlist as a set of constraints  *)
(* rather than an order of evaluation.                                     *)

\* The values of the gates' nets that every gate agrees with, one of them
\* unless gates are in a loop.
Settlements(nl, high, fault) ==
  LET driven == {OutputNet(nl.cells[n]) : n \in Gates_(nl)}
      At(vals, net) ==
        IF net \in Constants THEN net
        ELSE IF fault.line = Stem(net) THEN fault.stuck
        ELSE IF net \in driven THEN vals[net] ELSE BitOf(net \in high)
      Pin(vals, n, p) ==
        IF fault.line.cell = n /\ fault.line.pin = p THEN fault.stuck
        ELSE At(vals, nl.cells[n].nets[p])
      Agrees(vals, n) ==
        vals[OutputNet(nl.cells[n])] =
          BitOf(Evaluate(nl.cells[n].function,
                         {p \in nl.cells[n].ins : Pin(vals, n, p) = 1}))
  IN {[net \in NonConstantNets(nl) |-> At(vals, net)] : vals \in
        {v \in [driven -> {0, 1}] : \A n \in Gates_(nl) : Agrees(v, n)}}

Assignments(nl) == SUBSET (nl.inputs \cup FlopNets(nl, "Q"))
Seen(nl, nets, high, fault) ==
  {Restrict(vals, nets) : vals \in Settlements(nl, high, fault)}
Tests(nl, nets, fault) ==
  {high \in Assignments(nl) : Seen(nl, nets, high, fault) # Seen(nl, nets, high, NoFault)}

\* Where a vector is looked at, and where a fault can make a difference: a flop
\* sees its clock, set and reset pins as well.
Watched(nl) == (nl.outputs \cup FlopNets(nl, "D")) \ Constants
Visible(nl) == Watched(nl) \cup (ControlNets(nl) \ Constants)

\* The nets from which gates lead to a clock, set or reset pin.
ControlCone(nl) ==
  LET Grow(cone, k) ==
        cone \cup UNION {{nl.cells[n].nets[p] : p \in DataPins(nl.cells[n])} :
                           n \in {m \in Gates_(nl) : OutputNet(nl.cells[m]) \in cone}}
  IN FoldLeft(Grow, ControlNets(nl), [k \in 1 .. Cardinality(Gates_(nl)) |-> k])

\* The fault is on such a net, or on a branch that leads on from one.
ControlsFlops(nl, fault) ==
  LET line == fault.line
  IN (IF line.cell = 0 THEN line.net ELSE OutputNet(nl.cells[line.cell])) \in ControlCone(nl)

Looped(nl) == Loops(nl) # {}
\* The netlist is the design's: an analysis of an edited design over the old
\* netlist does not know all of its inputs.
OfTheDesign == \E r \in Renumberings : dir.mapped = {NumberGates(design.mapped, r)}
Analysed == answer.kind = "analysis" /\ (answer.mode = "directory" \/ OfTheDesign)
Redundant(faults) == {f \in DOMAIN faults : faults[f] = "redundant"}

\* faults.py: a fault called redundant is one that no test can exist for, and
\* the gate it sits in may go.  In a netlist without loops no output and no flop
\* sees it, at any pin, under any input in any state, whatever order the vectors
\* were applied in and whichever branches were collapsed.  Faults from which
\* gates lead to a clock, set or reset pin are the exception: only the outputs
\* and the data pins do not see those.
RedundantIsDead ==
  Analysed /\ ~Looped(answer.nl) =>
    LET nl == answer.nl
    IN \A f \in Redundant(answer.faults) :
         Tests(nl, IF ControlsFlops(nl, f) THEN Watched(nl) ELSE Visible(nl), f) = {}

\* Without that exception it fails: the pins that are held are not looked at, so
\* a fault in the gates before a reset, which every flop sees, is redundant.
RedundantIsUnseen ==
  Analysed /\ ~Looped(answer.nl) =>
    \A f \in Redundant(answer.faults) : Tests(answer.nl, Visible(answer.nl), f) = {}

\* The module's own words, loops or not.
RedundantHasNoTest ==
  Analysed => \A f \in Redundant(answer.faults) : Tests(answer.nl, Watched(answer.nl), f) = {}

\* A net that one gate reads and that is seen otherwise as well is a stem, but
\* the list does not hold its branch.
SeenStems(nl) ==
  {net \in NonConstantNets(nl) : Cardinality(Sinks(nl, net)) = 1 /\ net \in Watched(nl)}

\* The input faults of a gate for which its output's fault is dropped.
Dominating(nl, n, v) ==
  LET c == nl.cells[n]
  IN {Stuck(Line(nl, n, x[1]), x[2]) : x \in
        {y \in DataPins(c) \X {0, 1} : /\ PinTests(c, y[1], y[2]) \subseteq OutputTests(c, v)
                                       /\ PinTests(c, y[1], y[2]) # OutputTests(c, v)}}

\* What the collapsing loses, of the faults that can be found: those on a seen
\* stem, and those of an output dropped for input faults none of which stands
\* for it, being on a seen stem or not to be found themselves.
Lost(nl, findable) ==
  LET seen == {f \in findable : f.line \in {Stem(net) : net \in SeenStems(nl)}}
  IN seen \cup
     {f \in findable : \E n \in Gates_(nl) :
        /\ f.line = Stem(OutputNet(nl.cells[n]))
        /\ Dominating(nl, n, f.stuck) # {}
        /\ Dominating(nl, n, f.stuck) \cap findable \subseteq seen}

\* faults.py's collapsing: every fault of the long list that can be found is
\* found by any test of some fault of the short list.  Those it loses are the
\* exception, and with them every fault they stand for.
CollapsedFaultsStandForAll ==
  Analysed /\ ~Looped(answer.nl) =>
    LET nl == answer.nl
        open == {f \in Faults(nl) : f.line.net \notin ControlNets(nl)}
        tests == [f \in open |-> Tests(nl, Watched(nl), f)]
        findable == {f \in open : tests[f] # {}}
        standing == findable \cap (DOMAIN answer.faults \cup Lost(nl, findable))
    IN \A f \in findable : \E g \in standing : tests[g] \subseteq tests[f]

\* scoap.py: a net reported without observability has no effect on an output, nor
\* on a flop that itself has some, whatever it is stuck at.
ScoapIsSound ==
  Analysed /\ ~Looped(answer.nl) =>
    LET nl == answer.nl
        co == answer.scoap.co
        live == {n \in Flops(nl) : co[OutputNet(nl.cells[n])] < Never}
        watched == (nl.outputs \cup {nl.cells[n].nets["D"] : n \in live}) \ Constants
    IN \A net \in answer.scoap.unobservable, v \in {0, 1}, high \in Assignments(nl) :
         Seen(nl, watched, high, Stuck(Stem(net), v)) = Seen(nl, watched, high, NoFault)

\* clock.py: no chain of gates is longer than the reported depth, and the
\* reported path is such a chain with its own delay.
DepthIsLongestPath ==
  Analysed /\ ~Looped(answer.nl) =>
    LET nl == answer.nl
        Feeds(m, n) == OutputNet(nl.cells[m]) \in {nl.cells[n].nets[p] : p \in nl.cells[n].ins}
        chain(s) == \A i \in 1 .. Len(s) - 1 : Feeds(s[i], s[i + 1])
        path == answer.timing.path
    IN /\ Len(path) = answer.timing.depth /\ chain(path)
       /\ answer.timing.tpd = FoldLeft(LAMBDA sum, n : sum + nl.cells[n].tpd, 0, path)
       /\ ~\E s \in [1 .. Len(path) + 1 -> Gates_(nl)] : chain(s)

\* The figures of the two analyses that go over the netlist's order.
FiguresAreTrue == ScoapIsSound /\ DepthIsLongestPath

-----------------------------------------------------------------------------
(* Provenance. *)

Names(doc, bit) == {doc.netnames[i].name : i \in NamesOf(doc, bit)}
BitsNamed(doc, names) ==
  {doc.netnames[i].bit : i \in {j \in DOMAIN doc.netnames : doc.netnames[j].name \in names}}
DrivesBit(doc, n, bits) ==
  \E p \in CoveragePorts(doc.cells[n]) \cap DOMAIN doc.cells[n].bits : doc.cells[n].bits[p] \in bits

\* An exact entry names the cells that carry its construct and drive its nets.
EntryIsWhole(e) ==
  LET mapped == ContentOf(dir.mapped)
      driving == {n \in DOMAIN mapped.cells : DrivesBit(mapped, n, BitsNamed(mapped, e.nets))}
  IN e.cells \ driving \subseteq {n \in DOMAIN mapped.cells : mapped.cells[n].src # NoSource}
     /\ driving \subseteq e.cells

\* The function of a cell over the leaves of its netlist: the inputs by name and
\* the flops by instance that it settles to 1 under.
LeafBits(doc) ==
  [leaf \in {<<"input", Captured(doc, p.bit)>> : p \in {q \in ToSet(doc.ports) : q.direction = "input"}}
            \cup {<<"seq", n>> : n \in {m \in DOMAIN doc.cells : "Q" \in DOMAIN doc.cells[m].bits}} |->
     IF leaf[1] = "seq" THEN doc.cells[leaf[2]].bits["Q"]
     ELSE (CHOOSE p \in ToSet(doc.ports) : p.direction = "input" /\ Captured(doc, p.bit) = leaf[2]).bit]

Computes(doc, functions, n) ==
  LET gates == Evaluable(doc, functions)
      leaves == LeafBits(doc)
      driven == {doc.cells[g].bits["Y"] : g \in gates}
      At(vals, high, bit) ==
        IF bit \in Constants THEN bit = 1
        ELSE IF bit \in driven THEN bit \in vals
        ELSE \E leaf \in high : leaves[leaf] = bit
      Agrees(vals, high, g) ==
        (doc.cells[g].bits["Y"] \in vals) <=>
          ({p \in DOMAIN doc.cells[g].bits \ {"Y"} : At(vals, high, doc.cells[g].bits[p])}
             \in functions[doc.cells[g].cell].minterms)
  IN {high \in SUBSET DOMAIN leaves :
        \E vals \in SUBSET driven :
          doc.cells[n].bits["Y"] \in vals /\ \A g \in gates : Agrees(vals, high, g)}

\* coverage.py and match.py: an exact entry has every cell that drives a net of
\* its construct, unless the net goes by another name later in the document; and
\* cells linked by their cones compute the same function of the same leaves.
LinksAreTrue ==
  /\ answer.kind = "provenance" =>
       \A e \in answer.report.entries :
         \/ EntryIsWhole(e)
         \/ \E bit \in BitsNamed(ContentOf(dir.mapped), e.nets) :
              Cardinality(Names(ContentOf(dir.mapped), bit)) > 1
  /\ answer.kind = "match" =>
       \A l \in answer.result.links : Carrier(l.kind) = "cone_signature" =>
         \A p \in l.premap, m \in l.mapped :
           Computes(ContentOf(dir.premap), PremapPrimitives, p)
             = Computes(ContentOf(dir.mapped), LibraryFunctions, m)
=============================================================================
