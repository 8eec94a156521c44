----------------------------- MODULE Testability -----------------------------
(***************************************************************************)
(* The analyses of a mapped netlist: single stuck-at faults (enumerated,   *)
(* collapsed, classified), SCOAP controllability and observability, and    *)
(* combinational depth.                                                    *)
(*                                                                         *)
(* A netlist is a resolved one of Netlist whose cells also carry what the  *)
(* analyses take from the part: function and tpd (With).  A fault is a     *)
(* line and the value it is stuck at; a line is a net, or one branch of a  *)
(* net at a pin of a cell.                                                 *)
(***************************************************************************)
EXTENDS Netlist

With(rows, netlist) ==
  [netlist EXCEPT !.cells = [n \in DOMAIN @ |->
     @[n] @@ [function |-> IF Known(rows, @[n].cell) THEN RowOf(rows, @[n].cell).function
                           ELSE [text |-> "", parses |-> FALSE, uses |-> {}, minterms |-> {}],
              tpd |-> IF Known(rows, @[n].cell) THEN RowOf(rows, @[n].cell).tpd ELSE 0]]]

Gates_(nl) == {n \in DOMAIN nl.cells : nl.cells[n].tier = "G" /\ nl.cells[n].function.text # ""}
Flops(nl) == {n \in DOMAIN nl.cells : nl.cells[n].tier = "F"}

NonConstantNets(nl) ==
  (nl.inputs \cup nl.outputs \cup UNION {Range(nl.cells[n].nets) : n \in DOMAIN nl.cells})
    \ Constants

\* Clock, set and reset pins are held, not exercised.
ControlNets(nl) ==
  UNION {{nl.cells[n].nets[p] : p \in nl.cells[n].ins \ {"D"}} : n \in Flops(nl)}

FlopNets(nl, pin) == {nl.cells[n].nets[pin] : n \in Flops(nl)} \ Constants

\* Kahn's order, least name first; the cells of a loop are left to the end.
Order(nl) ==
  LET gates == Gates_(nl)
      before(n) == {m \in gates \ {n} : \E p \in nl.cells[n].ins :
                                          m \in Drivers(nl.cells, nl.cells[n].nets[p])}
      Step(order, k) ==
        LET ready == {n \in gates \ ToSet(order) : before(n) \subseteq ToSet(order)}
        IN IF ready = {} THEN order ELSE Append(order, Min(ready))
  IN FoldLeft(Step, <<>>, SetToSortSeq(gates, <))

Loops(nl) == Gates_(nl) \ ToSet(Order(nl))

-----------------------------------------------------------------------------
(* Faults and their collapsing. *)

Stem(net) == [net |-> net, cell |-> 0, pin |-> ""]
Stuck(line, v) == [line |-> line, stuck |-> v]

Sinks(nl, net) ==
  {<<n, p>> \in Gates_(nl) \X ToSet(GatePins) : p \in nl.cells[n].ins /\ nl.cells[n].nets[p] = net}

\* A net that feeds several gates has a branch at each; fanout to flops and
\* outputs does not count.
Line(nl, n, p) ==
  LET net == nl.cells[n].nets[p]
  IN IF Cardinality(Sinks(nl, net)) >= 2 THEN [net |-> net, cell |-> n, pin |-> p] ELSE Stem(net)

DataPins(c) == {p \in c.ins : c.nets[p] \notin Constants}

Lines(nl) ==
  {Stem(net) : net \in NonConstantNets(nl)}
    \cup UNION {{Line(nl, n, p) : p \in DataPins(nl.cells[n])} : n \in Gates_(nl)}
Faults(nl) == {Stuck(line, v) : line \in Lines(nl), v \in {0, 1}}

\* Two faults for every net and for every pin of a gate or a flop.
Uncollapsed(nl) ==
  2 * (Cardinality(NonConstantNets(nl))
       + Cardinality({<<n, p>> \in (DOMAIN nl.cells) \X ToSet(PinOrder) :
                        /\ nl.cells[n].tier \in {"G", "F"}
                        /\ p \in nl.cells[n].ins \cup nl.cells[n].outs}))

\* Assignments of a gate's pins that tell a stuck pin, or output, from a sound one.
PinTests(c, p, v) ==
  {high \in SUBSET c.ins :
     /\ (p \in high) # (v = 1)
     /\ Evaluate(c.function, high)
          # Evaluate(c.function, IF v = 1 THEN high \cup {p} ELSE high \ {p})}
OutputTests(c, v) == {high \in SUBSET c.ins : Evaluate(c.function, high) # (v = 1)}

\* The same, an output fault going also for an input fault that just went.
CollapseGateTwice(nl, lines, n) ==
  LET c == nl.cells[n]
      equivalent == {f \in lines : \E p \in DataPins(c), w \in {0, 1} :
                       /\ f = Stuck(Line(nl, n, p), f.stuck)
                       /\ PinTests(c, p, f.stuck) = OutputTests(c, w)}
      dominated == {f \in lines : \E p \in DataPins(c), v \in {0, 1} :
                      /\ f = Stuck(Stem(OutputNet(c)), f.stuck)
                      /\ Stuck(Line(nl, n, p), v) \in lines
                      /\ PinTests(c, p, v) \subseteq OutputTests(c, f.stuck)}
  IN IF c.outs = {} THEN lines ELSE lines \ (equivalent \cup dominated)

\* At one gate: input faults that the output's tests are the tests of go first,
\* then output faults that every test of a remaining input fault finds.
CollapseGate(nl, lines, n) ==
  LET c == nl.cells[n]
      equivalent == {f \in lines : \E p \in DataPins(c), w \in {0, 1} :
                       /\ f = Stuck(Line(nl, n, p), f.stuck)
                       /\ PinTests(c, p, f.stuck) = OutputTests(c, w)}
      rest == lines \ equivalent
      dominated == {f \in rest : \E p \in DataPins(c), v \in {0, 1} :
                      /\ f = Stuck(Stem(OutputNet(c)), f.stuck)
                      /\ Stuck(Line(nl, n, p), v) \in rest
                      /\ PinTests(c, p, v) \subseteq OutputTests(c, f.stuck)}
  IN IF c.outs = {} THEN lines ELSE rest \ dominated

Collapsed(nl) ==
  FoldLeft(LAMBDA lines, n : CollapseGate(nl, lines, n), Faults(nl),
           SetToSortSeq(Gates_(nl), <))

-----------------------------------------------------------------------------
(* Simulation over the combinational cut: flops are inputs by Q and        *)
(* outputs by D.  A net nobody drives is low.                              *)

NoFault == Stuck(Stem(0), 0)

Simulated(nl, order, high, fault) ==
  LET stem == IF fault.line.cell = 0 THEN fault.line.net ELSE 0
      start == [net \in NonConstantNets(nl) \cup Constants |->
                  IF net \in Constants THEN net
                  ELSE IF net = stem THEN fault.stuck ELSE BitOf(net \in high)]
      PinValue(vals, n, p) ==
        IF fault.line.cell = n /\ fault.line.pin = p THEN fault.stuck
        ELSE vals[nl.cells[n].nets[p]]
      Step(vals, n) ==
        LET out == OutputNet(nl.cells[n])
            value == BitOf(Evaluate(nl.cells[n].function,
                                    {p \in nl.cells[n].ins : PinValue(vals, n, p) = 1}))
        IN IF out \in {0, stem} THEN vals ELSE [vals EXCEPT ![out] = value]
      settled == FoldLeft(Step, start, order)
  IN [net \in nl.outputs \cup FlopNets(nl, "D") |-> settled[net]]

\* The vectors in the order they are applied: the flops' code, then the inputs'.
VectorNets(nl, data) == SetToSortSeq(FlopNets(nl, "Q"), <) \o SetToSortSeq(data \cap nl.inputs, <)
Vector(nets, k) == {nets[i] : i \in {j \in DOMAIN nets : (k \div 2 ^ (Len(nets) - j)) % 2 = 1}}
VectorsTotal(nl, data) == 2 ^ Len(VectorNets(nl, data))
Vectors(nl, data, cap) ==
  {Vector(VectorNets(nl, data), k) : k \in 0 .. Min({cap, VectorsTotal(nl, data)}) - 1}

Detects(nl, order, high, fault) ==
  Simulated(nl, order, high, fault) # Simulated(nl, order, high, NoFault)

\* The number of vectors applied held against the cap, which it never exceeds.
AnalyzeFaultsPartly(nl, data, cap) ==
  LET order == Order(nl) \o SetToSortSeq(Loops(nl), <)
      exhaustive == Cardinality(Vectors(nl, data, cap)) <= cap
  IN [f \in Collapsed(nl) |->
        IF f.line.net \in ControlNets(nl) THEN "untestable"
        ELSE IF \E high \in Vectors(nl, data, cap) : Detects(nl, order, high, f) THEN "detected"
        ELSE IF exhaustive THEN "redundant" ELSE "undetected"]

\* The class of every collapsed fault.
AnalyzeFaults(nl, data, cap) ==
  LET order == Order(nl) \o SetToSortSeq(Loops(nl), <)
      exhaustive == VectorsTotal(nl, data) <= cap
  IN [f \in Collapsed(nl) |->
        IF f.line.net \in ControlNets(nl) THEN "untestable"
        ELSE IF \E high \in Vectors(nl, data, cap) : Detects(nl, order, high, f) THEN "detected"
        ELSE IF exhaustive THEN "redundant" ELSE "undetected"]

-----------------------------------------------------------------------------
(* SCOAP.  A cost of Never or more stands for none: a value that cannot be *)
(* set, a net that cannot be observed.                                     *)

Never == 100000
Cost(cc, net, v) == IF net \in DOMAIN cc THEN cc[net][v] ELSE Never

\* By a controlling value of one pin where there is one, else by all pins.
GateCC(c, cc, v) ==
  LET At(p, high) == Cost(cc, c.nets[p], BitOf(p \in high))
      reachable == {high \in SUBSET c.ins : \A p \in c.ins : At(p, high) < Never}
      controlling == {Cost(cc, c.nets[p], w) : <<p, w>> \in
                        {x \in c.ins \X {0, 1} :
                           /\ Cost(cc, c.nets[x[1]], x[2]) < Never
                           /\ \A high \in reachable : (x[1] \in high) = (x[2] = 1) =>
                                Evaluate(c.function, high) = (v = 1)}}
      together == {1 + MapThenSumSet(LAMBDA p : At(p, high), c.ins) : high \in
                     {h \in reachable : Evaluate(c.function, h) = (v = 1)}}
  IN IF controlling # {} THEN 1 + Min(controlling) ELSE Min(together \cup {Never})

\* A flop's output through its data pin when clocked, or through set and reset.
FlopSC(c, cc, v) ==
  LET pin(p, w) == IF p \notin c.ins THEN 0
                   ELSE IF p = "CK" /\ c.nets[p] \notin DOMAIN cc THEN 1
                   ELSE Cost(cc, c.nets[p], w)
      releases == IF v = 0 THEN "SET_N" ELSE "RST_N"
      forces == IF v = 0 THEN "RST_N" ELSE "SET_N"
      clocked == pin("CK", 1) + pin("D", v) + pin(releases, 1)
      forced == IF forces \in c.ins THEN Cost(cc, c.nets[forces], 0) ELSE Never
  IN 1 + Min({clocked, forced})

Controllability(nl) ==
  LET both(v) == [w \in {0, 1} |-> v]
      leaves == nl.inputs \cup {OutputNet(nl.cells[n]) :
                                  n \in {m \in DOMAIN nl.cells \ Gates_(nl) : nl.cells[m].outs # {}}}
      start == (1 :> (0 :> Never @@ 1 :> 0)) @@ (0 :> (0 :> 0 @@ 1 :> Never))
                 @@ [net \in leaves |-> both(1)]
      complete(cc, c) == \A p \in c.ins : c.nets[p] \in DOMAIN cc
      Step(cc, n) ==
        LET c == nl.cells[n]
        IN (OutputNet(c) :> IF complete(cc, c) THEN [v \in {0, 1} |-> GateCC(c, cc, v)]
                            ELSE both(Never)) @@ cc
      settled == FoldLeft(Step, start, Order(nl))
      looped == [net \in {OutputNet(nl.cells[n]) : n \in Loops(nl)} |-> both(Never)] @@ settled
  IN FoldLeft(LAMBDA cc, n :
                (OutputNet(nl.cells[n]) :> [v \in {0, 1} |-> FlopSC(nl.cells[n], cc, v)]) @@ cc,
              looped, SetToSortSeq(Flops(nl), <))

\* Of one pin through its gate: the cheapest values of the others under which
\* the output follows it.
GateCO(c, cc, co, p) ==
  LET sensitive == {high \in SUBSET (c.ins \ {p}) :
                      Evaluate(c.function, high) # Evaluate(c.function, high \cup {p})}
  IN Min({Never} \cup
         {co + 1 + MapThenSumSet(LAMBDA q : Cost(cc, c.nets[q], BitOf(q \in high)), c.ins \ {p}) :
            high \in sensitive})

FlopCO(c, cc, co) ==
  co + 1 + MapThenSumSet(LAMBDA p : Cost(cc, c.nets[p], 1), c.ins \cap {"CK", "RST_N", "SET_N"})

ObserveRound(nl, cc, co) ==
  LET through(net) ==
        {GateCO(nl.cells[s[1]], cc, co[OutputNet(nl.cells[s[1]])], s[2]) : s \in
           {x \in Sinks(nl, net) : nl.cells[x[1]].outs # {}}}
          \cup {FlopCO(nl.cells[n], cc, co[OutputNet(nl.cells[n])]) : n \in
                  {m \in Flops(nl) : nl.cells[m].nets["D"] = net}}
  IN [net \in DOMAIN co |-> Min({co[net]} \cup through(net))]

\* A single sweep backwards, as deep as the outputs' own gates.
ObservabilityOnce(nl, cc) ==
  ObserveRound(nl, cc, [net \in NonConstantNets(nl) |-> IF net \in nl.outputs THEN 0 ELSE Never])

\* Rounds until nothing changes: as many as there are nets are enough.
Observability(nl, cc) ==
  FoldLeft(LAMBDA co, i : ObserveRound(nl, cc, co),
           [net \in NonConstantNets(nl) |-> IF net \in nl.outputs THEN 0 ELSE Never],
           [i \in 1 .. Cardinality(NonConstantNets(nl)) |-> i])

AnalyzeScoap(nl) ==
  LET cc == Controllability(nl)
      co == Observability(nl, cc)
  IN [cc |-> [net \in NonConstantNets(nl) |-> [v \in {0, 1} |-> Cost(cc, net, v)]],
      co |-> co,
      unobservable |-> {net \in NonConstantNets(nl) \ (nl.outputs \cup ControlNets(nl)) :
                          co[net] >= Never}]

-----------------------------------------------------------------------------
(* Timing: levels of gates, and the delay along the deepest path. *)

Worse(x, y) == x.depth > y.depth \/ (x.depth = y.depth /\ x.tpd > y.tpd)
NoPath == [depth |-> 0, tpd |-> 0, path |-> <<>>]

TimingAnalysis(nl) ==
  LET At(table, net) == IF net \in DOMAIN table THEN table[net] ELSE NoPath
      Into(table, c) ==
        FoldLeft(LAMBDA best, p : IF Worse(At(table, c.nets[p]), best) THEN At(table, c.nets[p])
                                  ELSE best, NoPath, InPinOrder(c.ins))
      Step(acc, n) ==
        LET c == nl.cells[n]
            before == Into(acc.table, c)
            here == [depth |-> before.depth + 1, tpd |-> before.tpd + c.tpd,
                     path |-> Append(before.path, n)]
        IN [table |-> IF c.outs = {} THEN acc.table ELSE (OutputNet(c) :> here) @@ acc.table,
            worst |-> IF Worse(here, acc.worst) THEN here ELSE acc.worst]
  IN FoldLeft(Step, [table |-> <<>>, worst |-> NoPath], Order(nl)).worst

ClockFanout(nl) == Cardinality({n \in DOMAIN nl.cells : nl.cells[n].tier \in {"F", "M"}})
=============================================================================
