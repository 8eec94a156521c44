--------------------------- MODULE AsyncSynthesis ---------------------------
(***************************************************************************)
(* The constrained asynchronous backend: admission, flow table, race-free  *)
(* state assignment, hazard-free cover, netlist, the independent hazard    *)
(* checks (stage 5), and the gate that lets a netlist reach the disk.      *)
(* After that the netlist is put to work: its feedback wires take the      *)
(* values the gates drive them to, one at a time and in any order.         *)
(*                                                                         *)
(* A guard is the set of input combinations it is true on.  A name is a    *)
(* pair: the state bits are <<"s", j>> and the nets the emitter invents    *)
(* <<"n", k>>, as the code writes s_j and n_k; a port may have such a name *)
(* too.  z3 and Icarus are external: z3 answers truthfully or not at all.  *)
(***************************************************************************)
EXTENDS Integers, Sequences, SequencesExt, FiniteSetsExt, TLC

CONSTANTS
  Designs,       \* by file name, records: states, inputs, outputs, groups,
                 \* clock, transitions, out, initial
  Cells,         \* the G-cells of the generated Liberty file
  StateCap,      \* ASYNC_STATE_CAP
  WidthCap,      \* ASYNC_WIDTH_CAP
  PairCap        \* ASYNC_FUNC_ENUM_CAP

MaxTermLiterals == 3
DC == 2                       \* _DONTCARE in a cube
X  == 2                       \* the unknown value of a net

VARIABLES
  file,          \* the design.yaml being synthesised
  stage,         \* the stage about to run, or how the pipeline ended
  codes,         \* the state assignment: a bit vector for every state
  covers,        \* the product terms of each function covered so far
  cells,         \* the emitted netlist
  report,        \* the stage 5 status of each check
  disk,          \* the files written: "scratch", "mapped"
  latch,         \* the value of every feedback wire of the built circuit
  pins,          \* the value of its inputs
  shown          \* the value of its outputs

vars == <<file, stage, codes, covers, cells, report, disk, latch, pins, shown>>
circuit == <<latch, pins, shown>>

design == Designs[file]

-----------------------------------------------------------------------------
(* Stages 1 and 2: admission and the flow table. *)

Combos(d) == [DOMAIN d.inputs -> {0, 1}]
StatesOf(d) == ToSet(d.states)
Flip(c, k) == [c EXCEPT ![k] = 1 - @]
Hamming(a, b) == Cardinality({i \in DOMAIN a : a[i] # b[i]})

\* No declared exclusion, a clock, too many states, or groups that do not
\* name exactly the inputs: refused.
Admitted(d) ==
  /\ d.groups # {}
  /\ ~d.clock
  /\ Len(d.states) <= StateCap
  /\ UNION d.groups = ToSet(d.inputs)

NextState(d, s, c) ==
  LET firing == {i \in DOMAIN d.transitions :
                   d.transitions[i].from = s /\ c \in d.transitions[i].when}
  IN IF firing = {} THEN s ELSE d.transitions[Min(firing)].to

OutputsAt(d, s, c) ==
  [i \in DOMAIN d.outputs |-> IF <<s, c>> \in d.out[i] THEN 1 ELSE 0]

Transitions(d) ==
  {<<s, NextState(d, s, c)>> : s \in StatesOf(d), c \in Combos(d)}
    \ {<<s, s>> : s \in StatesOf(d)}

FireCombos(d, s, t) == {c \in Combos(d) : NextState(d, s, c) = t}

StableCombos(d, s) == FireCombos(d, s, s)

\* Every change of state can be started by one input from a settled state.
Admissible(d) ==
  \A tr \in Transitions(d) :
    \E a \in StableCombos(d, tr[1]), b \in FireCombos(d, tr[1], tr[2]) :
      Hamming(a, b) < 2

-----------------------------------------------------------------------------
(* Stage 3: the assignment. *)

MinimumWidth(n) == Min({w \in 1..n : 2^w >= n})

\* Mutant: codes that differ, in any number of bits.
HammingAny(a, b) == Hamming(a, b) >= 1

HammingOne(a, b) == Hamming(a, b) = 1

\* The models of the script of build_script at a width.
Assignments(d, w) ==
  {f \in [StatesOf(d) -> [1..w -> {0, 1}]] :
     /\ \A s, t \in StatesOf(d) : s # t => f[s] # f[t]
     /\ \A tr \in Transitions(d) : HammingOne(f[tr[1]], f[tr[2]])}

\* The first width, from the minimum up, at which the script is satisfiable.
Widths(d) == {w \in MinimumWidth(Len(d.states))..WidthCap : Assignments(d, w) # {}}

Width == Len(codes[design.initial])

-----------------------------------------------------------------------------
(* Stage 4: covers.  A cube is a sequence over the state bits and the      *)
(* inputs, in that order.                                                  *)

Functions_(d, w) ==
  [i \in DOMAIN d.outputs |-> <<"output", i>>] \o [j \in 1..w |-> <<"next", j>>]

Truth(f, s, c) ==
  IF f[1] = "output" THEN OutputsAt(design, s, c)[f[2]] = 1
                     ELSE codes[NextState(design, s, c)][f[2]] = 1

Minterm(s, c) == codes[s] \o c

Minterms(f, b) ==
  {Minterm(p[1], p[2]) : p \in {q \in StatesOf(design) \X Combos(design) :
                                  Truth(f, q[1], q[2]) = b}}

\* A cube covers a minterm, and a cube is a sub-cube of another, alike.
CoversTerm(cube, m) == \A i \in DOMAIN cube : cube[i] \in {DC, m[i]}

Literals(cube) == {i \in DOMAIN cube : cube[i] # DC}

CandidateImplicants(var_count, ones, zeros) ==
  {cube \in [1..var_count -> {0, 1, DC}] :
     /\ Cardinality(Literals(cube)) <= MaxTermLiterals
     /\ \E m \in ones : CoversTerm(cube, m)
     /\ \A m \in zeros : ~CoversTerm(cube, m)}

\* Mutant: only the minterms are asked for.
NoRequiredCubes(ones) == {}

\* The cubes of the input changes across which the function stays 1.
RequiredCubes(ones) ==
  UNION {{[m EXCEPT ![i] = DC] : m \in {n \in ones : Flip(n, i) \in ones}} :
           i \in Width + 1..Width + Len(design.inputs)}

\* The selections of the fewest terms of which every demand has one that
\* covers it: the models of the first satisfiable script of _solve_cover.
SmallestSelections(cand, demands) ==
  LET who     == {{c \in cand : CoversTerm(c, m)} : m \in demands}
      Open(S) == {w \in who : w \cap S = {}}
      Pick(S) == CHOOSE w \in Open(S) :
                   \A v \in Open(S) : Cardinality(w) <= Cardinality(v)
      size[k \in 0..Cardinality(demands)] ==  \* every selection of k that may do
        IF k = 0 THEN {{}} ELSE UNION {{S \cup {c} : c \in Pick(S)} : S \in size[k - 1]}
      good[k \in 0..Cardinality(demands)] ==
        LET now == {S \in size[k] : Open(S) = {}}
        IN IF now # {} \/ k = Cardinality(demands) THEN now ELSE good[k + 1]
  IN IF {} \in who THEN {} ELSE good[0]

SmallestCovers(f) ==
  LET ones == Minterms(f, TRUE)
      cand == CandidateImplicants(Width + Len(design.inputs), ones, Minterms(f, FALSE))
  IN SmallestSelections(cand, ones \cup RequiredCubes(ones))

-----------------------------------------------------------------------------
(* The netlist: product terms to AND gates, sums to a chain of OR gates,   *)
(* one inverter per complemented variable.                                 *)

StateNet(j) == <<"s", j>>

Variable(i) == IF i <= Width THEN StateNet(i) ELSE design.inputs[i - Width]

Target(f) == IF f[1] = "output" THEN design.outputs[f[2]] ELSE StateNet(f[2])

Gate(b, cell, ins, out) ==
  [b EXCEPT !.cells = Append(@, [cell |-> cell, ins |-> ins, out |-> out])]

FreshGate(b, cell, ins) ==
  [Gate(b, cell, ins, <<"n", b.fresh + 1>>) EXCEPT !.fresh = @ + 1]

LiteralNet(b, v, polarity) == IF polarity = 1 THEN v ELSE b.inv[v]

\* The builder with an inverter for every complemented literal of the cube.
WithInverters(b, cube) ==
  LET Invert(acc, i) ==
        IF cube[i] = 0 /\ Variable(i) \notin DOMAIN acc.inv
        THEN [FreshGate(acc, "INV", <<Variable(i)>>)
                EXCEPT !.inv = @ @@ (Variable(i) :> <<"n", acc.fresh + 1>>)]
        ELSE acc
  IN FoldLeft(Invert, b, [i \in DOMAIN cube |-> i])

\* The builder with the term that ANDs the nets, none for a single literal.
Joined(b, nets) ==
  CASE Len(nets) = 0 -> [b EXCEPT !.terms = Append(@, <<"1", 0>>)]
    [] Len(nets) = 1 -> [b EXCEPT !.terms = Append(@, nets[1])]
    [] OTHER -> [FreshGate(b, IF Len(nets) = 2 THEN "AND2" ELSE "AND3", nets)
                   EXCEPT !.terms = Append(@, <<"n", b.fresh + 1>>)]

LiteralNets(b, cube) ==
  LET lits == SetToSortSeq(Literals(cube), <)
  IN [k \in DOMAIN lits |-> LiteralNet(b, Variable(lits[k]), cube[lits[k]])]

\* One product term: its gates, and the net that carries it.
JoinCube(b, cube) == Joined(b, LiteralNets(b, cube))
AddTerm(b, cube) == JoinCube(WithInverters(b, cube), cube)

\* The sum so far ORed with one more term, the last of them onto the target.
AddToSum(b, net, last, f) ==
  IF last THEN Gate(b, "OR2", <<b.sum, net>>, Target(f))
  ELSE [FreshGate(b, "OR2", <<b.sum, net>>) EXCEPT !.sum = <<"n", b.fresh + 1>>]

SumTerms(b, f) ==
  LET t == b.terms
      chain[k \in 1..Len(t)] ==          \* the builder once t[1..k] is summed
        IF k = 1 THEN [b EXCEPT !.sum = t[1]]
        ELSE AddToSum(chain[k - 1], t[k], k = Len(t), f)
  IN IF Len(t) = 1 THEN Gate(b, "BUF", t, Target(f)) ELSE chain[Len(t)]

EmitFunction(b, f, cubes) ==
  IF cubes = {} THEN Gate(b, "BUF", <<(<<"0", 0>>)>>, Target(f))
  ELSE SumTerms(FoldLeft(AddTerm, [b EXCEPT !.terms = <<>>], SetToSeq(cubes)), f)

EmitNetlist ==
  LET fs == Functions_(design, Width)
      none == [cells |-> <<>>, fresh |-> 0, inv |-> <<>>, terms |-> <<>>,
               sum |-> <<"0", 0>>]
      all[k \in 0..Len(fs)] ==
        IF k = 0 THEN none ELSE EmitFunction(all[k - 1], fs[k], covers[k])
  IN all[Len(fs)].cells

-----------------------------------------------------------------------------
(* Stage 5: the checker's own evaluation of the mapped netlist. *)

Binary(cell, a) ==               \* an unknown pin counts as true
  CASE cell = "INV" -> IF a[1] = 0 THEN 1 ELSE 0
    [] cell = "OR2" -> IF ToSet(a) = {0} THEN 0 ELSE 1
    [] OTHER -> IF 0 \in ToSet(a) THEN 0 ELSE 1

\* A gate on 0, 1 and X: known if every completion of the X agrees.
Ternary(cell, a) ==
  LET With(v) == Binary(cell, [i \in DOMAIN a |-> IF a[i] = X THEN v[i] ELSE a[i]])
      outs == {With(v) : v \in [{i \in DOMAIN a : a[i] = X} -> {0, 1}]}
  IN IF outs = {0} THEN 0 ELSE IF outs = {1} THEN 1 ELSE X

PinValue(values, net) ==
  CASE net[1] = "0" -> 0
    [] net[1] = "1" -> 1
    [] OTHER -> IF net \in DOMAIN values THEN values[net] ELSE X

GateValue(values, g, ternary) ==
  LET a == [i \in DOMAIN g.ins |-> PinValue(values, g.ins[i])]
  IN IF ternary THEN Ternary(g.cell, a) ELSE Binary(g.cell, a)

\* Passes over the cells until nothing changes; a held net is never
\* overwritten and a cell the library does not have drives nothing.
EvaluateFixedPoint(held, ternary) ==
  LET Step(v, g) == IF g.cell \notin Cells \/ g.out \in DOMAIN held THEN v
                    ELSE (g.out :> GateValue(v, g, ternary)) @@ v
      Once(values) == LET upto[k \in 0..Len(cells)] ==
                            IF k = 0 THEN values ELSE LET v == upto[k - 1] IN Step(v, cells[k])
                      IN upto[Len(cells)]
      again[k \in 0..Len(cells)] == IF k = 0 THEN Once(held) ELSE Once(again[k - 1])
      one == again[0]
  IN IF Once(one) = one THEN one ELSE again[Len(cells)]

\* What the first gate that drives the net drives it to.
DrivenValue(settled, net) ==
  LET drivers == {i \in DOMAIN cells : cells[i].out = net}
  IN IF drivers = {} \/ cells[Min(drivers)].cell \notin Cells
     THEN PinValue(settled, net)
     ELSE GateValue(settled, cells[Min(drivers)], \E n \in DOMAIN settled : settled[n] = X)

BitValues(bits) == [n \in {StateNet(j) : j \in DOMAIN bits} |-> bits[n[2]]]

InputValues(ins) ==
  [n \in ToSet(design.inputs) |-> ins[CHOOSE i \in DOMAIN ins : design.inputs[i] = n]]

OutputValues(values) ==
  [i \in DOMAIN design.outputs |-> PinValue(values, design.outputs[i])]

\* Every change of one input from a stable total state.
Probes ==
  {p \in StatesOf(design) \X Combos(design) \X DOMAIN design.inputs :
     NextState(design, p[1], p[2]) = p[1]}

ProbeValues(p, v) ==
  EvaluateFixedPoint((design.inputs[p[3]] :> v) @@ BitValues(codes[p[1]])
                       @@ InputValues(p[2]), v = X)

CheckStaticHazards ==
  {p \in Probes :
     LET v0 == ProbeValues(p, 0)  v1 == ProbeValues(p, 1)  vx == ProbeValues(p, X)
     IN \E o \in ToSet(design.outputs) :
          PinValue(v0, o) # X /\ PinValue(v0, o) = PinValue(v1, o) /\ PinValue(vx, o) = X}

TernaryCheck(found) == IF found = {} THEN "passed" ELSE "failed"

Collides ==
  \E n \in ToSet(design.inputs \o design.outputs) :
    n[1] = "s" \/ \E g \in ToSet(cells) : g.out = n /\ n[1] = "n"

\* The testbench records each output, toggles the input and reports every
\* output that is then not as recorded.  A potential hazard may show or not,
\* a net with two drivers may fail in any way; without Icarus, or a model of
\* every cell, the check does not run.
GlitchCheck(found) ==
  {"not run"} \cup
  CASE \E g \in ToSet(cells) : g.cell \notin Cells -> {}
    [] Collides -> {"passed", "failed"}
    [] \E p \in Probes : OutputValues(ProbeValues(p, 0)) # OutputValues(ProbeValues(p, 1))
         -> {"failed"}
    [] OTHER -> IF found = {} THEN {"passed"}
                ELSE {"passed", "failed"}

FunctionalCheck ==
  LET Matches(p) ==
        LET to == Flip(p[2], p[3])
            v  == EvaluateFixedPoint(InputValues(to) @@ BitValues(codes[p[1]]), FALSE)
        IN /\ \A j \in 1..Width :
                DrivenValue(v, StateNet(j)) = codes[NextState(design, p[1], to)][j]
           /\ OutputValues(v) = OutputsAt(design, p[1], to)
  IN CASE Probes = {} \/ Cardinality(Probes) > PairCap -> "not applicable"
       [] \A p \in Probes : Matches(p) -> "passed"
       [] OTHER -> "failed"

HazardPassed(r) == \A i \in DOMAIN r : r[i] = "passed"

-----------------------------------------------------------------------------
(* The circuit at work. *)

Settled(bits, ins) == EvaluateFixedPoint(BitValues(bits) @@ InputValues(ins), FALSE)

Show(bits, ins) ==
  latch' = bits /\ pins' = ins /\ shown' = OutputValues(Settled(bits, ins))

Driven ==
  LET v == Settled(latch, pins)
  IN [j \in DOMAIN latch |-> DrivenValue(v, StateNet(j))]

-----------------------------------------------------------------------------
(* The pipeline. *)

Init ==
  /\ file \in DOMAIN Designs
  /\ stage = "admit"
  /\ codes = <<>> /\ covers = <<>> /\ cells = <<>> /\ report = <<>>
  /\ disk = {} /\ latch = <<>> /\ pins = <<>> /\ shown = <<>>

Goto(s) == stage' = s

Admit ==
  /\ stage = "admit"
  /\ Goto(IF Admitted(design) /\ Admissible(design) THEN "assign" ELSE "AsyncRefused")
  /\ UNCHANGED <<file, codes, covers, cells, report, disk, circuit>>

AssignStateCodes ==
  /\ stage = "assign"
  /\ Widths(design) # {}
  /\ codes' \in Assignments(design, Min(Widths(design)))
  /\ Goto("cover")
  /\ UNCHANGED <<file, covers, cells, report, disk, circuit>>

\* One function after the other.
CoverFunction ==
  /\ stage = "cover"
  /\ LET fs   == Functions_(design, Width)
     IN /\ \E terms \in SmallestCovers(fs[Len(covers) + 1]) : covers' = Append(covers, terms)
        /\ Goto(IF Len(covers) + 1 = Len(fs) THEN "emit" ELSE "cover")
  /\ UNCHANGED <<file, codes, cells, report, disk, circuit>>

\* No assignment within the width cap, a function no selection of terms of at
\* most three literals can cover, or z3 missing or without an answer.
SolverRefuses ==
  /\ stage \in {"assign", "cover"}
  /\ Goto("AsyncRefused")
  /\ UNCHANGED <<file, codes, covers, cells, report, disk, circuit>>

\* The netlist exists in memory; Icarus reads it under a scratch name.
Emit ==
  /\ stage = "emit"
  /\ cells' = EmitNetlist
  /\ disk' = disk \cup {"scratch"}
  /\ Goto("hazard")
  /\ UNCHANGED <<file, codes, covers, report, circuit>>

VerifyNetlist ==
  /\ stage = "hazard"
  /\ LET found == CheckStaticHazards
     IN \E g \in GlitchCheck(found) : report' = <<TernaryCheck(found), g, FunctionalCheck>>
  /\ Goto("gate")
  /\ UNCHANGED <<file, codes, covers, cells, disk, circuit>>

\* The netlist is handed over, and the engineer builds it and resets it.
WriteArtefacts ==
  /\ stage = "gate"
  /\ HazardPassed(report)
  /\ disk' = disk \cup {"mapped"}
  /\ Goto("built")
  /\ \E c \in StableCombos(design, design.initial) :
       Show(codes[design.initial], c)
  /\ UNCHANGED <<file, codes, covers, cells, report>>

HazardFailed ==
  /\ stage = "gate"
  /\ ~HazardPassed(report)
  /\ Goto("HazardFailed")
  /\ UNCHANGED <<file, codes, covers, cells, report, disk, circuit>>

\* One feedback wire takes the value it is driven to, the others later.
WireChanges ==
  /\ stage = "built"
  /\ LET d == Driven
     IN \E j \in DOMAIN latch : d[j] # latch[j] /\ Show([latch EXCEPT ![j] = d[j]], pins)
  /\ UNCHANGED <<file, stage, codes, covers, cells, report, disk>>

\* Fundamental mode: one input, and only once the circuit has settled.
InputChanges ==
  /\ stage = "built"
  /\ Driven = latch
  /\ \E k \in DOMAIN pins : Show(latch, Flip(pins, k))
  /\ UNCHANGED <<file, stage, codes, covers, cells, report, disk>>

Next ==
  \/ Admit \/ AssignStateCodes \/ CoverFunction \/ SolverRefuses \/ Emit
  \/ VerifyNetlist \/ WriteArtefacts \/ HazardFailed
  \/ WireChanges \/ InputChanges

Spec == Init /\ [][Next]_vars

-----------------------------------------------------------------------------
(* Properties. *)

\* The state a code stands for, or none.
Decode(bits) ==
  IF \E s \in DOMAIN codes : codes[s] = bits
  THEN CHOOSE s \in DOMAIN codes : codes[s] = bits ELSE "no state"

Flow == INSTANCE FlowMachine WITH
  Next_state <- NextState, Output_of <- OutputsAt,
  on <- stage = "built", table <- design,
  state <- IF stage = "built" THEN Decode(latch) ELSE "off",
  inputs <- pins,
  outputs <- shown

TypeOK ==
  /\ file \in DOMAIN Designs
  /\ stage \in {"admit", "assign", "cover", "emit", "hazard", "gate", "built",
                "AsyncRefused", "HazardFailed"}
  /\ codes = <<>> \/ \E w \in 1..WidthCap : codes \in [StatesOf(design) -> [1..w -> {0, 1}]]
  /\ \A i \in DOMAIN cells : Len(cells[i].ins) <= MaxTermLiterals
  /\ report \in {<<>>} \cup
       [1..3 -> {"passed", "failed", "not run", "not applicable"}]
  /\ disk \subseteq {"scratch", "mapped"}
  /\ stage = "built" => latch \in [1..Width -> {0, 1, X}] /\ pins \in Combos(design)

\* A netlist that reached the disk runs the flow table of its design whatever
\* the order in which its feedback wires change: no race between two of them
\* leads it astray, also on the way through states that are not stable, which
\* the functional check of stage 5 does not start from.
RunsTheFlowTable == Flow!Machine

\* No emitted netlist has a static hazard at an input change from a stable
\* total state: an output or a next state bit that is the same before and
\* after keeps its value while the input is undecided.  Stage 5 looks at the
\* outputs alone; for the state bits it rests on the required cubes.
NoStaticHazard ==
  stage = "hazard" /\ ~Collides =>
    \A p \in Probes :
      LET v0 == ProbeValues(p, 0)  v1 == ProbeValues(p, 1)  vx == ProbeValues(p, X)
      IN \A f \in ToSet(Functions_(design, Width)) :
           LET Val(v) == IF f[1] = "output" THEN PinValue(v, Target(f))
                                            ELSE DrivenValue(v, Target(f))
           IN Val(v0) = Val(v1) => Val(vx) = Val(v0)

\* "the independent ternary check (stage 5a) is the safety net that catches
\* any hazard in the mapped netlist": also one on a state bit while another
\* state bit changes, in a netlist that was handed over.
NoStateHazard ==
  stage = "built" =>
    \A s \in StatesOf(design), c \in Combos(design) :
      LET t == NextState(design, s, c)
          i == CHOOSE k \in 1..Width : codes[s][k] # codes[t][k]
          held(v) == BitValues([codes[s] EXCEPT ![i] = v]) @@ InputValues(c)
          Val(v, j) == DrivenValue(EvaluateFixedPoint(held(v), v = X), StateNet(j))
      IN t # s => \A j \in 1..Width : Val(0, j) = Val(1, j) => Val(X, j) = Val(0, j)
=============================================================================
