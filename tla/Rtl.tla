-------------------------------- MODULE Rtl --------------------------------
(***************************************************************************)
(* The synchronous front end and the exhaustive testbench.  A design is    *)
(* checked and compiled (frontend/model.py), emitted as behavioural        *)
(* Verilog (frontend/verilog.py), and simulated against the reference      *)
(* model of verify/simulation.py.  The registers of the emitted module are *)
(* the state; either the world drives its pins, in any order, or the       *)
(* generated testbench does, one elementary statement at a time.           *)
(* Left out: macros, names and text, provenance, and the polarity of the   *)
(* reset (held says that it is asserted).                                  *)
(***************************************************************************)
EXTENDS Expressions, Integers, FiniteSets, SequencesExt, Functions, Bitwise

CONSTANT Designs  \* records [states, initial, inputs, sync, expressions,
                  \*   transitions, outputs, encoding, syncDeassert]

VARIABLES design, checked,       \* the compiled design, the transitions its bench takes
          held, clk, inp,        \* the pins: reset asserted, the clock's edges, the inputs
          r1, r2, s1, s2, reg,   \* the registers
          bench, at, failed      \* the testbench: statements, the next one, the verdict

vars == <<design, checked, held, clk, inp, r1, r2, s1, s2, reg, bench, at, failed>>

-----------------------------------------------------------------------------
(* Compilation. *)

Inputs(d) == ToSet(d.inputs)
States(d) == ToSet(d.states)
Guard(d, i) == Expand(d.transitions[i].when, d.expressions)

\* Every assignment of the inputs, in the order of their binary codes.
Assignments(d) ==
  LET n == Len(d.inputs)
      bit(code, i) == (code \div 2^(n - i)) % 2 = 1
      nth(x) == CHOOSE i \in 1..n : d.inputs[i] = x
  IN [code \in 1..2^n |-> [x \in Inputs(d) |-> bit(code - 1, nth(x))]]

Structured(d) ==
  /\ IsInjective(d.states) /\ IsInjective(d.inputs)
  /\ d.initial \in States(d)

Resolves(d, e) == FreeVars(e) \subseteq Inputs(d) \cup DOMAIN d.expressions

GuardOK(d, i) ==
  LET when == d.transitions[i].when
  IN /\ {d.transitions[i].from, d.transitions[i].to} \subseteq States(d)
     /\ StatesReferenced(when) = {}
     /\ ~Cyclic(when, d.expressions, {})
     /\ FreeVars(Guard(d, i)) \subseteq Inputs(d)

LogicOK(d) ==
  /\ \A x \in DOMAIN d.expressions : Resolves(d, d.expressions[x])
  /\ \A o \in DOMAIN d.outputs :
       /\ Resolves(d, d.outputs[o])
       /\ StatesReferenced(d.outputs[o]) \subseteq States(d)

RECURSIVE Reachable(_, _)
Reachable(d, seen) ==
  LET next == {d.transitions[i].to : i \in {j \in DOMAIN d.transitions :
                                              d.transitions[j].from \in seen}}
  IN IF next \subseteq seen THEN seen ELSE Reachable(d, seen \cup next)

\* The transitions out of state whose guards hold.
Fires(d, state, eff) ==
  {i \in DOMAIN d.transitions :
     d.transitions[i].from = state /\ Evaluate(Guard(d, i), eff, {})}

NoGap(d) == \A s \in States(d) : \A eff \in ToSet(Assignments(d)) : Fires(d, s, eff) # {}

OneFires(d, state, eff) == Cardinality(Fires(d, state, eff)) <= 1
NoOverlap(d) == \A s \in States(d) : \A eff \in ToSet(Assignments(d)) : OneFires(d, s, eff)

\* compile_design returns; else it raises.
Accepted(d) ==
  /\ Structured(d)
  /\ LogicOK(d)
  /\ \A i \in DOMAIN d.transitions : GuardOK(d, i)
  /\ States(d) \subseteq Reachable(d, {d.initial})
  /\ NoGap(d) /\ NoOverlap(d)

OneHot(d) == d.encoding = "one_hot"

Code(d, state) ==
  LET i == (CHOOSE k \in DOMAIN d.states : d.states[k] = state) - 1
  IN IF d.encoding = "gray" THEN i ^^ (i \div 2) ELSE i

-----------------------------------------------------------------------------
(* The reference model of verify/simulation.py. *)

NextState(d, state, eff) ==
  IF Fires(d, state, eff) = {} THEN state
  ELSE d.transitions[CHOOSE i \in Fires(d, state, eff) :
                       \A j \in Fires(d, state, eff) : i <= j].to

Outputs(d, active, eff) ==
  [o \in DOMAIN d.outputs |-> Evaluate(Expand(d.outputs[o], d.expressions), eff, active)]

\* A synchronised input is seen where its second flop is, another one at once.
Effective(d, raw, second) == [x \in Inputs(d) |-> IF x \in d.sync THEN second[x] ELSE raw[x]]

Low(d) == [x \in d.sync |-> FALSE]
AllLow(d) == [x \in Inputs(d) |-> FALSE]

ResetState(d) == IF OneHot(d) THEN {} ELSE {d.initial}

RefStart(d) == [state |-> d.initial, s1 |-> Low(d), s2 |-> Low(d)]
NoSynchroniser(d, ref, raw) ==
  [state |-> NextState(d, ref.state, raw), s1 |-> ref.s1, s2 |-> ref.s2]
RefEdge(d, ref, raw) ==
  [state |-> NextState(d, ref.state, Effective(d, raw, ref.s2)),
   s1 |-> [x \in d.sync |-> raw[x]],
   s2 |-> ref.s1]
RefOutputs(d, ref, raw) == Outputs(d, {ref.state}, Effective(d, raw, ref.s2))

\* Breadth first from the state after reset: every state of the reference in
\* the order it is found, with the inputs that lead to it.
RECURSIVE Explore(_, _, _)
Explore(d, found, i) ==
  LET here == found[i]
      visit(known, raw) ==
        LET next == RefEdge(d, here.ref, raw)
        IN IF \E k \in DOMAIN known : known[k].ref = next THEN known
           ELSE Append(known, [ref |-> next, path |-> Append(here.path, raw)])
  IN IF i > Len(found) THEN found
     ELSE Explore(d, FoldLeft(visit, found, Assignments(d)), i + 1)

DrivePaths(d) == Explore(d, <<[ref |-> RefStart(d), path |-> <<>>]>>, 1)

Pair(ref) == <<ref.state, ref.s2>>

-----------------------------------------------------------------------------
(* The testbench: a sequence of elementary statements. *)

Set(raw) == [do |-> "set", to |-> raw]
Do(what) == [do |-> what]
Expect(outputs) == [do |-> "expect", outputs |-> outputs]

\* Three edges flush the reset synchroniser and load the initial state.
Flush(d) == <<Set(AllLow(d)), Do("assert"), Do("release")>> \o [i \in 1..3 |-> Do("edge")]

RECURSIVE Drive(_, _, _)
Drive(d, ref, raws) ==
  IF raws = <<>> THEN <<>>
  ELSE LET next == RefEdge(d, ref, Head(raws))
       IN <<Set(Head(raws)), Do("edge"), Expect(RefOutputs(d, next, Head(raws)))>>
            \o Drive(d, next, Tail(raws))

Trace(d, raws) == Flush(d) \o Drive(d, RefStart(d), raws)

\* Reset asserted while the clock is low, seen before an edge and after one.
Probe(d) ==
  LET resting == Expect(Outputs(d, ResetState(d), AllLow(d)))
  IN <<Set(AllLow(d)), Do("assert"), resting, Do("edge"), resting>>

Stimulus(d) ==
  LET found == DrivePaths(d)
      first(P(_)) == LET hits == SelectSeq(found, P) IN IF hits = <<>> THEN <<>> ELSE <<hits[1].path>>
      transition(state, raw) ==
        LET settled == <<state, [x \in d.sync |-> raw[x]]>>
            path == first(LAMBDA f : Pair(f.ref) = settled)
        IN IF path = <<>> THEN <<>> ELSE Trace(d, Append(path[1], raw))
      probe(state) == Trace(d, FlattenSeq(first(LAMBDA f : f.ref.state = state))) \o Probe(d)
      ofState(state) == FlattenSeq([i \in DOMAIN Assignments(d) |->
                                      transition(state, Assignments(d)[i])])
      eachState(Op(_)) == FlattenSeq([i \in DOMAIN d.states |-> Op(d.states[i])])
      stateful == \E o \in DOMAIN d.outputs :
                    StatesReferenced(Expand(d.outputs[o], d.expressions)) # {}
  IN eachState(ofState) \o (IF stateful THEN eachState(probe) ELSE <<>>)

-----------------------------------------------------------------------------
(* The emitted module: what its registers take at an edge and at a reset.  *)

ResetI == IF design.syncDeassert THEN r2 ELSE held

\* The states whose state signal is high.
Active == IF OneHot(design) THEN reg
          ELSE {s \in States(design) : Code(design, s) = reg}

Eff == Effective(design, inp, s2)
Shown == Outputs(design, Active, Eff)

Cleared(d) == IF OneHot(d) THEN {} ELSE Code(d, d.initial)

SetFeedback == IF reg = {} THEN {design.initial} ELSE {}
NextOneHot ==
  SetFeedback \cup {design.transitions[i].to : i \in UNION {Fires(design, s, Eff) : s \in reg}}

\* A case over the codes, an if-chain in each; any other code restarts.
NextEncoded ==
  IF Active = {} THEN Code(design, design.initial)
  ELSE LET state == CHOOSE s \in Active : TRUE
       IN Code(design, NextState(design, state, Eff))

NextReg == IF OneHot(design) THEN NextOneHot ELSE NextEncoded

Present(raw) == inp' = raw /\ UNCHANGED <<held, clk, r1, r2, s1, s2, reg>>

\* Asynchronous: the synchronisers fall with the pin, the state with reset_i.
ResetAtEdge ==
  /\ held' = TRUE /\ r1' = TRUE /\ r2' = TRUE
  /\ s1' = Low(design) /\ s2' = Low(design)
  /\ UNCHANGED <<clk, inp, reg>>
AssertPin ==
  /\ held' = TRUE
  /\ r1' = TRUE /\ r2' = TRUE
  /\ s1' = Low(design) /\ s2' = Low(design)
  /\ reg' = Cleared(design)
  /\ UNCHANGED <<clk, inp>>

ReleasePin == held' = FALSE /\ UNCHANGED <<clk, inp, r1, r2, s1, s2, reg>>

Sampled == [x \in design.sync |-> inp[x]]

Edge ==
  /\ clk' = ~clk
  /\ IF held THEN UNCHANGED <<r1, r2, s1, s2>>
     ELSE /\ r1' = FALSE /\ r2' = r1
          /\ s1' = Sampled /\ s2' = s1
  /\ reg' = IF ResetI THEN Cleared(design) ELSE NextReg
  /\ UNCHANGED <<held, inp>>

-----------------------------------------------------------------------------
(* The world and the testbench drive the same pins. *)

World(Step) == bench = <<>> /\ Step /\ UNCHANGED <<design, checked, bench, at, failed>>

ChangeInputs == World(\E raw \in ToSet(Assignments(design)) \ {inp} : Present(raw))
AssertReset == World(~held /\ AssertPin)
ReleaseReset == World(held /\ ReleasePin)
ClockEdge == World(Edge)

Statement(what) == at <= Len(bench) /\ bench[at].do = what
Advance == at' = at + 1 /\ UNCHANGED <<design, checked, bench>>

BenchSet == Statement("set") /\ Present(bench[at].to) /\ Advance /\ UNCHANGED failed
BenchAssert == Statement("assert") /\ AssertPin /\ Advance /\ UNCHANGED failed
BenchRelease == Statement("release") /\ ReleasePin /\ Advance /\ UNCHANGED failed
BenchEdge == Statement("edge") /\ Edge /\ Advance /\ UNCHANGED failed
BenchExpect ==
  /\ Statement("expect")
  /\ failed' = (failed \/ Shown # bench[at].outputs)
  /\ Advance
  /\ UNCHANGED <<held, clk, inp, r1, r2, s1, s2, reg>>

\* A supervisor holds the reset while the supply comes up.
Init ==
  /\ design \in {d \in Designs : Accepted(d)}
  /\ held = TRUE /\ r1 = TRUE /\ r2 = TRUE /\ clk = FALSE
  /\ inp = AllLow(design) /\ s1 = Low(design) /\ s2 = Low(design)
  /\ reg = Cleared(design)
  /\ \/ bench = <<>> /\ checked = {Pair(f.ref) : f \in ToSet(DrivePaths(design))}
     \/ bench = Stimulus(design) /\ checked = {}
  /\ at = 1 /\ failed = FALSE

Next ==
  \/ ChangeInputs \/ AssertReset \/ ReleaseReset \/ ClockEdge
  \/ BenchSet \/ BenchAssert \/ BenchRelease \/ BenchEdge \/ BenchExpect

Spec == Init /\ [][Next]_vars

-----------------------------------------------------------------------------
(* Properties. *)

Running == IF OneHot(design) THEN reg # {} ELSE ~ResetI
State == IF Running THEN CHOOSE s \in Active : TRUE ELSE design.initial

\* Every register holds a value of its width, and the bench one of its steps.
TypeOK ==
  /\ {held, clk, r1, r2, failed} \subseteq BOOLEAN
  /\ inp \in [Inputs(design) -> BOOLEAN]
  /\ s1 \in [design.sync -> BOOLEAN] /\ s2 \in [design.sync -> BOOLEAN]
  /\ IF OneHot(design) THEN reg \subseteq States(design)
     ELSE \E s \in States(design) : reg = Code(design, s)
  /\ at \in 1..(Len(bench) + 1)

\* The emitted registers run the table of design.yaml: rest while reset, start
\* in the initial state and take one transition at every edge, for every
\* encoding, with and without the reset synchroniser.
Table == INSTANCE DesignMachine
  WITH running <- Running, state <- State, eff <- Eff, outputs <- Shown,
       Successor <- NextState, OutputsOf <- Outputs, Resting <- ResetState
RunsTheDesign == Table!Machine

\* The generated testbench agrees with the netlist it was generated for: with
\* one-hot registers and the reset synchroniser, the reference is never a
\* clock edge off, through flush, drive, transition and reset probe.
BenchAgreesOneHot == OneHot(design) /\ design.syncDeassert => ~failed

\* What build_testbench says of its flush: three edges leave the machine in
\* the initial state and not one transition past it, whatever the encoding.
BenchAgrees == ~failed

\* What _drive_paths says of a pair it leaves out: its transition can never
\* fire.  A machine about to take a transition is in a pair that is checked.
SkippedNeverFires == bench = <<>> /\ Running => <<State, s2>> \in checked
=============================================================================
