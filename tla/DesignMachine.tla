--------------------------- MODULE DesignMachine ---------------------------
(***************************************************************************)
(* What a synchronous design.yaml promises: a machine that rests from the  *)
(* moment reset is asserted, starts in the initial state some edges after  *)
(* the release, and from then on takes exactly one transition of its table *)
(* at every clock edge, for the inputs as its synchronisers show them.     *)
(***************************************************************************)
CONSTANTS
  Successor(_, _, _),  \* the state after one: of a design, a state and inputs
  OutputsOf(_, _, _),  \* the outputs of a design, a set of states and inputs
  Resting(_)           \* the states that show while a design is reset

VARIABLES design, held, clk, running, state, eff, outputs

vars == <<design, held, clk, running, state, eff, outputs>>

Shown == outputs = OutputsOf(design, IF running THEN {state} ELSE Resting(design), eff)

Init == ~running /\ state = design.initial /\ Shown

\* Only reset stops a running machine, and it does so without an edge.
Rest == /\ ~running'
        /\ held' \/ ~running
        /\ state' = design.initial

Start == ~running /\ running' /\ ~held' /\ state' = design.initial

Transition == /\ running /\ running' /\ clk' # clk
              /\ state' = Successor(design, state, eff)

\* Between two clock edges the machine stays where it is.
Look == clk' = clk /\ UNCHANGED <<running, state>>

Next == /\ Rest \/ Start \/ Transition \/ Look
        /\ held' => ~running'
        /\ Shown'
        /\ UNCHANGED design

Machine == Init /\ [][Next]_vars
=============================================================================
