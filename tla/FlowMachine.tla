---------------------------- MODULE FlowMachine ----------------------------
(***************************************************************************)
(* What an asynchronous netlist promises: it behaves as the flow table of  *)
(* its design in fundamental mode.  While the present state is not stable  *)
(* the machine moves to the entry of the table; when it is stable, and     *)
(* only then, one input changes.  The outputs are the table's throughout.  *)
(***************************************************************************)
EXTENDS Integers, Sequences

CONSTANTS
  Next_state(_, _, _),   \* design, state, input combination -> state
  Output_of(_, _, _)     \* design, state, input combination -> output values

VARIABLES
  on,            \* whether there is a machine
  table,         \* the design it was built from
  state,
  inputs,        \* a sequence of 0 and 1
  outputs

mvars == <<on, table, state, inputs, outputs>>

FlipOne(c, d) == [c EXCEPT ![d] = 1 - @]

MInit == ~on

\* The machine is built and reset: it shows the outputs of the state it is in.
PowerUp == /\ ~on /\ on'
           /\ outputs' = Output_of(table', state', inputs')

Settle ==
  /\ on /\ on'
  /\ Next_state(table, state, inputs) # state
  /\ state' = Next_state(table, state, inputs)
  /\ outputs' = Output_of(table, state', inputs)
  /\ UNCHANGED <<table, inputs>>

ChangeInput ==
  /\ on /\ on'
  /\ Next_state(table, state, inputs) = state
  /\ \E d \in DOMAIN inputs : inputs' = FlipOne(inputs, d)
  /\ outputs' = Output_of(table, state, inputs')
  /\ UNCHANGED <<table, state>>

Machine == MInit /\ [][~on' \/ PowerUp \/ Settle \/ ChangeInput]_mvars
=============================================================================
