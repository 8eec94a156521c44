-------------------------- MODULE MCAsyncSynthesis --------------------------
(* Designs for AsyncSynthesis: flow tables of two states over two inputs,   *)
(* and larger ones of the shapes the backend has to tell apart.             *)
EXTENDS AsyncSynthesis

A == <<"in", "a">>
B == <<"in", "b">>
Y == <<"out", "y">>
C2 == [1..2 -> {0, 1}]

\* The moves of each state, the rest of the combinations staying put.
Tr(s, t, when) == [from |-> s, to |-> t, when |-> when]

D(states, ins, trs, ones) ==
  [states |-> states, inputs |-> ins, outputs |-> <<Y>>, groups |-> {ToSet(ins)},
   clock |-> FALSE, transitions |-> trs, out |-> <<ones>>, initial |-> states[1]]

\* y is 1 in state q, whatever the inputs.
In(q, ins) == {q} \X [DOMAIN ins -> {0, 1}]

Two(ins, up, down) ==
  D(<<"p", "q">>, ins, <<Tr("p", "q", up), Tr("q", "p", down)>>, In("q", ins))

\* Rings, one step per edge of an input; a ring of three has no race-free codes.
Ring3 == D(<<"p", "q", "r">>, <<A>>,
           <<Tr("p", "q", {<<1>>}), Tr("q", "r", {<<0>>}), Tr("r", "p", {<<1>>})>>, In("q", <<A>>))

Ring4 == D(<<"p", "q", "r", "t">>, <<A>>,
           <<Tr("p", "q", {<<1>>}), Tr("q", "r", {<<0>>}),
             Tr("r", "t", {<<1>>}), Tr("t", "p", {<<0>>})>>, In("q", <<A>>))

\* A path with a state that passes on at once.
Path3 == D(<<"p", "q", "r">>, <<A, B>>,
           <<Tr("p", "q", {<<1, 0>>}), Tr("q", "r", {<<1, 0>>, <<1, 1>>}),
             Tr("r", "q", {<<0, 0>>})>>, In("r", <<A, B>>))

\* An output that follows an input.
Mealy == D(<<"p", "q">>, <<A, B>>, <<Tr("p", "q", {<<1, 1>>}), Tr("q", "p", {<<0, 0>>})>>,
           {<<"p", <<1, 0>>>>, <<"p", <<1, 1>>>>, <<"q", <<1, 0>>>>, <<"q", <<1, 1>>>>})

\* Two inputs at once.
Leap == D(<<"p", "q">>, <<A, B>>, <<Tr("p", "q", {<<1, 1>>}), Tr("p", "p", {<<0, 0>>}),
          Tr("q", "p", {<<0, 0>>})>>, In("q", <<A, B>>))

Named ==
  [ring3 |-> Ring3, ring4 |-> Ring4, path3 |-> Path3,
  mealy |-> Mealy, leap |-> Leap,
   clocked |-> [Ring4 EXCEPT !.clock = TRUE], undeclared |-> [Ring4 EXCEPT !.groups = {}],
   partial |-> [Path3 EXCEPT !.groups = {{A}}]]

\* Where p moves to q, and q back to p.
Ups   == {{<<1, 0>>}, {<<1, 1>>}, {<<1, 0>>, <<1, 1>>}, {<<0, 1>>, <<1, 0>>}}
Downs == {{}, {<<0, 0>>}, {<<0, 0>>, <<0, 1>>}, {<<1, 1>>}}

MCDesigns ==
  [f \in (DOMAIN Named) \X {<<{}, {}>>} |-> Named[f[1]]]
    @@ [f \in {"two"} \X (Ups \X Downs) |-> Two(<<A, B>>, f[2][1], f[2][2])]
    @@ [f \in {"n1"} \X ({{<<1, 0>>}} \X Downs) |->
          Two(<<A, <<"n", 1>>>>, f[2][1], f[2][2])]

MCCells == {"INV", "BUF", "OR2", "AND2", "AND3"}
=============================================================================
