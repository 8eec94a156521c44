------------------------------- MODULE MCRtl -------------------------------
(***************************************************************************)
(* Tables of two states over one input with every shape of row, those the  *)
(* compiler refuses included, a few of three states, whose codes leave one *)
(* unused, and of two inputs.                                              *)
(***************************************************************************)
EXTENDS Rtl

x == Var("x")
y == Var("y")
go == Var("go")

T(from, to, when) == [from |-> from, to |-> to, when |-> when]

\* One row: always, by the input, with a gap, with an overlap.
Rows(s, States2) ==
  {<<T(s, t, Const(TRUE))>> : t \in States2}
    \cup {<<T(s, t, x), T(s, u, Neg(go))>> : t, u \in States2}
    \cup {<<T(s, t, go)>> : t \in States2}
    \cup {<<T(s, t, x), T(s, u, Const(TRUE))>> : t, u \in States2}

Moore == [lamp |-> StateEq("A")]
Mealy == [lamp |-> Bin("^", StateEq("B"), Bin("&", go, StateEq("A")))]

Design(states, transitions, encoding, sync, syncDeassert, outputs) ==
  [states |-> states, initial |-> "A", inputs |-> <<"x">>, sync |-> sync,
   expressions |-> [e \in {"go"} |-> x], transitions |-> transitions,
   outputs |-> outputs, encoding |-> encoding, syncDeassert |-> syncDeassert]

TwoStates ==
  {Design(<<"A", "B">>, a \o b, encoding, sync, sd, outputs) :
     a \in Rows("A", {"A", "B"}), b \in Rows("B", {"A", "B"}),
     encoding \in {"one_hot", "binary"}, sync \in {{}, {"x"}}, sd \in BOOLEAN,
     outputs \in {Moore, Mealy}}

ThreeStates ==
  {Design(<<"A", "B", "C">>, <<T("A", "B", x), T("A", a, Neg(x)), T("B", "C", Const(TRUE))>> \o c,
          encoding, {"x"}, sd, Mealy) :
     a \in {"A", "C"}, c \in Rows("C", {"A", "B"}),
     encoding \in {"one_hot", "binary", "gray"}, sd \in BOOLEAN}

\* Two inputs, either or both of them through a synchroniser.
TwoInputs ==
  {[Design(<<"A", "B">>, <<T("A", "B", Bin("&", x, y)), T("A", "A", Neg(Bin("&", go, y))),
                           T("B", "A", y), T("B", b, Neg(y))>>, encoding, sync, TRUE, Mealy)
      EXCEPT !.inputs = <<"x", "y">>] :
     b \in {"A", "B"}, encoding \in {"one_hot", "binary"}, sync \in {{"x"}, {"y"}, {"x", "y"}}}

MCDesigns == TwoStates \cup ThreeStates \cup TwoInputs
=============================================================================
