------------------------------ MODULE MCInsight ------------------------------
(* Insight on netlists of three gates over two inputs, with and without a flop,
   on a few whose pre-map side differs from the mapped one, and on some with
   what is rare: twins, a loop, redundant logic, gates before a reset. *)
EXTENDS Insight

MCCellOrder == <<"AND2", "DFF_R", "INV", "NAND2", "XOR2">>

NotA == [text |-> "!A", parses |-> TRUE, uses |-> {"A"}, minterms |-> {{}}]
NandAB == [text |-> "!(A&B)", parses |-> TRUE, uses |-> {"A", "B"},
           minterms |-> SUBSET {"A", "B"} \ {{"A", "B"}}]
NoFunction == [text |-> "", parses |-> FALSE, uses |-> {}, minterms |-> {}]
Row(cell, tier, function, inputs, cap, tpd) ==
  [cell |-> cell, tier |-> tier, function |-> function, inputs |-> inputs, cap |-> cap,
   tpd |-> tpd, rank |-> cap, mfrs |-> 2, equivalents |-> 0, vmin |-> 8, vmax |-> 36]
AndAB == [text |-> "A&B", parses |-> TRUE, uses |-> {"A", "B"}, minterms |-> {{"A", "B"}}]
XorAB == [text |-> "A^B", parses |-> TRUE, uses |-> {"A", "B"}, minterms |-> {{"A"}, {"B"}}]
MCRows ==
  <<Row("AND2", "G", AndAB, 2, 1, 9), Row("INV", "G", NotA, 1, 1, 2),
    Row("NAND2", "G", NandAB, 2, 1, 3), Row("DFF_R", "F", NoFunction, 3, 1, 5),
    Row("INV", "G", NotA, 1, 2, 4), Row("XOR2", "G", XorAB, 2, 1, 6)>>

-----------------------------------------------------------------------------
(* Documents: a net of bit b is named 100 + b. *)

Cell(cell, pins, src) == [cell |-> cell, bits |-> pins, outs |-> {}, src |-> src]
Inv(a, y) == Cell("INV", [A |-> a, Y |-> y], NoSource)
Nand(a, b, y) == Cell("NAND2", [A |-> a, B |-> b, Y |-> y], NoSource)
And2(a, b, y) == Cell("AND2", [A |-> a, B |-> b, Y |-> y], NoSource)
Xor2(a, b, y) == Cell("XOR2", [A |-> a, B |-> b, Y |-> y], NoSource)
DffR(d, rst, q, src) == Cell("DFF_R", [D |-> d, CK |-> 12, RST_N |-> rst, Q |-> q], src)
Primed(c) == [c EXCEPT !.outs = DOMAIN c.bits \cap {"Y", "Q"}]
Not(a, y) == Primed(Cell("$_NOT_", [A |-> a, Y |-> y], NoSource))
And(a, b, y) == Primed(Cell("$_AND_", [A |-> a, B |-> b, Y |-> y], NoSource))
DffPN0(d, rst, q, src) ==
  Primed(Cell("$_DFF_PN0_", [D |-> d, C |-> 12, R |-> rst, Q |-> q], src))

InOrder(bits) == SelectSeq([b \in 1 .. 99 |-> b], LAMBDA b : b \in bits)
Port(b, direction) == [name |-> 100 + b, bit |-> b, direction |-> direction]
Document(cells, inputs, outputs, sources, aliases) ==
  LET bits == (UNION {Range(cells[n].bits) : n \in DOMAIN cells} \cup inputs \cup outputs) \ {0, 1}
      own(b) == [name |-> 100 + b, bit |-> b,
                 src |-> IF b \in DOMAIN sources THEN sources[b] ELSE NoSource]
      sorted == InOrder(bits)
      in == InOrder(inputs)
      out == InOrder(outputs)
  IN [ports |-> [i \in DOMAIN in |-> Port(in[i], "input")]
                  \o [i \in DOMAIN out |-> Port(out[i], "output")],
      netnames |-> [i \in DOMAIN sorted |-> own(sorted[i])] \o aliases, cells |-> cells]

Two(b) == b + 30
PremapOf(cells) ==
  LET nands == {n \in DOMAIN cells : cells[n].cell = "NAND2"}
      of(n) == cells[n].bits
  IN [n \in {n + 40 : n \in nands} |-> And(of(n - 40).A, of(n - 40).B, Two(of(n - 40).Y))]
     @@ [n \in DOMAIN cells |->
           IF n \in nands THEN Not(Two(of(n).Y), of(n).Y)
           ELSE IF cells[n].cell = "AND2" THEN And(of(n).A, of(n).B, of(n).Y)
           ELSE IF cells[n].cell = "INV" THEN Not(of(n).A, of(n).Y)
           ELSE DffPN0(of(n).D, of(n).RST_N, of(n).Q, cells[n].src)]

Design(cells, inputs, outputs, kept, lost) ==
  [premap |-> {Document(PremapOf(cells), inputs, outputs, kept @@ lost, <<>>)},
   mapped |-> Document(cells, inputs, outputs, kept, <<>>), data |-> {110, 111}]

-----------------------------------------------------------------------------
First == {Nand(10, 11, 20), Inv(10, 20)}
Second == {Nand(20, 11, 21), Nand(20, 10, 21), Inv(20, 21)}
Third == {Nand(20, 21, 22), Nand(21, 11, 22), Inv(21, 22)}
Combinational3 ==
  {Design(<<g, h, i>>, {10, 11}, outputs, 22 :> "equation", 20 :> "term") :
     g \in First, h \in Second, i \in Third, outputs \in {{22}, {21, 22}}}

\* The flop's reset is the input, or its complement; its output is read back.
Clocked3 ==
  {Design(<<Nand(10, 31, 20), g, Inv(13, 23), DffR(d, rst, 31, "state")>>,
          {10, 11, 12, 13}, {21}, 21 :> "output", 20 :> "term") :
     g \in {Nand(20, 11, 21), Inv(31, 21)}, d \in {20, 21}, rst \in {13, 23}}

\* A tie; two gates of one truth table over different inputs; a flop whose
\* attribute was lost; a net of two names; a latch without a pre-map side.
Tied == Design(<<Nand(10, 1, 20), Inv(11, 21)>>, {10, 11}, {20, 21}, <<>>, <<>>)
Twins == Design(<<Inv(10, 20), Inv(11, 21), Nand(20, 21, 22), Nand(10, 11, 23)>>, {10, 11},
                {20, 21, 22, 23}, 22 :> "both", 20 :> "first")
Renamed ==
  [Design(<<Inv(10, 20), DffR(20, 13, 31, NoSource)>>, {10, 12, 13}, {31}, <<>>, 20 :> "next")
     EXCEPT !.data = {110}]
Aliased ==
  LET cells == <<Nand(10, 11, 20), Inv(20, 21)>>
  IN [premap |-> {Document(PremapOf(cells), {10, 11}, {21}, 20 :> "red" @@ 21 :> "not_red", <<>>)},
      mapped |-> Document(cells, {10, 11}, {20, 21}, 20 :> "red" @@ 21 :> "not_red",
                          <<[name |-> 150, bit |-> 20, src |-> NoSource]>>),
      data |-> {110, 111}]
\* Outputs that a gate reads too.
Seen2 ==
  [Design(<<Inv(10, 20), Inv(11, 21), And2(20, 21, 22), And2(22, 14, 23)>>, {10, 11, 14},
          {20, 21, 23}, 23 :> "all", <<>>) EXCEPT !.data = {110, 111, 114}]
\* One slow gate beside two quick ones.
Skewed ==
  Design(<<Inv(10, 20), Inv(20, 21), And2(10, 11, 22)>>, {10, 11}, {21, 22}, 22 :> "slow", <<>>)
Latch ==
  [premap |-> Nothing, data |-> {110, 111},
   mapped |-> Document(<<Nand(10, 21, 20), Nand(20, 11, 21)>>, {10, 11}, {21}, <<>>, <<>>)]
\* An output that one gate reads, a gate that nothing reads.
Unread == Design(<<Inv(10, 20), And2(20, 11, 21)>>, {10, 11}, {20}, 20 :> "not_a", <<>>)
\* Flops with an inverter each before a reset that is active high.
ActiveHigh ==
  [Design(1 :> Inv(13, 23) @@ 2 :> Inv(13, 24)
            @@ 4 :> DffR(10, 23, 31, "first") @@ 5 :> DffR(31, 24, 32, "second"),
          {10, 12, 13}, {32}, <<>>, <<>>) EXCEPT !.data = {110}]
\* Two gates that always agree: an input of the third stuck at 1 is not seen.
Redundancy ==
  [premap |-> Nothing, data |-> {110, 111},
   mapped |-> Document(<<Xor2(10, 11, 20), Xor2(10, 11, 21), And2(20, 21, 22), Inv(10, 23),
                         Inv(11, 24)>>, {10, 11}, {22, 23, 24}, <<>>, <<>>)]

MCHistories ==
  {<<d>> : d \in Combinational3 \cup Clocked3
                 \cup {Tied, Twins, Seen2, Skewed, Renamed, Aliased, Latch, Redundancy,
                       Unread, ActiveHigh}}
    \cup {<<Renamed, Latch>>, <<Twins, Aliased>>}

MCRenumberings == {[n \in 1 .. 3 |-> n], [n \in 1 .. 3 |-> 4 - n]}
=============================================================================
