------------------------------ MODULE MCBoard ------------------------------
(* Board on designs of up to three cells, and on libraries with parts in two
   sizes, with and without pin maps and citations. *)
EXTENDS Board

MCCellOrder == <<"DFF", "INV", "MAJ3", "NAND2">>

In(name, bit) == [name |-> name, bit |-> bit, direction |-> "input"]
Out(name, bit) == [name |-> name, bit |-> bit, direction |-> "output"]
Wire(name, bit) == [name |-> name, bit |-> bit]
Inv(a, y) == [cell |-> "INV", bits |-> [A |-> a, Y |-> y]]
Nand(a, b, y) == [cell |-> "NAND2", bits |-> [A |-> a, B |-> b, Y |-> y]]
Dff(d, ck, q) == [cell |-> "DFF", bits |-> [D |-> d, CK |-> ck, Q |-> q]]
Maj(a, b, c, y) == [cell |-> "MAJ3", bits |-> [A |-> a, B |-> b, C |-> c, Y |-> y]]

Design(json, inputs, outputs, states, expected, flops) ==
  [json |-> json, inputs |-> inputs, outputs |-> outputs, states |-> states,
   expected |-> expected, supplied |-> {"OSC"}, flops |-> flops, fanout |-> flops]

A == 10
B == 11
Codes == SUBSET {A, B}

\* y = !a and z = !a, by two cells that only their outputs tell apart, and
\* x = !(a & b): two inverters that one package may hold.
Inverters ==
  Design([ports |-> <<In(A, 5), In(B, 6), Out(20, 7), Out(21, 8), Out(22, 9)>>,
          netnames |-> <<Wire(40, 7)>>,
          cells |-> 1 :> Inv(5, 7) @@ 2 :> Nand(5, 6, 9) @@ 3 :> Inv(5, 8)],
         <<A, B>>, {20, 21, 22}, 1,
         [c \in {0} \X Codes |-> {o \in {20, 21, 22} :
            \/ (o # 22 /\ A \notin c[2])
            \/ (o = 22 /\ c[2] # {A, B})}], 0)

\* y = a & b from a gate and an inverter whose signals run against the order of
\* the instances, and a gate with a pin tied to 1.
Chain ==
  Design([ports |-> <<In(A, 5), In(B, 6), Out(20, 7), Out(21, 8)>>,
          netnames |-> <<Wire(30, 9), Wire(40, 7)>>,
          cells |-> 1 :> Inv(9, 7) @@ 2 :> Nand(5, 6, 9) @@ 3 :> Nand(9, 1, 8)],
         <<A, B>>, {20, 21}, 1,
         [c \in {0} \X Codes |-> IF c[2] = {A, B} THEN {20, 21} ELSE {}], 0)

\* A toggling flop, and a cell the library does not have.
Toggle ==
  Design([ports |-> <<In(A, 5), In(B, 6), Out(20, 7)>>,
          netnames |-> <<Wire(30, 8), Wire(31, 9)>>,
          cells |-> 1 :> Inv(8, 9) @@ 2 :> Dff(9, 6, 8) @@ 3 :> Nand(8, 5, 7)],
         <<A>>, {20}, 2,
         [c \in {0, 1} \X SUBSET {A} |-> IF c = <<1, {A}>> THEN {} ELSE {20}], 1)

Foreign ==
  Design([ports |-> <<In(A, 5), In(B, 6), Out(20, 7), Out(21, 8)>>, netnames |-> <<>>,
          cells |-> 1 :> Maj(5, 6, 7, 8) @@ 2 :> Inv(5, 7)],
         <<A, B>>, {20, 21}, 1, [c \in {0} \X Codes |-> {}], 0)

\* y = a & b, the gate on both pins of the next, which no gate reads.
Doubled ==
  Design([ports |-> <<In(A, 5), In(B, 6), Out(20, 7), Out(21, 8)>>,
          netnames |-> <<Wire(30, 9)>>,
          cells |-> 1 :> Nand(5, 6, 9) @@ 2 :> Nand(9, 9, 7) @@ 3 :> Inv(5, 8)],
         <<A, B>>, {20, 21}, 1,
         [c \in {0} \X Codes |-> {o \in {20, 21} :
            IF o = 20 THEN c[2] = {A, B} ELSE A \notin c[2]}], 0)

\* The same with z = !y behind it, which waits for a gate that is never ready.
Waiting ==
  Design([ports |-> <<In(A, 5), In(B, 6), Out(20, 7), Out(21, 8)>>,
          netnames |-> <<Wire(30, 9)>>,
          cells |-> 1 :> Nand(5, 6, 9) @@ 2 :> Nand(9, 9, 7) @@ 3 :> Inv(7, 8)],
         <<A, B>>, {20, 21}, 1,
         [c \in {0} \X Codes |-> IF c[2] = {A, B} THEN {20} ELSE {21}], 0)

MCDesigns == {Inverters, Chain, Toggle, Foreign, Doubled, Waiting}

-----------------------------------------------------------------------------
NotA == [text |-> "!A", parses |-> TRUE, uses |-> {"A"}, minterms |-> {{}}]
NandAB == [text |-> "!(A&B)", parses |-> TRUE, uses |-> {"A", "B"},
           minterms |-> SUBSET {"A", "B"} \ {{"A", "B"}}]
NoFunction == [text |-> "", parses |-> FALSE, uses |-> {}, minterms |-> {}]

Row(cell, tier, suffix, rank, function, inputs, cap, package, mfrs, area) ==
  [cell |-> cell, tier |-> tier, family |-> "AUP", suffix |-> suffix, rank |-> rank,
   equivalents |-> 0, function |-> function, inputs |-> inputs, cap |-> cap,
   package |-> package, mfrs |-> mfrs, vmin |-> 8, vmax |-> 36, area |-> area,
   wellFormed |-> TRUE]

Inv1 == Row("INV", "G", "1G04", 2, NotA, 1, 1, "SOT-353", 2, 10)
Inv2 == Row("INV", "G", "2G04", 5, NotA, 1, 2, "SOT-363", 2, 14)
Nand1 == Row("NAND2", "G", "1G00", 1, NandAB, 2, 1, "SOT-353", 2, 10)
Nand2 == Row("NAND2", "G", "2G00", 4, NandAB, 2, 2, "VSSOP-8", 2, 15)
Dff1 == Row("DFF", "F", "1G79", 3, NoFunction, 2, 1, "SOT-353", 2, 10)

Pin(r, pin, signal, gate) ==
  [suffix |-> r.suffix, package |-> r.package, pin |-> pin, signal |-> signal, gate |-> gate]

\* Pins out of order, the gates of a package interleaved.
Inv2Pins == <<Pin(Inv2, 1, "A", 2), Pin(Inv2, 2, "GND", 0), Pin(Inv2, 3, "Y", 1),
              Pin(Inv2, 4, "A", 1), Pin(Inv2, 5, "VCC", 0), Pin(Inv2, 6, "Y", 2)>>
Nand1Pins == <<Pin(Nand1, 1, "B", 1), Pin(Nand1, 2, "A", 1), Pin(Nand1, 3, "GND", 0),
               Pin(Nand1, 4, "Y", 1), Pin(Nand1, 5, "VCC", 0)>>
Nand2Pins == <<Pin(Nand2, 1, "A", 1), Pin(Nand2, 2, "B", 1), Pin(Nand2, 3, "Y", 2),
               Pin(Nand2, 4, "GND", 0), Pin(Nand2, 5, "A", 2), Pin(Nand2, 6, "B", 2),
               Pin(Nand2, 7, "Y", 1), Pin(Nand2, 8, "VCC", 0)>>

Line(key, filled, status) == [bar |-> TRUE, key |-> key, filled |-> filled, status |-> status]
Blank == [bar |-> FALSE, key |-> "", filled |-> FALSE, status |-> ""]
CellTable ==
  <<Line("cell", TRUE, ""), Line("INV", TRUE, "cited"), Line("NAND2", TRUE, "placeholder"),
    Line("DFF", FALSE, "unverified"), Blank>>

\* Both tables, the inverters' large package cited; both cited; none.
OneCited == CellTable \o <<Line("part_number", TRUE, ""), Line("74AUP2G04", TRUE, "cited"),
                           Line("74AUP2G00", TRUE, "unverified")>>
AllCited == CellTable \o <<Line("part_number", TRUE, ""), Line("74AUP2G04", TRUE, "cited"),
                           Line("74AUP2G00", TRUE, "cited"), Blank, Line("74AUP1G00", TRUE, "cited")>>
PinTable == <<Line("part_suffix", TRUE, ""), Line("2G04", TRUE, "cited"), Line("1G00", FALSE, "cited")>>

File(rows, refs, pins, pinRefs) == [rows |-> rows, refs |-> refs, pins |-> pins, pinRefs |-> pinRefs]

Shipped == <<Inv1, Nand1, Dff1, Inv2, Nand2>>
MCFiles ==
  {File(Shipped, AllCited, Inv2Pins \o Nand1Pins \o Nand2Pins, PinTable),
   File(Shipped, OneCited, <<>>, <<>>),
   \* Two single inverters cost less than a package of two, which a user may force.
   File(<<Inv1, Nand1, Dff1, [Inv2 EXCEPT !.area = 25], Nand2>>, AllCited, Inv2Pins, <<>>),
   \* A suffix that carries its family.
   File(<<Nand2, Inv2, [Dff1 EXCEPT !.suffix = "AUP1G79", !.rank = 9], Inv1>>, CellTable,
        Nand2Pins, PinTable),
   \* A configurable part sold as two cells, one pin map for both.
   File(<<[Inv1 EXCEPT !.suffix = "1G57"], [Nand1 EXCEPT !.suffix = "1G57"], Dff1>>, AllCited,
        [i \in DOMAIN Nand1Pins |-> [Nand1Pins[i] EXCEPT !.suffix = "1G57"]], <<>>),
   \* Two rows of the pin map disagree; a supply range upside down; a gate with
   \* one manufacturer; an oscillator for another voltage.
   File(Shipped, AllCited, Nand1Pins \o <<Pin(Nand1, 1, "NC", 0)>>, <<>>),
   File(<<[Inv1 EXCEPT !.vmin = 40], Nand1>>, AllCited, <<>>, <<>>),
   File(<<[Inv1 EXCEPT !.mfrs = 1], [Nand1 EXCEPT !.vmin = 34]>>, OneCited, <<>>, <<>>),
   File(Shipped \o <<[Row("OSC", "S", "SIT", 9, NoFunction, 0, 1, "SOT-23", 1, 20)
                        EXCEPT !.vmax = 30]>>, AllCited, <<>>, <<>>)}

MCRenumberings ==
  {[n \in 1 .. 3 |-> n], [n \in 1 .. 3 |-> 4 - n], [n \in 1 .. 3 |-> (n % 3) + 1]}
MCThresholds ==
  [package |-> [green |-> 1, amber |-> 2], flop |-> [green |-> 0, amber |-> 1],
   fanout |-> [green |-> 1, amber |-> 2]]
=============================================================================
