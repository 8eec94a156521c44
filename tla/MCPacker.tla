------------------------------ MODULE MCPacker ------------------------------
(* Packer on small parts tables: rows of the shipped library, and tables whose
   sizes and prices make the solver choose. *)
EXTENDS Packer

Gate(cell, text, suffix, cap, area) ==
  [cell |-> cell, tier |-> "G", text |-> text, suffix |-> suffix, cap |-> cap, area |-> area]

Flop == [cell |-> "DFF", tier |-> "F", text |-> "", suffix |-> 2, cap |-> 1, area |-> 10]

\* 74aup.csv: inverters in three sizes, and NAND gates in two, the second row
\* spelled with spaces.
Shipped ==
  <<Gate("INV", "!A", 1, 1, 10), Gate("NAND2", "!(A&B)", 0, 1, 10), Flop,
    Gate("INV", "!A", 4, 2, 14), Gate("INV", "!A", 5, 3, 20),
    Gate("NAND2", "!(A & B)", 3, 2, 20)>>

\* One spelling, the larger packages first in the file, one of them the cheapest
\* but for its spares.
OneSpelling ==
  <<Gate("NAND2", "!(A&B)", 3, 2, 14), Gate("INV", "!A", 5, 3, 9), Flop,
    Gate("INV", "!A", 1, 1, 10), Gate("NAND2", "!(A&B)", 0, 1, 10)>>

\* Nothing with a single gate, and a four-gate package cheaper than a three.
Coarse ==
  <<Gate("INV", "!A", 1, 2, 9), Gate("INV", "!A", 2, 3, 14), Gate("INV", "!A", 3, 4, 12),
    Gate("NAND2", "!(A&B)", 4, 3, 10)>>

MCLibraries == {Shipped, OneSpelling, Coarse}
MCNetlists == UNION {[1 .. k -> {"INV", "NAND2", "DFF"}] : k \in 1 .. 4}
                \cup [1 .. 6 -> {"INV"}]
MCOverrides ==
  {<<>>, <<<<1>>>>, <<<<2, 1>>>>, <<<<1, 3, 4>>>>, <<<<1, 2>>, <<4, 3>>>>,
   <<<<1, 2>>, <<2, 3>>>>, <<<<1>>, <<>>>>, <<<<1, 2, 3, 4>>>>}
MCWeights == {0, 3, 20}
=============================================================================
