----------------------------- MODULE MCSession -----------------------------
(* A .gpk written by hand and a path there is none at, an empty folder, an    *)
(* example and the showcase.                                                  *)
EXTENDS Session

CONSTANTS gpk, other, folder

MCWords ==
  {gpk, other, folder, "pelican", "xor2", "about", "name", "states", "0", "1", "01", "2", "moore",
   "mine", "the machine", "x", "y", "INV", "", "gatepack", "kind", "design", "truth_table",
   "columns", "rows", "library", "source", "parts.csv", "sha256", "parts"}

Design(n, v) == <<Comment("about"), Entry("name", Scalar(n)), Entry("states", Scalar(v))>>
Table == << <<"x", "y">>, <<"0", "1">> >>
Parts == << <<"INV">> >>

MCEdits(n) == {Design(n, "2"), <<Entry("name", Scalar(n)), Stray>>,
               <<Entry("name", Scalar(n)), Entry("kind", Scalar("moore"))>>}

Whole(n) == [design |-> Design(n, "1"), table |-> Table, library |-> Parts]

\* A library ahead of the design, a comment between documents, `...` at the end.
ByHand == <<Comment("mine")>> \o LibraryDocument(Parts)
          \o <<Separator, Comment("the machine")>> \o Header("design") \o Design(gpk, "1")
          \o <<Separator>> \o TableDocument(Table) \o <<Separator>>

MCTexts(p) == IF p = gpk THEN {ByHand} ELSE {Absent}
MCDirs(r) == {Nowhere}
\* A last line with one cell.
Ragged(r) == [design |-> Design(r, "1"), table |-> Append(Table, <<"1">>), library |-> Parts]
RaggedDirs(r) == {Ragged(r)}
MCTemplate == Design(folder, "0")
MCExamples == [pelican |-> [Whole("pelican") EXCEPT !.table = NoFile],
               xor2 |-> [Whole("xor2") EXCEPT !.table = <<Table[1], <<"01", "1">>>>]]
MCOriginals(n) ==
  IF n = gpk THEN {Whole(gpk)}
  ELSE IF n = folder THEN {[design |-> MCTemplate, table |-> NoFile, library |-> Parts]}
  ELSE IF n = other THEN {} ELSE {MCExamples[n]}
RaggedOriginals(n) == MCOriginals(n) \cup {Ragged(n)}
=============================================================================
