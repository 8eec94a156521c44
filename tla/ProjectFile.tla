---------------------------- MODULE ProjectFile ----------------------------
(***************************************************************************)
(* The two forms of a project (gatepack/project): a directory holding      *)
(* design.yaml, truth_table.csv and parts.csv, and a .gpk, one stream of   *)
(* YAML documents.  `project bundle` makes the second of the first and     *)
(* `project explode` the first of the second.                              *)
(*                                                                         *)
(* A text is the sequence of its lines.  What tells lines apart is kept:   *)
(* separators, bare or with a comment behind them, directives, comments,   *)
(* `key: value` lines and lines that are none of these.  A value is a      *)
(* sequence of rows, a row a sequence of cells; << >> is a missing file.   *)
(***************************************************************************)
EXTENDS Naturals, Sequences, SequencesExt

Line(is, key, value) == [is |-> is, key |-> key, value |-> value]
Entry(key, value) == Line("entry", key, value)
Scalar(text) == << <<text>> >>
Separator == Line("separator", "", <<>>)        \* ---  and  ...
NotedSeparator == Line("noted separator", "", <<>>) \* --- # with a comment
Directive == Line("directive", "", <<>>)        \* %YAML 1.2
Comment(text) == Line("comment", "", Scalar(text)) \* a comment, a blank line
Stray == Line("stray", "", <<>>)                \* a line with no colon

\* The elements of a sequence that are in a set, as they come: SelectSeq, without
\* an operator for argument, which no lemma could be about.
Those(s, T) ==
  LET those[i \in 0 .. Len(s)] ==
        IF i = 0 THEN <<>>
        ELSE IF s[i] \in T THEN Append(those[i - 1], s[i]) ELSE those[i - 1]
  IN those[Len(s)]

NoFile == <<>>
Kinds == {"design", "truth_table", "library"}

-----------------------------------------------------------------------------
(* frontend/yaml_subset.py *)

Content(lines) == Those(lines, {l \in ToSet(lines) : l.is # "comment"})

\* What _Parser accepts as a mapping: keys, each once.
Parses(lines) ==
  LET items == Content(lines)
  IN /\ items # <<>>
     /\ \A i \in DOMAIN items : items[i].is = "entry"
     /\ \A i, j \in DOMAIN items : items[i].key = items[j].key => i = j

Has(items, key) == \E i \in DOMAIN items : items[i].key = key
ValueOf(items, key) == items[CHOOSE i \in DOMAIN items : items[i].key = key].value

\* The lines of a stream, cut at separators, without directives or documents
\* of comments only.
Pieces(text, separators) ==
  LET pieces[i \in 0 .. Len(text)] ==
        IF i = 0 THEN << <<>> >>
        ELSE LET done == pieces[i - 1]
             IN IF text[i].is \in separators THEN Append(done, <<>>)
                ELSE IF text[i].is = "directive" THEN done
                ELSE [done EXCEPT ![Len(done)] = Append(@, text[i])]
  IN pieces[Len(text)]

Cut(text, separators) ==
  LET docs == Pieces(text, separators)
  IN Those(docs, {d \in ToSet(docs) : Content(d) # <<>>})

\* parse_documents drops comments before it looks for separators.
ParseDocuments(text) ==
  LET docs == Cut(text, {"separator", "noted separator"})
  IN [i \in DOMAIN docs |-> Content(docs[i])]

-----------------------------------------------------------------------------
(* project/serialize.py: the design travels as its source *)

\* split_documents looks for separators in the raw lines.
SplitDocuments(text) == Cut(text, {"separator"})

\* The first `kind:` line, wherever it is.
KindLine(body) == Min({i \in DOMAIN body : body[i].key = "kind"})
DocumentKind(body) == IF Has(body, "kind") THEN body[KindLine(body)].value ELSE <<>>

\* Everything behind the `kind:` line.
DesignSource(body) == SubSeq(body, KindLine(body) + 1, Len(body))

\* _design_source_from_stream: the source in the first design it finds, if any.
DesignSources(text) ==
  LET bodies == SplitDocuments(text)
      designs == Those(bodies, {b \in ToSet(bodies) : DocumentKind(b) = Scalar("design")})
  IN [i \in DOMAIN designs |-> DesignSource(designs[i])]

Header(kind) == <<Entry("gatepack", Scalar("1")), Entry("kind", Scalar(kind))>>

DumpedDocument(source) == Header("design") \o Content(source) \* mutant: dumped from its data
DesignDocument(source) == Header("design") \o source

\* dumps_documents_with_design_source, chunk by chunk.
Chunk(document) == <<Separator>> \o document

-----------------------------------------------------------------------------
(* reading a directory *)

\* int() and back: leading zeros go.
CoerceCell(cell) == IF cell = "01" THEN "1" ELSE cell

TruthTableCsv(rows) ==
  [i \in DOMAIN rows |-> IF i = 1 THEN rows[1]
                         ELSE [j \in DOMAIN rows[i] |-> CoerceCell(rows[i][j])]]

\* load_project of a directory, and what makes it fail.
Loadable(dir) == dir.design # NoFile /\ Parses(dir.design)
LoadExploded(dir) == [dir EXCEPT !.table = TruthTableCsv(@)]

-----------------------------------------------------------------------------
(* writing and reading a stream *)

TableDocument(table) ==
  Header("truth_table") \o <<Entry("columns", <<Head(table)>>), Entry("rows", Tail(table))>>
LibraryDocument(library) ==
  Header("library") \o <<Entry("source", Scalar("parts.csv")),
                         Entry("sha256", library), Entry("parts", library)>>

TableFirst(project) == \* mutant: the library goes with the table
  <<Directive>> \o Chunk(DesignDocument(project.design))
    \o (IF project.table = NoFile THEN <<>>
        ELSE Chunk(TableDocument(project.table)) \o Chunk(LibraryDocument(project.library)))
GpkText(project) ==
  <<Directive>> \o Chunk(DesignDocument(project.design))
    \o (IF project.table = NoFile THEN <<>> ELSE Chunk(TableDocument(project.table)))
    \o (IF project.library = NoFile THEN <<>> ELSE Chunk(LibraryDocument(project.library)))

\* `project bundle`, when nothing disturbs it.
Bundle(dir) == GpkText(LoadExploded(dir))

\* _parse_document: the version first, then a kind anywhere.
IsDocument(doc) ==
  /\ Parses(doc)
  /\ doc[1] = Entry("gatepack", Scalar("1"))
  /\ Has(doc, "kind") /\ \E k \in Kinds : ValueOf(doc, "kind") = Scalar(k)

Body(doc) == Those(doc, {l \in ToSet(doc) : l.key \notin {"gatepack", "kind"}})

\* Every row as long as the table has columns.
BuildsTable(doc) ==
  /\ Has(doc, "columns")
  /\ LET width == Len(ValueOf(doc, "columns")[1])
         rows == IF Has(doc, "rows") THEN ValueOf(doc, "rows") ELSE <<>>
     IN \A i \in DOMAIN rows : Len(rows[i]) = width
BuildTable(doc) ==
  ValueOf(doc, "columns") \o (IF Has(doc, "rows") THEN ValueOf(doc, "rows") ELSE <<>>)

BuildsLibrary(doc) == Has(doc, "source") /\ Has(doc, "sha256")
BuildLibrary(doc) == IF Has(doc, "parts") THEN ValueOf(doc, "parts") ELSE <<>>

Of(docs, kind) == Those(docs, {d \in ToSet(docs) : ValueOf(d, "kind") = Scalar(kind)})

\* parse_gpk accepts a stream: one design, at most one of the others, each whole.
Explodable(text) ==
  LET docs == ParseDocuments(text)
  IN /\ \A i \in DOMAIN docs : IsDocument(docs[i])
     /\ Len(Of(docs, "design")) = 1
     /\ Len(Of(docs, "truth_table")) <= 1 /\ Len(Of(docs, "library")) <= 1
     /\ \A i \in DOMAIN docs :
          /\ ValueOf(docs[i], "kind") = Scalar("truth_table") => BuildsTable(docs[i])
          /\ ValueOf(docs[i], "kind") = Scalar("library") => BuildsLibrary(docs[i])

\* explode_to_dir: what it writes for an explodable stream.  A design whose
\* source is not found is written from its data, without its comments.
Explode(text) ==
  LET docs == ParseDocuments(text)
      sources == DesignSources(text)
      tables == Of(docs, "truth_table")
      libraries == Of(docs, "library")
  IN [design |-> IF sources = <<>> THEN Body(Of(docs, "design")[1]) ELSE Head(sources),
      table |-> IF tables = <<>> THEN NoFile ELSE BuildTable(tables[1]),
      library |-> IF libraries = <<>> THEN NoFile ELSE BuildLibrary(libraries[1])]

-----------------------------------------------------------------------------
(* scaffold.py *)

\* new_project: it does not touch a directory that has a design, and keeps a
\* parts.csv it finds.
Scaffolds(dir) == dir.design = NoFile
NewProject(dir, template, library) ==
  [dir EXCEPT !.design = template,
              !.library = IF @ = NoFile THEN library ELSE @]
=============================================================================
