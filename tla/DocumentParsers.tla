--------------------------- MODULE DocumentParsers ---------------------------
(***************************************************************************)
(* The parsers, documents/parsers: a document is read line by line into        *)
(* blocks.  Markdown, and each page of a PDF, goes through                     *)
(* scan_markdown_lines; a Word document has headings, paragraphs and tables;    *)
(* plain text has paragraphs; CSV has one table per BatchRows rows.            *)
(*                                                                         *)
(* Kinds of lines: blank, fence (```), row (|...|), formula, a heading of some  *)
(* level, item, indented (prose that would continue an item), prose; cells (a    *)
(* table row without outer pipes), surplus (one with a cell that no column is    *)
(* for), trimmed (what is left of it) and rule (the --- line the parser adds     *)
(* under a table's header).                                                     *)
(***************************************************************************)
EXTENDS ContentBlocks

CONSTANTS MaxLines,  \* bound: lines of a document
          MaxPages,  \* bound: pages of a PDF
          BatchRows, \* batch_size of parse_csv
          Level,     \* bound: the kinds of headings, and the level of each
          Kinds      \* bound: of each format, the kinds of lines in its documents

HeadingKind == DOMAIN Level
Format == {"markdown", "pdf", "docx", "plain", "csv"}

ASSUME BoundAssumption == MaxLines \in Nat /\ MaxPages \in Nat /\ BatchRows \in Nat \ {0}

ASSUME KindsAssumption ==
  /\ Level \in [HeadingKind -> Levels]
  /\ HeadingKind \cap {"blank", "fence", "row", "formula", "item", "indented", "prose",
                      "cells", "surplus", "trimmed", "rule"} = {}
  /\ DOMAIN Kinds = Format
  /\ \A f \in Format : Kinds[f] \subseteq DOMAIN Weight
  /\ {"blank", "trimmed", "rule"} \subseteq DOMAIN Weight
  /\ Kinds["docx"] \subseteq {"blank", "prose", "cells"} \cup HeadingKind
  /\ Kinds["plain"] \subseteq {"blank", "prose"}
  /\ Kinds["csv"] \subseteq {"blank", "cells", "surplus"}

VARIABLES format,
          lines,          \* the document as read so far
          fullText,       \* ParseResult.full_text: its lines that are not blank
          paragraph, table, list,  \* paragraph_lines, table_lines, list_lines
          inCode, code,   \* in_code, code_lines
          page

gathered == <<paragraph, table, list>>
parserVars == <<format, lines, fullText, gathered, inCode, code, page>>

Rule == [n |-> 0, kind |-> "rule"]

\* page_number=None except for PDF
PageNumber == IF format = "pdf" THEN page ELSE 0

-----------------------------------------------------------------------------
(* Flushing: a block of what was gathered. *)

Flushed(type, text) ==
  IF text = <<>> THEN <<>> ELSE <<Block(type, 0, PageNumber, text)>>

\* flush_paragraph, flush_table, flush_list
FlushAll ==
  Flushed("paragraph", paragraph) \o Flushed("table", table) \o Flushed("list", list)
NothingGathered == paragraph' = <<>> /\ table' = <<>> /\ list' = <<>>

Emit(q) == blocks' = blocks \o q
Heading(line) == Block("heading", Level[line.kind], PageNumber, <<line>>)

\* What a code block that is never closed leaves
OpenCode == IF inCode THEN Flushed("code", code) ELSE <<>>

-----------------------------------------------------------------------------
(* scan_markdown_lines, one action per kind of line. *)

Fence(line) ==
  /\ line.kind = "fence"
  /\ Emit(FlushAll \o (IF inCode THEN <<Block("code", 0, PageNumber, code)>> ELSE <<>>))
  /\ NothingGathered
  /\ inCode' = ~inCode /\ code' = <<>>

CodeLine(line) ==
  /\ inCode /\ line.kind # "fence"
  /\ code' = Append(code, line)
  /\ UNCHANGED <<blocks, gathered, inCode>>

Blank(line) ==
  /\ line.kind = "blank"
  /\ Emit(FlushAll) /\ NothingGathered
  /\ UNCHANGED <<inCode, code>>

TableRow(line) ==
  /\ line.kind = "row"
  /\ Emit(Flushed("paragraph", paragraph) \o Flushed("list", list))
  /\ table' = Append(table, line) /\ paragraph' = <<>> /\ list' = <<>>
  /\ UNCHANGED <<inCode, code>>

Formula(line) ==
  /\ line.kind = "formula"
  /\ Emit(FlushAll \o <<Block("formula", 0, PageNumber, <<line>>)>>) /\ NothingGathered
  /\ UNCHANGED <<inCode, code>>

HeadingLine(line) ==
  /\ line.kind \in HeadingKind
  /\ Emit(FlushAll \o <<Heading(line)>>) /\ NothingGathered
  /\ UNCHANGED <<inCode, code>>

Continues(line) == line.kind = "indented" /\ list # <<>>

Item(line) ==
  /\ line.kind = "item" \/ Continues(line)
  /\ Emit(Flushed("paragraph", paragraph) \o Flushed("table", table))
  /\ list' = Append(list, line) /\ paragraph' = <<>> /\ table' = <<>>
  /\ UNCHANGED <<inCode, code>>

\* Variant: prose does not close the list above it.
ProseAfterList(line) ==
  /\ line.kind \in {"prose", "indented"} /\ ~Continues(line)
  /\ Emit(Flushed("table", table))
  /\ paragraph' = Append(paragraph, line) /\ table' = <<>>
  /\ UNCHANGED <<list, inCode, code>>
Prose(line) ==
  /\ line.kind \in {"prose", "indented"} /\ ~Continues(line)
  /\ Emit(Flushed("table", table) \o Flushed("list", list))
  /\ paragraph' = Append(paragraph, line) /\ table' = <<>> /\ list' = <<>>
  /\ UNCHANGED <<inCode, code>>

Scan(line) ==
  \/ Fence(line) \/ CodeLine(line)
  \/ /\ ~inCode
     /\ \/ Blank(line) \/ TableRow(line) \/ Formula(line) \/ HeadingLine(line)
        \/ Item(line) \/ Prose(line)

-----------------------------------------------------------------------------
(* The other formats, with the same accumulators. *)

\* parse_docx: adjacent cells are one table, its header followed by a rule.
WordLine(line) ==
  /\ \/ Blank(line) \/ HeadingLine(line)
     \/ Prose(line)
     \/ /\ line.kind = "cells"
        /\ Emit(Flushed("paragraph", paragraph))
        /\ table' = IF table = <<>> THEN <<line, Rule>> ELSE Append(table, line)
        /\ paragraph' = <<>>
        /\ UNCHANGED <<list, inCode, code>>

\* parse_plaintext: paragraphs, whatever the lines look like.
TextLine(line) ==
  \/ Blank(line)
  \/ /\ line.kind = "prose"
     /\ paragraph' = Append(paragraph, line)
     /\ UNCHANGED <<blocks, table, list, inCode, code>>

(* parse_csv, one line per record.  csv.DictReader takes the column names from   *)
(* the first line even if it is blank, and from then on skips blank lines.         *)

\* row.get(col) for the columns: nothing when there are none; not the cells beyond
\* the header, nor two cells under one name (a surplus header)
RowKind(header, kind) ==
  IF "blank" \in {header, kind} THEN "blank"
  ELSE IF "surplus" \in {header, kind} THEN "trimmed" ELSE kind

\* What the parser leaves of a line
Left(line) ==
  IF format = "csv" /\ lines # <<>>
  THEN [n |-> line.n, kind |-> RowKind(lines[1].kind, line.kind)] ELSE line

\* The first line is the header of every batch.
CsvHeader == <<lines[1], IF lines[1].kind = "blank" THEN [n |-> 0, kind |-> "blank"] ELSE Rule>>
CsvRow(line) ==
  /\ \/ /\ lines = <<>> \/ line.kind = "blank"
        /\ UNCHANGED <<blocks, table>>
     \/ /\ lines # <<>> /\ line.kind # "blank" /\ Len(table) = BatchRows + 2
        /\ Emit(Flushed("table", table))
        /\ table' = Append(CsvHeader, Left(line))
     \/ /\ lines # <<>> /\ line.kind # "blank" /\ Len(table) # BatchRows + 2
        /\ UNCHANGED blocks
        /\ table' = Append(IF table = <<>> THEN CsvHeader ELSE table, Left(line))
  /\ UNCHANGED <<paragraph, list, inCode, code>>

-----------------------------------------------------------------------------
\* parse_document: the parser of the format reads the next line.
ReadLine(k) ==
  LET line == [n |-> Len(lines) + 1, kind |-> k]
  IN /\ phase = "parse" /\ Len(lines) < MaxLines
     /\ lines' = Append(lines, line)
     /\ fullText' = IF Left(line).kind = "blank" THEN fullText ELSE Append(fullText, Left(line))
     /\ \/ format \in {"markdown", "pdf"} /\ Scan(line)
        \/ format = "docx" /\ WordLine(line)
        \/ format = "plain" /\ TextLine(line)
        \/ format = "csv" /\ CsvRow(line)
     /\ UNCHANGED <<format, phase, page>>

\* The end of a scan; the next page of a PDF starts outside any code block.
EndOfText ==
  /\ Emit(FlushAll \o OpenCode) /\ NothingGathered
  /\ inCode' = FALSE /\ code' = <<>>

NextPage ==
  /\ phase = "parse" /\ format = "pdf" /\ page < MaxPages
  /\ EndOfText
  /\ page' = page + 1
  /\ UNCHANGED <<format, phase, lines, fullText>>

EndOfDocument ==
  /\ phase = "parse"
  /\ EndOfText
  /\ phase' = "chunk"
  /\ UNCHANGED <<format, lines, fullText, page>>

ParserInit ==
  /\ format \in Format
  /\ phase = "parse" /\ page = 1
  /\ lines = <<>> /\ fullText = <<>> /\ blocks = <<>> /\ code = <<>> /\ inCode = FALSE
  /\ paragraph = <<>> /\ table = <<>> /\ list = <<>>

ParserNext ==
  \/ \E k \in Kinds[format] : ReadLine(k)
  \/ NextPage \/ EndOfDocument
=============================================================================
