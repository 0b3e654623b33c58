---------------------------- MODULE TextPipeline ----------------------------
(***************************************************************************)
(* From the bytes of a document to the texts that are embedded: parse_document *)
(* and select_chunks, as process_document calls them                           *)
(* (documents/services/ingestion_service.py:61-73).                             *)
(***************************************************************************)
EXTENDS DocumentParsers, ChunkAssembler

vars == <<blocks, phase, parserVars, assemblerVars>>

\* Without a block the paragraphs of full_text are used: no two lines of a
\* document without a block belong to one paragraph.
Synthesized == [i \in DOMAIN fullText |-> Block("paragraph", 0, 0, <<fullText[i]>>)]

BeginAssembly ==
  /\ phase = "chunk"
  /\ phase' = "assemble"
  /\ given' = IF blocks = <<>> THEN Synthesized ELSE blocks
  /\ UNCHANGED <<blocks, parserVars, taken, cut, headings, buffer, pages, trail, chunks>>

Init == ParserInit /\ AssemblerInit

Next ==
  \/ ParserNext /\ UNCHANGED assemblerVars
  \/ BeginAssembly
  \/ AssemblerNext /\ UNCHANGED parserVars

Spec == Init /\ [][Next]_vars

-----------------------------------------------------------------------------
(* Parsing. *)

\* A line that is repeated says nothing new: the rule under a table's header, and
\* the header of a CSV file, which every batch begins with.
IsRepeated(l) == l.n = 0 \/ (format = "csv" /\ l.n = 1)

\* Lines that say something.  What a fence says, and what the rows of a CSV file say
\* whose first line is blank, is lost.
Content ==
  {i \in DOMAIN lines : /\ lines[i].kind \notin {"blank", "fence"} /\ ~IsRepeated(lines[i])
                        /\ format = "csv" => lines[1].kind # "blank"}

\* Line i as it is kept: whole, but for the cells of a CSV row without a column of
\* their own
Kept(i) ==
  IF format = "csv" /\ i > 1 THEN [n |-> i, kind |-> RowKind(lines[1].kind, lines[i].kind)]
  ELSE lines[i]

\* Everything read so far: blocks, then what is gathered
ReadSoFar == Texts(blocks) \o <<paragraph, table, list, code>>

(* Parsing keeps every line that says something once and in order, through tables *)
(* that interrupt lists, code blocks that nobody closes and pages that end in      *)
(* the middle of either; and keeps it whole, or of a CSV row the cells that have a   *)
(* column of their own, in whatever batch the row is (markdown_scanner.py:64-229,     *)
(* docx.py:44-92, parsers/__init__.py:31-85).                                         *)
LinesKept ==
  /\ \A n \in Content : \E i \in DOMAIN ReadSoFar :
       \E a \in DOMAIN ReadSoFar[i] : ReadSoFar[i][a] = Kept(n)
  /\ \A i, j \in DOMAIN ReadSoFar :
       \A a \in DOMAIN ReadSoFar[i], b \in DOMAIN ReadSoFar[j] :
         LET l == ReadSoFar[i][a]
             m == ReadSoFar[j][b]
         IN (i < j \/ (i = j /\ a < b)) /\ ~IsRepeated(l) /\ ~IsRepeated(m) => l.n < m.n

-----------------------------------------------------------------------------
(* Chunking.  What holds of a chunk holds as soon as there is one. *)

Lines(c) == (UNION {LineNumbers(c.parts[k]) : k \in DOMAIN c.parts}) \ {0}
Before(i) == UNION {Lines(chunks[j]) : j \in 1..i - 1}

HeadingsOf(levels) ==
  {blocks[i].text[1].n : i \in {j \in DOMAIN blocks : IsHeading(blocks[j]) /\ blocks[j].level \in levels}}
SectionHeadings == HeadingsOf(1..SectionBreak)
MinorHeadings == HeadingsOf(SectionBreak + 1..NumLevels)

\* The lines of tables, whose header is repeated when they are split or batched
TableHeaders ==
  UNION {{blocks[i].text[k].n : k \in {1, 2} \cap DOMAIN blocks[i].text} :
           i \in {j \in DOMAIN blocks : blocks[j].type = "table"}}

(* Every line that says something is in a chunk, as parsing left it, section titles *)
(* excepted, and a chunk goes on where the one before it stopped: it begins with    *)
(* lines of its end at most, and adds a line, an empty code block, or nothing but    *)
(* the repeated header of a CSV batch that is split (assembler.py:111-172).          *)
ChunksCoverInOrder ==
  /\ phase = "done" => Content \ SectionHeadings \subseteq Before(Len(chunks) + 1)
  /\ \A i \in DOMAIN chunks :
       LET new == Lines(chunks[i]) \ Before(i)
       IN /\ \/ new # {}
             \/ \E k \in DOMAIN chunks[i].parts : chunks[i].parts[k] = <<>>
             \/ \A k \in DOMAIN chunks[i].parts : \A a \in DOMAIN chunks[i].parts[k] :
                  IsRepeated(chunks[i].parts[k][a])
          /\ \A n \in new, m \in Before(i) : m < n

(* What a chunk repeats is the end of the chunk before it, prose or list items     *)
(* within the overlap, or the header of a table (assembler.py:211-236, 250-256).   *)
RepeatsOnlyOverlap ==
  \A i \in DOMAIN chunks :
    LET parts == chunks[i].parts
        again == {k \in DOMAIN parts : LineNumbers(parts[k]) \cap (Before(i) \ TableHeaders) # {}}
    IN \E r \in 0..Len(parts) :
         /\ again = 1..r
         /\ r > 0 => LET last == chunks[i - 1].parts
                     IN r <= Len(last) /\ \A k \in 1..r : parts[k] = last[Len(last) - r + k]
         /\ TotalTokens([k \in 1..r |-> parts[k]]) <= Overlap
         /\ \A k \in again, j \in DOMAIN blocks :
              LineNumbers(parts[k]) \cap LineNumbers(blocks[j].text) # {} =>
                blocks[j].type \in {"paragraph", "list"}

(* No chunk spans the beginning of a section (assembler.py:101-104, 124-127).      *)
SectionsApart ==
  \A i \in DOMAIN chunks, h \in SectionHeadings :
    (\A n \in Lines(chunks[i]) : n < h) \/ (\A n \in Lines(chunks[i]) : n > h)

(* A chunk is within max_chunk_size, plus an overlap and the minor headings that    *)
(* are buffered unchecked, or it is a piece of a block: the header of the table and  *)
(* lines that fit, or one line that cannot be split (assembler.py:141, 148-170,       *)
(* 258-333).                                                                          *)
ChunksWithinLimit ==
  \A i \in DOMAIN chunks :
    LET parts == chunks[i].parts
        Body(k) == IF LineNumbers(parts[k]) \cap MinorHeadings # {} THEN 0 ELSE Tokens(parts[k])
    IN \/ Total([k \in DOMAIN parts |-> Body(k)]) <= MaxChunk + Overlap
       \/ /\ Len(parts) = 1
          /\ \/ \A a \in DOMAIN parts[1] : parts[1][a].kind \in {"prose", "indented"}
             \/ \E h \in {0, 2} :
                  LET header == SubSeq(parts[1], 1, h)
                      others == SubSeq(parts[1], h + 1, Len(parts[1]))
                  IN /\ h = 0 \/ LineNumbers(header) \subseteq TableHeaders
                     /\ Len(others) = 1 \/ Tokens(header) + LinesTokens(others) <= MaxChunk

\* The title of level l that is in force at line n, if any: none of its level or of
\* a higher one comes in between.
InForce(l, n) ==
  {h \in HeadingsOf({l}) : h < n /\ \A g \in HeadingsOf(1..l) : g <= h \/ g > n}

\* Block j is too large, and there is text of its section before it that is not.
Buffered(b) == IF IsHeading(b) THEN b.level > SectionBreak ELSE ~IsLarge(b)
CutsBuffer(j) ==
  ~IsHeading(blocks[j]) /\ IsLarge(blocks[j]) /\ j > 1 /\ Buffered(blocks[j - 1])

(* The heading trail of a chunk has, of every level that breaks sections, the title *)
(* in force at each of its lines, and of a deeper level a title of that section that *)
(* is not below the chunk.  It is missing only when no heading came before, or on the *)
(* pieces of a block that was too large when text of its section was buffered          *)
(* (assembler.py:57-59, 101-104, 111-158).                                             *)
TrailIsOfSection ==
  \A i \in {j \in DOMAIN chunks : Lines(chunks[j]) # {}} :
    LET titles == chunks[i].trail
        lines_ == Lines(chunks[i])
    IN IF titles = NoTrail
       THEN \/ \A h \in HeadingsOf(Levels), n \in lines_ : n < h
            \/ \E j \in DOMAIN blocks :
                 CutsBuffer(j) /\ lines_ \subseteq LineNumbers(blocks[j].text)
       ELSE /\ \A l \in 1..SectionBreak, n \in lines_ : {titles[l]} \ {0} = InForce(l, n)
            /\ \A l \in SectionBreak + 1..NumLevels : titles[l] # 0 =>
                 /\ titles[l] \in HeadingsOf({l})
                 /\ \E n \in lines_ : titles[l] <= n
                 /\ \A s \in SectionHeadings, n \in lines_ : s < n => s < titles[l]

(* The pages of a chunk are those its text is on, also of the part it repeats;       *)
(* an empty code block counts for its page (assembler.py:136-140, 166-169, 226-236). *)
PagesAreOfText ==
  \A i \in {j \in DOMAIN chunks : Lines(chunks[j]) # {}} :
    LET from == {j \in DOMAIN blocks : LineNumbers(blocks[j].text) \cap Lines(chunks[i]) # {}}
    IN blocks # <<>> /\ (\A j \in DOMAIN blocks : blocks[j].text # <<>>) =>
         chunks[i].pages = {PageOf(blocks[j]) : j \in from}
=============================================================================
