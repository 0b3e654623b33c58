---------------------------- MODULE ChunkAssembler ----------------------------
(***************************************************************************)
(* DocumentAssembler.chunk_document (documents/chunkers/assembler.py): the     *)
(* blocks of a document, one at a time, into chunks.  Blocks are buffered       *)
(* until the next one would exceed max_chunk_size; a chunk then starts with     *)
(* the end of the one before it (overlap), except after a section break.  A      *)
(* block above the limit is split by its lines, one piece at a time.             *)
(*                                                                         *)
(* A heading is named by its line.  char_start, char_end, token_count and the    *)
(* descriptive metadata are left out: nothing of the assembly depends on them.   *)
(* chunk_index is the place in chunks.                                          *)
(***************************************************************************)
EXTENDS ContentBlocks

CONSTANTS MaxChunk,      \* max_chunk_size
          Overlap,       \* overlap_size
          SectionBreak   \* section_break_level, 3 of 6; 0 when no heading breaks

ASSUME SizeAssumption ==
  MaxChunk \in Nat /\ Overlap \in Nat /\ SectionBreak \in 0..NumLevels

VARIABLES given,     \* the blocks: those of the parser, or paragraphs of full_text
          taken,     \* how many of them the loop is done with
          cut,       \* how many lines of an oversized block are in chunks
          headings,  \* active_headings: the line of the title of each level, 0 if none
          buffer, pages,  \* buffered_blocks, buffered_pages
          trail,     \* buffered_heading_trail: those titles when it was taken
          chunks     \* results

assemblerVars == <<given, taken, cut, headings, buffer, pages, trail, chunks>>

\* current_page: a document has page numbers on all its blocks or on none
PageOf(b) == IF b.page = 0 THEN 1 ELSE b.page

-----------------------------------------------------------------------------
(* Headings. *)

\* Variant: deeper headings stay when a section begins.
EnteredOnly(b) == [headings EXCEPT ![b.level] = b.text[1].n]
Entered(b) ==
  [l \in Levels |-> IF l = b.level THEN b.text[1].n ELSE IF l > b.level THEN 0 ELSE headings[l]]

\* current_trail lists the titles there are in the order of their levels: a trail
\* is empty when no level has a title.
NoTrail == [l \in Levels |-> 0]

-----------------------------------------------------------------------------
(* flush_buffer and _compute_block_overlap. *)

Chunk(parts, t, p) == [parts |-> parts, trail |-> t, pages |-> p]

\* No chunk of an empty buffer
Flush(t) == IF buffer = <<>> THEN <<>> ELSE <<Chunk(Texts(buffer), t, pages)>>

\* Variant: any block may be repeated.
RepeatableAny(b) == TRUE
Repeatable(b) == b.type \notin {"table", "code", "heading", "formula"}

TailFrom(k) == SubSeq(buffer, k, Len(buffer))
MayRepeatFrom(k) ==
  /\ \A i \in k..Len(buffer) : Repeatable(buffer[i])
  /\ TotalTokens(Texts(TailFrom(k))) <= Overlap

\* The longest tail of the buffer that may be repeated and fits the overlap
Retained == TailFrom(Min({k \in 1..Len(buffer) + 1 : MayRepeatFrom(k)}))

\* Variant: the pages of the whole buffer stay.
RetainedPagesAll == pages
RetainedPages == {Retained[i].page : i \in DOMAIN Retained} \ {0}

-----------------------------------------------------------------------------
(* One block. *)

IsHeading(b) == b.type = "heading"

EmptyBuffer == buffer' = <<>> /\ pages' = {}

\* Variant: the tail of a section is repeated in the next one.
SectionBreaksWithOverlap(b) ==
  /\ IsHeading(b) /\ b.level <= SectionBreak
  /\ headings' = Entered(b) /\ trail' = headings'
  /\ chunks' = chunks \o Flush(trail)
  /\ buffer' = Retained /\ pages' = RetainedPages
\* Its title goes into the trail only.
SectionBreaks(b) ==
  /\ IsHeading(b) /\ b.level <= SectionBreak
  /\ headings' = Entered(b) /\ trail' = headings'
  /\ chunks' = chunks \o Flush(trail)
  /\ EmptyBuffer

\* Buffered whatever its size.
MinorHeading(b) ==
  /\ IsHeading(b) /\ b.level > SectionBreak
  /\ headings' = Entered(b)
  /\ trail' = IF buffer = <<>> \/ trail = NoTrail THEN headings' ELSE trail
  /\ buffer' = Append(buffer, b) /\ pages' = pages \cup {PageOf(b)}
  /\ UNCHANGED chunks

TrailInForce == IF trail = NoTrail THEN headings ELSE trail
IsLarge(b) == Tokens(b.text) > MaxChunk

\* Variant: only a buffer that is over the limit is flushed.
ExceedsLate(b) == buffer # <<>> /\ TotalTokens(Texts(buffer)) > MaxChunk
Exceeds(b) == buffer # <<>> /\ TotalTokens(Texts(buffer)) + Tokens(b.text) > MaxChunk

BodyBlock(b) ==
  /\ ~IsHeading(b) /\ ~IsLarge(b)
  /\ IF Exceeds(b)
     THEN /\ chunks' = chunks \o Flush(TrailInForce)
          /\ buffer' = Append(Retained, b) /\ pages' = RetainedPages \cup {PageOf(b)}
     ELSE /\ UNCHANGED chunks
          /\ buffer' = Append(buffer, b) /\ pages' = pages \cup {PageOf(b)}
  /\ trail' = TrailInForce
  /\ UNCHANGED headings

NextBlock(b) ==
  /\ phase = "assemble"
  /\ SectionBreaks(b) \/ MinorHeading(b) \/ BodyBlock(b)
  /\ taken' = taken + 1
  /\ UNCHANGED <<blocks, phase, given, cut>>

-----------------------------------------------------------------------------
(* _split_large_block. *)

\* lines[0].startswith("|"): only a table from markdown repeats its header.
HasHeader(b) == b.type = "table" /\ Len(b.text) > 2 /\ b.text[1].kind = "row"
Header(b) == IF HasHeader(b) THEN SubSeq(b.text, 1, 2) ELSE <<>>

\* The flush clears the trail, and the pieces carry what is left of it.
LargeBlock(b) ==
  /\ phase = "assemble"
  /\ ~IsHeading(b) /\ IsLarge(b)
  /\ chunks' = chunks \o Flush(TrailInForce)
  /\ trail' = IF buffer = <<>> THEN TrailInForce ELSE NoTrail
  /\ EmptyBuffer
  /\ phase' = "split" /\ cut' = Len(Header(b))
  /\ UNCHANGED <<blocks, given, taken, headings>>

\* Lines are gathered while they fit, and at least one; a paragraph was joined
\* with spaces and is one line.
LinesTokens(text) == TotalTokens([i \in DOMAIN text |-> <<text[i]>>])
PieceEnds(b) ==
  IF b.type = "paragraph" THEN {Len(b.text)}
  ELSE {m \in cut + 1..Len(b.text) :
          \/ m = cut + 1
          \/ Tokens(Header(b)) + LinesTokens(SubSeq(b.text, cut + 1, m)) <= MaxChunk}

NextPiece(b) ==
  LET end == Max(PieceEnds(b))
      piece == Header(b) \o SubSeq(b.text, cut + 1, end)
  IN /\ phase = "split"
     /\ chunks' = Append(chunks, Chunk(<<piece>>, trail, {PageOf(b)}))
     /\ IF end < Len(b.text)
        THEN cut' = end /\ UNCHANGED <<phase, taken, trail>>
        ELSE /\ phase' = "assemble" /\ cut' = 0
             /\ taken' = taken + 1
             /\ trail' = headings
     /\ UNCHANGED <<blocks, given, headings, buffer, pages>>

-----------------------------------------------------------------------------
\* Variant: what is buffered at the end is dropped.
LastChunkDropped == <<>>
LastChunk == Flush(trail)

Finish ==
  /\ phase = "assemble" /\ taken = Len(given)
  /\ chunks' = chunks \o LastChunk
  /\ EmptyBuffer /\ trail' = NoTrail
  /\ phase' = "done"
  /\ UNCHANGED <<blocks, given, taken, cut, headings>>

AssemblerInit ==
  /\ given = <<>> /\ taken = 0 /\ cut = 0
  /\ buffer = <<>> /\ pages = {} /\ chunks = <<>>
  /\ headings = NoTrail /\ trail = NoTrail

AssemblerNext ==
  \/ /\ taken < Len(given)
     /\ LET b == given[taken + 1] IN NextBlock(b) \/ LargeBlock(b) \/ NextPiece(b)
  \/ Finish
=============================================================================
