---------------------------- MODULE ContentBlocks ----------------------------
(***************************************************************************)
(* What the parsers hand to the chunk assembler (documents/parsers/types.py). *)
(* A line is its place in the document and what kind of line it is; a block   *)
(* is the sequence of its lines.  The estimate of tokens is the code's, with   *)
(* Weight[k] = 26 * words + 5 * characters of a line of kind k:                 *)
(* int((1.3 * words + characters / 4) / 2) is the weight divided by 40.        *)
(***************************************************************************)
EXTENDS Integers, Sequences, FiniteSetsExt

CONSTANTS Weight,    \* of a line of each kind; 0 when it has no word
          NumLevels  \* bound: levels of headings, 6 in Markdown

ASSUME WeightAssumption == \A k \in DOMAIN Weight : Weight[k] \in Nat
ASSUME LevelsAssumption == NumLevels \in Nat \ {0}

Levels == 1..NumLevels

VARIABLES blocks,  \* ParseResult.blocks
          phase    \* parse, chunk, assemble, split or done

BlockType == {"heading", "paragraph", "table", "code", "list", "formula"}

\* page 0: None
Block(type, level, page, text) ==
  [type |-> type, level |-> level, page |-> page, text |-> text]

\* The sum of a sequence of numbers
Total(f) ==
  LET sum[i \in 0..Len(f)] == IF i = 0 THEN 0 ELSE sum[i - 1] + f[i]
  IN sum[Len(f)]

\* Lines of a text are joined by one character.
TextWeight(text) ==
  Total([i \in DOMAIN text |-> Weight[text[i].kind]]) + 5 * (Len(text) - 1)

\* estimate_tokens
Tokens(text) ==
  LET estimate == TextWeight(text) \div 40
  IN IF \A i \in DOMAIN text : Weight[text[i].kind] = 0 THEN 0
     ELSE IF estimate > 1 THEN estimate ELSE 1

TotalTokens(texts) == Total([i \in DOMAIN texts |-> Tokens(texts[i])])

Texts(q) == [i \in DOMAIN q |-> q[i].text]

\* The places in the document of the lines of a text
LineNumbers(text) == {text[i].n : i \in DOMAIN text}
=============================================================================
