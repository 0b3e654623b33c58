--------------------------- MODULE MCTextPipeline ---------------------------
(* Documents of five lines, with sections in sections and headings below them.  *)
(* A line with words is one token, two lines joined are three and three are       *)
(* four, so that three blocks of a line fill a chunk and a paragraph or a table      *)
(* of three lines is too large for one.  Formulas and list items that go on are read  *)
(* on the pages of a PDF, where an indented line is also prose; sections and tables    *)
(* in Markdown and Word.                                                              *)
EXTENDS TextPipeline

MCLevel == [part |-> 1, section |-> 2, minor |-> 3]

All == {"blank", "fence", "row", "formula", "item", "indented", "prose"} \cup HeadingKind

MCKinds == [markdown |-> All \ {"formula", "indented"},
            pdf |-> {"fence", "formula", "minor", "item", "indented"},
            docx |-> {"blank", "prose", "cells"} \cup HeadingKind,
            plain |-> {"blank", "prose"}, csv |-> {"blank", "cells", "surplus"}]

MCWeight == [k \in All \cup {"cells", "surplus", "trimmed", "rule"} |->
               CASE k = "blank" -> 0 [] k \in {"fence", "rule"} -> 41 [] OTHER -> 60]
=============================================================================
