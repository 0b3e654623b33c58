-------------------------- MODULE TextPipelineProofs --------------------------
(***************************************************************************)
(* Parsing and chunking, for documents of any length and format, any weights   *)
(* of lines and limits, any number of heading levels and any section break among *)
(* them: every invariant of TextPipeline follows from one that is inductive.      *)
(* Parsing: the blocks and what is gathered hold the lines that were read, in      *)
(* order (ParserInv), and whole but for cells of a CSV row without a column         *)
(* (Whole).  Assembling: every chunk is made of blocks that follow each other, or    *)
(* of lines of one block that do, and the chunks together have what was taken         *)
(* (AssemblerInv).                                                                     *)
(***************************************************************************)
EXTENDS TextPipeline, SequenceTheorems, WellFoundedInduction, TLAPS

-----------------------------------------------------------------------------
(* Sums.  An induction over a sequence is a least counterexample. *)

\* s[i] is the sum of the first i numbers of f.
IsSum(s, f, n) == \A i \in 0..n : s[i] = IF i = 0 THEN 0 ELSE s[i - 1] + f[i]

\* A set of numbers has a least one: what stands for induction here.
LEMMA NatMin ==
  ASSUME NEW S \in SUBSET Nat, S # {}
  PROVE  \E n \in S : \A m \in S : n <= m
<1>1. PICK n \in S : \A m \in S : ~ (<<m, n>> \in OpToRel(<, Nat))
  BY NatLessThanWellFounded, WFMin
<1>2. \A m \in S : ~ (m < n)
  BY <1>1 DEF OpToRel
<1> QED BY <1>2

\* Every sequence of numbers has its partial sums.
LEMMA SumExists ==
  ASSUME NEW f \in Seq(Nat)
  PROVE  \E s \in [0..Len(f) -> Nat] : IsSum(s, f, Len(f))
<1> DEFINE Sums(n) == \E s \in [0..n -> Nat] : IsSum(s, f, n)
           Bad == {n \in 0..Len(f) : ~Sums(n)}
<1>1. Sums(0)
  <2> DEFINE s == [i \in 0..0 |-> 0]
  <2>1. s \in [0..0 -> Nat] /\ IsSum(s, f, 0)
    BY DEF IsSum
  <2> QED BY <2>1
<1>2. ASSUME NEW n \in 0..Len(f), n # Len(f), Sums(n) PROVE Sums(n + 1)
  <2>1. PICK s \in [0..n -> Nat] : IsSum(s, f, n)
    BY <1>2
  <2> DEFINE t == [i \in 0..n + 1 |-> IF i = n + 1 THEN s[n] + f[n + 1] ELSE s[i]]
  <2>2. f[n + 1] \in Nat
    BY <1>2
  <2>3. t \in [0..n + 1 -> Nat]
    BY <2>2, <1>2
  <2>4. IsSum(t, f, n + 1)
    <3> SUFFICES ASSUME NEW i \in 0..n + 1
                 PROVE  t[i] = IF i = 0 THEN 0 ELSE t[i - 1] + f[i]
      BY DEF IsSum
    <3>1. n \in Nat
      OBVIOUS
    <3>2. CASE i = n + 1
      <4>1. n \in 0..n + 1 /\ n + 1 \in 0..n + 1 /\ n # n + 1 /\ (n + 1) - 1 = n /\ n + 1 # 0
        BY <3>1
      <4> QED BY <3>2, <4>1
    <3>3. CASE i # n + 1
      <4>1. i \in 0..n
        BY <3>1, <3>3
      <4>2. i # 0 => i - 1 \in 0..n /\ i - 1 # n + 1
        BY <3>1, <4>1
      <4>3. s[i] = IF i = 0 THEN 0 ELSE s[i - 1] + f[i]
        BY <2>1, <4>1 DEF IsSum
      <4>4. t[i] = s[i] /\ (i # 0 => t[i - 1] = s[i - 1])
        BY <3>3, <4>1, <4>2, <3>1
      <4> QED BY <4>3, <4>4
    <3> QED BY <3>2, <3>3
  <2> QED BY <2>3, <2>4
<1>3. Bad = {}
  <2> SUFFICES ASSUME Bad # {} PROVE FALSE
    OBVIOUS
  <2>0. Bad \in SUBSET Nat
    OBVIOUS
  <2> HIDE DEF Bad
  <2>1. PICK n \in Bad : \A m \in Bad : n <= m
    BY <2>0, NatMin
  <2>2. n \in 0..Len(f) /\ ~Sums(n) /\ n # 0
    BY <1>1 DEF Bad
  <2>3. n - 1 \in 0..Len(f) /\ n - 1 # Len(f) /\ n - 1 \notin Bad
    BY <2>1, <2>2
  <2>4. Sums((n - 1) + 1)
    BY <1>2, <2>3 DEF Bad
  <2>5. (n - 1) + 1 = n
    BY <2>2
  <2> HIDE DEF Sums
  <2> QED BY <2>2, <2>4, <2>5
<1>4. Sums(Len(f))
  <2>1. Len(f) \in 0..Len(f)
    OBVIOUS
  <2> HIDE DEF Sums
  <2> QED BY <1>3, <2>1
<1> QED BY <1>4

\* The partial sums depend on nothing but the numbers.
LEMMA SumUnique ==
  ASSUME NEW f, NEW g, NEW s, NEW t, NEW n \in Nat,
         IsSum(s, f, n), IsSum(t, g, n),
         \A i \in 1..n : f[i] = g[i]
  PROVE  s[n] = t[n]
<1> DEFINE Bad == {i \in 0..n : s[i] # t[i]}
<1>0. Bad \in SUBSET Nat
  OBVIOUS
<1>3. Bad = {}
  <2> SUFFICES ASSUME Bad # {} PROVE FALSE
    OBVIOUS
  <2> HIDE DEF Bad
  <2>1. PICK i \in Bad : \A m \in Bad : i <= m
    BY <1>0, NatMin
  <2>2. i \in 0..n /\ s[i] # t[i]
    BY DEF Bad
  <2>3. i # 0
    BY <2>2 DEF IsSum
  <2>4. i - 1 \in 0..n /\ i - 1 \notin Bad
    BY <2>1, <2>2, <2>3
  <2>5. s[i - 1] = t[i - 1]
    BY <2>4 DEF Bad
  <2>6. f[i] = g[i]
    BY <2>2, <2>3
  <2> QED BY <2>2, <2>3, <2>5, <2>6 DEF IsSum
<1>4. n \in 0..n
  OBVIOUS
<1> QED BY <1>3, <1>4

\* Total is the last of the partial sums.
LEMMA TotalIsSum ==
  ASSUME NEW f \in Seq(Nat)
  PROVE  \E s \in [0..Len(f) -> Nat] : IsSum(s, f, Len(f)) /\ Total(f) = s[Len(f)]
<1>1. PICK s \in [0..Len(f) -> Nat] : IsSum(s, f, Len(f))
  BY SumExists
<1> DEFINE u == CHOOSE sum : sum = [i \in 0..Len(f) |-> IF i = 0 THEN 0 ELSE sum[i - 1] + f[i]]
<1>2. s = [i \in 0..Len(f) |-> IF i = 0 THEN 0 ELSE s[i - 1] + f[i]]
  BY <1>1 DEF IsSum
<1>3. IsSum(u, f, Len(f))
  BY <1>2 DEF IsSum
<1>4. Total(f) = u[Len(f)]
  BY DEF Total
<1>5. Len(f) \in Nat
  OBVIOUS
<1>6. u[Len(f)] = s[Len(f)]
  <2> HIDE DEF u
  <2> QED BY <1>1, <1>3, <1>5, SumUnique
<1> QED BY <1>1, <1>4, <1>6

\* Nothing amounts to nothing.
LEMMA TotalEmpty == Total(<<>>) = 0
<1>1. <<>> \in Seq(Nat) /\ Len(<<>>) = 0
  OBVIOUS
<1>2. PICK s \in [0..Len(<<>>) -> Nat] : IsSum(s, <<>>, Len(<<>>)) /\ Total(<<>>) = s[Len(<<>>)]
  BY <1>1, TotalIsSum
<1> QED BY <1>1, <1>2 DEF IsSum

\* A number that is added to a sequence is added to its total.
LEMMA TotalAppend ==
  ASSUME NEW f \in Seq(Nat), NEW x \in Nat
  PROVE  Total(Append(f, x)) = Total(f) + x
<1> DEFINE g == Append(f, x)
<1>1. g \in Seq(Nat) /\ Len(g) = Len(f) + 1 /\ g[Len(f) + 1] = x /\ \A i \in 1..Len(f) : g[i] = f[i]
  OBVIOUS
<1>0. Len(f) \in Nat
  OBVIOUS
<1> HIDE DEF g
<1>2. PICK s \in [0..Len(f) -> Nat] : IsSum(s, f, Len(f)) /\ Total(f) = s[Len(f)]
  BY TotalIsSum
<1>3. PICK t \in [0..Len(g) -> Nat] : IsSum(t, g, Len(g)) /\ Total(g) = t[Len(g)]
  BY <1>1, TotalIsSum
<1>4. IsSum(t, g, Len(f)) /\ t[Len(g)] = t[Len(f)] + x
  BY <1>1, <1>3 DEF IsSum
<1>5. t[Len(f)] = s[Len(f)]
  <2> DEFINE n == Len(f)
  <2>1. n \in Nat /\ IsSum(s, f, n) /\ IsSum(t, g, n) /\ \A i \in 1..n : f[i] = g[i]
    BY <1>0, <1>1, <1>2, <1>4
  <2> HIDE DEF n
  <2>2. s[n] = t[n]
    BY <2>1, SumUnique
  <2> QED BY <2>2 DEF n
<1> QED BY <1>2, <1>3, <1>4, <1>5 DEF g

\* A total of natural numbers is one.
LEMMA TotalNat ==
  ASSUME NEW f \in Seq(Nat)
  PROVE  Total(f) \in Nat
BY TotalIsSum

\* Smaller numbers have a smaller total.
LEMMA TotalMonotone ==
  ASSUME NEW f \in Seq(Nat), NEW g \in Seq(Nat), Len(f) = Len(g),
         \A i \in 1..Len(f) : f[i] <= g[i]
  PROVE  Total(f) <= Total(g)
<1>1. PICK s \in [0..Len(f) -> Nat] : IsSum(s, f, Len(f)) /\ Total(f) = s[Len(f)]
  BY TotalIsSum
<1>2. PICK t \in [0..Len(g) -> Nat] : IsSum(t, g, Len(g)) /\ Total(g) = t[Len(g)]
  BY TotalIsSum
<1> DEFINE Bad == {i \in 0..Len(f) : s[i] > t[i]}
<1>3. Bad \in SUBSET Nat
  OBVIOUS
<1>4. Bad = {}
  <2> SUFFICES ASSUME Bad # {} PROVE FALSE
    OBVIOUS
  <2> HIDE DEF Bad
  <2>1. PICK i \in Bad : \A m \in Bad : i <= m
    BY <1>3, NatMin
  <2>2. i \in 0..Len(f) /\ s[i] > t[i]
    BY DEF Bad
  <2>3. i # 0
    BY <2>2, <1>1, <1>2 DEF IsSum
  <2>4. i - 1 \in 0..Len(f) /\ i - 1 \notin Bad
    BY <2>1, <2>2, <2>3
  <2>5. s[i - 1] \in Nat /\ t[i - 1] \in Nat
    BY <2>4, <1>1, <1>2
  <2>8. s[i - 1] <= t[i - 1]
    BY <2>4, <2>5 DEF Bad
  <2>6. s[i] = s[i - 1] + f[i] /\ t[i] = t[i - 1] + g[i]
    BY <2>2, <2>3, <1>1, <1>2 DEF IsSum
  <2>7. f[i] \in Nat /\ g[i] \in Nat /\ f[i] <= g[i]
    BY <2>2, <2>3
  <2> QED BY <2>2, <2>5, <2>6, <2>7, <2>8
<1>5. Len(f) \in 0..Len(f)
  OBVIOUS
<1> QED BY <1>1, <1>2, <1>4, <1>5

-----------------------------------------------------------------------------
(* Parsing: what is in the blocks and what is gathered. *)

Line == [n : Nat, kind : DOMAIN Weight]
Rep(f, l) == l.n = 0 \/ (f = "csv" /\ l.n = 1)

Increasing(f, t) ==
  \A a, b \in DOMAIN t : a < b /\ ~Rep(f, t[a]) /\ ~Rep(f, t[b]) => t[a].n < t[b].n
Precede(f, t, u) ==
  \A a \in DOMAIN t, b \in DOMAIN u : ~Rep(f, t[a]) /\ ~Rep(f, u[b]) => t[a].n < u[b].n

TextOK(f, type, t) ==
  /\ t \in Seq(Line)
  /\ \A a \in DOMAIN t : t[a].n = 0 => type = "table" /\ a = 2
  /\ f = "csv" => /\ t # <<>> => type \in {"table", "paragraph"} /\ t[1].n = 1
                  /\ \A a \in DOMAIN t : t[a].n = 1 => a = 1
                  /\ t # <<>> /\ type = "table" => \E a \in DOMAIN t : ~Rep(f, t[a])
  /\ type = "heading" => Len(t) = 1
  /\ type = "paragraph" =>
       Len(t) = 1 \/ \A a \in DOMAIN t : t[a].kind \in {"prose", "indented"}

BlockSet == [type : BlockType, level : Nat, page : Nat, text : Seq(Line)]

BlockOK(f, b) ==
  /\ b \in BlockSet
  /\ TextOK(f, b.type, b.text) /\ Increasing(f, b.text)
  /\ b.text = <<>> => b.type = "code"
  /\ b.type = "heading" => b.level \in Levels

Parsed(f, bs, t, top) ==
  /\ bs \in Seq(BlockSet)
  /\ \A i \in DOMAIN bs : BlockOK(f, bs[i]) /\ (bs[i].page = 0 <=> f # "pdf")
  /\ \A i, j \in DOMAIN bs : i < j => Precede(f, bs[i].text, bs[j].text)
  /\ \A i \in DOMAIN bs : Precede(f, bs[i].text, t)
  /\ \A i \in DOMAIN bs : \A a \in DOMAIN bs[i].text : bs[i].text[a].n <= top
  /\ t \in Seq(Line) /\ Increasing(f, t)
  /\ \A a \in DOMAIN t : t[a].n <= top

Covered(bs, t) == (UNION {LineNumbers(bs[i].text) : i \in DOMAIN bs}) \cup LineNumbers(t)

Pending == IF paragraph # <<>> THEN paragraph
           ELSE IF table # <<>> THEN table ELSE IF list # <<>> THEN list ELSE code

Gathered ==
  /\ TextOK(format, "paragraph", paragraph) /\ TextOK(format, "table", table)
  /\ TextOK(format, "list", list) /\ TextOK(format, "code", code)
  /\ \A a \in DOMAIN paragraph : paragraph[a].kind \in {"prose", "indented"}
  /\ paragraph # <<>> => table = <<>> /\ list = <<>>
  /\ table # <<>> => list = <<>>
  /\ inCode => paragraph = <<>> /\ table = <<>> /\ list = <<>>
  /\ ~inCode => code = <<>>
  /\ format \notin {"markdown", "pdf"} => ~inCode
  /\ format = "csv" => paragraph = <<>> /\ list = <<>>
  /\ format = "docx" => list = <<>>
  /\ format = "plain" => table = <<>> /\ list = <<>>

FullText ==
  /\ fullText \in Seq(Line)
  /\ \A i \in DOMAIN fullText : fullText[i].n \in 1..Len(lines)
  /\ \A i, j \in DOMAIN fullText : i < j => fullText[i].n < fullText[j].n
  /\ format = "csv" /\ blocks = <<>> /\ table = <<>> => \A i \in DOMAIN fullText : fullText[i].n = 1

ParserInv ==
  /\ format \in Format /\ page \in Nat \ {0} /\ inCode \in BOOLEAN
  /\ phase \in {"parse", "chunk", "assemble", "split", "done"}
  /\ lines \in Seq(Line) /\ \A i \in DOMAIN lines : lines[i].n = i
  /\ Gathered
  /\ FullText
  /\ Parsed(format, blocks, Pending, Len(lines))
  /\ Content \subseteq Covered(blocks, Pending)
  /\ phase # "parse" => Pending = <<>>

\* A line is covered if it is in a block or in what is gathered.
LEMMA InCovered ==
  ASSUME NEW bs, NEW t, NEW n
  PROVE  n \in Covered(bs, t) <=>
           (\E i \in DOMAIN bs : n \in LineNumbers(bs[i].text)) \/ n \in LineNumbers(t)
<1> DEFINE S == {LineNumbers(bs[i].text) : i \in DOMAIN bs}
<1>1. (\E x \in S : n \in x) <=> \E i \in DOMAIN bs : n \in LineNumbers(bs[i].text)
  BY Zenon
<1>2. n \in UNION S <=> \E x \in S : n \in x
  BY Zenon
<1>3. Covered(bs, t) = (UNION S) \cup LineNumbers(t)
  BY DEF Covered
<1> HIDE DEF S
<1> QED BY <1>1, <1>2, <1>3

\* The types of what was parsed
LEMMA ParsedTypes ==
  ASSUME NEW f, NEW bs, NEW t, NEW top \in Nat, Parsed(f, bs, t, top)
  PROVE  /\ bs \in Seq(BlockSet) /\ t \in Seq(Line)
         /\ \A i \in DOMAIN bs : bs[i].text \in Seq(Line)
         /\ \A i \in DOMAIN bs : \A a \in DOMAIN bs[i].text :
              bs[i].text[a].n \in Nat /\ bs[i].text[a].n <= top
         /\ \A a \in DOMAIN t : t[a].n \in Nat /\ t[a].n <= top
<1>1. bs \in Seq(BlockSet) /\ t \in Seq(Line)
  BY DEF Parsed
<1>2. ASSUME NEW u \in Seq(Line), NEW a \in DOMAIN u
      PROVE  u[a].n \in Nat
  <2>1. u[a] \in Line
    BY <1>2
  <2> QED BY <2>1 DEF Line
<1>3. ASSUME NEW i \in DOMAIN bs PROVE bs[i].text \in Seq(Line)
  <2>1. bs[i] \in BlockSet
    BY <1>1, <1>3
  <2> QED BY <2>1 DEF BlockSet
<1> QED BY <1>1, <1>2, <1>3 DEF Parsed

\* What was gathered becomes a block.
LEMMA ParsedFlush ==
  ASSUME NEW f, NEW bs, NEW t, NEW top \in Nat, Parsed(f, bs, t, top),
         NEW b, BlockOK(f, b), b.text = t, b.page = 0 <=> f # "pdf"
  PROVE  Parsed(f, Append(bs, b), <<>>, top) /\ Covered(Append(bs, b), <<>>) = Covered(bs, t)
<1> DEFINE cs == Append(bs, b)
<1>1. bs \in Seq(BlockSet) /\ b \in BlockSet
  BY DEF Parsed, BlockOK
<1>2. cs \in Seq(BlockSet) /\ DOMAIN cs = DOMAIN bs \cup {Len(bs) + 1} /\ Len(bs) \in Nat
      /\ DOMAIN bs = 1..Len(bs) /\ cs[Len(bs) + 1] = b /\ \A i \in DOMAIN bs : cs[i] = bs[i]
  BY <1>1
<1> HIDE DEF cs
<1>3. \A i \in DOMAIN cs : BlockOK(f, cs[i]) /\ (cs[i].page = 0 <=> f # "pdf")
  BY <1>2 DEF Parsed
<1>4. ASSUME NEW i \in DOMAIN cs, NEW j \in DOMAIN cs, i < j
      PROVE  Precede(f, cs[i].text, cs[j].text)
  BY <1>2, <1>4 DEF Parsed
<1>5. \A i \in DOMAIN cs : Precede(f, cs[i].text, <<>>)
  BY DEF Precede
<1>6. \A i \in DOMAIN cs : \A a \in DOMAIN cs[i].text : cs[i].text[a].n <= top
  BY <1>2 DEF Parsed
<1>7. <<>> \in Seq(Line) /\ Increasing(f, <<>>) /\ \A a \in DOMAIN <<>> : <<>>[a].n <= top
  BY DEF Increasing
<1>8. Parsed(f, cs, <<>>, top)
  BY <1>2, <1>3, <1>4, <1>5, <1>6, <1>7 DEF Parsed
<1>9. Covered(cs, <<>>) = Covered(bs, t)
  <2>1. LineNumbers(<<>>) = {}
    BY DEF LineNumbers
  <2>2. ASSUME NEW n
        PROVE  n \in Covered(cs, <<>>) <=> \E i \in DOMAIN cs : n \in LineNumbers(cs[i].text)
    BY <2>1, InCovered
  <2>3. ASSUME NEW n
        PROVE  n \in Covered(bs, t) <=>
                 (\E i \in DOMAIN bs : n \in LineNumbers(bs[i].text)) \/ n \in LineNumbers(t)
    BY InCovered
  <2>4. ASSUME NEW n PROVE n \in Covered(cs, <<>>) <=> n \in Covered(bs, t)
    BY <1>2, <2>2, <2>3
  <2> QED BY <2>4
<1> QED BY <1>8, <1>9 DEF cs

\* Line l goes to the end of the text t, which becomes u.
Longer(f, t, top, l, u, new) ==
  /\ l \in Line /\ u = Append(t, l) /\ top <= new /\ l.n <= new
  /\ l.n = top + 1 \/ (Rep(f, l) /\ l.n <= top)

\* A line is added to what is gathered.
LEMMA ParsedLonger ==
  ASSUME NEW f, NEW bs, NEW t, NEW top \in Nat, Parsed(f, bs, t, top),
         NEW l, NEW u, NEW new \in Nat, Longer(f, t, top, l, u, new)
  PROVE  Parsed(f, bs, u, new) /\ Covered(bs, u) = Covered(bs, t) \cup {l.n}
<1>1. t \in Seq(Line)
  BY DEF Parsed
<1> USE DEF Longer
<1>2. u \in Seq(Line) /\ DOMAIN u = DOMAIN t \cup {Len(t) + 1} /\ Len(t) \in Nat
      /\ DOMAIN t = 1..Len(t) /\ u[Len(t) + 1] = l /\ \A a \in DOMAIN t : u[a] = t[a] /\ t[a] \in Line
  BY <1>1
<1>3. \A i \in DOMAIN bs : \A a \in DOMAIN bs[i].text :
        bs[i].text[a].n \in Nat /\ bs[i].text[a].n <= top
  BY ParsedTypes
<1>4. \A a \in DOMAIN t : t[a].n \in Nat /\ t[a].n <= top
  BY ParsedTypes
<1>5. l.n \in Nat
  BY DEF Line
<1>6. \A i \in DOMAIN bs : Precede(f, bs[i].text, u)
  BY <1>2, <1>3, <1>5 DEF Parsed, Precede
<1>7. Increasing(f, u)
  BY <1>2, <1>4, <1>5 DEF Parsed, Increasing
<1>8. Parsed(f, bs, u, new)
  <2>1. \A a \in DOMAIN u : u[a].n <= new
    BY <1>2, <1>4, <1>5
  <2>2. \A i \in DOMAIN bs : \A a \in DOMAIN bs[i].text : bs[i].text[a].n <= new
    BY <1>3
  <2>3. /\ bs \in Seq(BlockSet)
        /\ \A i \in DOMAIN bs : BlockOK(f, bs[i]) /\ (bs[i].page = 0 <=> f # "pdf")
        /\ \A i, j \in DOMAIN bs : i < j => Precede(f, bs[i].text, bs[j].text)
    BY DEF Parsed
  <2> QED BY <1>2, <1>6, <1>7, <2>1, <2>2, <2>3 DEF Parsed
<1>9. LineNumbers(u) = LineNumbers(t) \cup {l.n}
  BY <1>2 DEF LineNumbers
<1>10. Covered(bs, u) = Covered(bs, t) \cup {l.n}
  <2> SUFFICES ASSUME NEW n PROVE n \in Covered(bs, u) <=> n \in Covered(bs, t) \cup {l.n}
    OBVIOUS
  <2> QED BY <1>9, InCovered
<1> QED BY <1>8, <1>10

\* A line is read that goes nowhere.
LEMMA ParsedTop ==
  ASSUME NEW f, NEW bs, NEW t, NEW top \in Nat, Parsed(f, bs, t, top)
  PROVE  Parsed(f, bs, t, top + 1)
<1>1. \A i \in DOMAIN bs : \A a \in DOMAIN bs[i].text :
        bs[i].text[a].n \in Nat /\ bs[i].text[a].n <= top
  BY ParsedTypes
<1>2. \A a \in DOMAIN t : t[a].n \in Nat /\ t[a].n <= top
  BY ParsedTypes
<1> QED BY <1>1, <1>2 DEF Parsed

-----------------------------------------------------------------------------
\* Flushing what is pending covers the same lines.
LEMMA FlushedText ==
  ASSUME ParserInv, NEW type \in {"paragraph", "table", "list", "code"}, NEW text,
         TextOK(format, type, text), text = Pending
  PROVE  /\ Flushed(type, text) \in Seq(BlockSet)
         /\ Parsed(format, blocks \o Flushed(type, text), <<>>, Len(lines))
         /\ Covered(blocks \o Flushed(type, text), <<>>) = Covered(blocks, Pending)
<1> DEFINE b == Block(type, 0, PageNumber, text)
           top == Len(lines)
<1>1. blocks \in Seq(BlockSet) /\ Parsed(format, blocks, text, top) /\ top \in Nat
      /\ text \in Seq(Line) /\ Increasing(format, text)
  BY DEF ParserInv, Parsed
<1>2. CASE text = <<>>
  <2>1. Flushed(type, text) = <<>> /\ blocks \o <<>> = blocks
    BY <1>1, <1>2 DEF Flushed
  <2>2. blocks \o Flushed(type, text) = blocks /\ Flushed(type, text) \in Seq(BlockSet)
    BY <2>1
  <2>3. Covered(blocks, <<>>) = Covered(blocks, Pending) /\ Parsed(format, blocks, <<>>, Len(lines))
    BY <1>1, <1>2
  <2> QED BY <2>2, <2>3
<1>3. CASE text # <<>>
  <2>1. Flushed(type, text) = <<b>>
    BY <1>3 DEF Flushed
  <2>2. b.type = type /\ b.level = 0 /\ b.text = text /\ b.page = PageNumber
    BY DEF Block
  <2>3. PageNumber \in Nat /\ (PageNumber = 0 <=> format # "pdf")
    BY DEF ParserInv, PageNumber
  <2>4. b \in BlockSet
    BY <1>1, <2>3 DEF Block, BlockSet, BlockType
  <2>5. BlockOK(format, b)
    BY <1>1, <1>3, <2>2, <2>4 DEF BlockOK
  <2> HIDE DEF b
  <2>6. blocks \o <<b>> = Append(blocks, b) /\ <<b>> \in Seq(BlockSet)
    BY <1>1, <2>4
  <2>7. Parsed(format, Append(blocks, b), <<>>, top)
        /\ Covered(Append(blocks, b), <<>>) = Covered(blocks, text)
    BY <1>1, <2>2, <2>3, <2>5, ParsedFlush
  <2>8. Flushed(type, text) \in Seq(BlockSet) /\ blocks \o Flushed(type, text) = Append(blocks, b)
    BY <2>1, <2>6
  <2> QED BY <2>7, <2>8
<1> QED BY <1>2, <1>3

(* What a scan has gathered is in one accumulator: flushing it, whichever it is,   *)
(* leaves nothing pending.                                                         *)
LEMMA FlushingAll ==
  ASSUME ParserInv, code = <<>>
  PROVE  /\ FlushAll \in Seq(BlockSet)
         /\ Parsed(format, blocks \o FlushAll, <<>>, Len(lines))
         /\ Covered(blocks \o FlushAll, <<>>) = Covered(blocks, Pending)
<1> DEFINE p == Flushed("paragraph", paragraph)
           t == Flushed("table", table)
           l == Flushed("list", list)
<1>1. /\ TextOK(format, "paragraph", paragraph) /\ TextOK(format, "table", table)
      /\ TextOK(format, "list", list)
      /\ paragraph # <<>> => table = <<>> /\ list = <<>>
      /\ table # <<>> => list = <<>>
  BY DEF ParserInv, Gathered
<1>2. /\ paragraph = <<>> => p = <<>>
      /\ table = <<>> => t = <<>>
      /\ list = <<>> => l = <<>>
  BY DEF Flushed
<1>3. FlushAll = p \o t \o l
  BY DEF FlushAll
<1>4. CASE paragraph # <<>>
  <2>1. paragraph = Pending
    BY <1>4 DEF Pending
  <2>2. p \in Seq(BlockSet)
    BY <1>1, <2>1, FlushedText
  <2> HIDE DEF p, t, l
  <2>3. FlushAll = p
    BY <1>1, <1>2, <1>3, <1>4, <2>2
  <2> QED BY <1>1, <2>1, <2>3, FlushedText DEF p
<1>5. CASE paragraph = <<>> /\ table # <<>>
  <2>1. table = Pending
    BY <1>5 DEF Pending
  <2>2. t \in Seq(BlockSet)
    BY <1>1, <2>1, FlushedText
  <2> HIDE DEF p, t, l
  <2>3. FlushAll = t
    BY <1>1, <1>2, <1>3, <1>5, <2>2
  <2> QED BY <1>1, <2>1, <2>3, FlushedText DEF t
<1>6. CASE paragraph = <<>> /\ table = <<>>
  <2>1. list = Pending
    BY <1>6 DEF Pending
  <2>2. l \in Seq(BlockSet)
    BY <1>1, <2>1, FlushedText
  <2> HIDE DEF p, t, l
  <2>3. FlushAll = l
    BY <1>2, <1>3, <1>6, <2>2
  <2> QED BY <1>1, <2>1, <2>3, FlushedText DEF l
<1> QED BY <1>4, <1>5, <1>6

\* A block of one line, after everything that was gathered
LEMMA OneLineBlock ==
  ASSUME ParserInv, code = <<>>, NEW line \in Line, line.n = Len(lines) + 1, format # "csv",
         NEW b, b.text = <<line>>, b \in BlockSet, b.type \in {"heading", "formula"},
         b.type = "heading" => b.level \in Levels, b.page = PageNumber
  PROVE  /\ Parsed(format, blocks \o (FlushAll \o <<b>>), <<>>, Len(lines) + 1)
         /\ Covered(blocks \o (FlushAll \o <<b>>), <<>>) =
              Covered(blocks, Pending) \cup {Len(lines) + 1}
<1> DEFINE bs == blocks \o FlushAll
           top == Len(lines)
<1>1. Parsed(format, bs, <<>>, top) /\ Covered(bs, <<>>) = Covered(blocks, Pending)
      /\ FlushAll \in Seq(BlockSet)
  BY FlushingAll
<1>2. blocks \in Seq(BlockSet) /\ top \in Nat
  BY DEF ParserInv, Parsed
<1>3. blocks \o (FlushAll \o <<b>>) = Append(bs, b)
  BY <1>1, <1>2
<1> HIDE DEF bs
<1>4. Append(<<>>, line) = <<line>>
  OBVIOUS
<1>5. Parsed(format, bs, <<line>>, top + 1)
      /\ Covered(bs, <<line>>) = Covered(blocks, Pending) \cup {top + 1}
  <2>1. Longer(format, <<>>, top, line, <<line>>, top + 1) /\ top + 1 \in Nat /\ line.n = top + 1
    BY <1>2, <1>4 DEF Longer
  <2> QED BY <1>1, <1>2, <2>1, ParsedLonger
<1>6. (PageNumber = 0) <=> format # "pdf"
  BY DEF ParserInv, PageNumber
<1>7. TextOK(format, b.type, <<line>>) /\ Increasing(format, <<line>>)
  BY <1>2 DEF TextOK, Increasing
<1>8. BlockOK(format, b)
  BY <1>7 DEF BlockOK
<1>9. top + 1 \in Nat
  BY <1>2
<1>10. Parsed(format, Append(bs, b), <<>>, top + 1)
       /\ Covered(Append(bs, b), <<>>) = Covered(bs, <<line>>)
  BY <1>5, <1>6, <1>8, <1>9, ParsedFlush
<1> QED BY <1>3, <1>5, <1>10

-----------------------------------------------------------------------------
(* One accumulator goes on while the others are flushed. *)

\* Flushing everything but one of the gathered texts leaves that one pending.
LEMMA FlushingOthers ==
  ASSUME ParserInv, code = <<>>
  PROVE  /\ LET bs == blocks \o (Flushed("paragraph", paragraph) \o Flushed("list", list))
            IN Parsed(format, bs, table, Len(lines)) /\ Covered(bs, table) = Covered(blocks, Pending)
         /\ LET bs == blocks \o (Flushed("paragraph", paragraph) \o Flushed("table", table))
            IN Parsed(format, bs, list, Len(lines)) /\ Covered(bs, list) = Covered(blocks, Pending)
         /\ LET bs == blocks \o (Flushed("table", table) \o Flushed("list", list))
            IN /\ Parsed(format, bs, paragraph, Len(lines))
               /\ Covered(bs, paragraph) = Covered(blocks, Pending)
<1> DEFINE p == Flushed("paragraph", paragraph)
           t == Flushed("table", table)
           l == Flushed("list", list)
<1>1. /\ paragraph # <<>> => table = <<>> /\ list = <<>>
      /\ table # <<>> => list = <<>>
      /\ TextOK(format, "paragraph", paragraph) /\ TextOK(format, "table", table)
      /\ TextOK(format, "list", list)
  BY DEF ParserInv, Gathered
<1>2. /\ paragraph = <<>> => p = <<>>
      /\ table = <<>> => t = <<>>
      /\ list = <<>> => l = <<>>
  BY DEF Flushed
<1>3. blocks \in Seq(BlockSet) /\ Parsed(format, blocks, Pending, Len(lines))
  BY DEF ParserInv, Parsed
<1>4. blocks \o (<<>> \o <<>>) = blocks
  BY <1>3
<1>5. Parsed(format, blocks \o FlushAll, <<>>, Len(lines))
      /\ Covered(blocks \o FlushAll, <<>>) = Covered(blocks, Pending)
  BY FlushingAll
<1>6. /\ paragraph # <<>> => p \in Seq(BlockSet) /\ Pending = paragraph
      /\ paragraph = <<>> /\ table # <<>> => t \in Seq(BlockSet) /\ Pending = table
      /\ paragraph = <<>> /\ table = <<>> => l \in Seq(BlockSet) /\ Pending = list
  <2>1. paragraph # <<>> => p \in Seq(BlockSet) /\ Pending = paragraph
    BY <1>1, FlushedText DEF Pending
  <2>2. paragraph = <<>> /\ table # <<>> => t \in Seq(BlockSet) /\ Pending = table
    BY <1>1, FlushedText DEF Pending
  <2>3. paragraph = <<>> /\ table = <<>> => l \in Seq(BlockSet) /\ Pending = list
    BY <1>1, FlushedText DEF Pending
  <2> QED BY <2>1, <2>2, <2>3
<1>7. FlushAll = p \o t \o l
  BY DEF FlushAll
<1> HIDE DEF p, t, l
<1>8. /\ Parsed(format, blocks \o (p \o l), table, Len(lines))
      /\ Covered(blocks \o (p \o l), table) = Covered(blocks, Pending)
  <2>1. CASE table # <<>>
    <3>1. p \o l = <<>> \o <<>> /\ Pending = table
      BY <1>1, <1>2, <1>6, <2>1
    <3> QED BY <1>3, <1>4, <3>1
  <2>2. CASE table = <<>>
    <3>1. p \o l = FlushAll
      BY <1>1, <1>2, <1>6, <1>7, <2>2
    <3> QED BY <1>5, <2>2, <3>1
  <2> QED BY <2>1, <2>2
<1>9. /\ Parsed(format, blocks \o (p \o t), list, Len(lines))
      /\ Covered(blocks \o (p \o t), list) = Covered(blocks, Pending)
  <2>1. CASE list # <<>>
    <3>1. p \o t = <<>> \o <<>> /\ Pending = list
      BY <1>1, <1>2, <1>6, <2>1
    <3> QED BY <1>3, <1>4, <3>1
  <2>2. CASE list = <<>>
    <3>1. p \o t = FlushAll
      BY <1>1, <1>2, <1>6, <1>7, <2>2
    <3> QED BY <1>5, <2>2, <3>1
  <2> QED BY <2>1, <2>2
<1>10. /\ Parsed(format, blocks \o (t \o l), paragraph, Len(lines))
       /\ Covered(blocks \o (t \o l), paragraph) = Covered(blocks, Pending)
  <2>1. CASE paragraph # <<>>
    <3>1. t \o l = <<>> \o <<>> /\ Pending = paragraph
      BY <1>1, <1>2, <1>6, <2>1
    <3> QED BY <1>3, <1>4, <3>1
  <2>2. CASE paragraph = <<>>
    <3>1. t \o l = FlushAll
      BY <1>1, <1>2, <1>6, <1>7, <2>2
    <3> QED BY <1>5, <2>2, <3>1
  <2> QED BY <2>1, <2>2
<1> QED BY <1>8, <1>9, <1>10 DEF p, t, l

-----------------------------------------------------------------------------
(* A line is read. *)

Progress(line) ==
  /\ Gathered' /\ inCode' \in BOOLEAN
  /\ Parsed(format, blocks', Pending', Len(lines) + 1)
  /\ Covered(blocks, Pending) \subseteq Covered(blocks', Pending')
  /\ line.kind \notin {"blank", "fence"} /\ ~Rep(format, line) =>
       Len(lines) + 1 \in Covered(blocks', Pending')
  /\ format = "csv" /\ blocks' = <<>> /\ table' = <<>> =>
       blocks = <<>> /\ table = <<>> /\ (lines = <<>> \/ line.kind = "blank")

\* A line that goes to the end of what is gathered
LEMMA Gathering ==
  ASSUME ParserInv, NEW line \in Line, line.n = Len(lines) + 1,
         NEW bs, NEW t, Parsed(format, bs, t, Len(lines)),
         Covered(bs, t) = Covered(blocks, Pending)
  PROVE  /\ Parsed(format, bs, Append(t, line), Len(lines) + 1)
         /\ Covered(blocks, Pending) \subseteq Covered(bs, Append(t, line))
         /\ Len(lines) + 1 \in Covered(bs, Append(t, line))
         /\ Append(t, line) # <<>>
<1>1. Len(lines) \in Nat /\ Len(lines) + 1 \in Nat /\ t \in Seq(Line)
  BY DEF ParserInv, Parsed
<1>2. Longer(format, t, Len(lines), line, Append(t, line), Len(lines) + 1)
  BY <1>1 DEF Longer
<1>3. /\ Parsed(format, bs, Append(t, line), Len(lines) + 1)
      /\ Covered(bs, Append(t, line)) = Covered(bs, t) \cup {line.n}
  BY <1>1, <1>2, ParsedLonger
<1>4. Append(t, line) # <<>>
  <2> DEFINE u == Append(t, line)
  <2>1. Len(u) = Len(t) + 1 /\ Len(t) \in Nat /\ Len(<<>>) = 0
    BY <1>1
  <2> HIDE DEF u
  <2>2. u # <<>>
    BY <2>1
  <2> QED BY <2>2 DEF u
<1>5. line.n = Len(lines) + 1
  OBVIOUS
<1> HIDE DEF Pending
<1> QED BY <1>3, <1>4, <1>5

\* Outside CSV a text grows by any line of its kind.
LEMMA TextGrows ==
  ASSUME NEW f, f # "csv", NEW type, type # "heading", NEW t, TextOK(f, type, t),
         NEW line \in Line, line.n > 0,
         type = "paragraph" => line.kind \in {"prose", "indented"},
         type = "paragraph" => \A a \in DOMAIN t : t[a].kind \in {"prose", "indented"}
  PROVE  TextOK(f, type, Append(t, line))
<1> DEFINE u == Append(t, line)
<1>1. t \in Seq(Line)
  BY DEF TextOK
<1>2. u \in Seq(Line) /\ DOMAIN u = DOMAIN t \cup {Len(t) + 1} /\ u[Len(t) + 1] = line
      /\ \A a \in DOMAIN t : u[a] = t[a]
  BY <1>1
<1> HIDE DEF u
<1>3. \A a \in DOMAIN u : u[a].n = 0 => type = "table" /\ a = 2
  BY <1>2 DEF TextOK, Line
<1>4. type = "paragraph" => \A a \in DOMAIN u : u[a].kind \in {"prose", "indented"}
  BY <1>2
<1>5. type # "heading"
  OBVIOUS
<1>6. TextOK(f, type, u)
  BY <1>2, <1>3, <1>4, <1>5 DEF TextOK
<1> QED BY <1>6 DEF u

\* After a flush of everything nothing is pending.
LEMMA NothingLeft ==
  ASSUME format' = format, NothingGathered, code' = <<>>, format \notin {"markdown", "pdf"} => ~inCode'
  PROVE  Gathered' /\ Pending' = <<>>
<1>1. \A f : \A type \in {"paragraph", "table", "list", "code"} : TextOK(f, type, <<>>)
  BY DEF TextOK
<1>2. Gathered'
  BY <1>1 DEF NothingGathered, Gathered
<1> QED BY <1>2 DEF NothingGathered, Pending

\* A blank line (markdown_scanner.py, docx.py)
LEMMA BlankStep ==
  ASSUME ParserInv, ~inCode, format # "csv", format' = format,
         NEW line \in Line, line.n = Len(lines) + 1, Blank(line)
  PROVE  Progress(line)
<1>1. code = <<>> /\ Len(lines) \in Nat
  BY DEF ParserInv, Gathered
<1>2. blocks' = blocks \o FlushAll /\ NothingGathered /\ code' = code /\ inCode' = inCode
      /\ line.kind = "blank"
  BY DEF Blank, Emit
<1>3. Gathered' /\ Pending' = <<>>
  BY <1>1, <1>2, NothingLeft
<1>4. Parsed(format, blocks', <<>>, Len(lines)) /\ Covered(blocks', <<>>) = Covered(blocks, Pending)
  BY <1>1, <1>2, FlushingAll
<1>5. Parsed(format, blocks', <<>>, Len(lines) + 1)
  BY <1>1, <1>4, ParsedTop
<1> QED BY <1>2, <1>3, <1>4, <1>5 DEF Progress, ParserInv

\* A formula of one line
LEMMA FormulaStep ==
  ASSUME ParserInv, ~inCode, format # "csv", format' = format,
         NEW line \in Line, line.n = Len(lines) + 1, Formula(line)
  PROVE  Progress(line)
<1> DEFINE b == Block("formula", 0, PageNumber, <<line>>)
<1>1. code = <<>> /\ PageNumber \in Nat
  BY DEF ParserInv, Gathered, PageNumber
<1>2. blocks' = blocks \o (FlushAll \o <<b>>) /\ NothingGathered /\ code' = code /\ inCode' = inCode
  BY DEF Formula, Emit
<1>3. Gathered' /\ Pending' = <<>>
  BY <1>1, <1>2, NothingLeft
<1>4. b \in BlockSet /\ b.text = <<line>> /\ b.type = "formula" /\ b.page = PageNumber
  BY <1>1 DEF Block, BlockSet, BlockType
<1> HIDE DEF b
<1>5. Parsed(format, blocks', <<>>, Len(lines) + 1)
      /\ Covered(blocks', <<>>) = Covered(blocks, Pending) \cup {Len(lines) + 1}
  BY <1>1, <1>2, <1>4, OneLineBlock
<1> QED BY <1>2, <1>3, <1>5 DEF Progress, ParserInv

\* A heading
LEMMA HeadingStep ==
  ASSUME ParserInv, ~inCode, format # "csv", format' = format,
         NEW line \in Line, line.n = Len(lines) + 1, HeadingLine(line)
  PROVE  Progress(line)
<1> DEFINE b == Heading(line)
<1>1. code = <<>> /\ PageNumber \in Nat
  BY DEF ParserInv, Gathered, PageNumber
<1>2. blocks' = blocks \o (FlushAll \o <<b>>) /\ NothingGathered /\ code' = code /\ inCode' = inCode
  BY DEF HeadingLine, Emit
<1>3. Gathered' /\ Pending' = <<>>
  BY <1>1, <1>2, NothingLeft
<1>4. b \in BlockSet /\ b.text = <<line>> /\ b.type = "heading" /\ b.page = PageNumber
      /\ b.level \in Levels
  <2>1. Level[line.kind] \in Levels /\ Level[line.kind] \in Nat
    BY KindsAssumption, LevelsAssumption DEF HeadingLine, Levels
  <2> QED BY <1>1, <2>1 DEF Heading, Block, BlockSet, BlockType
<1> HIDE DEF b
<1>5. Parsed(format, blocks', <<>>, Len(lines) + 1)
      /\ Covered(blocks', <<>>) = Covered(blocks, Pending) \cup {Len(lines) + 1}
  BY <1>1, <1>2, <1>4, OneLineBlock
<1> QED BY <1>2, <1>3, <1>5 DEF Progress, ParserInv

\* A row of a markdown table
LEMMA TableRowStep ==
  ASSUME ParserInv, ~inCode, format \in {"markdown", "pdf"}, format' = format,
         NEW line \in Line, line.n = Len(lines) + 1, TableRow(line)
  PROVE  Progress(line)
<1> DEFINE bs == blocks \o (Flushed("paragraph", paragraph) \o Flushed("list", list))
           t == Append(table, line)
<1>1. code = <<>> /\ Len(lines) \in Nat /\ TextOK(format, "table", table)
  BY DEF ParserInv, Gathered
<1>2. blocks' = bs /\ table' = t /\ paragraph' = <<>> /\ list' = <<>>
      /\ code' = code /\ inCode' = inCode
  BY DEF TableRow, Emit
<1>3. Parsed(format, bs, table, Len(lines)) /\ Covered(bs, table) = Covered(blocks, Pending)
  BY <1>1, FlushingOthers
<1> HIDE DEF bs
<1>4. /\ Parsed(format, bs, t, Len(lines) + 1) /\ Covered(blocks, Pending) \subseteq Covered(bs, t)
      /\ Len(lines) + 1 \in Covered(bs, t) /\ t # <<>>
  BY <1>3, Gathering
<1>5. TextOK(format, "table", t)
  BY <1>1, TextGrows
<1> HIDE DEF t
<1>6. Pending' = t
  BY <1>2, <1>4 DEF Pending
<1>7. \A f : \A type \in {"paragraph", "list", "code"} : TextOK(f, type, <<>>)
  BY DEF TextOK
<1>8. Gathered'
  BY <1>1, <1>2, <1>5, <1>7 DEF Gathered, ParserInv
<1> QED BY <1>2, <1>4, <1>6, <1>8 DEF Progress, ParserInv

\* An item of a list
LEMMA ItemStep ==
  ASSUME ParserInv, ~inCode, format \in {"markdown", "pdf"}, format' = format,
         NEW line \in Line, line.n = Len(lines) + 1, Item(line)
  PROVE  Progress(line)
<1> DEFINE bs == blocks \o (Flushed("paragraph", paragraph) \o Flushed("table", table))
           t == Append(list, line)
<1>1. code = <<>> /\ Len(lines) \in Nat /\ TextOK(format, "list", list)
  BY DEF ParserInv, Gathered
<1>2. blocks' = bs /\ list' = t /\ paragraph' = <<>> /\ table' = <<>>
      /\ code' = code /\ inCode' = inCode
  BY DEF Item, Emit
<1>3. Parsed(format, bs, list, Len(lines)) /\ Covered(bs, list) = Covered(blocks, Pending)
  BY <1>1, FlushingOthers
<1> HIDE DEF bs
<1>4. /\ Parsed(format, bs, t, Len(lines) + 1) /\ Covered(blocks, Pending) \subseteq Covered(bs, t)
      /\ Len(lines) + 1 \in Covered(bs, t) /\ t # <<>>
  BY <1>3, Gathering
<1>5. TextOK(format, "list", t)
  BY <1>1, TextGrows
<1> HIDE DEF t
<1>6. Pending' = t
  BY <1>2, <1>4 DEF Pending
<1>7. \A f : \A type \in {"paragraph", "table", "code"} : TextOK(f, type, <<>>)
  BY DEF TextOK
<1>8. Gathered'
  BY <1>1, <1>2, <1>5, <1>7 DEF Gathered, ParserInv
<1> QED BY <1>2, <1>4, <1>6, <1>8 DEF Progress, ParserInv

\* A line of prose, in any format: the table and the list end where it begins.
LEMMA ParagraphStep ==
  ASSUME ParserInv, ~inCode, format # "csv", format' = format,
         NEW line \in Line, line.n = Len(lines) + 1, line.kind \in {"prose", "indented"},
         blocks' = blocks \o (Flushed("table", table) \o Flushed("list", list)),
         paragraph' = Append(paragraph, line), table' = <<>>, list' = <<>>,
         UNCHANGED <<inCode, code>>
  PROVE  Progress(line)
<1> DEFINE bs == blocks \o (Flushed("table", table) \o Flushed("list", list))
           t == Append(paragraph, line)
<1>1. code = <<>> /\ Len(lines) \in Nat /\ TextOK(format, "paragraph", paragraph)
      /\ \A a \in DOMAIN paragraph : paragraph[a].kind \in {"prose", "indented"}
  BY DEF ParserInv, Gathered
<1>2. blocks' = bs /\ paragraph' = t /\ code' = code /\ inCode' = inCode
  OBVIOUS
<1>3. Parsed(format, bs, paragraph, Len(lines)) /\ Covered(bs, paragraph) = Covered(blocks, Pending)
  BY <1>1, FlushingOthers
<1> HIDE DEF bs
<1>4. /\ Parsed(format, bs, t, Len(lines) + 1) /\ Covered(blocks, Pending) \subseteq Covered(bs, t)
      /\ Len(lines) + 1 \in Covered(bs, t) /\ t # <<>>
  BY <1>3, Gathering
<1>5. TextOK(format, "paragraph", t)
  BY <1>1, TextGrows
<1>6. \A a \in DOMAIN t : t[a].kind \in {"prose", "indented"}
  <2>1. paragraph \in Seq(Line)
    BY <1>1 DEF TextOK
  <2> QED BY <1>1, <2>1
<1> HIDE DEF t
<1>7. Pending' = t
  BY <1>2, <1>4 DEF Pending
<1>8. \A f : \A type \in {"table", "list", "code"} : TextOK(f, type, <<>>)
  BY DEF TextOK
<1>9. Gathered'
  BY <1>1, <1>2, <1>5, <1>6, <1>8 DEF Gathered, ParserInv
<1> QED BY <1>2, <1>4, <1>7, <1>9 DEF Progress, ParserInv

\* What is inside an open code block goes on with what was gathered as code.
LEMMA CodeLineStep ==
  ASSUME ParserInv, format # "csv", format' = format,
         NEW line \in Line, line.n = Len(lines) + 1, CodeLine(line)
  PROVE  Progress(line)
<1> DEFINE t == Append(code, line)
<1>1. Len(lines) \in Nat /\ TextOK(format, "code", code) /\ inCode
      /\ paragraph = <<>> /\ table = <<>> /\ list = <<>>
  BY DEF ParserInv, Gathered, CodeLine
<1>2. blocks' = blocks /\ code' = t /\ paragraph' = <<>> /\ table' = <<>> /\ list' = <<>>
      /\ inCode' = inCode
  BY <1>1 DEF CodeLine, gathered
<1>3. Pending = code
  BY <1>1 DEF Pending
<1>4. Parsed(format, blocks, code, Len(lines)) /\ Covered(blocks, code) = Covered(blocks, Pending)
  BY <1>3 DEF ParserInv
<1>5. /\ Parsed(format, blocks, t, Len(lines) + 1) /\ Covered(blocks, Pending) \subseteq Covered(blocks, t)
      /\ Len(lines) + 1 \in Covered(blocks, t) /\ t # <<>>
  BY <1>4, Gathering
<1>6. TextOK(format, "code", t)
  BY <1>1, TextGrows
<1> HIDE DEF t
<1>7. Pending' = t
  BY <1>2 DEF Pending
<1>8. \A f : \A type \in {"paragraph", "table", "list"} : TextOK(f, type, <<>>)
  BY DEF TextOK
<1>9. Gathered'
  BY <1>1, <1>2, <1>6, <1>8 DEF Gathered, ParserInv
<1> QED BY <1>2, <1>5, <1>7, <1>9 DEF Progress, ParserInv

\* What remains when code is flushed, an empty block included
LEMMA CodeFlushed ==
  ASSUME ParserInv, inCode
  PROVE  LET bs == Append(blocks, Block("code", 0, PageNumber, code))
         IN Parsed(format, bs, <<>>, Len(lines)) /\ Covered(bs, <<>>) = Covered(blocks, Pending)
<1> DEFINE b == Block("code", 0, PageNumber, code)
<1>1. TextOK(format, "code", code) /\ Pending = code
  BY DEF ParserInv, Gathered, Pending
<1>2. Parsed(format, blocks, code, Len(lines)) /\ Len(lines) \in Nat
  BY <1>1 DEF ParserInv
<1>3. PageNumber \in Nat /\ (PageNumber = 0 <=> format # "pdf")
  BY DEF ParserInv, PageNumber
<1>4. code \in Seq(Line) /\ Increasing(format, code)
  BY <1>2 DEF Parsed
<1>5. b \in BlockSet /\ b.text = code /\ b.type = "code" /\ b.page = PageNumber
  BY <1>3, <1>4 DEF Block, BlockSet, BlockType
<1> HIDE DEF b
<1>6. BlockOK(format, b)
  BY <1>1, <1>4, <1>5 DEF BlockOK
<1>7. Parsed(format, Append(blocks, b), <<>>, Len(lines))
      /\ Covered(Append(blocks, b), <<>>) = Covered(blocks, code)
  BY <1>2, <1>3, <1>5, <1>6, ParsedFlush
<1> QED BY <1>1, <1>7 DEF b

\* A fence opens or closes a code block.
LEMMA FenceStep ==
  ASSUME ParserInv, format \in {"markdown", "pdf"}, format' = format,
         NEW line \in Line, line.n = Len(lines) + 1, Fence(line)
  PROVE  Progress(line)
<1> DEFINE b == Block("code", 0, PageNumber, code)
<1>1. /\ blocks' = blocks \o (FlushAll \o (IF inCode THEN <<b>> ELSE <<>>))
      /\ NothingGathered /\ code' = <<>> /\ inCode' = ~inCode /\ line.kind = "fence"
  BY DEF Fence, Emit
<1>2. Gathered' /\ Pending' = <<>>
  BY <1>1, NothingLeft
<1>3. blocks \in Seq(BlockSet) /\ Len(lines) \in Nat
  BY DEF ParserInv, Parsed
<1>4. Parsed(format, blocks', <<>>, Len(lines)) /\ Covered(blocks', <<>>) = Covered(blocks, Pending)
  <2>1. CASE inCode
    <3>1. paragraph = <<>> /\ table = <<>> /\ list = <<>>
      BY <2>1 DEF ParserInv, Gathered
    <3>2. FlushAll = <<>> \o <<>> \o <<>>
      BY <3>1 DEF FlushAll, Flushed
    <3> HIDE DEF b
    <3>3. blocks' = Append(blocks, b)
      BY <1>1, <1>3, <2>1, <3>2
    <3> USE DEF b
    <3> QED BY <2>1, <3>3, CodeFlushed
  <2>2. CASE ~inCode
    <3>1. code = <<>>
      BY <2>2 DEF ParserInv, Gathered
    <3>2. FlushAll \in Seq(BlockSet)
      BY <3>1, FlushingAll
    <3>3. blocks' = blocks \o FlushAll
      BY <1>1, <1>3, <2>2, <3>2
    <3> QED BY <3>1, <3>3, FlushingAll
  <2> QED BY <2>1, <2>2
<1>5. Parsed(format, blocks', <<>>, Len(lines) + 1)
  BY <1>3, <1>4, ParsedTop
<1>6. inCode' \in BOOLEAN
  BY <1>1 DEF ParserInv
<1> QED BY <1>1, <1>2, <1>4, <1>5, <1>6 DEF Progress

\* Any line of markdown
LEMMA ScanStep ==
  ASSUME ParserInv, format \in {"markdown", "pdf"}, format' = format,
         NEW line \in Line, line.n = Len(lines) + 1, Scan(line)
  PROVE  Progress(line)
<1>0. format # "csv"
  OBVIOUS
<1>1. CASE Fence(line)
  BY <1>1, FenceStep
<1>2. CASE CodeLine(line)
  BY <1>0, <1>2, CodeLineStep
<1>3. CASE ~inCode /\ Blank(line)
  BY <1>0, <1>3, BlankStep
<1>4. CASE ~inCode /\ TableRow(line)
  BY <1>4, TableRowStep
<1>5. CASE ~inCode /\ Formula(line)
  BY <1>0, <1>5, FormulaStep
<1>6. CASE ~inCode /\ HeadingLine(line)
  BY <1>0, <1>6, HeadingStep
<1>7. CASE ~inCode /\ Item(line)
  BY <1>7, ItemStep
<1>8. CASE ~inCode /\ Prose(line)
  <2>1. /\ line.kind \in {"prose", "indented"}
        /\ blocks' = blocks \o (Flushed("table", table) \o Flushed("list", list))
        /\ paragraph' = Append(paragraph, line) /\ table' = <<>> /\ list' = <<>>
        /\ UNCHANGED <<inCode, code>>
    BY <1>8 DEF Prose, Emit
  <2> QED BY <1>0, <1>8, <2>1, ParagraphStep
<1> QED BY <1>1, <1>2, <1>3, <1>4, <1>5, <1>6, <1>7, <1>8 DEF Scan

\* Cells of a Word document: the first row of a table is followed by a rule.
LEMMA CellsStep ==
  ASSUME ParserInv, format = "docx", format' = format,
         NEW line \in Line, line.n = Len(lines) + 1, line.kind = "cells",
         Emit(Flushed("paragraph", paragraph)), paragraph' = <<>>,
         table' = IF table = <<>> THEN <<line, Rule>> ELSE Append(table, line),
         UNCHANGED <<list, inCode, code>>
  PROVE  Progress(line)
<1> DEFINE p == Flushed("paragraph", paragraph)
           bs == blocks \o p
           t == Append(table, line)
           top == Len(lines)
<1>1. code = <<>> /\ top \in Nat /\ TextOK(format, "table", table) /\ list = <<>> /\ ~inCode
      /\ inCode \in BOOLEAN
  BY DEF ParserInv, Gathered
<1>2. blocks' = bs /\ list' = <<>> /\ code' = code /\ inCode' = inCode
  BY <1>1 DEF Emit
<1>3. bs = blocks \o (p \o Flushed("list", list))
  <2>1. Flushed("list", list) = <<>>
    BY <1>1 DEF Flushed
  <2>2. p = <<>> \/ p = <<Block("paragraph", 0, PageNumber, paragraph)>>
    BY DEF Flushed
  <2>3. p \o <<>> = p
    BY <2>2
  <2> QED BY <2>1, <2>3
<1>4. Parsed(format, bs, table, top) /\ Covered(bs, table) = Covered(blocks, Pending)
  BY <1>1, <1>3, FlushingOthers
<1> HIDE DEF bs
<1>5. /\ Parsed(format, bs, t, top + 1) /\ Covered(blocks, Pending) \subseteq Covered(bs, t)
      /\ top + 1 \in Covered(bs, t) /\ t # <<>>
  BY <1>4, Gathering
<1>6. TextOK(format, "table", t)
  BY <1>1, TextGrows
<1>7. /\ Parsed(format, bs, table', top + 1) /\ Covered(blocks, Pending) \subseteq Covered(bs, table')
      /\ top + 1 \in Covered(bs, table') /\ table' # <<>> /\ TextOK(format, "table", table')
  <2>1. CASE table # <<>>
    BY <1>5, <1>6, <2>1
  <2>2. CASE table = <<>>
    <3>1. t = <<line>> /\ table' = Append(t, Rule)
      BY <2>2
    <3>2. Rule \in Line /\ Rule.n = 0
      BY KindsAssumption DEF Rule, Line
    <3>3. Longer(format, t, top + 1, Rule, table', top + 1) /\ top + 1 \in Nat
      BY <1>1, <3>1, <3>2 DEF Longer, Rep
    <3>4. Parsed(format, bs, table', top + 1) /\ Covered(bs, table') = Covered(bs, t) \cup {Rule.n}
      BY <1>5, <3>3, ParsedLonger
    <3>5. TextOK(format, "table", <<line, Rule>>)
      BY <1>1, <3>2 DEF TextOK
    <3>6. table' = <<line, Rule>> /\ <<line, Rule>> # <<>>
      BY <2>2
    <3> HIDE DEF t
    <3> QED BY <1>5, <3>4, <3>5, <3>6
  <2> QED BY <2>1, <2>2
<1>8. Pending' = table'
  BY <1>7 DEF Pending
<1>9. \A f : \A type \in {"paragraph", "list", "code"} : TextOK(f, type, <<>>)
  BY DEF TextOK
<1>10. Gathered'
  BY <1>1, <1>2, <1>7, <1>9 DEF Gathered
<1> QED BY <1>1, <1>2, <1>7, <1>8, <1>10 DEF Progress

\* A paragraph or table row of a Word document
LEMMA WordLineStep ==
  ASSUME ParserInv, format = "docx", format' = format,
         NEW line \in Line, line.n = Len(lines) + 1, line.kind \in Kinds[format], WordLine(line)
  PROVE  Progress(line)
<1>1. ~inCode /\ format # "csv" /\ list = <<>>
  BY DEF ParserInv, Gathered
<1>2. CASE Blank(line)
  BY <1>1, <1>2, BlankStep
<1>3. CASE HeadingLine(line)
  BY <1>1, <1>3, HeadingStep
<1>4. CASE Prose(line)
  <2>1. /\ line.kind \in {"prose", "indented"}
        /\ blocks' = blocks \o (Flushed("table", table) \o Flushed("list", list))
        /\ paragraph' = Append(paragraph, line) /\ table' = <<>> /\ list' = <<>>
        /\ UNCHANGED <<inCode, code>>
    BY <1>4 DEF Prose, Emit
  <2> QED BY <1>1, <2>1, ParagraphStep
<1>5. CASE /\ line.kind = "cells"
           /\ Emit(Flushed("paragraph", paragraph))
           /\ table' = IF table = <<>> THEN <<line, Rule>> ELSE Append(table, line)
           /\ paragraph' = <<>>
           /\ UNCHANGED <<list, inCode, code>>
  BY <1>5, CellsStep
<1> QED BY <1>2, <1>3, <1>4, <1>5 DEF WordLine

\* A line of plain text
LEMMA TextLineStep ==
  ASSUME ParserInv, format = "plain", format' = format,
         NEW line \in Line, line.n = Len(lines) + 1, TextLine(line)
  PROVE  Progress(line)
<1>1. ~inCode /\ format # "csv" /\ table = <<>> /\ list = <<>> /\ blocks \in Seq(BlockSet)
  BY DEF ParserInv, Gathered, Parsed
<1>2. CASE Blank(line)
  BY <1>1, <1>2, BlankStep
<1>3. CASE /\ line.kind = "prose"
           /\ paragraph' = Append(paragraph, line)
           /\ UNCHANGED <<blocks, table, list, inCode, code>>
  <2>1. Flushed("table", table) = <<>> /\ Flushed("list", list) = <<>>
    BY <1>1 DEF Flushed
  <2>2. blocks' = blocks \o (Flushed("table", table) \o Flushed("list", list))
    BY <1>1, <1>3, <2>1
  <2>3. table' = <<>> /\ list' = <<>> /\ UNCHANGED <<inCode, code>>
        /\ line.kind \in {"prose", "indented"}
    BY <1>1, <1>3
  <2> QED BY <1>1, <1>3, <2>2, <2>3, ParagraphStep
<1> QED BY <1>2, <1>3 DEF TextLine

\* What the CSV parser leaves of a row is a line of the same number.
LEMMA LeftLine ==
  ASSUME ParserInv, format = "csv", lines # <<>>, NEW line \in Line, line.n = Len(lines) + 1
  PROVE  /\ Left(line) \in Line /\ Left(line).n = Len(lines) + 1 /\ Len(lines) > 0
         /\ Left(line) = [n |-> line.n, kind |-> RowKind(lines[1].kind, line.kind)]
<1>1. lines \in Seq(Line) /\ Len(lines) \in Nat
  BY DEF ParserInv
<1>2. Len(lines) > 0 /\ line.kind \in DOMAIN Weight /\ line.n \in Nat
  BY <1>1 DEF Line
<1>3. RowKind(lines[1].kind, line.kind) \in DOMAIN Weight
  BY <1>2, KindsAssumption DEF RowKind
<1> QED BY <1>2, <1>3 DEF Left, Line

\* Every batch of a CSV file begins with the file's header.
LEMMA CsvStep ==
  ASSUME ParserInv, format = "csv", format' = format,
         NEW line \in Line, line.n = Len(lines) + 1, CsvRow(line)
  PROVE  Progress(line)
<1> DEFINE top == Len(lines)
<1>1. code = <<>> /\ top \in Nat /\ TextOK(format, "table", table) /\ list = <<>> /\ ~inCode
      /\ inCode \in BOOLEAN /\ paragraph = <<>> /\ lines \in Seq(Line)
      /\ blocks \in Seq(BlockSet) /\ TextOK(format, "code", code)
  BY DEF ParserInv, Gathered, Parsed
<1>2. paragraph' = <<>> /\ list' = <<>> /\ code' = <<>> /\ inCode' = inCode
  BY <1>1 DEF CsvRow
<1>3. Pending = table /\ Pending' = table'
  <2>1. Pending = table
    BY <1>1 DEF Pending
  <2>2. Pending' = table'
    BY <1>2 DEF Pending
  <2> QED BY <2>1, <2>2
<1>4. Parsed(format, blocks, table, top)
  BY <1>3 DEF ParserInv
<1>5. TextOK(format, "table", table') => Gathered'
  <2>1. \A f : \A type \in {"paragraph", "list", "code"} : TextOK(f, type, <<>>)
    BY DEF TextOK
  <2> QED BY <1>1, <1>2, <2>1 DEF Gathered
<1>6. CASE lines = <<>> \/ line.kind = "blank"
  <2>1. blocks' = blocks /\ table' = table
    BY <1>6 DEF CsvRow
  <2>2. Rep(format, line) \/ line.kind = "blank"
    BY <1>6 DEF Rep
  <2>3. Parsed(format, blocks, table, top + 1)
    BY <1>1, <1>4, ParsedTop
  <2> QED BY <1>1, <1>2, <1>3, <1>5, <1>6, <2>1, <2>2, <2>3 DEF Progress
<1>7. CASE lines # <<>> /\ line.kind # "blank"
  <2> DEFINE first == lines[1]
             second == CsvHeader[2]
             row == Left(line)
             header == Append(CsvHeader, row)
  <2>1. first \in Line /\ first.n = 1 /\ top > 0
    BY <1>1, <1>7 DEF ParserInv
  <2>2. second \in Line /\ second.n = 0
    BY KindsAssumption DEF CsvHeader, Rule, Line
  <2>0. row \in Line /\ row.n = top + 1
    BY <1>7, LeftLine
  <2>3. TextOK(format, "table", header)
    <3>1. header \in Seq(Line) /\ Len(header) = 3 /\ header[1] = first /\ header[2] = second
          /\ header[3] = row
      <4>1. CsvHeader \in Seq(Line) /\ Len(CsvHeader) = 2 /\ CsvHeader[1] = first /\ CsvHeader[2] = second
        BY <2>1, <2>2 DEF CsvHeader
      <4>2. /\ header \in Seq(Line) /\ Len(header) = Len(CsvHeader) + 1
            /\ header[Len(CsvHeader) + 1] = row
            /\ \A i \in 1..Len(CsvHeader) : header[i] = CsvHeader[i]
        <5> DEFINE c == CsvHeader
        <5>1. c \in Seq(Line)
          BY <4>1
        <5> HIDE DEF c, row
        <5>2. /\ Append(c, row) \in Seq(Line) /\ Len(Append(c, row)) = Len(c) + 1
              /\ Append(c, row)[Len(c) + 1] = row
              /\ \A i \in 1..Len(c) : Append(c, row)[i] = c[i]
          BY <2>0, <5>1
        <5> QED BY <5>2 DEF c
      <4> HIDE DEF first, second, row, header
      <4> QED BY <4>1, <4>2
    <3>2. row.n = top + 1 /\ ~Rep(format, row)
      BY <1>1, <2>0, <2>1 DEF Rep
    <3> HIDE DEF header, first, second, row, top
    <3>3. 3 \in DOMAIN header /\ DOMAIN header = 1..3
      BY <3>1
    <3>4. \E a \in DOMAIN header : ~Rep(format, header[a])
      BY <3>1, <3>2, <3>3
    <3>5. \A a \in DOMAIN header : a = 1 \/ a = 2 \/ a = 3
      BY <3>3
    <3>6. row.n \notin {0, 1}
      BY <1>1, <2>1, <3>2
    <3> QED BY <1>1, <2>1, <2>2, <3>1, <3>4, <3>5, <3>6 DEF TextOK
  <2>4. ASSUME NEW bs, Parsed(format, bs, <<>>, top)
        PROVE  /\ Parsed(format, bs, header, top + 1)
               /\ Covered(bs, <<>>) \subseteq Covered(bs, header)
               /\ top + 1 \in Covered(bs, header) /\ header # <<>>
    <3> HIDE DEF first, second, row, top
    <3>1. Longer(format, <<>>, top, first, <<first>>, top)
      BY <1>1, <2>1 DEF Longer, Rep
    <3>2. Parsed(format, bs, <<first>>, top) /\ Covered(bs, <<first>>) = Covered(bs, <<>>) \cup {first.n}
      BY <1>1, <2>4, <3>1, ParsedLonger
    <3>0. CsvHeader = Append(<<first>>, second)
      BY DEF CsvHeader, first, second
    <3>3. Longer(format, <<first>>, top, second, CsvHeader, top)
      BY <1>1, <2>2, <3>0 DEF Longer, Rep
    <3>4. Parsed(format, bs, CsvHeader, top)
          /\ Covered(bs, CsvHeader) = Covered(bs, <<first>>) \cup {second.n}
      BY <1>1, <3>2, <3>3, ParsedLonger
    <3>5. Longer(format, CsvHeader, top, row, header, top + 1) /\ top + 1 \in Nat /\ row.n = top + 1
      BY <1>1, <2>0 DEF Longer
    <3>6. Parsed(format, bs, header, top + 1)
          /\ Covered(bs, header) = Covered(bs, CsvHeader) \cup {row.n}
      BY <1>1, <3>4, <3>5, ParsedLonger
    <3>7. header # <<>>
      BY DEF CsvHeader
    <3> HIDE DEF header
    <3> QED BY <3>2, <3>4, <3>5, <3>6, <3>7
  <2>5. CASE table = <<>>
    <3>1. blocks' = blocks /\ table' = header
      BY <1>7, <2>5, BoundAssumption DEF CsvRow
    <3>2. Parsed(format, blocks, <<>>, top)
      BY <1>4, <2>5
    <3> HIDE DEF header
    <3>3. Gathered'
      BY <1>5, <2>3, <3>1
    <3> QED BY <1>1, <1>2, <1>3, <2>4, <2>5, <3>1, <3>2, <3>3 DEF Progress
  <2>6. CASE table # <<>> /\ Len(table) # BatchRows + 2
    <3> DEFINE t == Append(table, row)
    <3>1. blocks' = blocks /\ table' = t
      BY <1>7, <2>6 DEF CsvRow
    <3>0. Covered(blocks, table) = Covered(blocks, Pending)
      BY <1>3
    <3> HIDE DEF row
    <3>2. /\ Parsed(format, blocks, t, top + 1) /\ Covered(blocks, Pending) \subseteq Covered(blocks, t)
          /\ top + 1 \in Covered(blocks, t) /\ t # <<>>
      BY <1>4, <2>0, <3>0, Gathering
    <3>3. TextOK(format, "table", t)
      <4>1. t \in Seq(Line) /\ DOMAIN t = DOMAIN table \cup {Len(table) + 1} /\ t[Len(table) + 1] = row
            /\ (\A a \in DOMAIN table : t[a] = table[a]) /\ 1 \in DOMAIN table
        BY <1>1, <2>0, <2>6 DEF TextOK
      <4> HIDE DEF t
      <4>2. Len(table) + 1 \in DOMAIN t /\ ~Rep(format, t[Len(table) + 1])
        BY <1>1, <2>0, <2>1, <4>1 DEF Rep
      <4>3. row.n \notin {0, 1}
        BY <1>1, <2>0, <2>1
      <4>4. \A a \in DOMAIN t : t[a].n = 0 => a = 2
        BY <1>1, <4>1, <4>3 DEF TextOK
      <4>5. t[1].n = 1 /\ \A a \in DOMAIN t : t[a].n = 1 => a = 1
        BY <1>1, <2>6, <4>1, <4>3 DEF TextOK
      <4>6. \E a \in DOMAIN t : ~Rep(format, t[a])
        BY <4>2
      <4> QED BY <4>1, <4>4, <4>5, <4>6 DEF TextOK
    <3> HIDE DEF t
    <3>4. Gathered'
      BY <1>5, <3>1, <3>3
    <3> QED BY <1>1, <1>2, <1>3, <3>1, <3>2, <3>4 DEF Progress
  <2>7. CASE table # <<>> /\ Len(table) = BatchRows + 2
    <3> DEFINE bs == blocks \o Flushed("table", table)
    <3>1. blocks' = bs /\ table' = header
      BY <1>7, <2>7 DEF CsvRow, Emit
    <3>2. Parsed(format, bs, <<>>, top) /\ Covered(bs, <<>>) = Covered(blocks, Pending)
      BY <1>1, <1>3, FlushedText
    <3> HIDE DEF header, bs
    <3>3. Gathered'
      BY <1>5, <2>3, <3>1
    <3> QED BY <1>1, <1>2, <1>3, <2>4, <3>1, <3>2, <3>3 DEF Progress
  <2> QED BY <2>5, <2>6, <2>7
<1> QED BY <1>6, <1>7

-----------------------------------------------------------------------------
(* The invariant of parsing. *)

\* The line that was read is the only new content.
LEMMA ContentGrows ==
  ASSUME ParserInv, NEW line \in Line, lines' = Append(lines, line), format' = format
  PROVE  \A n \in Content' : n \in Content \/ (/\ n = Len(lines) + 1 /\ ~Rep(format, line)
                                              /\ line.kind \notin {"blank", "fence"})
<1>1. lines \in Seq(Line)
  BY DEF ParserInv
<1>2. DOMAIN lines' = DOMAIN lines \cup {Len(lines) + 1} /\ lines'[Len(lines) + 1] = line
      /\ \A i \in DOMAIN lines : lines'[i] = lines[i]
  BY <1>1
<1> QED BY <1>2 DEF Content, IsRepeated, Rep

\* A line is read, of any format.
LEMMA ReadLineStep ==
  ASSUME ParserInv, NEW k \in Kinds[format], ReadLine(k)
  PROVE  ParserInv'
<1> DEFINE line == [n |-> Len(lines) + 1, kind |-> k]
           top == Len(lines)
<1>1. /\ lines' = Append(lines, line) /\ format' = format /\ phase' = phase /\ page' = page
      /\ phase = "parse"
      /\ fullText' = IF Left(line).kind = "blank" THEN fullText ELSE Append(fullText, Left(line))
  BY DEF ReadLine
<1>2. lines \in Seq(Line) /\ top \in Nat /\ format \in Format /\ FullText /\ phase = "parse"
      /\ page \in Nat \ {0} /\ \A i \in DOMAIN lines : lines[i].n = i
  BY <1>1 DEF ParserInv
<1>3. line \in Line /\ line.n = top + 1 /\ line.kind = k
  BY <1>2, KindsAssumption DEF Line
<1>0. Left(line) \in Line /\ Left(line).n = top + 1
      /\ (format = "csv" /\ lines # <<>> /\ line.kind = "blank" => Left(line).kind = "blank")
  <2> HIDE DEF line
  <2>1. CASE format = "csv" /\ lines # <<>>
    BY <1>1, <1>3, <2>1, LeftLine DEF RowKind
  <2>2. CASE ~(format = "csv" /\ lines # <<>>)
    BY <1>3, <2>2 DEF Left
  <2> QED BY <2>1, <2>2
<1>4. Progress(line)
  <2> HIDE DEF line
  <2>1. CASE format \in {"markdown", "pdf"}
    <3>1. Scan(line)
      BY <2>1 DEF ReadLine, line
    <3> QED BY <1>1, <1>3, <2>1, <3>1, ScanStep
  <2>2. CASE format = "docx"
    <3>1. WordLine(line)
      BY <2>2 DEF ReadLine, line
    <3> QED BY <1>1, <1>3, <2>2, <3>1, WordLineStep
  <2>3. CASE format = "plain"
    <3>1. TextLine(line)
      BY <2>3 DEF ReadLine, line
    <3> QED BY <1>1, <1>3, <2>3, <3>1, TextLineStep
  <2>4. CASE format = "csv"
    <3>1. CsvRow(line)
      BY <2>4 DEF ReadLine, line
    <3> QED BY <1>1, <1>3, <2>4, <3>1, CsvStep
  <2> QED BY <1>2, <2>1, <2>2, <2>3, <2>4 DEF Format
<1> HIDE DEF line
<1>5. lines' \in Seq(Line) /\ Len(lines') = top + 1 /\ \A i \in DOMAIN lines' : lines'[i].n = i
  BY <1>1, <1>2, <1>3
<1>6. FullText'
  <2>1. /\ fullText' \in Seq(Line)
        /\ \A i \in DOMAIN fullText' : fullText'[i].n \in 1..top + 1
        /\ \A i, j \in DOMAIN fullText' : i < j => fullText'[i].n < fullText'[j].n
        /\ format = "csv" /\ blocks' = <<>> /\ table' = <<>> =>
             \A i \in DOMAIN fullText' : fullText'[i].n = 1
    <3> DEFINE row == Left(line)
    <3>0. format = "csv" /\ blocks' = <<>> /\ table' = <<>> =>
            blocks = <<>> /\ table = <<>> /\ (lines = <<>> \/ row.kind = "blank")
      BY <1>0, <1>4 DEF Progress
    <3>3. row \in Line /\ row.n = top + 1 /\ (lines = <<>> => top = 0)
      BY <1>0
    <3>4. fullText' = IF row.kind = "blank" THEN fullText ELSE Append(fullText, row)
      BY <1>1 DEF line
    <3> HIDE DEF row
    <3>1. CASE row.kind = "blank"
      BY <1>1, <1>2, <3>0, <3>1, <3>4 DEF FullText
    <3>2. CASE row.kind # "blank"
      <4> DEFINE u == Append(fullText, row)
      <4>1. fullText' = u /\ fullText \in Seq(Line)
        BY <1>2, <3>2, <3>4 DEF FullText
      <4>2. u \in Seq(Line) /\ DOMAIN u = DOMAIN fullText \cup {Len(fullText) + 1}
            /\ Len(u) = Len(fullText) + 1 /\ Len(fullText) \in Nat
            /\ DOMAIN fullText = 1..Len(fullText)
            /\ u[Len(fullText) + 1] = row /\ \A i \in DOMAIN fullText : u[i] = fullText[i]
        BY <3>3, <4>1
      <4> HIDE DEF u
      <4>3. format = "csv" /\ blocks' = <<>> /\ table' = <<>> =>
              /\ \A i \in DOMAIN fullText : fullText[i].n = 1
              /\ top = 0
        BY <1>2, <3>0, <3>2, <3>3 DEF FullText
      <4> QED BY <1>2, <3>3, <4>1, <4>2, <4>3 DEF FullText
    <3> QED BY <3>1, <3>2
  <2> QED BY <1>1, <1>2, <1>5, <2>1 DEF FullText
<1>7. Content' \subseteq Covered(blocks', Pending')
  <2> SUFFICES ASSUME NEW n \in Content' PROVE n \in Covered(blocks', Pending')
    OBVIOUS
  <2>1. CASE n \in Content
    BY <1>4, <2>1 DEF Progress, ParserInv
  <2>2. CASE n = top + 1 /\ ~Rep(format, line) /\ line.kind \notin {"blank", "fence"}
    BY <1>4, <2>2 DEF Progress
  <2> QED BY <1>1, <1>3, <2>1, <2>2, ContentGrows
<1>8. Parsed(format', blocks', Pending', Len(lines'))
  BY <1>1, <1>4, <1>5 DEF Progress
<1>9. Gathered' /\ inCode' \in BOOLEAN
  BY <1>4 DEF Progress
<1> QED BY <1>1, <1>2, <1>5, <1>6, <1>7, <1>8, <1>9 DEF ParserInv

\* The end of a page or of the document
LEMMA EndOfTextStep ==
  ASSUME ParserInv, EndOfText, format' = format, lines' = lines, fullText' = fullText,
         phase' \in {"parse", "chunk"}, page' \in Nat \ {0}
  PROVE  ParserInv'
<1>1. /\ blocks' = blocks \o (FlushAll \o OpenCode)
      /\ NothingGathered /\ inCode' = FALSE /\ code' = <<>>
  BY DEF EndOfText, Emit
<1>2. Gathered' /\ Pending' = <<>>
  BY <1>1, NothingLeft
<1>3. blocks \in Seq(BlockSet) /\ TextOK(format, "code", code)
  BY DEF ParserInv, Parsed, Gathered
<1>4. Parsed(format, blocks', <<>>, Len(lines)) /\ Covered(blocks', <<>>) = Covered(blocks, Pending)
      /\ (format = "csv" /\ blocks' = <<>> => blocks = <<>> /\ table = <<>>)
  <2>1. CASE inCode
    <3>1. paragraph = <<>> /\ table = <<>> /\ list = <<>> /\ format # "csv"
      BY <2>1 DEF ParserInv, Gathered
    <3>2. FlushAll = <<>> \o <<>> \o <<>>
      BY <3>1 DEF FlushAll, Flushed
    <3>3. Pending = code
      BY <3>1 DEF Pending
    <3>4. Flushed("code", code) \in Seq(BlockSet)
          /\ Parsed(format, blocks \o Flushed("code", code), <<>>, Len(lines))
          /\ Covered(blocks \o Flushed("code", code), <<>>) = Covered(blocks, Pending)
      BY <1>3, <3>3, FlushedText
    <3>5. blocks' = blocks \o Flushed("code", code)
      BY <1>1, <2>1, <3>2, <3>4 DEF OpenCode
    <3> QED BY <3>1, <3>4, <3>5
  <2>2. CASE ~inCode
    <3>1. code = <<>>
      BY <2>2 DEF ParserInv, Gathered
    <3>2. FlushAll \in Seq(BlockSet)
      BY <3>1, FlushingAll
    <3>3. blocks' = blocks \o FlushAll
      BY <1>1, <1>3, <2>2, <3>2 DEF OpenCode
    <3>4. format = "csv" /\ blocks' = <<>> => blocks = <<>> /\ table = <<>>
      <4>1. FlushAll = <<>> => Flushed("table", table) = <<>>
        BY DEF FlushAll, Flushed
      <4>2. Flushed("table", table) = <<>> => table = <<>>
        BY DEF Flushed
      <4>3. blocks' = <<>> => blocks = <<>> /\ FlushAll = <<>>
        <5> DEFINE F == FlushAll
                   c == blocks \o F
        <5>1. Len(c) = Len(blocks) + Len(F) /\ Len(blocks) \in Nat /\ Len(F) \in Nat
              /\ Len(<<>>) = 0
          BY <1>3, <3>2
        <5>2. (Len(blocks) = 0 => blocks = <<>>) /\ (Len(F) = 0 => F = <<>>)
          BY <1>3, <3>2
        <5> HIDE DEF c, F
        <5>3. c = <<>> => blocks = <<>> /\ F = <<>>
          BY <5>1, <5>2
        <5> QED BY <3>3, <5>3 DEF c, F
      <4> QED BY <4>1, <4>2, <4>3
    <3> QED BY <3>1, <3>3, <3>4, FlushingAll
  <2> QED BY <2>1, <2>2
<1>5. FullText'
  BY <1>1, <1>4 DEF ParserInv, FullText, NothingGathered
<1>6. Content' = Content
  BY DEF Content, IsRepeated
<1>7. Content' \subseteq Covered(blocks', Pending')
  BY <1>2, <1>4, <1>6 DEF ParserInv
<1> QED BY <1>1, <1>2, <1>4, <1>5, <1>7 DEF ParserInv

\* What comes after parsing leaves its result alone.
LEMMA ParserUnchanged ==
  ASSUME ParserInv, UNCHANGED <<blocks, parserVars>>, phase' # "parse",
         phase' \in {"parse", "chunk", "assemble", "split", "done"}, phase # "parse"
  PROVE  ParserInv'
<1>1. Pending' = Pending /\ Gathered' = Gathered /\ FullText' = FullText /\ Content' = Content
  BY DEF parserVars, gathered, Pending, Gathered, FullText, Content, IsRepeated
<1>2. Parsed(format', blocks', Pending', Len(lines'))
  BY <1>1 DEF ParserInv, parserVars
<1> QED BY <1>1, <1>2 DEF ParserInv, parserVars

\* The parser invariant holds at first.
LEMMA InitParserInv == Init => ParserInv
<1> SUFFICES ASSUME Init PROVE ParserInv
  OBVIOUS
<1> USE DEF Init, ParserInit
<1>1. Pending = <<>>
  BY DEF Pending
<1>2. \A f : \A type \in {"paragraph", "table", "list", "code"} : TextOK(f, type, <<>>)
  BY DEF TextOK
<1>3. Gathered
  BY <1>2 DEF Gathered
<1>4. FullText
  BY DEF FullText
<1>5. Parsed(format, <<>>, <<>>, Len(lines))
  BY DEF Parsed, Increasing, Precede
<1>6. Content = {}
  BY DEF Content
<1>7. Parsed(format, blocks, Pending, Len(lines))
  BY <1>1, <1>5
<1>8. lines \in Seq(Line) /\ (\A i \in DOMAIN lines : lines[i].n = i) /\ page \in Nat \ {0}
      /\ format \in Format /\ phase = "parse"
  OBVIOUS
<1>10. inCode \in BOOLEAN
  OBVIOUS
<1>9. Content \subseteq Covered(blocks, Pending)
  BY <1>6
<1> QED BY <1>3, <1>4, <1>7, <1>8, <1>9, <1>10 DEF ParserInv

\* Every step keeps the parser invariant.
LEMMA NextParserInv == ParserInv /\ [Next]_vars => ParserInv'
<1> SUFFICES ASSUME ParserInv, [Next]_vars PROVE ParserInv'
  OBVIOUS
<1>1. CASE \E k \in Kinds[format] : ReadLine(k)
  BY <1>1, ReadLineStep
<1>2. CASE NextPage
  <2>1. /\ EndOfText /\ format' = format /\ lines' = lines /\ fullText' = fullText
        /\ phase' \in {"parse", "chunk"} /\ page' \in Nat \ {0}
    BY <1>2 DEF NextPage, ParserInv
  <2> QED BY <2>1, EndOfTextStep
<1>3. CASE EndOfDocument
  <2>1. /\ EndOfText /\ format' = format /\ lines' = lines /\ fullText' = fullText
        /\ phase' \in {"parse", "chunk"} /\ page' \in Nat \ {0}
    BY <1>3 DEF EndOfDocument, ParserInv
  <2> QED BY <2>1, EndOfTextStep
<1>4. CASE BeginAssembly
  <2>1. /\ UNCHANGED <<blocks, parserVars>> /\ phase' = "assemble" /\ phase # "parse"
    BY <1>4 DEF BeginAssembly
  <2> QED BY <2>1, ParserUnchanged
<1>5. CASE AssemblerNext /\ UNCHANGED parserVars
  <2>1. UNCHANGED blocks /\ phase \in {"assemble", "split"} /\ phase' \in {"assemble", "split", "done"}
    BY <1>5 DEF AssemblerNext, NextBlock, LargeBlock, NextPiece, Finish
  <2> QED BY <1>5, <2>1, ParserUnchanged
<1>6. CASE UNCHANGED vars
  <2>1. UNCHANGED <<blocks, phase, parserVars>>
    BY <1>6 DEF vars
  <2>2. Pending' = Pending /\ Gathered' = Gathered /\ FullText' = FullText /\ Content' = Content
    BY <2>1 DEF parserVars, gathered, Pending, Gathered, FullText, Content, IsRepeated
  <2>3. Parsed(format', blocks', Pending', Len(lines'))
    BY <2>1, <2>2 DEF ParserInv, parserVars
  <2> QED BY <2>1, <2>2, <2>3 DEF ParserInv, parserVars
<1> QED BY <1>1, <1>2, <1>3, <1>4, <1>5, <1>6 DEF Next, ParserNext

-----------------------------------------------------------------------------
(* A line that is kept is kept whole, but for the cells of a CSV row that no column *)
(* is for: the lines of the blocks and of what is gathered are lines of the          *)
(* document, or rules.                                                                *)

KeptOf(f, ls, n) ==
  IF f = "csv" /\ n > 1 THEN [n |-> n, kind |-> RowKind(ls[1].kind, ls[n].kind)] ELSE ls[n]
WholeLine(f, ls) == {l \in Line : l.n # 0 => l.n \in DOMAIN ls /\ l = KeptOf(f, ls, l.n)}
BlocksOf(L) == {b \in BlockSet : b.text \in Seq(L)}

\* The blocks and the gathered lines are made of the lines of L.
MadeOf(L) ==
  /\ blocks \in Seq(BlocksOf(L))
  /\ paragraph \in Seq(L) /\ table \in Seq(L) /\ list \in Seq(L) /\ code \in Seq(L)

Whole == MadeOf(WholeLine(format, lines))

\* What is whole stays so when another line is read.
LEMMA WholeGrows ==
  ASSUME ParserInv, Whole, NEW line
  PROVE  MadeOf(WholeLine(format, Append(lines, line)))
<1> DEFINE ls == Append(lines, line)
           L == WholeLine(format, lines)
           M == WholeLine(format, ls)
<1>1. lines \in Seq(Line)
  BY DEF ParserInv
<1>2. DOMAIN lines \subseteq DOMAIN ls /\ (\A i \in DOMAIN lines : ls[i] = lines[i])
      /\ (lines # <<>> => 1 \in DOMAIN lines) /\ DOMAIN lines = 1..Len(lines)
  BY <1>1
<1> HIDE DEF ls
<1>3. ASSUME NEW l \in L PROVE l \in M
  <2>1. l \in Line /\ (l.n # 0 => l.n \in DOMAIN lines /\ l = KeptOf(format, lines, l.n))
    BY DEF WholeLine
  <2>2. l.n \in DOMAIN lines => KeptOf(format, ls, l.n) = KeptOf(format, lines, l.n)
    BY <1>1, <1>2 DEF KeptOf
  <2> QED BY <1>2, <2>1, <2>2 DEF WholeLine
<1> HIDE DEF L, M
<1>4. Seq(L) \subseteq Seq(M)
  BY <1>3
<1>5. BlocksOf(L) \subseteq BlocksOf(M)
  BY <1>4 DEF BlocksOf
<1>6. Seq(BlocksOf(L)) \subseteq Seq(BlocksOf(M))
  BY <1>5
<1>7. MadeOf(L)
  BY DEF Whole, L
<1>8. MadeOf(M)
  BY <1>4, <1>6, <1>7 DEF MadeOf
<1> QED BY <1>8 DEF M, ls

\* A block of gathered lines
LEMMA FlushedWhole ==
  ASSUME ParserInv, NEW L \in SUBSET Line, MadeOf(L)
  PROVE  /\ Flushed("paragraph", paragraph) \in Seq(BlocksOf(L))
         /\ Flushed("table", table) \in Seq(BlocksOf(L))
         /\ Flushed("list", list) \in Seq(BlocksOf(L))
         /\ Flushed("code", code) \in Seq(BlocksOf(L))
         /\ FlushAll \in Seq(BlocksOf(L))
         /\ Block("code", 0, PageNumber, code) \in BlocksOf(L)
<1>1. PageNumber \in Nat
  BY DEF ParserInv, PageNumber
<1>2. ASSUME NEW type \in {"paragraph", "table", "list", "code"}, NEW text \in Seq(L)
      PROVE  Block(type, 0, PageNumber, text) \in BlocksOf(L)
  <2>1. text \in Seq(Line)
    OBVIOUS
  <2> QED BY <1>1, <1>2, <2>1 DEF Block, BlocksOf, BlockSet, BlockType
<1>3. ASSUME NEW type \in {"paragraph", "table", "list", "code"}, NEW text \in Seq(L)
      PROVE  Flushed(type, text) \in Seq(BlocksOf(L))
  BY <1>2, <1>3 DEF Flushed
<1> DEFINE p == Flushed("paragraph", paragraph)
           t == Flushed("table", table)
           l == Flushed("list", list)
           S == BlocksOf(L)
<1>4. p \in Seq(S) /\ t \in Seq(S) /\ l \in Seq(S) /\ Flushed("code", code) \in Seq(S)
  BY <1>3 DEF MadeOf
<1>5. FlushAll = p \o t \o l
  BY DEF FlushAll
<1> HIDE DEF p, t, l, S
<1>6. FlushAll \in Seq(S)
  BY <1>4, <1>5
<1> QED BY <1>2, <1>4, <1>6 DEF p, t, l, S, MadeOf

\* The other texts are made of their lines and the one that is read.
LEMMA LineWhole ==
  ASSUME ParserInv, NEW L \in SUBSET Line, MadeOf(L), NEW line \in L, Rule \in L,
         Scan(line) \/ WordLine(line) \/ TextLine(line)
  PROVE  MadeOf(L)'
<1> DEFINE p == Flushed("paragraph", paragraph)
           t == Flushed("table", table)
           l == Flushed("list", list)
           S == BlocksOf(L)
           c == Block("code", 0, PageNumber, code)
           f == Block("formula", 0, PageNumber, <<line>>)
           h == Heading(line)
<1>1. /\ p \in Seq(S) /\ t \in Seq(S) /\ l \in Seq(S) /\ FlushAll \in Seq(S) /\ c \in S
      /\ blocks \in Seq(S)
      /\ paragraph \in Seq(L) /\ table \in Seq(L) /\ list \in Seq(L) /\ code \in Seq(L)
  BY FlushedWhole DEF MadeOf
<1>2. <<line>> \in Seq(L) /\ <<line>> \in Seq(Line) /\ PageNumber \in Nat
  BY DEF ParserInv, PageNumber
<1>3. f \in S
  BY <1>2 DEF Block, BlocksOf, BlockSet, BlockType
<1>4. line.kind \in HeadingKind => h \in S
  <2>1. line.kind \in HeadingKind => Level[line.kind] \in Nat
    BY KindsAssumption, LevelsAssumption DEF Levels
  <2> QED BY <1>2, <2>1 DEF Heading, Block, BlocksOf, BlockSet, BlockType
<1>5. CodeLine(line) => MadeOf(L)'
  BY <1>1 DEF CodeLine, gathered, MadeOf
<1> HIDE DEF p, t, l, S, c, f, h
<1>6. ASSUME NEW q \in Seq(S) PROVE blocks \o q \in Seq(S)
  BY <1>1
<1>7. Blank(line) \/ Fence(line) \/ Formula(line) \/ HeadingLine(line) => MadeOf(L)'
  <2>1. FlushAll \o (IF inCode THEN <<c>> ELSE <<>>) \in Seq(S)
    BY <1>1
  <2>2. FlushAll \o <<f>> \in Seq(S) /\ (line.kind \in HeadingKind => FlushAll \o <<h>> \in Seq(S))
    BY <1>1, <1>3, <1>4
  <2>3. Blank(line) \/ Fence(line) \/ Formula(line) \/ HeadingLine(line) => blocks' \in Seq(S)
    BY <1>1, <1>6, <2>1, <2>2 DEF Blank, Fence, Formula, HeadingLine, Emit, c, f, h
  <2>4. Blank(line) \/ Fence(line) \/ Formula(line) \/ HeadingLine(line) =>
          /\ paragraph' = <<>> /\ table' = <<>> /\ list' = <<>> /\ code' \in {<<>>, code}
    BY DEF Blank, Fence, Formula, HeadingLine, NothingGathered
  <2>5. <<>> \in Seq(L)
    OBVIOUS
  <2> QED BY <1>1, <2>3, <2>4, <2>5 DEF MadeOf, S
<1>8. Append(table, line) \in Seq(L) /\ Append(list, line) \in Seq(L)
      /\ Append(paragraph, line) \in Seq(L) /\ <<>> \in Seq(L) /\ <<line, Rule>> \in Seq(L)
  BY <1>1
<1>9. p \o l \in Seq(S) /\ p \o t \in Seq(S) /\ t \o l \in Seq(S)
  BY <1>1
<1>10. TableRow(line) => MadeOf(L)'
  BY <1>1, <1>6, <1>8, <1>9 DEF TableRow, Emit, MadeOf, p, l, S
<1>11. Item(line) => MadeOf(L)'
  BY <1>1, <1>6, <1>8, <1>9 DEF Item, Emit, MadeOf, p, t, S
<1>12. Prose(line) => MadeOf(L)'
  BY <1>1, <1>6, <1>8, <1>9 DEF Prose, Emit, MadeOf, t, l, S
<1>13. ASSUME Scan(line) PROVE MadeOf(L)'
  BY <1>5, <1>7, <1>10, <1>11, <1>12, <1>13 DEF Scan
<1>14. ASSUME WordLine(line) PROVE MadeOf(L)'
  <2>1. CASE /\ line.kind = "cells"
             /\ Emit(Flushed("paragraph", paragraph))
             /\ table' = IF table = <<>> THEN <<line, Rule>> ELSE Append(table, line)
             /\ paragraph' = <<>>
             /\ UNCHANGED <<list, inCode, code>>
    BY <1>1, <1>6, <1>8, <2>1 DEF Emit, MadeOf, p, S
  <2> QED BY <1>7, <1>12, <1>14, <2>1 DEF WordLine
<1>15. ASSUME TextLine(line) PROVE MadeOf(L)'
  <2>1. CASE /\ line.kind = "prose"
             /\ paragraph' = Append(paragraph, line)
             /\ UNCHANGED <<blocks, table, list, inCode, code>>
    BY <1>1, <1>8, <2>1 DEF MadeOf, S
  <2> QED BY <1>7, <1>15, <2>1 DEF TextLine
<1> QED BY <1>13, <1>14, <1>15

\* A line that is read is kept whole, or without the cells of no column.
LEMMA ReadLineWhole ==
  ASSUME ParserInv, Whole, NEW k \in Kinds[format], ReadLine(k)
  PROVE  Whole'
<1> SUFFICES ASSUME NEW L, L = WholeLine(format', lines') PROVE Whole'
  OBVIOUS
<1> DEFINE line == [n |-> Len(lines) + 1, kind |-> k]
<1>1. lines' = Append(lines, line) /\ format' = format
  BY DEF ReadLine
<1>2. lines \in Seq(Line) /\ Len(lines) \in Nat /\ format \in Format
      /\ \A i \in DOMAIN lines : lines[i].n = i
  BY DEF ParserInv
<1>3. line \in Line /\ line.n = Len(lines) + 1
  BY <1>2, KindsAssumption DEF Line
<1>4. MadeOf(L) /\ L \subseteq Line
  BY <1>1, WholeGrows DEF WholeLine
<1>5. Rule \in L
  BY KindsAssumption DEF Rule, Line, WholeLine
<1>6. /\ Len(lines) + 1 \in DOMAIN lines' /\ lines'[Len(lines) + 1] = line
      /\ lines # <<>> => Len(lines) > 0 /\ 1 \in DOMAIN lines' /\ lines'[1] = lines[1]
      /\ lines = <<>> => Len(lines) = 0
  BY <1>1, <1>2, <1>3
<1>7. CASE format # "csv"
  <2>1. line \in L
    BY <1>1, <1>3, <1>6, <1>7 DEF WholeLine, KeptOf
  <2>2. Scan(line) \/ WordLine(line) \/ TextLine(line)
    BY <1>7 DEF ReadLine
  <2> HIDE DEF line
  <2>3. MadeOf(L)'
    BY <1>4, <1>5, <2>1, <2>2, LineWhole
  <2> QED BY <2>3 DEF Whole, MadeOf
<1>8. CASE format = "csv"
  <2> DEFINE row == Left(line)
  <2>1. CsvRow(line)
    BY <1>8 DEF ReadLine
  <2> HIDE DEF line
  <2>2. lines # <<>> => row \in L
    <3>1. SUFFICES ASSUME lines # <<>> PROVE row \in L
      OBVIOUS
    <3>2. row \in Line /\ row.n = Len(lines) + 1
          /\ row = [n |-> line.n, kind |-> RowKind(lines[1].kind, line.kind)]
      BY <1>3, <1>8, <3>1, LeftLine
    <3>3. row = KeptOf(format, lines', row.n)
      BY <1>2, <1>3, <1>6, <1>8, <3>1, <3>2 DEF KeptOf
    <3> QED BY <1>1, <1>6, <3>2, <3>3 DEF WholeLine
  <2>3. lines # <<>> => lines[1] \in L
    BY <1>2, <1>6 DEF WholeLine, KeptOf
  <2>4. [n |-> 0, kind |-> "blank"] \in L
    BY KindsAssumption DEF Line, WholeLine
  <2>5. lines # <<>> => CsvHeader \in Seq(L)
    BY <1>5, <2>3, <2>4 DEF CsvHeader
  <2> HIDE DEF row
  <2>6. Flushed("table", table) \in Seq(BlocksOf(L)) /\ blocks \in Seq(BlocksOf(L)) /\ table \in Seq(L)
    BY <1>4, FlushedWhole DEF MadeOf
  <2>7. blocks \o Flushed("table", table) \in Seq(BlocksOf(L))
    BY <2>6
  <2>8. lines # <<>> => Append(CsvHeader, row) \in Seq(L) /\ Append(table, row) \in Seq(L)
    BY <2>2, <2>5, <2>6
  <2>9. blocks' \in Seq(BlocksOf(L)) /\ table' \in Seq(L)
    BY <2>1, <2>6, <2>7, <2>8 DEF CsvRow, Emit, row
  <2>10. paragraph' = paragraph /\ list' = list /\ code' = code
    BY <2>1 DEF CsvRow
  <2>11. MadeOf(L)'
    BY <1>4, <2>9, <2>10 DEF MadeOf
  <2> QED BY <2>11 DEF Whole, MadeOf
<1> QED BY <1>7, <1>8

\* What is kept is whole at first.
LEMMA InitWhole == Init => Whole
BY DEF Init, ParserInit, Whole, MadeOf

\* Every step keeps it whole.
LEMMA NextWhole == ParserInv /\ Whole /\ [Next]_vars => Whole'
<1> SUFFICES ASSUME ParserInv, Whole, [Next]_vars PROVE Whole'
  OBVIOUS
<1>1. CASE \E k \in Kinds[format] : ReadLine(k)
  BY <1>1, ReadLineWhole
<1>2. ASSUME EndOfText, UNCHANGED <<format, lines>> PROVE Whole'
  <2> SUFFICES ASSUME NEW L, L = WholeLine(format, lines) PROVE Whole'
    OBVIOUS
  <2> DEFINE S == BlocksOf(L)
  <2>1. MadeOf(L) /\ L \subseteq Line
    BY DEF Whole, WholeLine
  <2>2. FlushAll \in Seq(S) /\ Flushed("code", code) \in Seq(S) /\ blocks \in Seq(S)
    BY <2>1, FlushedWhole DEF MadeOf
  <2> HIDE DEF S
  <2>3. FlushAll \o OpenCode \in Seq(S)
    <3>1. OpenCode \in Seq(S)
      BY <2>2 DEF OpenCode
    <3> QED BY <2>2, <3>1
  <2>4. blocks' \in Seq(S)
    BY <1>2, <2>2, <2>3 DEF EndOfText, Emit
  <2>5. paragraph' = <<>> /\ table' = <<>> /\ list' = <<>> /\ code' = <<>>
    BY <1>2 DEF EndOfText, NothingGathered
  <2>6. MadeOf(L)'
    BY <2>4, <2>5 DEF MadeOf, S
  <2> QED BY <1>2, <2>6 DEF Whole, MadeOf
<1>3. ASSUME UNCHANGED <<blocks, parserVars>> PROVE Whole'
  BY <1>3 DEF Whole, MadeOf, parserVars, gathered
<1>4. UNCHANGED vars => Whole'
  BY <1>3 DEF vars
<1>5. BeginAssembly => Whole'
  BY <1>3 DEF BeginAssembly
<1>6. AssemblerNext /\ UNCHANGED parserVars => Whole'
  <2>1. AssemblerNext => UNCHANGED blocks
    BY DEF AssemblerNext, NextBlock, LargeBlock, NextPiece, Finish
  <2> QED BY <1>3, <2>1
<1>7. NextPage \/ EndOfDocument => Whole'
  BY <1>2 DEF NextPage, EndOfDocument
<1> QED BY <1>1, <1>4, <1>5, <1>6, <1>7 DEF Next, ParserNext

-----------------------------------------------------------------------------
(* The invariants of parsing say what LinesKept says. *)

\* What a concatenation consists of
LEMMA Concatenated ==
  ASSUME NEW S, NEW s \in Seq(S), NEW t \in Seq(S)
  PROVE  /\ s \o t \in Seq(S) /\ Len(s \o t) = Len(s) + Len(t)
         /\ DOMAIN (s \o t) = 1..Len(s) + Len(t)
         /\ \A i \in 1..Len(s) : (s \o t)[i] = s[i]
         /\ \A i \in 1..Len(t) : (s \o t)[Len(s) + i] = t[i]
<1>1. s \o t \in Seq(S) /\ Len(s \o t) = Len(s) + Len(t)
  OBVIOUS
<1>2. \A i \in 1..Len(s) : (s \o t)[i] = s[i]
  OBVIOUS
<1>3. \A i \in 1..Len(t) : (s \o t)[Len(s) + i] = t[i]
  OBVIOUS
<1> QED BY <1>1, <1>2, <1>3

\* A line that is in a text is there as it is kept.
LEMMA InvLinesKept == ParserInv /\ Whole => LinesKept
<1> SUFFICES ASSUME ParserInv, Whole PROVE LinesKept
  OBVIOUS
<1> DEFINE R == ReadSoFar
           m == Len(blocks)
           P == Pending
<1>1. blocks \in Seq(BlockSet) /\ m \in Nat /\ DOMAIN blocks = 1..m
      /\ Parsed(format, blocks, P, Len(lines))
  BY DEF ParserInv, Parsed
<1>2. /\ DOMAIN R = 1..m + 4
      /\ \A i \in 1..m : R[i] = blocks[i].text
      /\ R[m + 1] = paragraph /\ R[m + 2] = table /\ R[m + 3] = list /\ R[m + 4] = code
  <2> DEFINE q == <<paragraph, table, list, code>>
             S == {blocks[i].text : i \in DOMAIN blocks} \cup {paragraph, table, list, code}
  <2>1. Texts(blocks) \in Seq(S) /\ Len(Texts(blocks)) = m /\ \A i \in 1..m : Texts(blocks)[i] = blocks[i].text
    BY <1>1 DEF Texts
  <2>2. q \in Seq(S) /\ Len(q) = 4 /\ q[1] = paragraph /\ q[2] = table /\ q[3] = list /\ q[4] = code
    OBVIOUS
  <2>3. R = Texts(blocks) \o q
    BY DEF ReadSoFar
  <2> DEFINE T == Texts(blocks)
  <2> HIDE DEF q, S, R, T, m
  <2>4. T \in Seq(S) /\ q \in Seq(S) /\ Len(T) = m /\ Len(q) = 4
    BY <2>1, <2>2 DEF T
  <2>5. /\ DOMAIN (T \o q) = 1..m + 4
        /\ \A i \in 1..m : (T \o q)[i] = T[i]
        /\ \A i \in 1..4 : (T \o q)[m + i] = q[i]
    <3>1. /\ DOMAIN (T \o q) = 1..Len(T) + Len(q)
          /\ \A i \in 1..Len(T) : (T \o q)[i] = T[i]
          /\ \A i \in 1..Len(q) : (T \o q)[Len(T) + i] = q[i]
      <4>1. T \in Seq(S) /\ q \in Seq(S)
        BY <2>4
      <4> QED BY <4>1, Concatenated
    <3> QED BY <2>4, <3>1
  <2>6. DOMAIN R = 1..m + 4 /\ (\A i \in 1..m : R[i] = T[i]) /\ \A i \in 1..4 : R[m + i] = q[i]
    BY <2>3, <2>5 DEF T
  <2> QED BY <2>1, <2>2, <2>6 DEF T
<1>3. /\ paragraph # <<>> => P = paragraph /\ table = <<>> /\ list = <<>> /\ code = <<>>
      /\ table # <<>> => P = table /\ paragraph = <<>> /\ list = <<>> /\ code = <<>>
      /\ list # <<>> => P = list /\ paragraph = <<>> /\ table = <<>> /\ code = <<>>
      /\ code # <<>> => P = code /\ paragraph = <<>> /\ table = <<>> /\ list = <<>>
      /\ paragraph = <<>> /\ table = <<>> /\ list = <<>> => P = code
  BY DEF ParserInv, Gathered, Pending
<1> HIDE DEF R, m, P
<1>4. \A j \in m + 1..m + 4 : \A b \in DOMAIN R[j] :
        R[j] = P /\ \A i \in m + 1..m + 4 : i # j => R[i] = <<>>
  <2>1. \A j \in m + 1..m + 4 : j = m + 1 \/ j = m + 2 \/ j = m + 3 \/ j = m + 4
    BY <1>1
  <2>2. DOMAIN <<>> = {}
    OBVIOUS
  <2> QED BY <1>2, <1>3, <2>1, <2>2
<1>5. \E j \in m + 1..m + 4 : P = R[j]
  BY <1>1, <1>2, <1>3
<1>6. ASSUME NEW n \in Content
      PROVE  \E i \in DOMAIN R : \E a \in DOMAIN R[i] : R[i][a] = Kept(n)
  <2>1. (\E i \in DOMAIN blocks : n \in LineNumbers(blocks[i].text)) \/ n \in LineNumbers(P)
    BY <1>6, InCovered DEF ParserInv, P
  <2>2. PICK i \in DOMAIN R : n \in LineNumbers(R[i])
    BY <1>1, <1>2, <1>5, <2>1
  <2>3. PICK a \in DOMAIN R[i] : R[i][a].n = n
    BY <2>2 DEF LineNumbers
  <2>4. R[i] \in Seq(WholeLine(format, lines))
    <3> DEFINE L == WholeLine(format, lines)
    <3>1. MadeOf(L)
      BY DEF Whole
    <3> HIDE DEF L
    <3>2. \A j \in 1..m : blocks[j] \in BlocksOf(L)
      BY <1>1, <3>1 DEF MadeOf
    <3>3. \A j \in 1..m : R[j] \in Seq(L)
      BY <1>2, <3>2 DEF BlocksOf
    <3>4. \A j \in m + 1..m + 4 : R[j] \in Seq(L)
      <4>1. \A j \in m + 1..m + 4 : j = m + 1 \/ j = m + 2 \/ j = m + 3 \/ j = m + 4
        BY <1>1
      <4> QED BY <1>2, <3>1, <4>1 DEF MadeOf
    <3> QED BY <1>1, <1>2, <3>3, <3>4 DEF L
  <2>5. R[i][a] \in WholeLine(format, lines) /\ n # 0
    BY <1>6, <2>3, <2>4 DEF Content, IsRepeated, ParserInv
  <2>6. R[i][a] = KeptOf(format, lines, n)
    BY <2>3, <2>5 DEF WholeLine
  <2> QED BY <2>6 DEF Kept, KeptOf
<1>7. ASSUME NEW i \in DOMAIN R, NEW j \in DOMAIN R, NEW a \in DOMAIN R[i], NEW b \in DOMAIN R[j],
             i < j \/ (i = j /\ a < b), ~Rep(format, R[i][a]), ~Rep(format, R[j][b])
      PROVE  R[i][a].n < R[j][b].n
  <2>1. CASE i \in 1..m /\ j \in 1..m
    <3>1. R[i] = blocks[i].text /\ R[j] = blocks[j].text /\ i \in DOMAIN blocks /\ j \in DOMAIN blocks
      BY <1>1, <1>2, <2>1
    <3>2. CASE i < j
      <4>1. Precede(format, blocks[i].text, blocks[j].text)
        BY <1>1, <3>1, <3>2 DEF Parsed
      <4> QED BY <1>7, <3>1, <4>1 DEF Precede
    <3>3. CASE i = j
      <4>1. Increasing(format, blocks[i].text)
        BY <1>1, <3>1 DEF Parsed, BlockOK
      <4>2. a < b
        BY <1>1, <1>7, <3>3, <2>1
      <4> QED BY <1>7, <3>1, <3>3, <4>1, <4>2 DEF Increasing
    <3> QED BY <1>7, <3>2, <3>3
  <2>2. CASE i \in 1..m /\ j \in m + 1..m + 4
    BY <1>1, <1>2, <1>4, <1>7, <2>2 DEF Parsed, Precede
  <2>3. CASE i \in m + 1..m + 4
    <3>1. j \in m + 1..m + 4
      BY <1>1, <1>2, <1>7, <2>3
    <3>2. i = j
      BY <1>4, <1>7, <2>3, <3>1
    <3> QED BY <1>1, <1>4, <1>7, <3>1, <3>2 DEF Parsed, Increasing
  <2> QED BY <1>1, <1>2, <2>1, <2>2, <2>3
<1>8. \A l : IsRepeated(l) <=> Rep(format, l)
  BY DEF IsRepeated, Rep
<1> QED BY <1>6, <1>7, <1>8 DEF LinesKept, R

-----------------------------------------------------------------------------
(* Chunks: what the lines of a chunk are, and what came before them. *)

Section(b) == IsHeading(b) /\ b.level <= SectionBreak

GivenOK(f, g) ==
  /\ g \in Seq(BlockSet)
  /\ \A i \in DOMAIN g : BlockOK(f, g[i])
  /\ \A i, j \in DOMAIN g : i < j => Precede(f, g[i].text, g[j].text)
  /\ (\A i \in DOMAIN g : g[i].page = 0) \/ (\A i \in DOMAIN g : g[i].page # 0)

\* The lines of the first k blocks that belong into chunks
Upto(g, k) ==
  {n \in Nat \ {0} : \E i \in 1..k : ~Section(g[i]) /\ n \in LineNumbers(g[i].text)}

\* ... and the first c lines of the next block
Seen(g, k, c) == Upto(g, k) \cup {n \in Nat \ {0} : \E a \in 1..c : n = g[k + 1].text[a].n}

BeforeIn(cs, i) == UNION {Lines(cs[j]) : j \in 1..i - 1}

\* A line of an earlier chunk
LEMMA BeforeMember ==
  ASSUME NEW cs, NEW i, NEW n
  PROVE  n \in BeforeIn(cs, i) <=> \E j \in 1..i - 1 : n \in Lines(cs[j])
BY Zenon DEF BeforeIn

\* A line of a chunk
LEMMA LinesMember ==
  ASSUME NEW c, NEW n
  PROVE  n \in Lines(c) <=> n # 0 /\ \E k \in DOMAIN c.parts : n \in LineNumbers(c.parts[k])
<1> DEFINE S == {LineNumbers(c.parts[k]) : k \in DOMAIN c.parts}
<1>1. n \in UNION S <=> \E k \in DOMAIN c.parts : n \in LineNumbers(c.parts[k])
  BY Zenon
<1>2. Lines(c) = (UNION S) \ {0}
  BY DEF Lines
<1> HIDE DEF S
<1> QED BY <1>1, <1>2

\* A line of a text
LEMMA TextMember ==
  ASSUME NEW text, NEW n
  PROVE  n \in LineNumbers(text) <=> \E a \in DOMAIN text : text[a].n = n
BY DEF LineNumbers

\* Types of the blocks
LEMMA GivenTypes ==
  ASSUME NEW f, NEW g, GivenOK(f, g)
  PROVE  /\ g \in Seq(BlockSet) /\ Len(g) \in Nat /\ DOMAIN g = 1..Len(g)
         /\ \A i \in DOMAIN g : /\ g[i] \in BlockSet /\ g[i].text \in Seq(Line)
                                /\ BlockOK(f, g[i]) /\ TextOK(f, g[i].type, g[i].text) /\ i \in Nat
                                /\ \A a \in DOMAIN g[i].text : g[i].text[a] \in Line
                                                               /\ g[i].text[a].n \in Nat
<1>1. g \in Seq(BlockSet)
  BY DEF GivenOK
<1>2. ASSUME NEW i \in DOMAIN g
      PROVE  /\ g[i] \in BlockSet /\ g[i].text \in Seq(Line) /\ i \in Nat
             /\ BlockOK(f, g[i]) /\ TextOK(f, g[i].type, g[i].text)
  <2>1. g[i] \in BlockSet
    BY <1>1
  <2>2. BlockOK(f, g[i])
    BY DEF GivenOK
  <2>3. TextOK(f, g[i].type, g[i].text)
    BY <2>2 DEF BlockOK
  <2>4. i \in Nat
    BY <1>1
  <2>5. g[i].text \in Seq(Line)
    BY <2>1 DEF BlockSet
  <2> QED BY <2>1, <2>2, <2>3, <2>4, <2>5
<1>3. ASSUME NEW u \in Seq(Line), NEW a \in DOMAIN u PROVE u[a] \in Line /\ u[a].n \in Nat
  <2>1. u[a] \in Line
    BY <1>3
  <2> QED BY <2>1 DEF Line
<1> QED BY <1>1, <1>2, <1>3

\* A heading is a line of its own, and not in a CSV file.
LEMMA HeadingText ==
  ASSUME NEW f, NEW g, GivenOK(f, g), NEW i \in DOMAIN g, IsHeading(g[i])
  PROVE  /\ Len(g[i].text) = 1 /\ g[i].text[1].n \in Nat \ {0} /\ f # "csv"
         /\ LineNumbers(g[i].text) = {g[i].text[1].n} /\ g[i].level \in Levels /\ g[i].level \in Nat
         /\ 1 \in DOMAIN g[i].text /\ ~Rep(f, g[i].text[1])
<1> DEFINE t == g[i].text
<1>1. t \in Seq(Line) /\ TextOK(f, "heading", t) /\ g[i].level \in Levels
      /\ \A a \in DOMAIN t : t[a].n \in Nat
  BY GivenTypes DEF GivenOK, BlockOK, IsHeading
<1> HIDE DEF t
<1>2. Len(t) = 1 /\ DOMAIN t = {1}
  BY <1>1 DEF TextOK
<1>3. f # "csv" /\ t[1].n \in Nat \ {0}
  <2>1. t # <<>> /\ 1 \in DOMAIN t
    BY <1>2
  <2>2. f # "csv"
    BY <1>1, <2>1 DEF TextOK
  <2>3. t[1].n # 0
    BY <1>1, <2>1 DEF TextOK
  <2> QED BY <1>1, <2>1, <2>2, <2>3
<1>4. LineNumbers(t) = {t[1].n}
  BY <1>2 DEF LineNumbers
<1>5. ~Rep(f, t[1])
  BY <1>3 DEF Rep
<1>6. g[i].level \in Nat
  BY <1>1, LevelsAssumption DEF Levels
<1> QED BY <1>1, <1>2, <1>3, <1>4, <1>5, <1>6 DEF t

\* In the blocks, a line that comes after another one has a higher number, unless
\* it repeats a line that was seen before.
LEMMA LinesInOrder ==
  ASSUME NEW f, NEW g, GivenOK(f, g), NEW i \in DOMAIN g, NEW j \in DOMAIN g,
         NEW a \in DOMAIN g[i].text, NEW b \in DOMAIN g[j].text, i < j \/ (i = j /\ a < b),
         g[i].text[a].n # 0, g[j].text[b].n # 0,
         f = "csv" => g[j].text[b].n # 1
  PROVE  g[i].text[a].n < g[j].text[b].n
<1> DEFINE m == g[i].text[a]
           n == g[j].text[b]
<1>1. m.n \in Nat /\ n.n \in Nat /\ i \in Nat /\ j \in Nat
  BY GivenTypes
<1>2. ~Rep(f, n)
  BY DEF Rep
<1>3. CASE Rep(f, m)
  <2>1. f = "csv" /\ m.n = 1
    BY <1>3 DEF Rep
  <2> QED BY <1>1, <2>1
<1>4. CASE ~Rep(f, m)
  <2>1. CASE i < j
    <3>1. Precede(f, g[i].text, g[j].text)
      BY <2>1 DEF GivenOK
    <3> QED BY <1>2, <1>4, <3>1 DEF Precede
  <2>2. CASE i = j
    <3>1. Increasing(f, g[i].text)
      BY DEF GivenOK, BlockOK
    <3>2. a < b
      BY <1>1, <2>2
    <3> QED BY <1>2, <1>4, <2>2, <3>1, <3>2 DEF Increasing
  <2> QED BY <2>1, <2>2
<1> QED BY <1>3, <1>4

\* Line b of block j comes after the first k blocks and c lines of the next one.
Past(f, g, k, c, j, b) ==
  /\ GivenOK(f, g) /\ k \in Nat /\ c \in Nat /\ k <= Len(g)
  /\ c > 0 => k + 1 \in DOMAIN g /\ c <= Len(g[k + 1].text)
  /\ j \in DOMAIN g /\ b \in DOMAIN g[j].text
  /\ j > k + 1 \/ (j = k + 1 /\ b > c)

\* What was seen is a line of an earlier place.
LEMMA SeenAt ==
  ASSUME NEW f, NEW g, NEW k, NEW c, NEW j, NEW b, Past(f, g, k, c, j, b), NEW m \in Seen(g, k, c)
  PROVE  \E i \in DOMAIN g : \E a \in DOMAIN g[i].text :
           /\ m = g[i].text[a].n /\ m # 0 /\ (i < j \/ (i = j /\ a < b))
           /\ i <= k => ~Section(g[i])
           /\ i = k + 1 => a <= c
           /\ i <= k + 1
<1> USE DEF Past
<1>0. j \in Nat /\ b \in Nat /\ g[j].text \in Seq(Line)
  BY GivenTypes
<1>1. CASE m \in Upto(g, k)
  <2>1. PICK i \in 1..k : ~Section(g[i]) /\ m \in LineNumbers(g[i].text) /\ m # 0
    BY <1>1 DEF Upto
  <2>2. PICK a \in DOMAIN g[i].text : g[i].text[a].n = m
    BY <2>1, TextMember
  <2>3. i \in DOMAIN g
    BY <2>1, GivenTypes
  <2> QED BY <1>0, <2>1, <2>2, <2>3
<1>2. CASE m \notin Upto(g, k)
  <2>1. PICK a \in 1..c : m = g[k + 1].text[a].n /\ m # 0
    BY <1>2 DEF Seen
  <2>2. c > 0 /\ k + 1 \in DOMAIN g
    BY <2>1
  <2>3. a \in DOMAIN g[k + 1].text
    BY <2>1, <2>2, GivenTypes
  <2> QED BY <1>0, <2>1, <2>2, <2>3
<1> QED BY <1>1, <1>2

\* A line that is not a repetition comes after everything that was seen.
LEMMA NewAfterSeen ==
  ASSUME NEW f, NEW g, NEW k, NEW c, NEW j, NEW b, Past(f, g, k, c, j, b),
         ~Rep(f, g[j].text[b]), NEW m \in Seen(g, k, c)
  PROVE  m < g[j].text[b].n
<1>1. PICK i \in DOMAIN g : \E a \in DOMAIN g[i].text :
         m = g[i].text[a].n /\ m # 0 /\ (i < j \/ (i = j /\ a < b))
  BY SeenAt
<1>2. PICK a \in DOMAIN g[i].text :
         m = g[i].text[a].n /\ m # 0 /\ (i < j \/ (i = j /\ a < b))
  BY <1>1
<1>3. g[j].text[b].n # 0 /\ (f = "csv" => g[j].text[b].n # 1)
  BY DEF Rep
<1> QED BY <1>2, <1>3, LinesInOrder DEF Past

\* So does a line that is not of what was seen.
LEMMA BeyondSeen ==
  ASSUME NEW f, NEW g, NEW k, NEW c, NEW j, NEW b, Past(f, g, k, c, j, b),
         g[j].text[b].n # 0, g[j].text[b].n \notin Seen(g, k, c),
         NEW m \in Seen(g, k, c)
  PROVE  m < g[j].text[b].n
<1> DEFINE n == g[j].text[b].n
<1>0. PICK i \in DOMAIN g : \E a \in DOMAIN g[i].text :
         /\ m = g[i].text[a].n /\ m # 0 /\ (i < j \/ (i = j /\ a < b))
         /\ i <= k => ~Section(g[i])
         /\ i = k + 1 => a <= c
         /\ i <= k + 1
  BY SeenAt
<1>1. PICK a \in DOMAIN g[i].text :
         /\ m = g[i].text[a].n /\ m # 0 /\ (i < j \/ (i = j /\ a < b))
         /\ i <= k => ~Section(g[i])
         /\ i = k + 1 => a <= c
         /\ i <= k + 1
  BY <1>0
<1> USE DEF Past
<1>2. f = "csv" => n # 1
  <2> SUFFICES ASSUME f = "csv", n = 1 PROVE FALSE
    OBVIOUS
  <2>1. ~IsHeading(g[i])
    BY HeadingText
  <2>2. g[i].text \in Seq(Line) /\ TextOK(f, g[i].type, g[i].text) /\ i \in Nat
    BY GivenTypes
  <2>3. g[i].text # <<>> /\ 1 \in DOMAIN g[i].text /\ 1 <= a /\ a \in Nat
    BY <1>1, <2>2
  <2>4. g[i].text[1].n = 1
    BY <2>2, <2>3 DEF TextOK
  <2>5. CASE i <= k
    <3>1. i \in 1..k /\ 1 \in LineNumbers(g[i].text)
      BY <2>2, <2>3, <2>4, <2>5, GivenTypes, TextMember
    <3> QED BY <2>1, <3>1 DEF Seen, Upto, Section
  <2>6. CASE i = k + 1
    <3>1. 1 \in 1..c
      BY <1>1, <2>3, <2>6
    <3> QED BY <2>4, <2>6, <3>1 DEF Seen
  <2> QED BY <1>1, <2>2, <2>5, <2>6
<1> QED BY <1>1, <1>2, LinesInOrder

-----------------------------------------------------------------------------
(* Tokens. *)

\* The estimate of tokens is a number.
LEMMA TokensNat ==
  ASSUME NEW text \in Seq(Line)
  PROVE  Tokens(text) \in Nat
<1> DEFINE w == [i \in DOMAIN text |-> Weight[text[i].kind]]
           e == TextWeight(text) \div 40
<1>1. \A i \in DOMAIN text : Weight[text[i].kind] \in Nat
  <2> TAKE i \in DOMAIN text
  <2>1. text[i] \in Line
    OBVIOUS
  <2> QED BY <2>1, WeightAssumption DEF Line
<1>2. w \in Seq(Nat)
  BY <1>1
<1>3. Total(w) \in Nat
  BY <1>2, TotalNat
<1>4. TextWeight(text) \in Int
  <2>1. TextWeight(text) = Total(w) + 5 * (Len(text) - 1)
    BY DEF TextWeight
  <2>2. Len(text) \in Nat
    OBVIOUS
  <2> HIDE DEF w
  <2> QED BY <1>3, <2>1, <2>2
<1>5. e \in Int
  BY <1>4
<1>6. Tokens(text) = IF \A i \in DOMAIN text : Weight[text[i].kind] = 0 THEN 0
                     ELSE IF e > 1 THEN e ELSE 1
  BY DEF Tokens
<1> HIDE DEF e
<1> QED BY <1>5, <1>6

\* An empty text has no tokens.
LEMMA TokensEmpty == Tokens(<<>>) = 0
BY DEF Tokens

\* Counts of the blocks p to q: all of them, and without the headings
Counts(g, p, q) == [k \in 1..q - p + 1 |-> Tokens(g[p + k - 1].text)]
BodyCount(b) == IF IsHeading(b) THEN 0 ELSE Tokens(b.text)
BodyCounts(g, p, q) == [k \in 1..q - p + 1 |-> BodyCount(g[p + k - 1])]

\* The types of the counts, and that headings only add to them
LEMMA CountTypes ==
  ASSUME NEW f, NEW g, GivenOK(f, g), NEW p \in Nat \ {0}, NEW q \in Nat, q <= Len(g), p <= q + 1
  PROVE  /\ Counts(g, p, q) \in Seq(Nat) /\ BodyCounts(g, p, q) \in Seq(Nat)
         /\ Len(Counts(g, p, q)) = q - p + 1 /\ Len(BodyCounts(g, p, q)) = q - p + 1
         /\ Total(Counts(g, p, q)) \in Nat /\ Total(BodyCounts(g, p, q)) \in Nat
         /\ Total(BodyCounts(g, p, q)) <= Total(Counts(g, p, q))
<1> DEFINE n == q - p + 1
           C(k) == Tokens(g[p + k - 1].text)
           D(k) == BodyCount(g[p + k - 1])
<1>1. \A k \in 1..n : C(k) \in Nat /\ D(k) \in Nat /\ D(k) <= C(k)
  <2> SUFFICES ASSUME NEW k \in 1..n PROVE C(k) \in Nat /\ D(k) \in Nat /\ D(k) <= C(k)
    OBVIOUS
  <2>1. p + k - 1 \in DOMAIN g
    BY GivenTypes
  <2>2. g[p + k - 1].text \in Seq(Line)
    BY <2>1, GivenTypes
  <2>3. Tokens(g[p + k - 1].text) \in Nat
    BY <2>2, TokensNat
  <2> QED BY <2>3 DEF BodyCount
<1>2. n \in Nat
  OBVIOUS
<1>3. Counts(g, p, q) = [k \in 1..n |-> C(k)] /\ BodyCounts(g, p, q) = [k \in 1..n |-> D(k)]
  BY DEF Counts, BodyCounts
<1> HIDE DEF n, C, D
<1>4. /\ Counts(g, p, q) \in Seq(Nat) /\ BodyCounts(g, p, q) \in Seq(Nat)
      /\ Len(Counts(g, p, q)) = n /\ Len(BodyCounts(g, p, q)) = n
  BY <1>1, <1>2, <1>3
<1>5. \A k \in 1..n : BodyCounts(g, p, q)[k] <= Counts(g, p, q)[k]
  BY <1>1, <1>3
<1>6. Total(BodyCounts(g, p, q)) <= Total(Counts(g, p, q))
  BY <1>4, <1>5, TotalMonotone
<1> QED BY <1>4, <1>6, TotalNat DEF n

\* One block more
LEMMA CountsNext ==
  ASSUME NEW f, NEW g, GivenOK(f, g), NEW p \in Nat \ {0}, NEW q \in Nat, q + 1 <= Len(g), p <= q + 1
  PROVE  /\ Total(Counts(g, p, q + 1)) = Total(Counts(g, p, q)) + Tokens(g[q + 1].text)
         /\ Total(BodyCounts(g, p, q + 1)) = Total(BodyCounts(g, p, q)) + BodyCount(g[q + 1])
<1> DEFINE n == q - p + 1
           t == Tokens(g[q + 1].text)
           b == BodyCount(g[q + 1])
           C == Counts(g, p, q)
           D == BodyCounts(g, p, q)
<1>1. /\ C \in Seq(Nat) /\ Len(C) = n /\ D \in Seq(Nat) /\ Len(D) = n
      /\ Counts(g, p, q + 1) \in Seq(Nat) /\ Len(Counts(g, p, q + 1)) = n + 1
      /\ BodyCounts(g, p, q + 1) \in Seq(Nat) /\ Len(BodyCounts(g, p, q + 1)) = n + 1
  <2>1. q <= Len(g) /\ p <= (q + 1) + 1 /\ q + 1 \in Nat /\ (q + 1) - p + 1 = n + 1
    BY GivenTypes
  <2>2. C \in Seq(Nat) /\ Len(C) = n /\ D \in Seq(Nat) /\ Len(D) = n
    BY <2>1, CountTypes
  <2>3. /\ Counts(g, p, q + 1) \in Seq(Nat) /\ BodyCounts(g, p, q + 1) \in Seq(Nat)
        /\ Len(Counts(g, p, q + 1)) = (q + 1) - p + 1 /\ Len(BodyCounts(g, p, q + 1)) = (q + 1) - p + 1
    <3> DEFINE z == q + 1
    <3>1. z \in Nat /\ z <= Len(g) /\ p <= z + 1
      BY <2>1
    <3> HIDE DEF z
    <3>2. /\ Counts(g, p, z) \in Seq(Nat) /\ BodyCounts(g, p, z) \in Seq(Nat)
          /\ Len(Counts(g, p, z)) = z - p + 1 /\ Len(BodyCounts(g, p, z)) = z - p + 1
      BY <3>1, CountTypes
    <3> QED BY <3>2 DEF z
  <2> QED BY <2>1, <2>2, <2>3
<1>2. t \in Nat /\ b \in Nat
  <2>1. q + 1 \in DOMAIN g
    BY GivenTypes
  <2>2. g[q + 1].text \in Seq(Line)
    BY <2>1, GivenTypes
  <2> QED BY <2>2, TokensNat DEF BodyCount
<1>3. n \in Nat /\ p + (n + 1) - 1 = q + 1 /\ (q + 1) - p + 1 = n + 1
  OBVIOUS
<1>4. \A k \in 1..n : Counts(g, p, q + 1)[k] = C[k] /\ BodyCounts(g, p, q + 1)[k] = D[k]
  BY <1>3 DEF Counts, BodyCounts
<1>5. Counts(g, p, q + 1)[n + 1] = t /\ BodyCounts(g, p, q + 1)[n + 1] = b
  BY <1>3 DEF Counts, BodyCounts
<1> HIDE DEF n, t, b, C, D
<1>6. ASSUME NEW s \in Seq(Nat), NEW u \in Seq(Nat), NEW x \in Nat, Len(s) = n, Len(u) = n + 1,
             \A k \in 1..n : u[k] = s[k], u[n + 1] = x
      PROVE  Total(u) = Total(s) + x
  <2>1. Append(s, x) \in Seq(Nat) /\ Len(Append(s, x)) = n + 1
        /\ \A k \in 1..n + 1 : Append(s, x)[k] = u[k]
    BY <1>3, <1>6
  <2>2. u = Append(s, x)
    BY <1>3, <1>6, <2>1, SeqEqual
  <2> QED BY <2>2, TotalAppend
<1> QED BY <1>1, <1>2, <1>4, <1>5, <1>6 DEF C, D, t, b

-----------------------------------------------------------------------------
(* What every chunk is made of. *)

ChunkSet == [parts : Seq(Seq(Line)), trail : [Levels -> Nat], pages : SUBSET Nat]

\* The first r blocks from p on are repeated in chunk i.
OverlapAt(g, cs, i, p, r) ==
  /\ BeforeIn(cs, i) = Upto(g, p + r - 1)
  /\ r > 0 => LET last == cs[i - 1].parts
              IN /\ i > 1 /\ r <= Len(last)
                 /\ \A k \in 1..r : g[p + k - 1].text = last[Len(last) - r + k]
  /\ \A k \in 1..r : Repeatable(g[p + k - 1])
  /\ Total(Counts(g, p, p + r - 1)) <= Overlap

\* Heading i of the first q blocks is in force at the end of them: none of its level
\* or of a higher one follows.
InForceAt(g, q, l, i) ==
  /\ i \in 1..q /\ IsHeading(g[i]) /\ g[i].level = l
  /\ \A j \in i + 1..q : IsHeading(g[j]) => g[j].level > l

\* v is the title of level l in force after the first q blocks, 0 if there is none.
TitleAt(g, q, l, v) ==
  IF v = 0 THEN \A i \in 1..q : ~InForceAt(g, q, l, i)
  ELSE \E i \in 1..q : InForceAt(g, q, l, i) /\ v = g[i].text[1].n

NoHeading(g, q) == \A i \in 1..q : ~IsHeading(g[i])

HeadingsOK(h, g, q) ==
  /\ h \in [Levels -> Nat]
  /\ \A l \in Levels : TitleAt(g, q, l, h[l])
  /\ h = NoTrail => NoHeading(g, q)

\* A title of level l of the section that the first q blocks end in
OfSection(g, q, l, v) ==
  \E i \in 1..q : /\ IsHeading(g[i]) /\ g[i].level = l /\ v = g[i].text[1].n
                  /\ \A j \in i + 1..q : ~Section(g[j])

\* A trail has the section titles in force after the first q blocks, and other titles
\* of the section they end in; or it is empty.
TrailOK(t, g, q) ==
  /\ t \in [Levels -> Nat]
  /\ t # NoTrail => /\ \A l \in 1..SectionBreak : TitleAt(g, q, l, t[l])
                    /\ \A l \in SectionBreak + 1..NumLevels : t[l] # 0 => OfSection(g, q, l, t[l])

\* ... which it is before the first heading only,
ChunkTrail(t, g, q) == TrailOK(t, g, q) /\ (t = NoTrail => NoHeading(g, q))

\* or on the pieces of a block that comes after one that was buffered.
AfterBuffered(g, j) == j > 1 /\ Buffered(g[j - 1])
PieceTrail(t, g, j) ==
  TrailOK(t, g, j) /\ (t = NoTrail => NoHeading(g, j) \/ AfterBuffered(g, j))

\* A chunk of the blocks p to q
FromBuffer(g, cs, i, p, q, r) ==
  /\ Len(cs[i].parts) = q - p + 1
  /\ \A k \in 1..q - p + 1 : cs[i].parts[k] = g[p + k - 1].text
  /\ \A j \in p..q : ~Section(g[j])
  /\ cs[i].pages = {PageOf(g[j]) : j \in p..q}
  /\ OverlapAt(g, cs, i, p, r)
  /\ Total(BodyCounts(g, p, q)) <= MaxChunk + Overlap
  /\ ChunkTrail(cs[i].trail, g, q)

\* What is in chunks when c lines of block j are
PieceBefore(g, j, c, before) ==
  \/ before = Seen(g, j - 1, c)
  \/ c = Len(Header(g[j])) /\ before = Upto(g, j - 1)

\* A chunk of the lines after c, to e, of block j
FromPiece(g, cs, i, j, c, e) ==
  LET b == g[j]
      piece == SubSeq(b.text, c + 1, e)
  IN /\ ~IsHeading(b) /\ IsLarge(b) /\ c >= Len(Header(b)) /\ c < e /\ e <= Len(b.text)
     /\ cs[i].parts = <<Header(b) \o piece>>
     /\ cs[i].pages = {PageOf(b)}
     /\ PieceBefore(g, j, c, BeforeIn(cs, i))
     /\ b.type = "paragraph" \/ e = c + 1 \/ Tokens(Header(b)) + LinesTokens(piece) <= MaxChunk
     /\ PieceTrail(cs[i].trail, g, j)

SourceOK(g, cs, i) ==
  \/ \E p \in 1..Len(g) : \E q \in p..Len(g) : \E r \in 0..q - p : FromBuffer(g, cs, i, p, q, r)
  \/ \E j \in 1..Len(g) : \E c, e \in 0..Len(g[j].text) : FromPiece(g, cs, i, j, c, e)

ChunksOK(g, cs) == cs \in Seq(ChunkSet) /\ \A i \in DOMAIN cs : SourceOK(g, cs, i)

\* Chunks that are added do not change what there was before a chunk.
LEMMA BeforeStays ==
  ASSUME NEW cs, NEW ds, NEW i \in Nat, \A j \in 1..i - 1 : ds[j] = cs[j]
  PROVE  BeforeIn(ds, i) = BeforeIn(cs, i)
<1>1. ASSUME NEW n PROVE n \in BeforeIn(ds, i) <=> n \in BeforeIn(cs, i)
  <2>1. n \in BeforeIn(ds, i) <=> \E j \in 1..i - 1 : n \in Lines(ds[j])
    BY BeforeMember
  <2>2. n \in BeforeIn(cs, i) <=> \E j \in 1..i - 1 : n \in Lines(cs[j])
    BY BeforeMember
  <2> QED BY <2>1, <2>2
<1> QED BY <1>1

\* Chunks that are added do not change what an earlier one repeats.
LEMMA OverlapStays ==
  ASSUME NEW g, NEW cs, NEW ds, NEW i \in Nat, NEW p, NEW r,
         \A j \in 1..i - 1 : ds[j] = cs[j], OverlapAt(g, cs, i, p, r)
  PROVE  OverlapAt(g, ds, i, p, r)
<1>1. BeforeIn(ds, i) = BeforeIn(cs, i)
  BY BeforeStays
<1>2. i > 1 => ds[i - 1] = cs[i - 1]
  OBVIOUS
<1> QED BY <1>1, <1>2 DEF OverlapAt

\* A chunk is added.
LEMMA ChunkAdded ==
  ASSUME NEW g, NEW cs, ChunksOK(g, cs), NEW c \in ChunkSet, NEW ds, ds = Append(cs, c),
         SourceOK(g, ds, Len(cs) + 1)
  PROVE  ChunksOK(g, ds)
<1>1. cs \in Seq(ChunkSet) /\ Len(cs) \in Nat /\ DOMAIN cs = 1..Len(cs)
  BY DEF ChunksOK
<1>2. ds \in Seq(ChunkSet) /\ DOMAIN ds = DOMAIN cs \cup {Len(cs) + 1}
      /\ \A i \in DOMAIN cs : ds[i] = cs[i]
  BY <1>1
<1>3. ASSUME NEW i \in DOMAIN cs PROVE SourceOK(g, ds, i)
  <2>1. i \in Nat /\ ds[i] = cs[i] /\ \A j \in 1..i - 1 : ds[j] = cs[j]
    BY <1>1, <1>2
  <2>2. BeforeIn(ds, i) = BeforeIn(cs, i)
    BY <2>1, BeforeStays
  <2>3. \A p, q, r : FromBuffer(g, cs, i, p, q, r) => FromBuffer(g, ds, i, p, q, r)
    <3> SUFFICES ASSUME NEW p, NEW q, NEW r, FromBuffer(g, cs, i, p, q, r)
                 PROVE  FromBuffer(g, ds, i, p, q, r)
      OBVIOUS
    <3>1. OverlapAt(g, ds, i, p, r)
      BY <2>1, OverlapStays DEF FromBuffer
    <3> QED BY <2>1, <3>1 DEF FromBuffer
  <2>4. \A j, k, e : FromPiece(g, cs, i, j, k, e) => FromPiece(g, ds, i, j, k, e)
    BY <2>1, <2>2 DEF FromPiece
  <2>5. SourceOK(g, cs, i)
    BY DEF ChunksOK
  <2> QED BY <2>3, <2>4, <2>5 DEF SourceOK
<1> QED BY <1>2, <1>3 DEF ChunksOK

\* What there is before the chunk that follows
LEMMA BeforeAdded ==
  ASSUME NEW cs, NEW S, cs \in Seq(S), NEW c \in S, NEW ds, ds = Append(cs, c)
  PROVE  /\ Len(ds) = Len(cs) + 1 /\ Len(cs) \in Nat /\ ds[Len(cs) + 1] = c
         /\ BeforeIn(ds, Len(ds)) = BeforeIn(cs, Len(cs) + 1)
         /\ BeforeIn(ds, Len(ds) + 1) = BeforeIn(cs, Len(cs) + 1) \cup Lines(c)
<1>1. Len(ds) = Len(cs) + 1 /\ Len(cs) \in Nat /\ ds[Len(cs) + 1] = c
      /\ \A j \in 1..Len(cs) : ds[j] = cs[j]
  OBVIOUS
<1>2. BeforeIn(ds, Len(cs) + 1) = BeforeIn(cs, Len(cs) + 1)
  <2> DEFINE i == Len(cs) + 1
  <2>1. i \in Nat /\ \A j \in 1..i - 1 : ds[j] = cs[j]
    BY <1>1
  <2> HIDE DEF i
  <2>2. BeforeIn(ds, i) = BeforeIn(cs, i)
    BY <2>1, BeforeStays
  <2> QED BY <2>2 DEF i
<1>3. ASSUME NEW n PROVE n \in BeforeIn(ds, Len(ds) + 1) <=> n \in BeforeIn(ds, Len(ds)) \cup Lines(c)
  <2>0. (Len(ds) + 1) - 1 = Len(ds) /\ Len(ds) - 1 = Len(cs)
    BY <1>1
  <2>1. n \in BeforeIn(ds, Len(ds) + 1) <=> \E j \in 1..(Len(ds) + 1) - 1 : n \in Lines(ds[j])
    BY BeforeMember
  <2>2. n \in BeforeIn(ds, Len(ds)) <=> \E j \in 1..Len(ds) - 1 : n \in Lines(ds[j])
    BY BeforeMember
  <2> QED BY <1>1, <2>0, <2>1, <2>2
<1> QED BY <1>1, <1>2, <1>3

-----------------------------------------------------------------------------
(* The buffer holds the last of the n blocks taken. *)

Held(g, n, buf) ==
  /\ buf \in Seq(BlockSet) /\ Len(buf) <= n
  /\ \A i \in DOMAIN buf : buf[i] = g[n - Len(buf) + i] /\ ~Section(buf[i])

BufferOK(g, n, buf, ps) ==
  /\ Held(g, n, buf)
  /\ ps = {PageOf(buf[i]) : i \in DOMAIN buf}
  /\ Total(BodyCounts(g, n - Len(buf) + 1, n)) <= MaxChunk + Overlap

Repeated(g, n, buf, cs, r) ==
  /\ r \in 0..Len(buf) /\ (buf # <<>> => r < Len(buf))
  /\ OverlapAt(g, cs, Len(cs) + 1, n - Len(buf) + 1, r)

\* Block k of the m in the buffer is block p + k - 1 of the document.
Places(g, n, buf, m, p) ==
  /\ buf \in Seq(BlockSet) /\ m \in Nat /\ m <= n /\ n \in Nat /\ p \in Nat \ {0}
  /\ DOMAIN buf = 1..m /\ n - p + 1 = m /\ p <= n + 1 /\ n <= Len(g)
  /\ DOMAIN g = 1..Len(g) /\ Len(g) \in Nat
  /\ \A k \in 1..m : buf[k] = g[p + k - 1] /\ ~Section(buf[k]) /\ buf[k] \in BlockSet
  /\ \A k \in 1..m : p + k - 1 \in p..n /\ p + k - 1 \in 1..n /\ p + k - 1 \in DOMAIN g
  /\ \A j \in p..n : j - p + 1 \in 1..m /\ p + (j - p + 1) - 1 = j /\ g[j] = buf[j - p + 1]
  /\ \A j \in p..n : j \in DOMAIN g

\* Where in the document the buffered blocks are
LEMMA BufferPlaces ==
  ASSUME NEW f, NEW g, GivenOK(f, g), NEW n \in 0..Len(g), NEW buf, Held(g, n, buf),
         NEW m, m = Len(buf), NEW p, p = n - m + 1
  PROVE  Places(g, n, buf, m, p)
<1>1. /\ buf \in Seq(BlockSet) /\ m <= n /\ n \in Nat /\ n <= Len(g)
      /\ DOMAIN g = 1..Len(g) /\ Len(g) \in Nat
      /\ \A i \in DOMAIN buf : buf[i] = g[n - m + i] /\ ~Section(buf[i])
  BY GivenTypes DEF Held
<1>2. m \in Nat /\ DOMAIN buf = 1..m /\ \A k \in 1..m : buf[k] \in BlockSet
  BY <1>1
<1>3. p \in Nat \ {0} /\ n - p + 1 = m /\ p <= n + 1
  BY <1>1, <1>2
<1>4. ASSUME NEW k \in 1..m
      PROVE  /\ p + k - 1 = n - m + k /\ p + k - 1 \in p..n /\ p + k - 1 \in 1..n
             /\ p + k - 1 \in 1..Len(g)
  BY <1>1, <1>2, <1>3
<1>5. \A k \in 1..m : buf[k] = g[p + k - 1] /\ ~Section(buf[k])
  BY <1>1, <1>2, <1>4
<1>6. ASSUME NEW j \in p..n
      PROVE  j - p + 1 \in 1..m /\ p + (j - p + 1) - 1 = j /\ j \in 1..Len(g)
  BY <1>1, <1>2, <1>3
<1>7. \A j \in p..n : g[j] = buf[j - p + 1]
  BY <1>5, <1>6
<1> QED BY <1>1, <1>2, <1>3, <1>4, <1>5, <1>6, <1>7 DEF Places

\* The buffer becomes a chunk.
LEMMA BufferFlushed ==
  ASSUME NEW f, NEW g, GivenOK(f, g), NEW n \in 0..Len(g), NEW buf, NEW ps, NEW cs, NEW r, NEW t,
         BufferOK(g, n, buf, ps), Repeated(g, n, buf, cs, r), ChunksOK(g, cs), ChunkTrail(t, g, n),
         buf # <<>>
  PROVE  /\ ChunksOK(g, Append(cs, Chunk(Texts(buf), t, ps)))
         /\ Chunk(Texts(buf), t, ps) \in ChunkSet
         /\ BeforeIn(Append(cs, Chunk(Texts(buf), t, ps)), Len(cs) + 2) = Upto(g, n)
<1> DEFINE c == Chunk(Texts(buf), t, ps)
           ds == Append(cs, c)
           m == Len(buf)
           p == n - m + 1
<1>0. m = Len(buf) /\ p = n - m + 1
  OBVIOUS
<1>4. c.parts = Texts(buf) /\ c.trail = t /\ c.pages = ps /\ c = [parts |-> Texts(buf), trail |-> t, pages |-> ps]
  BY DEF Chunk
<1>8a. r \in 0..m /\ r < m /\ OverlapAt(g, cs, Len(cs) + 1, p, r)
  BY DEF Repeated
<1>5a. Total(BodyCounts(g, p, n)) <= MaxChunk + Overlap /\ ps = {PageOf(buf[i]) : i \in DOMAIN buf}
  BY DEF BufferOK
<1> HIDE DEF c, m, p
<1>9a. Places(g, n, buf, m, p)
  BY <1>0, BufferPlaces DEF BufferOK
<1>1. /\ buf \in Seq(BlockSet) /\ m \in Nat /\ m <= n /\ n \in Nat /\ p \in Nat \ {0}
      /\ DOMAIN buf = 1..m /\ n - p + 1 = m /\ p <= n + 1 /\ n <= Len(g)
      /\ DOMAIN g = 1..Len(g) /\ Len(g) \in Nat
  BY <1>9a DEF Places
<1>2. \A k \in 1..m : /\ buf[k] = g[p + k - 1] /\ ~Section(buf[k]) /\ buf[k] \in BlockSet
                     /\ p + k - 1 \in p..n /\ p + k - 1 \in 1..n /\ p + k - 1 \in DOMAIN g
  BY <1>9a DEF Places
<1>3. \A j \in p..n : /\ j - p + 1 \in 1..m /\ p + (j - p + 1) - 1 = j /\ g[j] = buf[j - p + 1]
                     /\ j \in DOMAIN g
  BY <1>9a DEF Places
<1>5. Len(c.parts) = m /\ DOMAIN c.parts = 1..m /\ \A k \in 1..m : c.parts[k] = buf[k].text
  BY <1>1, <1>4 DEF Texts
<1>6. c \in ChunkSet
  <2>1. \A k \in 1..m : buf[k].text \in Seq(Line) /\ buf[k].page \in Nat
    BY <1>2 DEF BlockSet
  <2>2. Texts(buf) \in Seq(Seq(Line))
    BY <1>1, <2>1 DEF Texts
  <2>3. ps \in SUBSET Nat
    <3>1. \A k \in 1..m : PageOf(buf[k]) \in Nat
      BY <2>1 DEF PageOf
    <3> QED BY <1>1, <1>5a, <3>1
  <2>4. t \in [Levels -> Nat]
    BY DEF ChunkTrail, TrailOK
  <2> QED BY <1>4, <2>2, <2>3, <2>4 DEF ChunkSet
<1>7. /\ Len(ds) = Len(cs) + 1 /\ Len(cs) \in Nat /\ ds[Len(cs) + 1] = c
      /\ BeforeIn(ds, Len(ds)) = BeforeIn(cs, Len(cs) + 1)
      /\ BeforeIn(ds, Len(ds) + 1) = BeforeIn(cs, Len(cs) + 1) \cup Lines(c)
      /\ \A j \in 1..Len(cs) : ds[j] = cs[j]
  <2>1. cs \in Seq(ChunkSet)
    BY DEF ChunksOK
  <2>2. \A j \in 1..Len(cs) : ds[j] = cs[j]
    BY <1>6, <2>1
  <2> HIDE DEF ds
  <2>3. ds = Append(cs, c)
    BY DEF ds
  <2> QED BY <1>6, <2>1, <2>2, <2>3, BeforeAdded
<1> HIDE DEF ds
<1>8. r \in 0..n - p /\ OverlapAt(g, cs, Len(cs) + 1, p, r)
  BY <1>1, <1>8a
<1>9. FromBuffer(g, ds, Len(cs) + 1, p, n, r)
  <2>1. Len(ds[Len(cs) + 1].parts) = n - p + 1
        /\ \A k \in 1..n - p + 1 : ds[Len(cs) + 1].parts[k] = g[p + k - 1].text
    BY <1>1, <1>2, <1>5, <1>7
  <2>2. \A j \in p..n : ~Section(g[j])
    BY <1>2, <1>3
  <2>3. ds[Len(cs) + 1].pages = {PageOf(g[j]) : j \in p..n}
    <3>1. ds[Len(cs) + 1].pages = {PageOf(buf[i]) : i \in 1..m}
      BY <1>1, <1>4, <1>5a, <1>7
    <3>2. {PageOf(buf[i]) : i \in 1..m} = {PageOf(g[j]) : j \in p..n}
      BY <1>2, <1>3
    <3> QED BY <3>1, <3>2
  <2>4. OverlapAt(g, ds, Len(cs) + 1, p, r)
    <3> DEFINE i == Len(cs) + 1
    <3>1. i \in Nat /\ \A j \in 1..i - 1 : ds[j] = cs[j]
      BY <1>7
    <3>2. OverlapAt(g, cs, i, p, r)
      BY <1>8
    <3> HIDE DEF i
    <3>3. OverlapAt(g, ds, i, p, r)
      BY <3>1, <3>2, OverlapStays
    <3> QED BY <3>3 DEF i
  <2>5. Total(BodyCounts(g, p, n)) <= MaxChunk + Overlap
    BY <1>5a
  <2>6. ChunkTrail(ds[Len(cs) + 1].trail, g, n)
    BY <1>4, <1>7
  <2> QED BY <2>1, <2>2, <2>3, <2>4, <2>5, <2>6 DEF FromBuffer
<1>10. ChunksOK(g, ds)
  <2>1. p \in 1..Len(g) /\ n \in p..Len(g)
    BY <1>1
  <2>2. SourceOK(g, ds, Len(cs) + 1)
    BY <1>8, <1>9, <2>1 DEF SourceOK
  <2>3. ds = Append(cs, c)
    BY DEF ds
  <2> QED BY <1>6, <2>2, <2>3, ChunkAdded
<1>11. BeforeIn(ds, Len(cs) + 2) = Upto(g, n)
  <2>1. Len(cs) + 2 = Len(ds) + 1
    BY <1>7
  <2>2. BeforeIn(cs, Len(cs) + 1) = Upto(g, p + r - 1)
    BY <1>8 DEF OverlapAt
  <2>3. BeforeIn(ds, Len(cs) + 2) = Upto(g, p + r - 1) \cup Lines(c)
    BY <1>7, <2>1, <2>2
  <2>4. ASSUME NEW x
        PROVE  x \in Lines(c) <=> x # 0 /\ \E k \in 1..m : x \in LineNumbers(g[p + k - 1].text)
    <3>1. x \in Lines(c) <=> x # 0 /\ \E k \in DOMAIN c.parts : x \in LineNumbers(c.parts[k])
      BY LinesMember
    <3> QED BY <1>2, <1>5, <3>1
  <2>5. ASSUME NEW x \in Lines(c) PROVE x \in Upto(g, n)
    <3>1. PICK k \in 1..m : x \in LineNumbers(g[p + k - 1].text)
      BY <2>4
    <3>2. p + k - 1 \in 1..n /\ ~Section(g[p + k - 1]) /\ p + k - 1 \in DOMAIN g
      BY <1>2
    <3>3. x \in Nat
      BY <3>1, <3>2, GivenTypes, TextMember
    <3> QED BY <2>4, <3>1, <3>2, <3>3 DEF Upto
  <2>6. ASSUME NEW x \in Upto(g, p + r - 1) PROVE x \in Upto(g, n)
    <3>1. 1..p + r - 1 \subseteq 1..n
      BY <1>1, <1>8
    <3> QED BY <3>1 DEF Upto
  <2>7. ASSUME NEW x \in Upto(g, n) PROVE x \in Upto(g, p + r - 1) \cup Lines(c)
    <3>1. PICK i \in 1..n : ~Section(g[i]) /\ x \in LineNumbers(g[i].text) /\ x \in Nat \ {0}
      BY DEF Upto
    <3>2. CASE i < p
      <4>1. i \in 1..p + r - 1
        BY <1>1, <1>8, <3>2
      <4> QED BY <3>1, <4>1 DEF Upto
    <3>3. CASE i >= p
      <4>1. i \in p..n
        BY <1>1, <3>3
      <4>2. i - p + 1 \in 1..m /\ p + (i - p + 1) - 1 = i
        BY <1>1, <1>3, <4>1
      <4> QED BY <2>4, <3>1, <4>2
    <3> QED BY <1>1, <3>2, <3>3
  <2> QED BY <2>3, <2>5, <2>6, <2>7
<1> QED BY <1>6, <1>10, <1>11 DEF ds, c

-----------------------------------------------------------------------------
(* Flushing, what stays of the buffer, and what goes into it. *)

\* flush_buffer, of an empty buffer too
LEMMA Flushing ==
  ASSUME NEW f, NEW g, GivenOK(f, g), NEW n \in 0..Len(g), NEW r, NEW t,
         BufferOK(g, n, buffer, pages), Repeated(g, n, buffer, chunks, r), ChunksOK(g, chunks),
         buffer # <<>> => ChunkTrail(t, g, n), NEW ds, ds = chunks \o Flush(t)
  PROVE  ChunksOK(g, ds) /\ BeforeIn(ds, Len(ds) + 1) = Upto(g, n)
<1>1. chunks \in Seq(ChunkSet) /\ Len(chunks) \in Nat
  BY DEF ChunksOK
<1>2. CASE buffer = <<>>
  <2>1. ds = chunks
    <3>1. Flush(t) = <<>>
      BY <1>2 DEF Flush
    <3> QED BY <1>1, <3>1
  <2>2. Len(buffer) = 0 /\ n \in Nat
    BY <1>2, GivenTypes
  <2>3. OverlapAt(g, chunks, Len(chunks) + 1, n - Len(buffer) + 1, r) /\ r = 0
    BY <2>2 DEF Repeated
  <2>4. BeforeIn(chunks, Len(chunks) + 1) = Upto(g, (n - Len(buffer) + 1) + r - 1)
    BY <2>3 DEF OverlapAt
  <2>5. (n - Len(buffer) + 1) + r - 1 = n
    BY <2>2, <2>3
  <2> QED BY <2>1, <2>4, <2>5
<1>3. CASE buffer # <<>>
  <2> DEFINE c == Chunk(Texts(buffer), t, pages)
  <2>1. ChunksOK(g, Append(chunks, c)) /\ c \in ChunkSet
        /\ BeforeIn(Append(chunks, c), Len(chunks) + 2) = Upto(g, n)
    BY <1>3, BufferFlushed
  <2>2. Flush(t) = <<c>>
    BY <1>3 DEF Flush
  <2> HIDE DEF c
  <2>3. ds = Append(chunks, c) /\ Len(Append(chunks, c)) + 1 = Len(chunks) + 2
    BY <1>1, <2>1, <2>2
  <2> QED BY <2>1, <2>3
<1> QED BY <1>2, <1>3

\* An empty buffer, after everything that was taken is in chunks
LEMMA NothingHeld ==
  ASSUME NEW f, NEW g, GivenOK(f, g), NEW n \in 0..Len(g), NEW ds,
         BeforeIn(ds, Len(ds) + 1) = Upto(g, n)
  PROVE  BufferOK(g, n, <<>>, {}) /\ Repeated(g, n, <<>>, ds, 0)
<1>1. n \in Nat /\ n <= Len(g) /\ n + 1 \in Nat \ {0} /\ n - (n + 1) + 1 = 0
  BY GivenTypes
<1>2. /\ Counts(g, n + 1, n) \in Seq(Nat) /\ Len(Counts(g, n + 1, n)) = 0
      /\ BodyCounts(g, n + 1, n) \in Seq(Nat) /\ Len(BodyCounts(g, n + 1, n)) = 0
  <2> DEFINE p == n + 1
  <2>1. p \in Nat \ {0} /\ p <= n + 1 /\ n - p + 1 = 0
    BY <1>1
  <2> HIDE DEF p
  <2>2. /\ Counts(g, p, n) \in Seq(Nat) /\ Len(Counts(g, p, n)) = n - p + 1
        /\ BodyCounts(g, p, n) \in Seq(Nat) /\ Len(BodyCounts(g, p, n)) = n - p + 1
    BY <1>1, <2>1, CountTypes
  <2> QED BY <2>1, <2>2 DEF p
<1>3. Counts(g, n + 1, n) = <<>> /\ BodyCounts(g, n + 1, n) = <<>>
  BY <1>2
<1>4. Total(Counts(g, n + 1, n)) = 0 /\ Total(BodyCounts(g, n + 1, n)) = 0
  BY <1>3, TotalEmpty
<1>5. Len(<<>>) = 0 /\ n - 0 + 1 = n + 1 /\ (n + 1) + 0 - 1 = n
  BY <1>1
<1>6. MaxChunk \in Nat /\ Overlap \in Nat
  BY SizeAssumption
<1>7. OverlapAt(g, ds, Len(ds) + 1, n + 1, 0)
  BY <1>4, <1>5, <1>6 DEF OverlapAt
<1>8. Held(g, n, <<>>)
  BY <1>1 DEF Held
<1> QED BY <1>1, <1>4, <1>5, <1>6, <1>7, <1>8 DEF BufferOK, Repeated

\* The tokens of the buffer are those of its places in the document.
LEMMA TokensHeld ==
  ASSUME NEW g, NEW n, NEW buf, NEW m, NEW p, Places(g, n, buf, m, p)
  PROVE  TotalTokens(Texts(buf)) = Total(Counts(g, p, n))
<1>1. DOMAIN buf = 1..m /\ n - p + 1 = m /\ \A k \in 1..m : buf[k] = g[p + k - 1]
  BY DEF Places
<1>2. DOMAIN Texts(buf) = 1..m /\ \A k \in 1..m : Texts(buf)[k] = g[p + k - 1].text
  BY <1>1 DEF Texts
<1>3. [i \in DOMAIN Texts(buf) |-> Tokens(Texts(buf)[i])] = Counts(g, p, n)
  BY <1>1, <1>2 DEF Counts
<1> QED BY <1>3 DEF TotalTokens

\* The next block goes into the buffer.
LEMMA HeldGrows ==
  ASSUME NEW f, NEW g, GivenOK(f, g), NEW n \in Nat, n < Len(g), NEW buf, Held(g, n, buf),
         ~Section(g[n + 1])
  PROVE  /\ Held(g, n + 1, Append(buf, g[n + 1]))
         /\ Len(Append(buf, g[n + 1])) = Len(buf) + 1 /\ Len(buf) \in Nat
         /\ (n + 1) - Len(Append(buf, g[n + 1])) + 1 = n - Len(buf) + 1
         /\ DOMAIN Append(buf, g[n + 1]) = DOMAIN buf \cup {Len(buf) + 1}
         /\ \A i \in DOMAIN buf : Append(buf, g[n + 1])[i] = buf[i]
         /\ Append(buf, g[n + 1])[Len(buf) + 1] = g[n + 1]
         /\ Append(buf, g[n + 1]) # <<>>
<1> DEFINE u == Append(buf, g[n + 1])
<1>1. g[n + 1] \in BlockSet
  <2>1. n + 1 \in DOMAIN g
    BY GivenTypes
  <2> QED BY <2>1, GivenTypes
<1>2. buf \in Seq(BlockSet) /\ Len(buf) \in Nat /\ Len(buf) <= n /\ DOMAIN buf = 1..Len(buf)
  BY DEF Held
<1>3. u \in Seq(BlockSet) /\ Len(u) = Len(buf) + 1 /\ DOMAIN u = DOMAIN buf \cup {Len(buf) + 1}
      /\ (\A i \in DOMAIN buf : u[i] = buf[i]) /\ u[Len(buf) + 1] = g[n + 1]
  BY <1>1, <1>2
<1> HIDE DEF u
<1>4. u # <<>>
  BY <1>2, <1>3
<1>5. \A i \in DOMAIN u : u[i] = g[(n + 1) - Len(u) + i] /\ ~Section(u[i])
  <2> TAKE i \in DOMAIN u
  <2>1. CASE i = Len(buf) + 1
    <3>1. (n + 1) - Len(u) + i = n + 1
      BY <1>2, <1>3, <2>1
    <3> QED BY <1>3, <2>1, <3>1
  <2>2. CASE i \in DOMAIN buf
    <3>1. (n + 1) - Len(u) + i = n - Len(buf) + i
      BY <1>2, <1>3, <2>2
    <3> QED BY <1>3, <2>2, <3>1 DEF Held
  <2> QED BY <1>3, <2>1, <2>2
<1>6. Held(g, n + 1, u) /\ (n + 1) - Len(u) + 1 = n - Len(buf) + 1
  BY <1>2, <1>3, <1>5 DEF Held
<1> QED BY <1>2, <1>3, <1>4, <1>6 DEF u

\* The tail that is retained is one that may be repeated.
LEMMA RetainedTail ==
  ASSUME buffer \in Seq(BlockSet)
  PROVE  \E k \in 1..Len(buffer) + 1 : MayRepeatFrom(k) /\ Retained = TailFrom(k)
<1> DEFINE n == Len(buffer) + 1
           S == {k \in 1..Len(buffer) + 1 : MayRepeatFrom(k)}
<1>1. n \in Nat /\ n \in 1..Len(buffer) + 1
  OBVIOUS
<1>2. MayRepeatFrom(n)
  <2>1. TailFrom(n) = <<>>
    BY DEF TailFrom
  <2>2. Texts(<<>>) = <<>>
    BY DEF Texts
  <2>3. [i \in DOMAIN <<>> |-> Tokens(<<>>[i])] = <<>>
    OBVIOUS
  <2>4. TotalTokens(Texts(TailFrom(n))) = 0
    BY <2>1, <2>2, <2>3, TotalEmpty DEF TotalTokens
  <2>5. \A i \in n..Len(buffer) : FALSE
    OBVIOUS
  <2>6. 0 <= Overlap
    BY SizeAssumption
  <2> QED BY <2>4, <2>5, <2>6 DEF MayRepeatFrom
<1>3. S \in SUBSET Nat /\ S # {}
  BY <1>1, <1>2
<1>4. \E k \in S : \A j \in S : k <= j
  BY <1>3, NatMin
<1>5. Retained = TailFrom(Min(S))
  BY DEF Retained
<1> HIDE DEF S
<1>6. Min(S) \in S
  BY <1>4 DEF Min
<1> QED BY <1>5, <1>6 DEF S

\* The end of the buffer that the next chunk repeats
KeptTail(g, n, l) ==
  /\ l = Len(Retained) /\ l \in Nat /\ l <= Len(buffer)
  /\ Held(g, n, Retained)
  /\ \A i \in 1..l : Retained[i] = buffer[Len(buffer) - l + i] /\ Repeatable(Retained[i])
  /\ \A i \in 1..l : g[(n - l + 1) + i - 1] = Retained[i]
  /\ Total(Counts(g, n - l + 1, n)) <= Overlap

\* Its blocks are the last ones that were taken.
LEMMA RetainedKept ==
  ASSUME NEW f, NEW g, GivenOK(f, g), NEW n \in 0..Len(g), Held(g, n, buffer)
  PROVE  KeptTail(g, n, Len(Retained))
<1> DEFINE m == Len(buffer)
           R == Retained
           l == Len(R)
           p == n - l + 1
<1>1. buffer \in Seq(BlockSet) /\ m \in Nat /\ m <= n /\ n \in Nat
      /\ \A i \in 1..m : buffer[i] = g[n - m + i] /\ ~Section(buffer[i])
  BY GivenTypes DEF Held
<1>2. PICK k \in 1..m + 1 : MayRepeatFrom(k) /\ R = TailFrom(k)
  BY <1>1, RetainedTail
<1>3. R = SubSeq(buffer, k, m)
  BY <1>2 DEF TailFrom
<1> HIDE DEF R, m
<1>4. R \in Seq(BlockSet) /\ l = m - k + 1 /\ l \in Nat /\ l <= m /\ DOMAIN R = 1..l
      /\ \A i \in 1..l : R[i] = buffer[k + i - 1]
  <2>1. k \in Nat /\ k >= 1 /\ k <= m + 1
    BY <1>1
  <2>2. R \in Seq(BlockSet)
    BY <1>1, <1>3, <2>1 DEF m
  <2>3. l = IF k <= m THEN m - k + 1 ELSE 0
    BY <1>1, <1>3, <2>1 DEF m
  <2>4. l = m - k + 1 /\ l \in Nat /\ l <= m
    BY <1>1, <2>1, <2>3
  <2>5. \A i \in 1..l : R[i] = buffer[k + i - 1]
    BY <1>1, <1>3, <2>1, <2>4 DEF m
  <2> QED BY <2>2, <2>4, <2>5
<1> HIDE DEF l, p
<1>5. ASSUME NEW i \in 1..l
      PROVE  /\ k + i - 1 \in k..m /\ k + i - 1 \in 1..m /\ k + i - 1 = m - l + i
             /\ n - m + (k + i - 1) = n - l + i
  BY <1>1, <1>4
<1>6. \A i \in 1..l : R[i] = buffer[m - l + i] /\ R[i] = g[n - l + i] /\ ~Section(R[i])
  BY <1>1, <1>4, <1>5
<1>7. \A i \in 1..l : Repeatable(R[i])
  <2>1. \A i \in k..m : Repeatable(buffer[i])
    BY <1>2 DEF MayRepeatFrom, m
  <2> QED BY <1>4, <1>5, <2>1
<1>8. Held(g, n, R)
  BY <1>1, <1>4, <1>6 DEF Held, l
<1>9. Places(g, n, R, l, p)
  BY <1>8, BufferPlaces DEF l, p
<1>10. Total(Counts(g, p, n)) <= Overlap
  <2>1. TotalTokens(Texts(R)) <= Overlap
    BY <1>2 DEF MayRepeatFrom
  <2> QED BY <1>9, <2>1, TokensHeld
<1>11. \A i \in 1..l : g[p + i - 1] = R[i]
  BY <1>9 DEF Places
<1> QED BY <1>4, <1>6, <1>7, <1>8, <1>10, <1>11 DEF KeptTail, R, m, l, p

\* What is retained is what the next chunk repeats.
LEMMA RetainedRepeats ==
  ASSUME NEW f, NEW g, GivenOK(f, g), NEW n \in 0..Len(g), NEW t,
         BufferOK(g, n, buffer, pages), ChunksOK(g, chunks), buffer # <<>>,
         NEW ds, ds = chunks \o Flush(t), Chunk(Texts(buffer), t, pages) \in ChunkSet,
         BeforeIn(ds, Len(ds) + 1) = Upto(g, n)
  PROVE  OverlapAt(g, ds, Len(ds) + 1, n - Len(Retained) + 1, Len(Retained))
<1> DEFINE l == Len(Retained)
           p == n - l + 1
           c == Chunk(Texts(buffer), t, pages)
           m == Len(buffer)
<1>1. Held(g, n, buffer) /\ buffer \in Seq(BlockSet) /\ m \in Nat /\ n \in Nat
  BY GivenTypes DEF BufferOK, Held
<1>2. KeptTail(g, n, l)
  BY <1>1, RetainedKept
<1>3. chunks \in Seq(ChunkSet) /\ Len(chunks) \in Nat
  BY DEF ChunksOK
<1>4. Flush(t) = <<c>> /\ c.parts = Texts(buffer)
  BY DEF Flush, Chunk
<1>5a. DOMAIN buffer = 1..m
  BY <1>1
<1>5b. Len(Texts(buffer)) = m /\ \A k \in 1..m : Texts(buffer)[k] = buffer[k].text
  BY <1>1, <1>5a DEF Texts
<1> HIDE DEF c, m, p, l
<1>5. Len(c.parts) = m /\ \A k \in 1..m : c.parts[k] = buffer[k].text
  BY <1>4, <1>5b
<1>6. Len(ds) = Len(chunks) + 1 /\ ds[Len(chunks) + 1] = c
  BY <1>3, <1>4 DEF c
<1>7. Len(ds) + 1 > 1 /\ (Len(ds) + 1) - 1 = Len(chunks) + 1
  BY <1>3, <1>6
<1>8. l \in Nat /\ l <= m /\ p + l - 1 = n /\ (\A i \in 1..l : Retained[i] = buffer[m - l + i])
      /\ (\A i \in 1..l : g[p + i - 1] = Retained[i] /\ Repeatable(Retained[i]))
      /\ Total(Counts(g, p, n)) <= Overlap
  BY <1>1, <1>2 DEF KeptTail, m, p, l
<1>9. \A i \in 1..l : m - l + i \in 1..m
  BY <1>1, <1>8
<1>10. \A i \in 1..l : g[p + i - 1].text = c.parts[Len(c.parts) - l + i]
  BY <1>5, <1>8, <1>9
<1> HIDE DEF KeptTail
<1>11. OverlapAt(g, ds, Len(ds) + 1, p, l)
  BY <1>5, <1>6, <1>7, <1>8, <1>10 DEF OverlapAt
<1> QED BY <1>11 DEF p, l

-----------------------------------------------------------------------------
(* The hand-over of the blocks. *)

HandedOverOf(f, bs, g) ==
  /\ GivenOK(f, g)
  /\ bs # <<>> => g = bs
  /\ bs = <<>> => /\ \A i \in DOMAIN g : g[i].type = "paragraph" /\ Len(g[i].text) = 1
                  /\ f = "csv" => Len(g) <= 1

\* The blocks of the parser are in order.
LEMMA BlocksHanded ==
  ASSUME ParserInv, phase = "chunk", blocks # <<>>
  PROVE  GivenOK(format, blocks)
<1>1. Parsed(format, blocks, Pending, Len(lines))
  BY DEF ParserInv
<1>2. (\A i \in DOMAIN blocks : blocks[i].page = 0) \/ (\A i \in DOMAIN blocks : blocks[i].page # 0)
  <2>1. CASE format = "pdf"
    BY <1>1, <2>1 DEF Parsed
  <2>2. CASE format # "pdf"
    BY <1>1, <2>2 DEF Parsed
  <2> QED BY <2>1, <2>2
<1> QED BY <1>1, <1>2 DEF Parsed, GivenOK

\* So are the paragraphs of full_text.
LEMMA ParagraphsHanded ==
  ASSUME ParserInv, phase = "chunk", blocks = <<>>
  PROVE  HandedOverOf(format, blocks, Synthesized)
<1> DEFINE g == Synthesized
           n == Len(fullText)
<1>1. Pending = <<>> /\ FullText /\ format \in Format /\ lines \in Seq(Line)
  BY DEF ParserInv
<1>2. table = <<>>
  BY <1>1 DEF Pending
<1>3. fullText \in Seq(Line) /\ n \in Nat /\ DOMAIN fullText = 1..n /\ Len(lines) \in Nat
  BY <1>1 DEF FullText
<1>4. \A i \in 1..n : fullText[i] \in Line /\ fullText[i].n \in 1..Len(lines)
  BY <1>1, <1>3 DEF FullText
<1>5. g = [i \in 1..n |-> Block("paragraph", 0, 0, <<fullText[i]>>)]
  BY <1>3 DEF Synthesized
<1> HIDE DEF g, n
<1>6. DOMAIN g = 1..n /\ \A i \in 1..n :
        /\ g[i].type = "paragraph" /\ g[i].level = 0 /\ g[i].page = 0 /\ g[i].text = <<fullText[i]>>
        /\ g[i] = [type |-> "paragraph", level |-> 0, page |-> 0, text |-> <<fullText[i]>>]
  BY <1>5 DEF Block
<1>7. \A i \in 1..n : <<fullText[i]>> \in Seq(Line) /\ Len(<<fullText[i]>>) = 1
                      /\ DOMAIN <<fullText[i]>> = {1} /\ <<fullText[i]>>[1] = fullText[i]
  BY <1>4
<1>8. \A i \in 1..n : g[i] \in BlockSet
  <2>1. ASSUME NEW t \in Seq(Line)
        PROVE  [type |-> "paragraph", level |-> 0, page |-> 0, text |-> t] \in BlockSet
    BY DEF BlockSet, BlockType
  <2>2. \A i \in 1..n : g[i] = [type |-> "paragraph", level |-> 0, page |-> 0, text |-> <<fullText[i]>>]
                        /\ <<fullText[i]>> \in Seq(Line)
    BY <1>6, <1>7
  <2> QED BY <2>1, <2>2
<1>9. g \in Seq(BlockSet) /\ Len(g) = n
  BY <1>3, <1>5, <1>6, <1>8
<1>10. format = "csv" => n <= 1 /\ \A i \in 1..n : fullText[i].n = 1
  <2> SUFFICES ASSUME format = "csv" PROVE n <= 1 /\ \A i \in 1..n : fullText[i].n = 1
    OBVIOUS
  <2>1. \A i \in 1..n : fullText[i].n = 1
    BY <1>1, <1>2, <1>3 DEF FullText
  <2>2. n \in Nat /\ ~(1 \in 1..n /\ 2 \in 1..n)
    <3>1. 1 \in 1..n /\ 2 \in 1..n => fullText[1].n < fullText[2].n
      BY <1>1, <1>3 DEF FullText
    <3> QED BY <1>3, <2>1, <3>1
  <2> QED BY <2>1, <2>2
<1>11. ASSUME NEW i \in 1..n PROVE BlockOK(format, g[i])
  <2> DEFINE t == <<fullText[i]>>
  <2>1. t \in Seq(Line) /\ Len(t) = 1 /\ DOMAIN t = {1} /\ t[1] = fullText[i] /\ t # <<>>
    BY <1>7
  <2>2. fullText[i].n # 0 /\ (format = "csv" => fullText[i].n = 1)
    BY <1>3, <1>4, <1>10
  <2> HIDE DEF t
  <2>3. TextOK(format, "paragraph", t)
    BY <2>1, <2>2 DEF TextOK
  <2>4. Increasing(format, t)
    BY <2>1 DEF Increasing
  <2>5. g[i].text = t /\ g[i].type = "paragraph"
    BY <1>6 DEF t
  <2> QED BY <1>8, <2>1, <2>3, <2>4, <2>5 DEF BlockOK
<1>12. ASSUME NEW i \in 1..n, NEW j \in 1..n, i < j
       PROVE  Precede(format, g[i].text, g[j].text)
  <2>1. fullText[i].n < fullText[j].n
    BY <1>1, <1>3, <1>12 DEF FullText
  <2>2. g[i].text = <<fullText[i]>> /\ g[j].text = <<fullText[j]>>
    BY <1>6
  <2> QED BY <1>7, <2>1, <2>2 DEF Precede
<1>13. GivenOK(format, g)
  BY <1>6, <1>9, <1>11, <1>12 DEF GivenOK
<1> QED BY <1>6, <1>7, <1>9, <1>10, <1>13 DEF HandedOverOf, g

\* What BeginAssembly hands over
LEMMA HandOver ==
  ASSUME ParserInv, phase = "chunk", NEW g, g = IF blocks = <<>> THEN Synthesized ELSE blocks
  PROVE  HandedOverOf(format, blocks, g)
<1>1. CASE blocks = <<>>
  BY <1>1, ParagraphsHanded
<1>2. CASE blocks # <<>>
  BY <1>2, BlocksHanded DEF HandedOverOf
<1> QED BY <1>1, <1>2

-----------------------------------------------------------------------------
(* Headings and trails. *)

\* Later headings have higher numbers.
LEMMA HeadingsInOrder ==
  ASSUME NEW f, NEW g, GivenOK(f, g), NEW i \in DOMAIN g, NEW j \in DOMAIN g, i < j,
         IsHeading(g[i]), IsHeading(g[j])
  PROVE  g[i].text[1].n < g[j].text[1].n
<1>1. 1 \in DOMAIN g[i].text /\ 1 \in DOMAIN g[j].text /\ g[i].text[1].n # 0
      /\ g[j].text[1].n # 0 /\ f # "csv"
  BY HeadingText
<1> QED BY <1>1, LinesInOrder

\* The title of a level stays in force through text and deeper headings.
LEMMA TitleStays ==
  ASSUME NEW g, NEW q \in Nat, NEW l, NEW v, TitleAt(g, q, l, v), l \in Nat,
         IsHeading(g[q + 1]) => g[q + 1].level \in Nat /\ g[q + 1].level > l
  PROVE  TitleAt(g, q + 1, l, v)
<1>1. 1..q + 1 = 1..q \cup {q + 1}
  OBVIOUS
<1>2. ~InForceAt(g, q + 1, l, q + 1)
  BY DEF InForceAt
<1>3. ASSUME NEW i \in 1..q PROVE InForceAt(g, q + 1, l, i) <=> InForceAt(g, q, l, i)
  <2>1. i + 1..q + 1 = (i + 1..q) \cup {q + 1} /\ i \in 1..q + 1
    OBVIOUS
  <2> QED BY <2>1 DEF InForceAt
<1>4. CASE v = 0
  BY <1>1, <1>2, <1>3, <1>4 DEF TitleAt
<1>5. CASE v # 0
  BY <1>1, <1>3, <1>5 DEF TitleAt
<1> QED BY <1>4, <1>5

\* The levels that break sections, and those that do not
LEMMA LevelsSplit ==
  /\ NumLevels \in Nat /\ SectionBreak \in Nat
  /\ Levels = 1..NumLevels
  /\ \A l \in 1..SectionBreak : l \in Levels /\ l \in Nat /\ l <= SectionBreak
  /\ \A l \in SectionBreak + 1..NumLevels : l \in Levels /\ l \in Nat /\ l > SectionBreak
  /\ \A l \in Levels : l \in 1..SectionBreak \/ l \in SectionBreak + 1..NumLevels
BY LevelsAssumption, SizeAssumption DEF Levels

\* Text leaves the active headings in order.
LEMMA HeadingsStay ==
  ASSUME NEW h, NEW g, NEW q \in Nat, HeadingsOK(h, g, q), ~IsHeading(g[q + 1])
  PROVE  HeadingsOK(h, g, q + 1)
<1>1. \A l \in Levels : TitleAt(g, q + 1, l, h[l])
  BY TitleStays, LevelsSplit DEF HeadingsOK
<1>2. h = NoTrail => NoHeading(g, q + 1)
  <2>1. 1..q + 1 = 1..q \cup {q + 1}
    OBVIOUS
  <2> QED BY <2>1 DEF HeadingsOK, NoHeading
<1> QED BY <1>1, <1>2 DEF HeadingsOK

\* What begins no section leaves the trail in order.
LEMMA TrailStays ==
  ASSUME NEW f, NEW g, GivenOK(f, g), NEW q \in Nat, q < Len(g), NEW t, TrailOK(t, g, q),
         ~Section(g[q + 1])
  PROVE  TrailOK(t, g, q + 1)
<1>1. 1..q + 1 = 1..q \cup {q + 1}
  OBVIOUS
<1>2. IsHeading(g[q + 1]) => g[q + 1].level \in Nat /\ g[q + 1].level > SectionBreak
  <2>1. q + 1 \in DOMAIN g
    BY GivenTypes
  <2>2. IsHeading(g[q + 1]) => g[q + 1].level \in Nat
    BY <2>1, HeadingText
  <2> QED BY <2>2, LevelsSplit DEF Section
<1>3. ASSUME NEW l \in 1..SectionBreak, TitleAt(g, q, l, t[l]) PROVE TitleAt(g, q + 1, l, t[l])
  <2>1. l \in Nat /\ l <= SectionBreak /\ SectionBreak \in Nat
    BY LevelsSplit
  <2>2. IsHeading(g[q + 1]) => g[q + 1].level \in Nat /\ g[q + 1].level > l
    BY <1>2, <2>1
  <2> QED BY <1>3, <2>1, <2>2, TitleStays
<1>4. ASSUME NEW l, OfSection(g, q, l, t[l]) PROVE OfSection(g, q + 1, l, t[l])
  <2>1. PICK i \in 1..q : /\ IsHeading(g[i]) /\ g[i].level = l /\ t[l] = g[i].text[1].n
                          /\ \A j \in i + 1..q : ~Section(g[j])
    BY <1>4 DEF OfSection
  <2>2. i + 1..q + 1 = (i + 1..q) \cup {q + 1} /\ i \in 1..q + 1
    OBVIOUS
  <2> QED BY <2>1, <2>2 DEF OfSection
<1> QED BY <1>3, <1>4 DEF TrailOK

\* The empty trail names no heading.
LEMMA EmptyTrail ==
  ASSUME NEW g, NEW q
  PROVE  TrailOK(NoTrail, g, q)
BY DEF TrailOK, NoTrail

\* current_trail, of headings in order
LEMMA TrailOfHeadings ==
  ASSUME NEW f, NEW g, GivenOK(f, g), NEW q \in 0..Len(g), NEW h, HeadingsOK(h, g, q)
  PROVE  ChunkTrail(h, g, q)
<1>1. \A l \in 1..SectionBreak : TitleAt(g, q, l, h[l])
  BY LevelsSplit DEF HeadingsOK
<1>2. ASSUME NEW l \in SectionBreak + 1..NumLevels, h[l] # 0 PROVE OfSection(g, q, l, h[l])
  <2>1. TitleAt(g, q, l, h[l]) /\ l \in Nat /\ l > SectionBreak /\ SectionBreak \in Nat
    BY LevelsSplit DEF HeadingsOK
  <2>2. PICK i \in 1..q : InForceAt(g, q, l, i) /\ h[l] = g[i].text[1].n
    BY <1>2, <2>1 DEF TitleAt
  <2>3. ASSUME NEW j \in i + 1..q PROVE ~Section(g[j])
    <3>1. j \in DOMAIN g
      BY GivenTypes
    <3>2. IsHeading(g[j]) => g[j].level \in Nat /\ g[j].level > l
      BY <2>2, <3>1, HeadingText DEF InForceAt
    <3> QED BY <2>1, <3>2 DEF Section
  <2> QED BY <2>2, <2>3 DEF OfSection, InForceAt
<1> QED BY <1>1, <1>2 DEF ChunkTrail, TrailOK, HeadingsOK

\* A heading is entered.
LEMMA HeadingEntered ==
  ASSUME NEW f, NEW g, GivenOK(f, g), NEW q \in Nat, q < Len(g), IsHeading(g[q + 1]),
         HeadingsOK(headings, g, q)
  PROVE  HeadingsOK(Entered(g[q + 1]), g, q + 1) /\ Entered(g[q + 1]) # NoTrail
<1> DEFINE b == g[q + 1]
           n == g[q + 1].text[1].n
           h == Entered(g[q + 1])
<1>1. q + 1 \in DOMAIN g
  BY GivenTypes
<1>2. n \in Nat \ {0} /\ b.level \in Levels /\ b.level \in Nat
  BY <1>1, HeadingText
<1>3. h = [l \in Levels |-> IF l = b.level THEN n ELSE IF l > b.level THEN 0 ELSE headings[l]]
  BY DEF Entered
<1>4. headings \in [Levels -> Nat] /\ \A l \in Levels : TitleAt(g, q, l, headings[l])
  BY DEF HeadingsOK
<1>5. \A l \in Levels : l \in Nat
  BY LevelsSplit
<1> HIDE DEF h
<1>6. h \in [Levels -> Nat]
  BY <1>2, <1>3, <1>4
<1>7. h[b.level] = n /\ n # 0
  BY <1>2, <1>3
<1>8. h # NoTrail
  BY <1>2, <1>7 DEF NoTrail
<1>9. ASSUME NEW l \in Levels PROVE TitleAt(g, q + 1, l, h[l])
  <2>1. CASE l = b.level
    <3>1. (q + 1) + 1..q + 1 = {} /\ q + 1 \in 1..q + 1
      OBVIOUS
    <3>2. InForceAt(g, q + 1, l, q + 1)
      BY <2>1, <3>1 DEF InForceAt
    <3>3. h[l] = g[q + 1].text[1].n /\ h[l] # 0
      BY <1>7, <2>1
    <3> QED BY <3>1, <3>2, <3>3 DEF TitleAt
  <2>2. CASE l > b.level
    <3>1. h[l] = 0
      BY <1>2, <1>3, <1>5, <2>2
    <3>2. ASSUME NEW i \in 1..q + 1 PROVE ~InForceAt(g, q + 1, l, i)
      <4>1. CASE i = q + 1
        BY <1>2, <1>5, <2>2, <4>1 DEF InForceAt
      <4>2. CASE i # q + 1
        <5>1. q + 1 \in i + 1..q + 1
          BY <4>2
        <5>2. ~(b.level > l)
          BY <1>2, <1>5, <2>2
        <5> QED BY <5>1, <5>2 DEF InForceAt
      <4> QED BY <4>1, <4>2
    <3> QED BY <3>1, <3>2 DEF TitleAt
  <2>3. CASE l # b.level /\ ~(l > b.level)
    <3>1. h[l] = headings[l]
      BY <1>3, <2>3
    <3>2. b.level > l
      BY <1>2, <1>5, <2>3
    <3> QED BY <1>2, <1>4, <1>5, <3>1, <3>2, TitleStays
  <2> QED BY <2>1, <2>2, <2>3
<1> QED BY <1>6, <1>8, <1>9 DEF HeadingsOK, h

\* The trail of a chunk that is made now
LEMMA TrailInForceOK ==
  ASSUME NEW f, NEW g, GivenOK(f, g), NEW q \in 0..Len(g), HeadingsOK(headings, g, q),
         TrailOK(trail, g, q)
  PROVE  ChunkTrail(TrailInForce, g, q)
<1>1. ChunkTrail(headings, g, q)
  BY TrailOfHeadings
<1>2. CASE trail = NoTrail
  BY <1>1, <1>2 DEF TrailInForce
<1>3. CASE trail # NoTrail
  BY <1>3 DEF TrailInForce, ChunkTrail
<1> QED BY <1>2, <1>3

-----------------------------------------------------------------------------
(* The invariant of the assembler, and the steps between two blocks. *)

\* Between two blocks, n of which are taken
Assembling(g, n, buf, ps, cs, h, t) ==
  /\ BufferOK(g, n, buf, ps) /\ ChunksOK(g, cs)
  /\ \E r \in 0..Len(buf) : Repeated(g, n, buf, cs, r)
  /\ HeadingsOK(h, g, n) /\ TrailOK(t, g, n)
  /\ buf # <<>> => ChunkTrail(t, g, n) /\ n > 0 /\ Buffered(g[n])

\* Inside block n + 1, c lines of which are in chunks
Splitting(g, n, c, buf, ps, cs, h, t) ==
  LET b == g[n + 1]
  IN /\ n < Len(g) /\ buf = <<>> /\ ps = {} /\ ChunksOK(g, cs)
     /\ ~IsHeading(b) /\ IsLarge(b) /\ c \in Nat /\ Len(Header(b)) <= c /\ c < Len(b.text)
     /\ b.type = "paragraph" => c = 0
     /\ PieceBefore(g, n + 1, c, BeforeIn(cs, Len(cs) + 1))
     /\ HeadingsOK(h, g, n) /\ PieceTrail(t, g, n + 1)

AssemblerInv ==
  /\ phase \in {"parse", "chunk"} => AssemblerInit
  /\ phase \in {"assemble", "split", "done"} =>
       HandedOverOf(format, blocks, given) /\ ChunksOK(given, chunks) /\ taken \in 0..Len(given)
  /\ phase = "assemble" => Assembling(given, taken, buffer, pages, chunks, headings, trail)
  /\ phase = "split" => Splitting(given, taken, cut, buffer, pages, chunks, headings, trail)
  /\ phase = "done" => BeforeIn(chunks, Len(chunks) + 1) = Upto(given, Len(given))

\* One block more belongs into chunks, unless it is a section title.
LEMMA UptoNext ==
  ASSUME NEW g, NEW n \in Nat
  PROVE  /\ Section(g[n + 1]) => Upto(g, n + 1) = Upto(g, n)
         /\ ~Section(g[n + 1]) =>
              Upto(g, n + 1) = Upto(g, n) \cup {x \in Nat \ {0} : x \in LineNumbers(g[n + 1].text)}
<1>1. 1..n + 1 = 1..n \cup {n + 1}
  OBVIOUS
<1> QED BY <1>1 DEF Upto

\* A block is appended to the buffer.
LEMMA BufferGrows ==
  ASSUME NEW f, NEW g, GivenOK(f, g), NEW n \in Nat, n < Len(g), NEW buf, Held(g, n, buf),
         ~Section(g[n + 1]), NEW ps,
         ps = {PageOf(buf[i]) : i \in DOMAIN buf} \cup {PageOf(g[n + 1])},
         Total(BodyCounts(g, n - Len(buf) + 1, n)) + BodyCount(g[n + 1]) <= MaxChunk + Overlap
  PROVE  BufferOK(g, n + 1, Append(buf, g[n + 1]), ps)
<1> DEFINE u == Append(buf, g[n + 1])
           p == n - Len(buf) + 1
<1>1. /\ Held(g, n + 1, u) /\ (n + 1) - Len(u) + 1 = p /\ Len(buf) \in Nat
      /\ DOMAIN u = DOMAIN buf \cup {Len(buf) + 1}
      /\ \A i \in DOMAIN buf : u[i] = buf[i]
      /\ u[Len(buf) + 1] = g[n + 1]
  BY HeldGrows
<1>2. Len(buf) <= n
  BY DEF Held
<1>3. p \in Nat \ {0} /\ p <= n + 1 /\ n + 1 <= Len(g)
  BY <1>1, <1>2, GivenTypes
<1> HIDE DEF u
<1>4. Total(BodyCounts(g, p, n)) + BodyCount(g[n + 1]) <= MaxChunk + Overlap
  OBVIOUS
<1> HIDE DEF p
<1>5. Total(BodyCounts(g, p, n + 1)) = Total(BodyCounts(g, p, n)) + BodyCount(g[n + 1])
  BY <1>3, CountsNext
<1>6. ps = {PageOf(u[i]) : i \in DOMAIN u}
  BY <1>1
<1> QED BY <1>1, <1>4, <1>5, <1>6 DEF BufferOK, u

\* What the buffer repeats stays its beginning.
LEMMA RepeatedGrows ==
  ASSUME NEW f, NEW g, GivenOK(f, g), NEW n \in Nat, n < Len(g), NEW buf, Held(g, n, buf),
         ~Section(g[n + 1]), NEW cs, NEW r \in 0..Len(buf),
         OverlapAt(g, cs, Len(cs) + 1, n - Len(buf) + 1, r)
  PROVE  \E s \in 0..Len(Append(buf, g[n + 1])) : Repeated(g, n + 1, Append(buf, g[n + 1]), cs, s)
<1> DEFINE u == Append(buf, g[n + 1])
<1>1. /\ Len(u) = Len(buf) + 1 /\ Len(buf) \in Nat
      /\ (n + 1) - Len(u) + 1 = n - Len(buf) + 1
  BY HeldGrows
<1> HIDE DEF u
<1>2. r \in 0..Len(u) /\ r < Len(u)
  BY <1>1
<1>3. Repeated(g, n + 1, u, cs, r)
  BY <1>1, <1>2 DEF Repeated
<1> QED BY <1>2, <1>3 DEF u

\* A section title
LEMMA SectionStep ==
  ASSUME NEW f, GivenOK(f, given), taken \in 0..Len(given), taken < Len(given),
         Assembling(given, taken, buffer, pages, chunks, headings, trail),
         SectionBreaks(given[taken + 1])
  PROVE  Assembling(given, taken + 1, buffer', pages', chunks', headings', trail')
<1> DEFINE g == given
           n == taken
           b == given[taken + 1]
<1>0. n \in Nat /\ n \in 0..Len(g) /\ n + 1 \in 0..Len(g) /\ n < Len(g)
  BY GivenTypes
<1>1. /\ IsHeading(b) /\ Section(b) /\ headings' = Entered(b) /\ trail' = headings'
      /\ chunks' = chunks \o Flush(trail) /\ buffer' = <<>> /\ pages' = {}
  BY DEF SectionBreaks, EmptyBuffer, Section
<1>2. ChunksOK(g, chunks') /\ BeforeIn(chunks', Len(chunks') + 1) = Upto(g, n)
  <2>1. PICK r \in 0..Len(buffer) : Repeated(g, n, buffer, chunks, r)
    BY DEF Assembling
  <2>2. /\ BufferOK(g, n, buffer, pages) /\ ChunksOK(g, chunks)
        /\ buffer # <<>> => ChunkTrail(trail, g, n)
    BY DEF Assembling
  <2> HIDE DEF g, n, b
  <2>3. GivenOK(f, g)
    BY DEF g
  <2> QED BY <1>0, <1>1, <2>1, <2>2, <2>3, Flushing
<1>3. Upto(g, n + 1) = Upto(g, n)
  BY <1>0, <1>1, UptoNext
<1>4. BufferOK(g, n + 1, <<>>, {}) /\ Repeated(g, n + 1, <<>>, chunks', 0)
  <2> DEFINE k == n + 1
  <2>1. k \in 0..Len(g) /\ BeforeIn(chunks', Len(chunks') + 1) = Upto(g, k)
    BY <1>0, <1>2, <1>3
  <2> HIDE DEF k
  <2>2. BufferOK(g, k, <<>>, {}) /\ Repeated(g, k, <<>>, chunks', 0)
    BY <2>1, NothingHeld
  <2> QED BY <2>2 DEF k
<1>5. HeadingsOK(headings', g, n + 1)
  <2>1. HeadingsOK(headings, g, n)
    BY DEF Assembling
  <2> HIDE DEF g, n
  <2>2. GivenOK(f, g) /\ b = g[n + 1]
    BY DEF g, n
  <2>3. HeadingsOK(Entered(g[n + 1]), g, n + 1)
    BY <1>0, <1>1, <2>1, <2>2, HeadingEntered
  <2> QED BY <1>1, <2>2, <2>3
<1>6. TrailOK(trail', g, n + 1)
  <2> DEFINE k == n + 1
  <2>1. k \in 0..Len(g) /\ HeadingsOK(trail', g, k)
    BY <1>0, <1>1, <1>5
  <2> HIDE DEF k
  <2> SUFFICES ASSUME NEW h, h = trail' PROVE TrailOK(h, g, k)
    BY DEF k
  <2> QED BY <2>1, TrailOfHeadings DEF ChunkTrail
<1>7. 0 \in 0..Len(<<>>)
  OBVIOUS
<1> QED BY <1>1, <1>2, <1>4, <1>5, <1>6, <1>7 DEF Assembling

\* A heading that breaks no section
LEMMA MinorStep ==
  ASSUME NEW f, GivenOK(f, given), taken \in 0..Len(given), taken < Len(given),
         Assembling(given, taken, buffer, pages, chunks, headings, trail),
         MinorHeading(given[taken + 1])
  PROVE  Assembling(given, taken + 1, buffer', pages', chunks', headings', trail')
<1> DEFINE g == given
           n == taken
           b == given[taken + 1]
<1>0. n \in Nat /\ n \in 0..Len(g) /\ n + 1 \in 0..Len(g) /\ n < Len(g) /\ n + 1 \in DOMAIN g
  BY GivenTypes
<1>1. /\ IsHeading(b) /\ headings' = Entered(b)
      /\ trail' = IF buffer = <<>> \/ trail = NoTrail THEN headings' ELSE trail
      /\ chunks' = chunks /\ buffer' = Append(buffer, b) /\ pages' = pages \cup {PageOf(b)}
      /\ ~Section(b) /\ Buffered(b)
  <2>1. b.level \in Nat /\ b.level > SectionBreak
    BY <1>0, HeadingText DEF MinorHeading
  <2>2. ~Section(b) /\ Buffered(b)
    BY <2>1, LevelsSplit DEF Section, Buffered, MinorHeading
  <2> QED BY <2>2 DEF MinorHeading
<1>2. /\ BufferOK(g, n, buffer, pages) /\ ChunksOK(g, chunks) /\ TrailOK(trail, g, n)
      /\ HeadingsOK(headings, g, n)
  BY DEF Assembling
<1>3. PICK r \in 0..Len(buffer) : Repeated(g, n, buffer, chunks, r)
  BY DEF Assembling
<1> HIDE DEF g, n
<1>4. GivenOK(f, g) /\ b = g[n + 1]
  BY DEF g, n
<1>5. Held(g, n, buffer) /\ pages = {PageOf(buffer[i]) : i \in DOMAIN buffer}
      /\ Total(BodyCounts(g, n - Len(buffer) + 1, n)) <= MaxChunk + Overlap
  BY <1>2 DEF BufferOK
<1>6. BufferOK(g, n + 1, buffer', pages')
  <2>1. Total(BodyCounts(g, n - Len(buffer) + 1, n)) + BodyCount(g[n + 1]) <= MaxChunk + Overlap
    <3> DEFINE p == n - Len(buffer) + 1
    <3>1. p \in Nat \ {0} /\ p <= n + 1 /\ n <= Len(g)
      BY <1>0, <1>5, <1>4, GivenTypes DEF Held
    <3>2. Total(BodyCounts(g, p, n)) <= MaxChunk + Overlap
      BY <1>5
    <3> HIDE DEF p
    <3>3. Total(BodyCounts(g, p, n)) \in Nat
      BY <1>0, <1>4, <3>1, CountTypes
    <3>4. BodyCount(g[n + 1]) = 0
      BY <1>1, <1>4 DEF BodyCount
    <3>5. Total(BodyCounts(g, p, n)) + BodyCount(g[n + 1]) <= MaxChunk + Overlap
      BY <3>2, <3>3, <3>4
    <3> QED BY <3>5 DEF p
  <2>2. pages' = {PageOf(buffer[i]) : i \in DOMAIN buffer} \cup {PageOf(g[n + 1])}
    BY <1>1, <1>4, <1>5
  <2>3. BufferOK(g, n + 1, Append(buffer, g[n + 1]), pages')
    BY <1>0, <1>1, <1>4, <1>5, <2>1, <2>2, BufferGrows
  <2> QED BY <1>1, <1>4, <2>3
<1>7. \E s \in 0..Len(buffer') : Repeated(g, n + 1, buffer', chunks', s)
  <2>1. OverlapAt(g, chunks, Len(chunks) + 1, n - Len(buffer) + 1, r)
    BY <1>3 DEF Repeated
  <2>2. \E s \in 0..Len(Append(buffer, g[n + 1])) :
           Repeated(g, n + 1, Append(buffer, g[n + 1]), chunks, s)
    BY <1>0, <1>1, <1>3, <1>4, <1>5, <2>1, RepeatedGrows
  <2> QED BY <1>1, <1>4, <2>2
<1>8. HeadingsOK(headings', g, n + 1) /\ headings' # NoTrail
  <2>1. HeadingsOK(Entered(g[n + 1]), g, n + 1) /\ Entered(g[n + 1]) # NoTrail
    BY <1>0, <1>1, <1>2, <1>4, HeadingEntered
  <2> QED BY <1>1, <1>4, <2>1
<1>9. TrailOK(trail', g, n + 1) /\ trail' # NoTrail
  <2>1. TrailOK(trail, g, n + 1)
    BY <1>0, <1>1, <1>2, <1>4, TrailStays
  <2>2. TrailOK(headings', g, n + 1)
    <3> DEFINE k == n + 1
    <3>1. k \in 0..Len(g) /\ HeadingsOK(headings', g, k)
      BY <1>0, <1>8
    <3> HIDE DEF k
    <3> SUFFICES ASSUME NEW h, h = headings' PROVE TrailOK(h, g, k)
      BY DEF k
    <3> QED BY <1>4, <3>1, TrailOfHeadings DEF ChunkTrail
  <2> QED BY <1>1, <1>8, <2>1, <2>2
<1>10. Assembling(g, n + 1, buffer', pages', chunks', headings', trail')
  <2>1. ChunkTrail(trail', g, n + 1) /\ n + 1 > 0 /\ Buffered(g[n + 1])
    BY <1>0, <1>1, <1>4, <1>9 DEF ChunkTrail
  <2> QED BY <1>1, <1>2, <1>6, <1>7, <1>8, <1>9, <2>1 DEF Assembling
<1> QED BY <1>10 DEF g, n

\* What the body blocks of the document give: the facts every step starts from.
LEMMA BodyTypes ==
  ASSUME NEW f, NEW g, GivenOK(f, g), NEW n \in Nat, n < Len(g), ~IsHeading(g[n + 1])
  PROVE  /\ g[n + 1] \in BlockSet /\ g[n + 1].text \in Seq(Line) /\ n + 1 \in DOMAIN g
         /\ n \in 0..Len(g) /\ n + 1 \in 0..Len(g) /\ Len(g) \in Nat
         /\ ~Section(g[n + 1]) /\ Tokens(g[n + 1].text) \in Nat
         /\ BodyCount(g[n + 1]) = Tokens(g[n + 1].text)
<1>1. n + 1 \in DOMAIN g /\ n \in 0..Len(g) /\ n + 1 \in 0..Len(g) /\ Len(g) \in Nat
  BY GivenTypes
<1>2. g[n + 1] \in BlockSet /\ g[n + 1].text \in Seq(Line)
  BY <1>1, GivenTypes
<1> QED BY <1>1, <1>2, TokensNat DEF Section, BodyCount

\* The pages of the tail that is repeated, with that of the next block
LEMMA RetainedPagesOK ==
  ASSUME NEW f, NEW g, GivenOK(f, g), NEW n \in Nat, n < Len(g), KeptTail(g, n, Len(Retained))
  PROVE  RetainedPages \cup {PageOf(g[n + 1])} =
           {PageOf(Retained[i]) : i \in DOMAIN Retained} \cup {PageOf(g[n + 1])}
<1> DEFINE l == Len(Retained)
           R == Retained
           Q == {R[i].page : i \in DOMAIN R}
<1>1. l \in Nat /\ l <= n /\ DOMAIN R = 1..l /\ \A i \in 1..l : R[i] = g[(n - l + 1) + i - 1]
  BY DEF KeptTail, Held
<1>2. RetainedPages = Q \ {0}
  BY DEF RetainedPages
<1> HIDE DEF R, l
<1>3. \A i \in 1..l : (n - l + 1) + i - 1 \in DOMAIN g
  BY <1>1, GivenTypes
<1>4. n + 1 \in DOMAIN g
  BY GivenTypes
<1>5. CASE \A i \in DOMAIN g : g[i].page = 0
  <2>1. \A i \in DOMAIN R : R[i].page = 0 /\ PageOf(R[i]) = 1
    BY <1>1, <1>3, <1>5 DEF PageOf
  <2>2. PageOf(g[n + 1]) = 1
    BY <1>4, <1>5 DEF PageOf
  <2>3. RetainedPages = {}
    BY <1>2, <2>1
  <2> QED BY <2>1, <2>2, <2>3 DEF R
<1>6. CASE \A i \in DOMAIN g : g[i].page # 0
  <2>1. \A i \in DOMAIN R : R[i].page # 0 /\ PageOf(R[i]) = R[i].page
    BY <1>1, <1>3, <1>6 DEF PageOf
  <2>2. RetainedPages = {PageOf(R[i]) : i \in DOMAIN R}
    BY <1>2, <2>1
  <2> QED BY <2>2 DEF R
<1> QED BY <1>5, <1>6 DEF GivenOK

\* The next block after a flush: the buffer keeps the end of the chunk.
LEMMA ExceedingBlock ==
  ASSUME NEW f, NEW g, GivenOK(f, g), NEW n \in Nat, n < Len(g),
         NEW t, ChunkTrail(t, g, n), BufferOK(g, n, buffer, pages), ChunksOK(g, chunks),
         NEW r, Repeated(g, n, buffer, chunks, r), buffer # <<>>,
         ~IsHeading(g[n + 1]), ~IsLarge(g[n + 1]), NEW ds, ds = chunks \o Flush(t),
         NEW buf, buf = Append(Retained, g[n + 1]),
         NEW ps, ps = RetainedPages \cup {PageOf(g[n + 1])}
  PROVE  /\ BufferOK(g, n + 1, buf, ps) /\ ChunksOK(g, ds)
         /\ \E s \in 0..Len(buf) : Repeated(g, n + 1, buf, ds, s)
<1> DEFINE l == Len(Retained)
           p == n - l + 1
<1>1. n \in 0..Len(g) /\ ~Section(g[n + 1]) /\ Tokens(g[n + 1].text) \in Nat
      /\ BodyCount(g[n + 1]) = Tokens(g[n + 1].text)
  BY BodyTypes
<1>2. ChunksOK(g, ds) /\ BeforeIn(ds, Len(ds) + 1) = Upto(g, n)
  BY <1>1, Flushing
<1>3. Chunk(Texts(buffer), t, pages) \in ChunkSet
  BY <1>1, BufferFlushed
<1>4. Held(g, n, buffer)
  BY DEF BufferOK
<1>5. KeptTail(g, n, Len(Retained))
  BY <1>1, <1>4, RetainedKept
<1>6. OverlapAt(g, ds, Len(ds) + 1, p, l)
  BY <1>1, <1>2, <1>3, RetainedRepeats
<1>7. Held(g, n, Retained) /\ l \in Nat /\ Total(Counts(g, p, n)) <= Overlap
  BY <1>5 DEF KeptTail
<1>8. ps = {PageOf(Retained[i]) : i \in DOMAIN Retained} \cup {PageOf(g[n + 1])}
  BY <1>5, RetainedPagesOK
<1>9. Total(BodyCounts(g, p, n)) + BodyCount(g[n + 1]) <= MaxChunk + Overlap
  <2>1. p \in Nat \ {0} /\ p <= n + 1 /\ n <= Len(g)
    BY <1>7, GivenTypes DEF Held
  <2> HIDE DEF p, l
  <2>2. /\ Total(BodyCounts(g, p, n)) \in Nat /\ Total(Counts(g, p, n)) \in Nat
        /\ Total(BodyCounts(g, p, n)) <= Total(Counts(g, p, n))
    BY <2>1, CountTypes
  <2>3. Tokens(g[n + 1].text) <= MaxChunk
    BY <1>1, SizeAssumption DEF IsLarge
  <2> QED BY <1>1, <1>7, <2>2, <2>3, SizeAssumption
<1>10. BufferOK(g, n + 1, buf, ps)
  BY <1>1, <1>7, <1>8, <1>9, BufferGrows
<1>11. \E s \in 0..Len(Append(Retained, g[n + 1])) :
          Repeated(g, n + 1, Append(Retained, g[n + 1]), ds, s)
  <2>1. l \in 0..Len(Retained)
    BY <1>7
  <2>2. OverlapAt(g, ds, Len(ds) + 1, n - Len(Retained) + 1, l)
    BY <1>6
  <2> HIDE DEF l
  <2> QED BY <1>1, <1>7, <2>1, <2>2, RepeatedGrows
<1> QED BY <1>2, <1>10, <1>11

\* The next block still fits.
LEMMA FittingBlock ==
  ASSUME NEW f, NEW g, GivenOK(f, g), NEW n \in Nat, n < Len(g),
         BufferOK(g, n, buffer, pages), NEW r, Repeated(g, n, buffer, chunks, r),
         ~IsHeading(g[n + 1]), ~IsLarge(g[n + 1]), ~Exceeds(g[n + 1]),
         NEW buf, buf = Append(buffer, g[n + 1]),
         NEW ps, ps = pages \cup {PageOf(g[n + 1])}
  PROVE  /\ BufferOK(g, n + 1, buf, ps)
         /\ \E s \in 0..Len(buf) : Repeated(g, n + 1, buf, chunks, s)
<1> DEFINE m == Len(buffer)
           p == n - m + 1
<1>1. n \in 0..Len(g) /\ ~Section(g[n + 1]) /\ Tokens(g[n + 1].text) \in Nat
      /\ BodyCount(g[n + 1]) = Tokens(g[n + 1].text)
  BY BodyTypes
<1>2. Held(g, n, buffer) /\ pages = {PageOf(buffer[i]) : i \in DOMAIN buffer}
  BY DEF BufferOK
<1>3. r \in 0..Len(buffer) /\ OverlapAt(g, chunks, Len(chunks) + 1, p, r)
  BY DEF Repeated
<1>4. Places(g, n, buffer, m, p)
  BY <1>1, <1>2, BufferPlaces
<1>5. Total(BodyCounts(g, p, n)) + BodyCount(g[n + 1]) <= MaxChunk + Overlap
  <2>1. p \in Nat \ {0} /\ p <= n + 1 /\ n <= Len(g) /\ n - p + 1 = m
    BY <1>4 DEF Places
  <2>2. TotalTokens(Texts(buffer)) = Total(Counts(g, p, n))
    BY <1>4, TokensHeld
  <2>3. buffer = <<>> => m = 0
    OBVIOUS
  <2> HIDE DEF p, m
  <2>4. /\ Total(BodyCounts(g, p, n)) \in Nat /\ Total(Counts(g, p, n)) \in Nat
        /\ Total(BodyCounts(g, p, n)) <= Total(Counts(g, p, n))
        /\ BodyCounts(g, p, n) \in Seq(Nat) /\ Len(BodyCounts(g, p, n)) = n - p + 1
    BY <2>1, CountTypes
  <2>5. Tokens(g[n + 1].text) <= MaxChunk
    BY <1>1, SizeAssumption DEF IsLarge
  <2>6. CASE buffer = <<>>
    <3>1. BodyCounts(g, p, n) = <<>>
      BY <2>1, <2>3, <2>4, <2>6
    <3>2. Total(BodyCounts(g, p, n)) = 0
      BY <3>1, TotalEmpty
    <3> QED BY <1>1, <2>5, <3>2, SizeAssumption
  <2>7. CASE buffer # <<>>
    <3>1. ~(TotalTokens(Texts(buffer)) + Tokens(g[n + 1].text) > MaxChunk)
      BY <2>7 DEF Exceeds
    <3> QED BY <1>1, <2>2, <2>4, <3>1, SizeAssumption
  <2> QED BY <2>6, <2>7
<1>6. ps = {PageOf(buffer[i]) : i \in DOMAIN buffer} \cup {PageOf(g[n + 1])}
  BY <1>2
<1>7. BufferOK(g, n + 1, buf, ps)
  BY <1>1, <1>2, <1>5, <1>6, BufferGrows
<1>8. \E s \in 0..Len(Append(buffer, g[n + 1])) :
          Repeated(g, n + 1, Append(buffer, g[n + 1]), chunks, s)
  BY <1>1, <1>2, <1>3, RepeatedGrows
<1> QED BY <1>7, <1>8

\* Any other block that is not too large
LEMMA BodyStep ==
  ASSUME NEW f, GivenOK(f, given), taken \in 0..Len(given), taken < Len(given),
         Assembling(given, taken, buffer, pages, chunks, headings, trail),
         BodyBlock(given[taken + 1])
  PROVE  Assembling(given, taken + 1, buffer', pages', chunks', headings', trail')
<1> DEFINE g == given
           n == taken
           b == given[taken + 1]
<1>1. /\ ~IsHeading(b) /\ ~IsLarge(b) /\ headings' = headings /\ trail' = TrailInForce
      /\ Exceeds(b) => /\ chunks' = chunks \o Flush(TrailInForce)
                       /\ buffer' = Append(Retained, b) /\ pages' = RetainedPages \cup {PageOf(b)}
      /\ ~Exceeds(b) => /\ chunks' = chunks
                        /\ buffer' = Append(buffer, b) /\ pages' = pages \cup {PageOf(b)}
  BY DEF BodyBlock
<1>2. /\ BufferOK(g, n, buffer, pages) /\ ChunksOK(g, chunks) /\ TrailOK(trail, g, n)
      /\ HeadingsOK(headings, g, n)
  BY DEF Assembling
<1>3. PICK r \in 0..Len(buffer) : Repeated(g, n, buffer, chunks, r)
  BY DEF Assembling
<1>4. n \in Nat /\ n < Len(g) /\ n \in 0..Len(g)
  BY GivenTypes
<1> HIDE DEF g, n
<1>5. GivenOK(f, g) /\ b = g[n + 1]
  BY DEF g, n
<1> HIDE DEF b
<1>6. ChunkTrail(TrailInForce, g, n)
  BY <1>2, <1>4, <1>5, TrailInForceOK
<1>7. /\ BufferOK(g, n + 1, buffer', pages') /\ ChunksOK(g, chunks')
      /\ \E s \in 0..Len(buffer') : Repeated(g, n + 1, buffer', chunks', s)
  <2>1. CASE Exceeds(b)
    <3>1. buffer # <<>>
      BY <2>1 DEF Exceeds
    <3> SUFFICES ASSUME NEW t, t = TrailInForce
                 PROVE  /\ BufferOK(g, n + 1, buffer', pages') /\ ChunksOK(g, chunks')
                        /\ \E s \in 0..Len(buffer') : Repeated(g, n + 1, buffer', chunks', s)
      OBVIOUS
    <3>2. chunks' = chunks \o Flush(t) /\ ChunkTrail(t, g, n)
      BY <1>1, <1>6, <2>1
    <3> QED BY <1>1, <1>2, <1>3, <1>4, <1>5, <2>1, <3>1, <3>2, ExceedingBlock
  <2>2. CASE ~Exceeds(b)
    BY <1>1, <1>2, <1>3, <1>4, <1>5, <2>2, FittingBlock
  <2> QED BY <2>1, <2>2
<1>8. ~Section(g[n + 1]) /\ ~IsHeading(g[n + 1]) /\ Buffered(g[n + 1])
  BY <1>1, <1>5 DEF Section, Buffered
<1>9. HeadingsOK(headings', g, n + 1) /\ ChunkTrail(trail', g, n + 1)
  <2>1. HeadingsOK(headings, g, n + 1)
    BY <1>2, <1>4, <1>8, HeadingsStay
  <2>2. TrailOK(TrailInForce, g, n + 1)
    <3> SUFFICES ASSUME NEW t, t = TrailInForce PROVE TrailOK(t, g, n + 1)
      OBVIOUS
    <3> QED BY <1>4, <1>5, <1>6, <1>8, TrailStays DEF ChunkTrail
  <2>3. TrailInForce = NoTrail => NoHeading(g, n + 1)
    <3>1. 1..n + 1 = 1..n \cup {n + 1}
      BY <1>4
    <3> QED BY <1>6, <1>8, <3>1 DEF ChunkTrail, NoHeading
  <2> QED BY <1>1, <2>1, <2>2, <2>3 DEF ChunkTrail
<1>10. Assembling(g, n + 1, buffer', pages', chunks', headings', trail')
  <2>1. n + 1 > 0
    BY <1>4
  <2> QED BY <1>7, <1>8, <1>9, <2>1 DEF Assembling, ChunkTrail
<1> QED BY <1>10 DEF g, n

-----------------------------------------------------------------------------
(* Blocks that are split. *)

\* The greatest of some bounded numbers
LEMMA BoundedMax ==
  ASSUME NEW S, NEW k \in Nat, S \subseteq 0..k, S # {}
  PROVE  Max(S) \in S /\ \A y \in S : y <= Max(S)
<1> DEFINE T == {j \in 0..k : k - j \in S}
<1>1. T \in SUBSET Nat
  OBVIOUS
<1>2. T # {}
  <2>1. PICK x \in S : TRUE
    OBVIOUS
  <2>2. k - x \in 0..k /\ k - (k - x) = x
    BY <2>1
  <2> QED BY <2>1, <2>2
<1>3. PICK j \in T : \A i \in T : j <= i
  BY <1>1, <1>2, NatMin
<1>4. k - j \in S /\ j \in 0..k
  OBVIOUS
<1>5. ASSUME NEW y \in S PROVE y <= k - j
  <2>1. y \in 0..k
    BY <1>5
  <2>2. k - y \in 0..k /\ k - (k - y) = y
    BY <2>1
  <2>3. k - y \in T
    BY <2>2
  <2> HIDE DEF T
  <2>4. j <= k - y
    BY <1>3, <2>3
  <2> QED BY <1>4, <2>1, <2>4
<1> HIDE DEF T
<1>6. \E x \in S : \A y \in S : x >= y
  <2>1. \A y \in S : k - j >= y
    BY <1>4, <1>5
  <2> QED BY <1>4, <2>1
<1>7. Max(S) \in S /\ \A y \in S : Max(S) >= y
  BY <1>6, Zenon DEF Max
<1>8. Max(S) \in 0..k /\ \A y \in S : y \in 0..k
  BY <1>7
<1> QED BY <1>7, <1>8

\* The header of a table is its first two lines, or there is none.
LEMMA HeaderOf ==
  ASSUME NEW b, b.text \in Seq(Line)
  PROVE  /\ Header(b) \in Seq(Line) /\ Len(Header(b)) \in {0, 2} /\ Len(b.text) \in Nat
         /\ Len(Header(b)) <= Len(b.text) /\ DOMAIN b.text = 1..Len(b.text)
         /\ b.text # <<>> => Len(Header(b)) < Len(b.text)
         /\ \A a \in 1..Len(Header(b)) : Header(b)[a] = b.text[a]
         /\ Header(b) # <<>> => HasHeader(b)
         /\ Len(Header(b)) # 0 => HasHeader(b)
<1> DEFINE t == b.text
<1>1. t \in Seq(Line) /\ Len(t) \in Nat /\ DOMAIN t = 1..Len(t)
  OBVIOUS
<1>2. CASE HasHeader(b)
  <2>1. Header(b) = SubSeq(t, 1, 2) /\ Len(t) > 2
    BY <1>2 DEF Header, HasHeader
  <2> HIDE DEF t
  <2>2. Header(b) \in Seq(Line) /\ Len(Header(b)) = 2
        /\ \A a \in 1..2 : Header(b)[a] = t[a]
    BY <1>1, <2>1
  <2> QED BY <1>1, <1>2, <2>1, <2>2 DEF t
<1>3. CASE ~HasHeader(b)
  <2>1. Header(b) = <<>>
    BY <1>3 DEF Header
  <2>2. t # <<>> => Len(t) > 0
    BY <1>1
  <2> HIDE DEF t
  <2> QED BY <1>1, <1>3, <2>1, <2>2 DEF t
<1> QED BY <1>2, <1>3

\* The text of a piece: the header, and the lines after c up to e
PieceIs(b, c, e, t) ==
  /\ b.text \in Seq(Line) /\ c \in Nat /\ e \in Nat
  /\ Len(Header(b)) <= c /\ c < e /\ e <= Len(b.text)
  /\ t = Header(b) \o SubSeq(b.text, c + 1, e)

\* The lines of a piece
LEMMA PieceText ==
  ASSUME NEW b, NEW c, NEW e, NEW t, PieceIs(b, c, e, t)
  PROVE  /\ t \in Seq(Line) /\ Len(t) = Len(Header(b)) + e - c /\ DOMAIN t = 1..Len(t)
         /\ SubSeq(b.text, c + 1, e) \in Seq(Line) /\ Len(SubSeq(b.text, c + 1, e)) = e - c
         /\ \A a \in 1..Len(Header(b)) : t[a] = b.text[a]
         /\ \A a \in Len(Header(b)) + 1..Len(t) : /\ t[a] = b.text[c + a - Len(Header(b))]
                                                 /\ c + a - Len(Header(b)) \in c + 1..e
         /\ \A x : x \in LineNumbers(t) <=>
                     \E a \in (1..Len(Header(b))) \cup (c + 1..e) : b.text[a].n = x
<1> DEFINE h == Len(Header(b))
           u == SubSeq(b.text, c + 1, e)
           H == Header(b)
           w == b.text
<1> USE DEF PieceIs
<1>1. /\ H \in Seq(Line) /\ h \in Nat /\ w \in Seq(Line) /\ Len(w) \in Nat /\ h = Len(H)
      /\ \A a \in 1..h : H[a] = w[a]
  BY HeaderOf
<1>2. u \in Seq(Line) /\ Len(u) = e - c /\ \A a \in 1..e - c : u[a] = w[c + a]
  <2>1. c + 1 \in 1..Len(w) /\ e \in 1..Len(w) /\ e - (c + 1) + 1 = e - c
    BY <1>1
  <2> HIDE DEF w
  <2>2. u = SubSeq(w, c + 1, e)
    BY DEF w
  <2> HIDE DEF u
  <2>3. u \in Seq(Line) /\ Len(u) = e - c
    BY <1>1, <2>1, <2>2
  <2>4. \A a \in 1..e - c : u[a] = w[c + 1 + a - 1] /\ c + 1 + a - 1 = c + a
    BY <1>1, <2>1, <2>2
  <2> QED BY <2>3, <2>4
<1>3. t = H \o u
  OBVIOUS
<1> HIDE DEF H, u, h, w
<1>4. /\ t \in Seq(Line) /\ Len(t) = h + e - c /\ DOMAIN t = 1..Len(t)
      /\ \A a \in 1..h : t[a] = H[a]
      /\ \A a \in 1..e - c : t[h + a] = u[a]
  <2>1. h + (e - c) = h + e - c
    BY <1>1
  <2>2. /\ H \o u \in Seq(Line) /\ Len(H \o u) = Len(H) + Len(u)
        /\ \A i \in 1..Len(H) : (H \o u)[i] = H[i]
        /\ \A i \in 1..Len(u) : (H \o u)[Len(H) + i] = u[i]
    <3>1. H \in Seq(Line) /\ u \in Seq(Line)
      BY <1>1, <1>2
    <3> QED BY <3>1, Concatenated
  <2>3. Len(H) = h /\ Len(u) = e - c /\ h \in Nat
    BY <1>1, <1>2
  <2>4. t \in Seq(Line) /\ Len(t) = h + e - c
    BY <1>3, <2>1, <2>2, <2>3
  <2>5. (\A a \in 1..h : t[a] = H[a]) /\ (\A a \in 1..e - c : t[h + a] = u[a])
    BY <1>3, <2>2, <2>3
  <2>6. DOMAIN t = 1..Len(t)
    BY <2>4
  <2> QED BY <2>4, <2>5, <2>6
<1>5. \A a \in 1..h : t[a] = w[a]
  BY <1>1, <1>4
<1>6. ASSUME NEW a \in h + 1..Len(t) PROVE t[a] = w[c + a - h] /\ c + a - h \in c + 1..e
  <2> DEFINE i == a - h
  <2>1. i \in 1..e - c /\ h + i = a /\ c + i = c + a - h /\ c + a - h \in c + 1..e
    BY <1>1, <1>4
  <2> HIDE DEF i
  <2>2. t[h + i] = u[i] /\ u[i] = w[c + i]
    BY <1>2, <1>4, <2>1
  <2> QED BY <2>1, <2>2
<1>7. ASSUME NEW x
      PROVE  x \in LineNumbers(t) <=> \E a \in (1..h) \cup (c + 1..e) : w[a].n = x
  <2>1. x \in LineNumbers(t) <=> \E a \in DOMAIN t : t[a].n = x
    BY TextMember
  <2>2. ASSUME NEW a \in DOMAIN t, t[a].n = x
        PROVE  \E i \in (1..h) \cup (c + 1..e) : w[i].n = x
    <3>1. a \in 1..h \/ a \in h + 1..Len(t)
      BY <1>1, <1>4
    <3> QED BY <1>5, <1>6, <2>2, <3>1
  <2>3. ASSUME NEW i \in (1..h) \cup (c + 1..e), w[i].n = x
        PROVE  \E a \in DOMAIN t : t[a].n = x
    <3>1. CASE i \in 1..h
      <4>1. i \in DOMAIN t
        BY <1>1, <1>4, <3>1
      <4> QED BY <1>5, <2>3, <3>1, <4>1
    <3>2. CASE i \in c + 1..e
      <4>1. h + (i - c) \in h + 1..Len(t) /\ h + (i - c) \in DOMAIN t /\ c + (h + (i - c)) - h = i
        BY <1>1, <1>4, <3>2
      <4> QED BY <1>6, <2>3, <4>1
    <3> QED BY <3>1, <3>2
  <2> QED BY <2>1, <2>2, <2>3
<1> QED BY <1>1, <1>2, <1>4, <1>5, <1>6, <1>7 DEF h, u, w

\* A piece has a line, and fits or has one line only.
LEMMA PieceEnd ==
  ASSUME NEW b, b.text \in Seq(Line), cut \in Nat, cut < Len(b.text), b.type = "paragraph" => cut = 0
  PROVE  /\ Max(PieceEnds(b)) \in Nat /\ cut < Max(PieceEnds(b)) /\ Max(PieceEnds(b)) <= Len(b.text)
         /\ b.type = "paragraph" => Max(PieceEnds(b)) = Len(b.text)
         /\ \/ b.type = "paragraph" \/ Max(PieceEnds(b)) = cut + 1
            \/ Tokens(Header(b)) + LinesTokens(SubSeq(b.text, cut + 1, Max(PieceEnds(b)))) <= MaxChunk
<1> DEFINE S == PieceEnds(b)
           n == Len(b.text)
<1>1. n \in Nat /\ n > 0
  OBVIOUS
<1>2. CASE b.type = "paragraph"
  <2>1. S = {n}
    BY <1>2 DEF PieceEnds
  <2>2. S \subseteq 0..n /\ S # {}
    BY <1>1, <2>1
  <2> HIDE DEF S
  <2>3. Max(S) \in S
    BY <1>1, <2>2, BoundedMax
  <2>4. Max(S) = n
    BY <2>1, <2>3
  <2> QED BY <1>1, <1>2, <2>4 DEF S
<1>3. CASE b.type # "paragraph"
  <2>1. S = {m \in cut + 1..n :
               \/ m = cut + 1
               \/ Tokens(Header(b)) + LinesTokens(SubSeq(b.text, cut + 1, m)) <= MaxChunk}
    BY <1>3 DEF PieceEnds
  <2>2. cut + 1 \in S
    BY <1>1, <2>1
  <2>3. S \subseteq 0..n
    BY <1>1, <2>1
  <2> HIDE DEF S
  <2>4. Max(S) \in S
    BY <1>1, <2>2, <2>3, BoundedMax
  <2> HIDE DEF n
  <2>5. /\ Max(S) \in cut + 1..n
        /\ \/ Max(S) = cut + 1
           \/ Tokens(Header(b)) + LinesTokens(SubSeq(b.text, cut + 1, Max(S))) <= MaxChunk
    BY <2>1, <2>4
  <2> QED BY <1>1, <1>3, <2>5 DEF S, n
<1> QED BY <1>2, <1>3

\* The lines of a piece join those that are in chunks.
PieceLines(b, c, e, ns) ==
  \A x : x \in ns <=> x # 0 /\ \E a \in (1..Len(Header(b))) \cup (c + 1..e) : b.text[a].n = x

PieceJoins(g, n, c, e, before, lines_) ==
  PieceBefore(g, n + 1, c, before) /\ PieceLines(g[n + 1], c, e, lines_)

\* What was seen after a piece
LEMMA SeenNext ==
  ASSUME NEW f, NEW g, GivenOK(f, g), NEW n \in Nat, n < Len(g), ~IsHeading(g[n + 1]),
         NEW c \in Nat, NEW e \in Nat, Len(Header(g[n + 1])) <= c, c < e, e <= Len(g[n + 1].text),
         NEW before, NEW lines_, PieceJoins(g, n, c, e, before, lines_)
  PROVE  before \cup lines_ = Seen(g, n, e)
<1> DEFINE w == g[n + 1].text
           h == Len(Header(g[n + 1]))
<1>1. w \in Seq(Line) /\ n + 1 \in DOMAIN g
  BY BodyTypes
<1>2. h \in Nat /\ Len(w) \in Nat /\ DOMAIN w = 1..Len(w)
  BY <1>1, HeaderOf
<1>3. \A a \in 1..e : w[a].n \in Nat
  BY <1>1, <1>2, GivenTypes
<1>4. before = Seen(g, n, c) \/ (c = h /\ before = Upto(g, n))
  <2>1. (n + 1) - 1 = n
    OBVIOUS
  <2> QED BY <2>1 DEF PieceBefore, PieceJoins
<1> HIDE DEF h, w
<1>5. \A x : x \in lines_ <=> x # 0 /\ \E a \in (1..h) \cup (c + 1..e) : w[a].n = x
  BY DEF PieceJoins, PieceLines, h, w
<1>6. \A i : i \in 1..e <=> i \in 1..c \/ i \in c + 1..e
  OBVIOUS
<1>7. h <= c /\ 1..h \subseteq 1..c
  BY <1>2 DEF h
<1>8. \A k : Seen(g, n, k) = Upto(g, n) \cup {x \in Nat \ {0} : \E a \in 1..k : x = w[a].n}
  BY DEF Seen, w
<1>9. ASSUME NEW x PROVE x \in Seen(g, n, e) <=> x \in Upto(g, n) \/ (x \in Nat \ {0} /\ \E a \in 1..e : x = w[a].n)
  BY <1>8
<1>10. ASSUME NEW x PROVE x \in before \cup lines_ <=> x \in Seen(g, n, e)
  <2>1. CASE before = Seen(g, n, c)
    <3>1. x \in before <=> x \in Upto(g, n) \/ (x \in Nat \ {0} /\ \E a \in 1..c : x = w[a].n)
      BY <1>8, <2>1
    <3> QED BY <1>3, <1>5, <1>6, <1>7, <1>9, <3>1
  <2>2. CASE c = h /\ before = Upto(g, n)
    BY <1>3, <1>5, <1>6, <1>7, <1>9, <2>2
  <2> QED BY <1>4, <2>1, <2>2
<1> QED BY <1>10

\* The last piece ends with the block.
LEMMA SeenAll ==
  ASSUME NEW f, NEW g, GivenOK(f, g), NEW n \in Nat, n < Len(g), ~IsHeading(g[n + 1])
  PROVE  Seen(g, n, Len(g[n + 1].text)) = Upto(g, n + 1)
<1> DEFINE w == g[n + 1].text
<1>1. w \in Seq(Line) /\ ~Section(g[n + 1])
  BY BodyTypes
<1>2. DOMAIN w = 1..Len(w)
  BY <1>1
<1>3. Upto(g, n + 1) = Upto(g, n) \cup {x \in Nat \ {0} : x \in LineNumbers(w)}
  BY <1>1, UptoNext
<1>4. \A x : x \in LineNumbers(w) <=> \E a \in 1..Len(w) : w[a].n = x
  BY <1>2, TextMember
<1> HIDE DEF w
<1>5. Seen(g, n, Len(w)) = Upto(g, n) \cup {x \in Nat \ {0} : \E a \in 1..Len(w) : x = w[a].n}
  BY DEF Seen, w
<1>6. {x \in Nat \ {0} : \E a \in 1..Len(w) : x = w[a].n} = {x \in Nat \ {0} : x \in LineNumbers(w)}
  BY <1>4
<1> QED BY <1>3, <1>5, <1>6 DEF w

\* A block that is too large
LEMMA LargeStep ==
  ASSUME NEW f, GivenOK(f, given), taken \in 0..Len(given), taken < Len(given),
         Assembling(given, taken, buffer, pages, chunks, headings, trail),
         LargeBlock(given[taken + 1])
  PROVE  Splitting(given, taken, cut', buffer', pages', chunks', headings', trail')
<1> DEFINE g == given
           n == taken
           b == given[taken + 1]
<1>1. /\ ~IsHeading(b) /\ IsLarge(b) /\ headings' = headings
      /\ trail' = (IF buffer = <<>> THEN TrailInForce ELSE NoTrail)
      /\ chunks' = chunks \o Flush(TrailInForce) /\ buffer' = <<>> /\ pages' = {}
      /\ cut' = Len(Header(b))
  BY DEF LargeBlock, EmptyBuffer
<1>2. /\ BufferOK(g, n, buffer, pages) /\ ChunksOK(g, chunks) /\ TrailOK(trail, g, n)
      /\ HeadingsOK(headings, g, n)
      /\ buffer # <<>> => n > 0 /\ Buffered(g[n])
  BY DEF Assembling
<1>3. PICK r \in 0..Len(buffer) : Repeated(g, n, buffer, chunks, r)
  BY DEF Assembling
<1>4. n \in Nat /\ n < Len(g) /\ n \in 0..Len(g)
  BY GivenTypes
<1> HIDE DEF g, n
<1>5. GivenOK(f, g) /\ b = g[n + 1]
  BY DEF g, n
<1> HIDE DEF b
<1>6. ChunkTrail(TrailInForce, g, n)
  BY <1>2, <1>4, <1>5, TrailInForceOK
<1>7. PieceTrail(trail', g, n + 1)
  <2>1. CASE buffer = <<>>
    <3> SUFFICES ASSUME NEW t, t = trail' PROVE PieceTrail(t, g, n + 1)
      OBVIOUS
    <3>1. ChunkTrail(t, g, n)
      BY <1>1, <1>6, <2>1
    <3>2. ~IsHeading(g[n + 1]) /\ ~Section(g[n + 1])
      BY <1>1, <1>5 DEF Section
    <3>3. TrailOK(t, g, n + 1)
      BY <1>4, <1>5, <3>1, <3>2, TrailStays DEF ChunkTrail
    <3>4. t = NoTrail => NoHeading(g, n + 1)
      <4>1. 1..n + 1 = 1..n \cup {n + 1}
        BY <1>4
      <4> QED BY <3>1, <3>2, <4>1 DEF ChunkTrail, NoHeading
    <3> QED BY <3>3, <3>4 DEF PieceTrail
  <2>2. CASE buffer # <<>>
    <3>1. n + 1 > 1 /\ (n + 1) - 1 = n
      BY <1>2, <1>4, <2>2
    <3>2. AfterBuffered(g, n + 1)
      BY <1>2, <2>2, <3>1 DEF AfterBuffered
    <3> QED BY <1>1, <2>2, <3>2, EmptyTrail DEF PieceTrail
  <2> QED BY <2>1, <2>2
<1>8. ChunksOK(g, chunks') /\ BeforeIn(chunks', Len(chunks') + 1) = Upto(g, n)
  <2> SUFFICES ASSUME NEW t, t = TrailInForce
               PROVE  ChunksOK(g, chunks') /\ BeforeIn(chunks', Len(chunks') + 1) = Upto(g, n)
    OBVIOUS
  <2>1. chunks' = chunks \o Flush(t) /\ ChunkTrail(t, g, n)
    BY <1>1, <1>6
  <2> QED BY <1>2, <1>3, <1>4, <1>5, <2>1, Flushing
<1>9. b.text \in Seq(Line) /\ b.text # <<>>
  <2>1. b.text \in Seq(Line)
    BY <1>1, <1>4, <1>5, BodyTypes
  <2>2. b.text # <<>>
    BY <1>1, TokensEmpty, SizeAssumption DEF IsLarge
  <2> QED BY <2>1, <2>2
<1>10. /\ cut' \in Nat /\ Len(Header(b)) <= cut' /\ cut' < Len(b.text)
       /\ b.type = "paragraph" => cut' = 0
  BY <1>1, <1>9, HeaderOf DEF HasHeader
<1>11. PieceBefore(g, n + 1, cut', BeforeIn(chunks', Len(chunks') + 1))
  <2>1. (n + 1) - 1 = n
    BY <1>4
  <2> QED BY <1>1, <1>5, <1>8, <2>1 DEF PieceBefore
<1>12. Splitting(g, n, cut', buffer', pages', chunks', headings', trail')
  BY <1>1, <1>2, <1>4, <1>5, <1>7, <1>8, <1>10, <1>11 DEF Splitting
<1> QED BY <1>12 DEF g, n

\* One more piece in chunks
AddsPiece(b, e, ds) ==
  /\ e = Max(PieceEnds(b))
  /\ ds = Append(chunks, Chunk(<<Header(b) \o SubSeq(b.text, cut + 1, e)>>, trail, {PageOf(b)}))

\* A piece of it becomes a chunk.
LEMMA PieceAdded ==
  ASSUME NEW f, NEW g, GivenOK(f, g), NEW n \in Nat,
         Splitting(g, n, cut, buffer, pages, chunks, headings, trail),
         NEW e, NEW ds, AddsPiece(g[n + 1], e, ds)
  PROVE  /\ ChunksOK(g, ds) /\ BeforeIn(ds, Len(ds) + 1) = Seen(g, n, e)
         /\ e \in Nat /\ cut < e /\ e <= Len(g[n + 1].text)
         /\ g[n + 1].type = "paragraph" => e = Len(g[n + 1].text)
<1> DEFINE b == g[n + 1]
           piece == Header(b) \o SubSeq(b.text, cut + 1, e)
           c == Chunk(<<piece>>, trail, {PageOf(b)})
<1>0. e = Max(PieceEnds(b)) /\ ds = Append(chunks, c)
  BY DEF AddsPiece
<1>1. /\ n < Len(g) /\ ~IsHeading(b) /\ IsLarge(b)
      /\ cut \in Nat /\ Len(Header(b)) <= cut /\ cut < Len(b.text)
      /\ b.type = "paragraph" => cut = 0
      /\ PieceBefore(g, n + 1, cut, BeforeIn(chunks, Len(chunks) + 1))
      /\ ChunksOK(g, chunks) /\ PieceTrail(trail, g, n + 1)
  BY DEF Splitting
<1>2. /\ b \in BlockSet /\ b.text \in Seq(Line) /\ n + 1 \in DOMAIN g /\ ~Section(b)
      /\ Len(g) \in Nat /\ n + 1 \in 1..Len(g) /\ b.page \in Nat
  <2>1. b \in BlockSet /\ b.text \in Seq(Line) /\ n + 1 \in DOMAIN g /\ ~Section(b) /\ Len(g) \in Nat
    BY <1>1, BodyTypes
  <2>2. b.page \in Nat
    BY <2>1 DEF BlockSet
  <2> QED BY <1>1, <2>1, <2>2
<1> HIDE DEF c, piece, b
<1>3. /\ b = g[n + 1] /\ piece = Header(b) \o SubSeq(b.text, cut + 1, e)
      /\ c = Chunk(<<piece>>, trail, {PageOf(b)})
  BY DEF c, piece, b
<1>4. /\ e \in Nat /\ cut < e /\ e <= Len(b.text)
      /\ b.type = "paragraph" => e = Len(b.text)
      /\ \/ b.type = "paragraph" \/ e = cut + 1
         \/ Tokens(Header(b)) + LinesTokens(SubSeq(b.text, cut + 1, e)) <= MaxChunk
  BY <1>0, <1>1, <1>2, PieceEnd
<1>5. /\ piece \in Seq(Line)
      /\ \A x : x \in LineNumbers(piece) <=>
                  \E a \in (1..Len(Header(b))) \cup (cut + 1..e) : b.text[a].n = x
  <2>1. PieceIs(b, cut, e, piece)
    BY <1>1, <1>2, <1>3, <1>4 DEF PieceIs
  <2> QED BY <2>1, PieceText
<1>6. c.parts = <<piece>> /\ c.pages = {PageOf(b)} /\ c.trail = trail
      /\ c = [parts |-> <<piece>>, trail |-> trail, pages |-> {PageOf(b)}]
  BY <1>3 DEF Chunk
<1>7. c \in ChunkSet
  <2>1. <<piece>> \in Seq(Seq(Line)) /\ {PageOf(b)} \in SUBSET Nat
        /\ trail \in [Levels -> Nat]
    BY <1>1, <1>2, <1>5 DEF PageOf, PieceTrail, TrailOK
  <2> QED BY <1>6, <2>1 DEF ChunkSet
<1>8. chunks \in Seq(ChunkSet)
  BY <1>1 DEF ChunksOK
<1>9. /\ Len(ds) = Len(chunks) + 1 /\ Len(chunks) \in Nat /\ ds[Len(chunks) + 1] = c
      /\ BeforeIn(ds, Len(ds)) = BeforeIn(chunks, Len(chunks) + 1)
      /\ BeforeIn(ds, Len(ds) + 1) = BeforeIn(chunks, Len(chunks) + 1) \cup Lines(c)
  <2>1. ds = Append(chunks, c)
    BY <1>0
  <2> QED BY <1>7, <1>8, <2>1, BeforeAdded
<1>10. ChunksOK(g, ds)
  <2>1. PieceTrail(trail, g, n + 1)
    BY <1>1
  <2> DEFINE i == Len(chunks) + 1
  <2>2. FromPiece(g, ds, i, n + 1, cut, e)
    BY <1>1, <1>3, <1>4, <1>6, <1>9, <2>1 DEF FromPiece
  <2>3. cut \in 0..Len(g[n + 1].text) /\ e \in 0..Len(g[n + 1].text)
    BY <1>1, <1>3, <1>4
  <2>4. SourceOK(g, ds, i)
    BY <1>2, <2>2, <2>3 DEF SourceOK
  <2> QED BY <1>0, <1>1, <1>7, <2>4, ChunkAdded
<1>11. BeforeIn(ds, Len(ds) + 1) = Seen(g, n, e)
  <2>1. ASSUME NEW x
        PROVE  x \in Lines(c) <=> x # 0 /\ \E a \in (1..Len(Header(b))) \cup (cut + 1..e) :
                                             b.text[a].n = x
    <3>1. x \in Lines(c) <=> x # 0 /\ \E k \in DOMAIN c.parts : x \in LineNumbers(c.parts[k])
      BY LinesMember
    <3>2. DOMAIN <<piece>> = {1} /\ <<piece>>[1] = piece
      BY <1>5
    <3> QED BY <1>5, <1>6, <3>1, <3>2
  <2> DEFINE old == BeforeIn(chunks, Len(chunks) + 1)
             new == Lines(c)
  <2>2. PieceBefore(g, n + 1, cut, old)
    BY <1>1
  <2>3. PieceLines(b, cut, e, new)
    BY <2>1 DEF PieceLines
  <2> HIDE DEF old, new
  <2>4. old \cup new = Seen(g, n, e)
    <3>1. /\ n < Len(g) /\ ~IsHeading(g[n + 1]) /\ cut \in Nat /\ Len(Header(g[n + 1])) <= cut
          /\ e \in Nat /\ cut < e /\ e <= Len(g[n + 1].text)
          /\ PieceJoins(g, n, cut, e, old, new)
      BY <1>1, <1>3, <1>4, <2>2, <2>3 DEF PieceJoins
    <3> QED BY <3>1, SeenNext
  <2> QED BY <1>9, <2>4 DEF old, new
<1> QED BY <1>3, <1>4, <1>10, <1>11

\* NextPiece, whether or not it is the last one
LEMMA PieceStep ==
  ASSUME NEW f, GivenOK(f, given), taken \in 0..Len(given), taken < Len(given),
         Splitting(given, taken, cut, buffer, pages, chunks, headings, trail),
         NextPiece(given[taken + 1])
  PROVE  /\ ChunksOK(given, chunks') /\ UNCHANGED <<given, blocks>>
         /\ \/ /\ phase' = "split" /\ taken' = taken
               /\ Splitting(given, taken, cut', buffer', pages', chunks', headings', trail')
            \/ /\ phase' = "assemble" /\ taken' = taken + 1
               /\ Assembling(given, taken + 1, buffer', pages', chunks', headings', trail')
<1> DEFINE g == given
           n == taken
           b == given[taken + 1]
           e == Max(PieceEnds(b))
           piece == Header(b) \o SubSeq(b.text, cut + 1, e)
           c == Chunk(<<piece>>, trail, {PageOf(b)})
<1>1. /\ phase = "split" /\ chunks' = Append(chunks, c)
      /\ e < Len(b.text) => cut' = e /\ phase' = phase /\ taken' = taken /\ trail' = trail
      /\ ~(e < Len(b.text)) => /\ phase' = "assemble" /\ cut' = 0 /\ taken' = taken + 1
                               /\ trail' = headings
      /\ UNCHANGED <<blocks, given, headings, buffer, pages>>
  BY DEF NextPiece
<1>2. n \in Nat /\ n < Len(g) /\ n + 1 \in 0..Len(g)
  BY GivenTypes
<1>3. /\ buffer = <<>> /\ pages = {} /\ ~IsHeading(b) /\ IsLarge(b)
      /\ Len(Header(b)) <= cut /\ cut \in Nat
      /\ HeadingsOK(headings, g, n) /\ PieceTrail(trail, g, n + 1) /\ ChunksOK(g, chunks)
  BY DEF Splitting
<1> HIDE DEF c, piece, e, b, g, n
<1>4. GivenOK(f, g) /\ b = g[n + 1] /\ e = Max(PieceEnds(b))
      /\ piece = Header(b) \o SubSeq(b.text, cut + 1, e) /\ c = Chunk(<<piece>>, trail, {PageOf(b)})
      /\ Splitting(g, n, cut, buffer, pages, chunks, headings, trail)
  BY DEF c, piece, e, b, g, n
<1>5. /\ ChunksOK(g, chunks') /\ BeforeIn(chunks', Len(chunks') + 1) = Seen(g, n, e)
      /\ e \in Nat /\ cut < e /\ e <= Len(b.text)
      /\ b.type = "paragraph" => e = Len(b.text)
  <2>1. AddsPiece(g[n + 1], e, chunks')
    BY <1>1, <1>4 DEF AddsPiece
  <2> QED BY <1>2, <1>4, <2>1, PieceAdded
<1>6. b.text \in Seq(Line) /\ Len(b.text) \in Nat /\ ~Section(b)
  <2>1. b.text \in Seq(Line) /\ ~Section(b)
    BY <1>2, <1>3, <1>4, BodyTypes
  <2> QED BY <2>1
<1>7. CASE e < Len(b.text)
  <2>1. cut' = e /\ phase' = "split" /\ taken' = taken /\ trail' = trail
    BY <1>1, <1>7
  <2>2. PieceBefore(g, n + 1, e, BeforeIn(chunks', Len(chunks') + 1))
    <3>1. (n + 1) - 1 = n
      BY <1>2
    <3> QED BY <1>5, <3>1 DEF PieceBefore
  <2>3. Len(Header(b)) <= e
    BY <1>3, <1>5, <1>6, HeaderOf
  <2>4. b.type # "paragraph"
    BY <1>5, <1>6, <1>7
  <2>5. Splitting(g, n, cut', buffer', pages', chunks', headings', trail')
    BY <1>1, <1>2, <1>3, <1>4, <1>5, <1>7, <2>1, <2>2, <2>3, <2>4 DEF Splitting
  <2> QED BY <1>1, <1>5, <2>1, <2>5 DEF g, n
<1>8. CASE ~(e < Len(b.text))
  <2>1. e = Len(b.text)
    BY <1>5, <1>6, <1>8
  <2>2. BeforeIn(chunks', Len(chunks') + 1) = Upto(g, n + 1)
    BY <1>2, <1>3, <1>4, <1>5, <2>1, SeenAll
  <2>3. HeadingsOK(headings, g, n + 1)
    BY <1>2, <1>3, <1>4, <1>6, HeadingsStay
  <2>4. /\ BufferOK(g, n + 1, <<>>, {}) /\ Repeated(g, n + 1, <<>>, chunks', 0)
        /\ TrailOK(headings, g, n + 1)
    <3> DEFINE k == n + 1
    <3>1. k \in 0..Len(g) /\ BeforeIn(chunks', Len(chunks') + 1) = Upto(g, k)
          /\ HeadingsOK(headings, g, k)
      BY <1>2, <2>2, <2>3
    <3> HIDE DEF k
    <3>2. BufferOK(g, k, <<>>, {}) /\ Repeated(g, k, <<>>, chunks', 0)
      BY <1>4, <3>1, NothingHeld
    <3>3. TrailOK(headings, g, k)
      <4> SUFFICES ASSUME NEW h, h = headings PROVE TrailOK(h, g, k)
        OBVIOUS
      <4> QED BY <1>4, <3>1, TrailOfHeadings DEF ChunkTrail
    <3> QED BY <3>2, <3>3 DEF k
  <2>5. 0 \in 0..Len(<<>>)
    OBVIOUS
  <2>6. Assembling(g, n + 1, buffer', pages', chunks', headings', trail')
    BY <1>1, <1>3, <1>5, <1>8, <2>3, <2>4, <2>5 DEF Assembling
  <2> QED BY <1>1, <1>5, <1>8, <2>6 DEF g, n
<1> QED BY <1>7, <1>8

\* What is buffered at the end becomes a chunk.
LEMMA FinishStep ==
  ASSUME NEW f, GivenOK(f, given), taken \in 0..Len(given),
         Assembling(given, taken, buffer, pages, chunks, headings, trail), Finish
  PROVE  ChunksOK(given, chunks') /\ BeforeIn(chunks', Len(chunks') + 1) = Upto(given, Len(given))
<1>1. /\ BufferOK(given, taken, buffer, pages) /\ ChunksOK(given, chunks)
      /\ buffer # <<>> => ChunkTrail(trail, given, taken)
  BY DEF Assembling
<1>2. PICK r \in 0..Len(buffer) : Repeated(given, taken, buffer, chunks, r)
  BY DEF Assembling
<1>3. chunks' = chunks \o Flush(trail) /\ taken = Len(given)
  BY DEF Finish, LastChunk
<1>4. ChunksOK(given, chunks') /\ BeforeIn(chunks', Len(chunks') + 1) = Upto(given, taken)
  BY <1>1, <1>2, <1>3, Flushing
<1> QED BY <1>3, <1>4

-----------------------------------------------------------------------------
\* The assembler invariant holds at first.
LEMMA InitAssemblerInv == Init => AssemblerInv
BY DEF Init, ParserInit, AssemblerInv

\* The blocks are handed over.
LEMMA BeginStep ==
  ASSUME ParserInv, AssemblerInv, BeginAssembly
  PROVE  AssemblerInv'
<1>1. /\ phase = "chunk" /\ phase' = "assemble"
      /\ given' = IF blocks = <<>> THEN Synthesized ELSE blocks
      /\ UNCHANGED <<format, blocks, taken, cut, headings, buffer, pages, trail, chunks>>
  BY DEF BeginAssembly, parserVars
<1>2. HandedOverOf(format, blocks, given')
  BY <1>1, HandOver
<1>3. GivenOK(format, given')
  BY <1>2 DEF HandedOverOf
<1>4. /\ taken = 0 /\ buffer = <<>> /\ pages = {} /\ trail = NoTrail /\ chunks = <<>>
      /\ headings = NoTrail
  BY <1>1 DEF AssemblerInv, AssemblerInit
<1>5. Len(given') \in Nat /\ 0 \in 0..Len(given')
  BY <1>3, GivenTypes
<1>6. ChunksOK(given', <<>>)
  BY DEF ChunksOK
<1>7. BeforeIn(<<>>, Len(<<>>) + 1) = Upto(given', 0)
  <2>1. BeforeIn(<<>>, Len(<<>>) + 1) = {}
    <3>1. \A n : n \notin BeforeIn(<<>>, 1)
      BY BeforeMember
    <3> QED BY <3>1
  <2>2. Upto(given', 0) = {}
    BY DEF Upto
  <2> QED BY <2>1, <2>2
<1>8. BufferOK(given', 0, <<>>, {}) /\ Repeated(given', 0, <<>>, <<>>, 0)
  BY <1>3, <1>5, <1>7, NothingHeld
<1>9. HeadingsOK(NoTrail, given', 0)
  BY DEF HeadingsOK, NoTrail, TitleAt, NoHeading
<1>10. Assembling(given', 0, <<>>, {}, <<>>, NoTrail, NoTrail)
  <2>1. 0 \in 0..Len(<<>>)
    OBVIOUS
  <2> QED BY <1>6, <1>8, <1>9, <2>1, EmptyTrail DEF Assembling
<1>11. /\ format' = format /\ blocks' = blocks /\ taken' = 0 /\ buffer' = <<>> /\ pages' = {}
       /\ chunks' = <<>> /\ headings' = NoTrail /\ trail' = NoTrail
  BY <1>1, <1>4
<1> QED BY <1>1, <1>2, <1>5, <1>6, <1>10, <1>11 DEF AssemblerInv

\* Every step of the assembler keeps its invariant.
LEMMA AssemblerStep ==
  ASSUME ParserInv, AssemblerInv, AssemblerNext, UNCHANGED parserVars
  PROVE  AssemblerInv'
<1>1. phase \in {"assemble", "split"}
  BY DEF AssemblerNext, NextBlock, LargeBlock, NextPiece, Finish
<1>2. HandedOverOf(format, blocks, given) /\ ChunksOK(given, chunks) /\ taken \in 0..Len(given)
  BY <1>1 DEF AssemblerInv
<1>3. GivenOK(format, given)
  BY <1>2 DEF HandedOverOf
<1>4. format' = format
  BY DEF parserVars
<1> DEFINE b == given[taken + 1]
<1>5. CASE taken < Len(given) /\ NextBlock(b)
  <2>1. /\ phase = "assemble" /\ taken' = taken + 1 /\ UNCHANGED <<blocks, phase, given, cut>>
        /\ SectionBreaks(b) \/ MinorHeading(b) \/ BodyBlock(b)
    BY <1>5 DEF NextBlock
  <2>2. Assembling(given, taken, buffer, pages, chunks, headings, trail)
    BY <2>1 DEF AssemblerInv
  <2>3. Assembling(given, taken + 1, buffer', pages', chunks', headings', trail')
    BY <1>2, <1>3, <1>5, <2>1, <2>2, SectionStep, MinorStep, BodyStep
  <2>4. ChunksOK(given, chunks')
    BY <2>3 DEF Assembling
  <2>5. taken + 1 \in 0..Len(given)
    BY <1>2, <1>3, <1>5, GivenTypes
  <2> HIDE DEF b
  <2> QED BY <1>2, <1>4, <2>1, <2>3, <2>4, <2>5 DEF AssemblerInv
<1>6. CASE taken < Len(given) /\ LargeBlock(b)
  <2>1. phase = "assemble" /\ phase' = "split" /\ UNCHANGED <<blocks, given, taken, headings>>
    BY <1>6 DEF LargeBlock
  <2>2. Assembling(given, taken, buffer, pages, chunks, headings, trail)
    BY <2>1 DEF AssemblerInv
  <2>3. Splitting(given, taken, cut', buffer', pages', chunks', headings', trail')
    BY <1>2, <1>3, <1>6, <2>2, LargeStep
  <2>4. ChunksOK(given, chunks')
    BY <2>3 DEF Splitting
  <2> HIDE DEF b
  <2> QED BY <1>2, <1>4, <2>1, <2>3, <2>4 DEF AssemblerInv
<1>7. CASE taken < Len(given) /\ NextPiece(b)
  <2>1. phase = "split"
    BY <1>7 DEF NextPiece
  <2>2. Splitting(given, taken, cut, buffer, pages, chunks, headings, trail)
    BY <2>1 DEF AssemblerInv
  <2>3. /\ ChunksOK(given, chunks') /\ UNCHANGED <<given, blocks>>
        /\ \/ /\ phase' = "split" /\ taken' = taken
              /\ Splitting(given, taken, cut', buffer', pages', chunks', headings', trail')
           \/ /\ phase' = "assemble" /\ taken' = taken + 1
              /\ Assembling(given, taken + 1, buffer', pages', chunks', headings', trail')
    BY <1>2, <1>3, <1>7, <2>2, PieceStep
  <2>4. taken + 1 \in 0..Len(given)
    BY <1>2, <1>3, <1>7, GivenTypes
  <2> HIDE DEF b
  <2> QED BY <1>2, <1>4, <2>3, <2>4 DEF AssemblerInv
<1>8. CASE Finish
  <2>1. phase = "assemble" /\ phase' = "done" /\ UNCHANGED <<blocks, given, taken>>
    BY <1>8 DEF Finish
  <2>2. Assembling(given, taken, buffer, pages, chunks, headings, trail)
    BY <2>1 DEF AssemblerInv
  <2>3. ChunksOK(given, chunks') /\ BeforeIn(chunks', Len(chunks') + 1) = Upto(given, Len(given))
    BY <1>2, <1>3, <1>8, <2>2, FinishStep
  <2> QED BY <1>2, <1>4, <2>1, <2>3 DEF AssemblerInv
<1> QED BY <1>5, <1>6, <1>7, <1>8 DEF AssemblerNext

\* Every step of the pipeline does.
LEMMA NextAssemblerInv == ParserInv /\ AssemblerInv /\ [Next]_vars => AssemblerInv'
<1> SUFFICES ASSUME ParserInv, AssemblerInv, [Next]_vars PROVE AssemblerInv'
  OBVIOUS
<1>1. CASE ParserNext /\ UNCHANGED assemblerVars
  <2>1. phase = "parse" /\ phase' \in {"parse", "chunk"}
    BY <1>1 DEF ParserNext, ReadLine, NextPage, EndOfDocument
  <2>2. AssemblerInit'
    BY <1>1, <2>1 DEF AssemblerInv, AssemblerInit, assemblerVars
  <2> QED BY <2>1, <2>2 DEF AssemblerInv
<1>2. CASE BeginAssembly
  BY <1>2, BeginStep
<1>3. CASE AssemblerNext /\ UNCHANGED parserVars
  BY <1>3, AssemblerStep
<1>4. CASE UNCHANGED vars
  BY <1>4 DEF AssemblerInv, AssemblerInit, vars, parserVars, assemblerVars
<1> QED BY <1>1, <1>2, <1>3, <1>4 DEF Next

-----------------------------------------------------------------------------
(* The CSV files, whose headers are repeated. *)

\* A CSV file has tables only.
CsvTables == format = "csv" => \A i \in DOMAIN blocks : blocks[i].type = "table"

\* A CSV batch is a table.
LEMMA TableFlushed ==
  ASSUME ParserInv, CsvTables, format = "csv", blocks' = blocks \o Flushed("table", table)
  PROVE  \A i \in DOMAIN blocks' : blocks'[i].type = "table"
<1>1. blocks \in Seq(BlockSet) /\ PageNumber \in Nat /\ table \in Seq(Line)
  BY DEF ParserInv, Parsed, PageNumber, Gathered, TextOK
<1>2. CASE table = <<>>
  <2>1. blocks' = blocks
    BY <1>1, <1>2 DEF Flushed
  <2> QED BY <2>1 DEF CsvTables
<1>3. CASE table # <<>>
  <2> DEFINE b == Block("table", 0, PageNumber, table)
  <2>1. Flushed("table", table) = <<b>> /\ b.type = "table"
    BY <1>3 DEF Flushed, Block
  <2>2. b \in BlockSet
    BY <1>1 DEF Block, BlockSet, BlockType
  <2> HIDE DEF b
  <2>3. blocks' = Append(blocks, b)
    <3>1. blocks \o <<b>> = Append(blocks, b)
      BY <1>1, <2>2
    <3> QED BY <2>1, <3>1
  <2>4. DOMAIN blocks' = DOMAIN blocks \cup {Len(blocks) + 1} /\ blocks'[Len(blocks) + 1] = b
        /\ \A i \in DOMAIN blocks : blocks'[i] = blocks[i]
    BY <1>1, <2>2, <2>3
  <2> QED BY <2>1, <2>4 DEF CsvTables
<1> QED BY <1>2, <1>3

\* So is the last one.
LEMMA EndOfCsv ==
  ASSUME ParserInv, CsvTables, format = "csv", EndOfText
  PROVE  \A i \in DOMAIN blocks' : blocks'[i].type = "table"
<1>1. paragraph = <<>> /\ list = <<>> /\ ~inCode /\ PageNumber \in Nat /\ table \in Seq(Line)
  BY DEF ParserInv, Gathered, PageNumber, TextOK
<1>2. Flushed("table", table) \in Seq(BlockSet)
  <2>1. Block("table", 0, PageNumber, table) \in BlockSet
    BY <1>1 DEF Block, BlockSet, BlockType
  <2> QED BY <2>1 DEF Flushed
<1>3. FlushAll = <<>> \o Flushed("table", table) \o <<>> /\ OpenCode = <<>>
  BY <1>1 DEF FlushAll, Flushed, OpenCode
<1>4. FlushAll \o OpenCode = Flushed("table", table)
  <2> DEFINE t == Flushed("table", table)
  <2>1. t \in Seq(BlockSet) /\ FlushAll = <<>> \o t \o <<>>
    BY <1>2, <1>3
  <2> HIDE DEF t
  <2>2. <<>> \o t = t /\ t \o <<>> = t
    BY <2>1, ConcatEmptySeq
  <2> QED BY <1>3, <2>1, <2>2 DEF t
<1>5. blocks' = blocks \o Flushed("table", table)
  BY <1>4 DEF EndOfText, Emit
<1> QED BY <1>5, TableFlushed

\* At first there is no block.
LEMMA InitCsvTables == Init => CsvTables
BY DEF Init, ParserInit, CsvTables

\* Every step keeps to tables in a CSV file.
LEMMA NextCsvTables == ParserInv /\ CsvTables /\ [Next]_vars => CsvTables'
<1> SUFFICES ASSUME ParserInv, CsvTables, [Next]_vars, format' = "csv"
             PROVE  \A i \in DOMAIN blocks' : blocks'[i].type = "table"
  BY DEF CsvTables
<1>0. format' = format
  BY DEF Next, ParserNext, ReadLine, NextPage, EndOfDocument, BeginAssembly, parserVars, vars
<1>1. CASE \E k \in Kinds[format] : ReadLine(k)
  <2>1. PICK k \in Kinds[format] : ReadLine(k)
    BY <1>1
  <2>2. PICK line : CsvRow(line)
    BY <1>0, <2>1 DEF ReadLine
  <2>3. blocks' = blocks \/ blocks' = blocks \o Flushed("table", table)
    BY <2>2 DEF CsvRow, Emit
  <2> QED BY <1>0, <2>3, TableFlushed DEF CsvTables
<1>2. CASE NextPage \/ EndOfDocument
  <2>1. EndOfText
    BY <1>2 DEF NextPage, EndOfDocument
  <2> QED BY <1>0, <2>1, EndOfCsv
<1>3. CASE UNCHANGED blocks
  BY <1>0, <1>3 DEF CsvTables
<1>4. BeginAssembly \/ AssemblerNext \/ UNCHANGED vars => UNCHANGED blocks
  BY DEF BeginAssembly, AssemblerNext, NextBlock, LargeBlock, NextPiece, Finish, vars
<1> QED BY <1>1, <1>2, <1>3, <1>4 DEF Next, ParserNext

-----------------------------------------------------------------------------
(* What the invariant says of every chunk. *)

\* The blocks of a chunk, or the block it is a piece of
Span(g, c, p, q) ==
  /\ \A j \in p..q : ~Section(g[j])
  /\ \A x \in Lines(c) : x # 0 /\ \E j \in p..q : x \in LineNumbers(g[j].text)
  /\ \A j \in p..q : IsHeading(g[j]) => g[j].text[1].n \in Lines(c)
  /\ \A j \in p..q : g[j].text # <<>> /\ Lines(c) # {} =>
       \E x \in Lines(c) : x \in LineNumbers(g[j].text)
  /\ c.pages = {PageOf(g[j]) : j \in p..q}
  /\ TrailOK(c.trail, g, q)
  /\ c.trail = NoTrail =>
       NoHeading(g, q) \/ (p = q /\ AfterBuffered(g, q) /\ IsLarge(g[q]) /\ ~IsHeading(g[q]))

\* A block that is not empty has a line of its own.
LEMMA FirstLine ==
  ASSUME NEW f, NEW g, GivenOK(f, g), NEW j \in DOMAIN g, g[j].text # <<>>
  PROVE  /\ 1 \in DOMAIN g[j].text /\ g[j].text[1].n \in Nat \ {0}
         /\ g[j].text[1].n \in LineNumbers(g[j].text)
<1>1. g[j].text \in Seq(Line) /\ TextOK(f, g[j].type, g[j].text)
  BY GivenTypes
<1>2. 1 \in DOMAIN g[j].text
  BY <1>1
<1>3. g[j].text[1].n \in Nat
  BY <1>2, GivenTypes
<1>4. g[j].text[1].n # 0
  BY <1>2, <1>1 DEF TextOK
<1> QED BY <1>2, <1>3, <1>4, TextMember

\* The lines of a chunk that comes from the buffer
LEMMA BufferLines ==
  ASSUME NEW g, NEW cs, NEW i, NEW p \in Nat, NEW q \in Nat, NEW r, FromBuffer(g, cs, i, p, q, r),
         cs[i] \in ChunkSet
  PROVE  /\ DOMAIN cs[i].parts = 1..q - p + 1
         /\ \A k \in 1..q - p + 1 : cs[i].parts[k] = g[p + k - 1].text /\ p + k - 1 \in p..q
         /\ \A j \in p..q : /\ j - p + 1 \in 1..q - p + 1 /\ p + (j - p + 1) - 1 = j
                            /\ cs[i].parts[j - p + 1] = g[j].text
         /\ \A x : x \in Lines(cs[i]) <=> x # 0 /\ \E j \in p..q : x \in LineNumbers(g[j].text)
<1> DEFINE c == cs[i]
           n == q - p + 1
<1>1. c.parts \in Seq(Seq(Line)) /\ Len(c.parts) = n /\ \A k \in 1..n : c.parts[k] = g[p + k - 1].text
  BY DEF ChunkSet, FromBuffer
<1>2. DOMAIN c.parts = 1..n
  BY <1>1
<1>3. \A k \in 1..n : p + k - 1 \in p..q
  OBVIOUS
<1>4. \A j \in p..q : j - p + 1 \in 1..n /\ p + (j - p + 1) - 1 = j
  OBVIOUS
<1> HIDE DEF c, n
<1>5. \A j \in p..q : c.parts[j - p + 1] = g[j].text
  BY <1>1, <1>4
<1>6. ASSUME NEW x
      PROVE  x \in Lines(c) <=> x # 0 /\ \E j \in p..q : x \in LineNumbers(g[j].text)
  <2>1. x \in Lines(c) <=> x # 0 /\ \E k \in 1..n : x \in LineNumbers(c.parts[k])
    BY <1>2, LinesMember
  <2>2. (\E k \in 1..n : x \in LineNumbers(c.parts[k])) <=> \E j \in p..q : x \in LineNumbers(g[j].text)
    BY <1>1, <1>3, <1>4, <1>5
  <2> QED BY <2>1, <2>2
<1> QED BY <1>1, <1>2, <1>3, <1>4, <1>5, <1>6 DEF c, n

PieceNumbers(b, c, e, t) ==
  \A x : x \in LineNumbers(t) <=> \E a \in (1..Len(Header(b))) \cup (c + 1..e) : b.text[a].n = x

\* The places of the lines of a piece
LEMMA NumbersOfPiece ==
  ASSUME NEW b, NEW c, NEW e, NEW t, PieceIs(b, c, e, t)
  PROVE  PieceNumbers(b, c, e, t)
BY PieceText DEF PieceNumbers

\* ... and of one that is a piece of a block
PieceParts(g, cs, i, j, c, e) ==
  /\ PieceIs(g[j], c, e, Header(g[j]) \o SubSeq(g[j].text, c + 1, e))
  /\ PieceLines(g[j], c, e, Lines(cs[i]))
  /\ Len(cs[i].parts) = 1 /\ DOMAIN cs[i].parts = {1}
  /\ cs[i].parts[1] = Header(g[j]) \o SubSeq(g[j].text, c + 1, e)

\* A chunk that is a piece has the lines of the piece.
LEMMA LinesOfPiece ==
  ASSUME NEW f, NEW g, GivenOK(f, g), NEW cs, NEW i, NEW j \in DOMAIN g, NEW c \in Nat, NEW e \in Nat,
         FromPiece(g, cs, i, j, c, e)
  PROVE  PieceParts(g, cs, i, j, c, e)
<1> DEFINE b == g[j]
           t == Header(b) \o SubSeq(b.text, c + 1, e)
           d == cs[i]
<1>1. b.text \in Seq(Line) /\ Len(Header(b)) <= c /\ c < e /\ e <= Len(b.text) /\ d.parts = <<t>>
      /\ Len(Header(b)) \in Nat
  <2>1. b.text \in Seq(Line)
    BY GivenTypes
  <2>2. Len(Header(b)) \in Nat
    BY <2>1, HeaderOf
  <2> HIDE DEF t
  <2> QED BY <2>1, <2>2 DEF FromPiece, t
<1>2. PieceIs(b, c, e, t)
  BY <1>1 DEF PieceIs
<1> HIDE DEF b, t, d
<1>3. /\ t \in Seq(Line)
      /\ \A x : x \in LineNumbers(t) <=>
                  \E a \in (1..Len(Header(b))) \cup (c + 1..e) : b.text[a].n = x
  <2>1. t \in Seq(Line)
    BY <1>2, PieceText
  <2>2. \A x : x \in LineNumbers(t) <=>
                 \E a \in (1..Len(Header(b))) \cup (c + 1..e) : b.text[a].n = x
    BY <1>2, NumbersOfPiece DEF PieceNumbers
  <2> QED BY <2>1, <2>2
<1>4. Len(<<t>>) = 1 /\ DOMAIN <<t>> = {1} /\ <<t>>[1] = t
  BY <1>3
<1>5. PieceLines(b, c, e, Lines(d))
  <2>1. ASSUME NEW x
        PROVE  x \in Lines(d) <=> x # 0 /\ x \in LineNumbers(t)
    <3>1. x \in Lines(d) <=> x # 0 /\ \E k \in DOMAIN d.parts : x \in LineNumbers(d.parts[k])
      BY LinesMember
    <3> QED BY <1>1, <1>4, <3>1
  <2> QED BY <1>3, <2>1 DEF PieceLines
<1> QED BY <1>1, <1>2, <1>4, <1>5 DEF PieceParts, b, t, d

\* Every chunk spans some blocks between two section titles.
LEMMA SpanOf ==
  ASSUME NEW f, NEW g, GivenOK(f, g), NEW cs, ChunksOK(g, cs), NEW i \in DOMAIN cs
  PROVE  \E p \in 1..Len(g) : \E q \in p..Len(g) : Span(g, cs[i], p, q)
<1>1. cs[i] \in ChunkSet /\ SourceOK(g, cs, i)
  BY DEF ChunksOK
<1>2. DOMAIN g = 1..Len(g) /\ Len(g) \in Nat
  BY GivenTypes
<1>3. ASSUME NEW p \in 1..Len(g), NEW q \in p..Len(g), NEW r \in 0..q - p, FromBuffer(g, cs, i, p, q, r)
      PROVE  Span(g, cs[i], p, q)
  <2>1. p \in Nat /\ q \in Nat /\ \A j \in p..q : j \in DOMAIN g
    BY <1>2
  <2>2. \A x : x \in Lines(cs[i]) <=> x # 0 /\ \E j \in p..q : x \in LineNumbers(g[j].text)
    BY <1>1, <1>3, <2>1, BufferLines
  <2>3. \A j \in p..q : g[j].text # <<>> => \E x \in Lines(cs[i]) : x \in LineNumbers(g[j].text)
    BY <2>1, <2>2, FirstLine
  <2>4. \A j \in p..q : IsHeading(g[j]) => g[j].text[1].n \in Lines(cs[i])
    <3> SUFFICES ASSUME NEW j \in p..q, IsHeading(g[j]) PROVE g[j].text[1].n \in Lines(cs[i])
      OBVIOUS
    <3>1. g[j].text[1].n # 0 /\ g[j].text[1].n \in LineNumbers(g[j].text)
      BY <2>1, HeadingText
    <3> QED BY <2>2, <3>1
  <2>5. /\ \A j \in p..q : ~Section(g[j])
        /\ cs[i].pages = {PageOf(g[j]) : j \in p..q} /\ TrailOK(cs[i].trail, g, q)
        /\ cs[i].trail = NoTrail => NoHeading(g, q)
    BY <1>3 DEF FromBuffer, ChunkTrail
  <2> QED BY <2>2, <2>3, <2>4, <2>5 DEF Span
<1>4. ASSUME NEW j \in 1..Len(g), NEW c \in 0..Len(g[j].text), NEW e \in 0..Len(g[j].text),
             FromPiece(g, cs, i, j, c, e)
      PROVE  Span(g, cs[i], j, j)
  <2>1. j \in DOMAIN g /\ c \in Nat /\ e \in Nat
    BY <1>2
  <2>2. PieceIs(g[j], c, e, Header(g[j]) \o SubSeq(g[j].text, c + 1, e))
        /\ PieceLines(g[j], c, e, Lines(cs[i]))
    BY <1>4, <2>1, LinesOfPiece DEF PieceParts
  <2>3. g[j].text \in Seq(Line) /\ Len(Header(g[j])) <= Len(g[j].text) /\ c < e /\ e <= Len(g[j].text)
        /\ DOMAIN g[j].text = 1..Len(g[j].text) /\ Len(Header(g[j])) \in Nat /\ Len(g[j].text) \in Nat
    BY <2>1, <2>2, GivenTypes, HeaderOf DEF PieceIs
  <2>4. \A x \in Lines(cs[i]) : x # 0 /\ x \in LineNumbers(g[j].text)
    <3> SUFFICES ASSUME NEW x \in Lines(cs[i]) PROVE x # 0 /\ x \in LineNumbers(g[j].text)
      OBVIOUS
    <3>1. PICK a \in (1..Len(Header(g[j]))) \cup (c + 1..e) : g[j].text[a].n = x /\ x # 0
      BY <2>2 DEF PieceLines
    <3>2. a \in DOMAIN g[j].text
      BY <2>1, <2>3
    <3> QED BY <3>1, <3>2, TextMember
  <2>5. j..j = {j}
    BY <2>1, <1>2
  <2>6. /\ ~IsHeading(g[j]) /\ IsLarge(g[j]) /\ cs[i].pages = {PageOf(g[j])}
        /\ TrailOK(cs[i].trail, g, j)
        /\ cs[i].trail = NoTrail => NoHeading(g, j) \/ AfterBuffered(g, j)
    BY <1>4 DEF FromPiece, PieceTrail
  <2> QED BY <2>4, <2>5, <2>6 DEF Span, Section
<1>5. CASE \E p \in 1..Len(g) : \E q \in p..Len(g) : \E r \in 0..q - p : FromBuffer(g, cs, i, p, q, r)
  BY <1>3, <1>5
<1>6. CASE \E j \in 1..Len(g) : \E c, e \in 0..Len(g[j].text) : FromPiece(g, cs, i, j, c, e)
  <2>1. PICK j \in 1..Len(g) : Span(g, cs[i], j, j)
    BY <1>4, <1>6
  <2>2. j \in j..Len(g)
    BY <1>2
  <2> QED BY <2>1, <2>2
<1> QED BY <1>1, <1>5, <1>6 DEF SourceOK

-----------------------------------------------------------------------------
(* Sections, trails and pages. *)

\* What the invariant says once there is a chunk
LEMMA Chunked ==
  ASSUME ParserInv, AssemblerInv, chunks # <<>> \/ phase = "done"
  PROVE  /\ HandedOverOf(format, blocks, given) /\ GivenOK(format, given) /\ ChunksOK(given, chunks)
         /\ chunks \in Seq(ChunkSet) /\ DOMAIN chunks = 1..Len(chunks) /\ Len(chunks) \in Nat
         /\ phase # "parse" /\ Pending = <<>>
         /\ \A i \in DOMAIN chunks : /\ i \in Nat /\ chunks[i] \in ChunkSet /\ SourceOK(given, chunks, i)
                                     /\ Before(i) = BeforeIn(chunks, i)
         /\ Before(Len(chunks) + 1) = BeforeIn(chunks, Len(chunks) + 1)
<1>1. phase \in {"parse", "chunk", "assemble", "split", "done"} /\ (phase # "parse" => Pending = <<>>)
  BY DEF ParserInv
<1>2. phase \notin {"parse", "chunk"}
  BY DEF AssemblerInv, AssemblerInit
<1>3. HandedOverOf(format, blocks, given) /\ ChunksOK(given, chunks)
  BY <1>1, <1>2 DEF AssemblerInv
<1>4. chunks \in Seq(ChunkSet) /\ \A i \in DOMAIN chunks : SourceOK(given, chunks, i)
  BY <1>3 DEF ChunksOK
<1>5. DOMAIN chunks = 1..Len(chunks) /\ Len(chunks) \in Nat
      /\ \A i \in DOMAIN chunks : i \in Nat /\ chunks[i] \in ChunkSet
  BY <1>4
<1>6. \A i : Before(i) = BeforeIn(chunks, i)
  BY DEF Before, BeforeIn
<1> QED BY <1>1, <1>2, <1>3, <1>4, <1>5, <1>6 DEF HandedOverOf

\* Headings by their place among the blocks
LEMMA HeadingNumbers ==
  ASSUME NEW f, HandedOverOf(f, blocks, given), NEW levels, NEW h
  PROVE  h \in HeadingsOf(levels) <=>
           \E s \in DOMAIN given : /\ IsHeading(given[s]) /\ given[s].level \in levels
                                   /\ h = given[s].text[1].n
<1>1. h \in HeadingsOf(levels) <=>
        \E s \in DOMAIN blocks : /\ IsHeading(blocks[s]) /\ blocks[s].level \in levels
                                 /\ h = blocks[s].text[1].n
  BY DEF HeadingsOf
<1>2. CASE blocks = <<>>
  <2>1. DOMAIN blocks = {}
    BY <1>2
  <2>2. \A s \in DOMAIN given : ~IsHeading(given[s])
    BY <1>2 DEF HandedOverOf, IsHeading
  <2> QED BY <1>1, <2>1, <2>2
<1>3. CASE blocks # <<>>
  BY <1>1, <1>3 DEF HandedOverOf
<1> QED BY <1>2, <1>3

\* Section titles by their place among the blocks
LEMMA SectionNumbers ==
  ASSUME NEW f, HandedOverOf(f, blocks, given), NEW h
  PROVE  h \in SectionHeadings <=> \E s \in DOMAIN given : Section(given[s]) /\ h = given[s].text[1].n
<1>1. GivenOK(f, given)
  BY DEF HandedOverOf
<1>2. ASSUME NEW s \in DOMAIN given
      PROVE  Section(given[s]) <=> IsHeading(given[s]) /\ given[s].level \in 1..SectionBreak
  <2>1. IsHeading(given[s]) => given[s].level \in Levels
    BY <1>1, HeadingText
  <2> QED BY <2>1, LevelsSplit DEF Section
<1>3. h \in SectionHeadings <=>
        \E s \in DOMAIN given : /\ IsHeading(given[s]) /\ given[s].level \in 1..SectionBreak
                                /\ h = given[s].text[1].n
  BY HeadingNumbers DEF SectionHeadings
<1> QED BY <1>2, <1>3

\* Lines of different blocks, when no header is repeated
LEMMA BlocksInOrder ==
  ASSUME NEW f, NEW g, GivenOK(f, g), f # "csv", NEW i \in DOMAIN g, NEW j \in DOMAIN g, i < j,
         NEW x \in LineNumbers(g[i].text), NEW y \in LineNumbers(g[j].text), x # 0, y # 0
  PROVE  x < y
<1>1. PICK a \in DOMAIN g[i].text : g[i].text[a].n = x
  BY TextMember
<1>2. PICK b \in DOMAIN g[j].text : g[j].text[b].n = y
  BY TextMember
<1> QED BY <1>1, <1>2, LinesInOrder

\* A heading that is not of a chunk's blocks comes before its lines or after them.
LEMMA HeadingSide ==
  ASSUME NEW f, NEW g, GivenOK(f, g), NEW c, NEW p \in 1..Len(g), NEW q \in p..Len(g),
         Span(g, c, p, q), NEW s \in DOMAIN g, IsHeading(g[s])
  PROVE  /\ s < p => \A n \in Lines(c) : g[s].text[1].n < n
         /\ q < s => \A n \in Lines(c) : n < g[s].text[1].n
         /\ f # "csv" /\ g[s].text[1].n \in Nat
<1>1. DOMAIN g = 1..Len(g) /\ Len(g) \in Nat
  BY GivenTypes
<1>2. /\ f # "csv" /\ g[s].text[1].n \in Nat \ {0}
      /\ g[s].text[1].n \in LineNumbers(g[s].text)
  <2>1. f # "csv" /\ g[s].text[1].n \in Nat \ {0} /\ LineNumbers(g[s].text) = {g[s].text[1].n}
    BY HeadingText
  <2> QED BY <2>1
<1>3. ASSUME NEW n \in Lines(c)
      PROVE  (s < p => g[s].text[1].n < n) /\ (q < s => n < g[s].text[1].n)
  <2>1. PICK j \in p..q : n \in LineNumbers(g[j].text) /\ n # 0
    BY DEF Span
  <2>2. j \in DOMAIN g /\ (s < p => s < j) /\ (q < s => j < s)
    BY <1>1
  <2> QED BY <1>2, <2>1, <2>2, BlocksInOrder
<1> QED BY <1>2, <1>3

\* A section begins before a chunk or after it.
LEMMA SectionSide ==
  ASSUME NEW f, NEW g, GivenOK(f, g), NEW c, NEW p \in 1..Len(g), NEW q \in p..Len(g),
         Span(g, c, p, q), NEW s \in DOMAIN g, Section(g[s])
  PROVE  /\ s < p \/ q < s
         /\ s < p => \A n \in Lines(c) : g[s].text[1].n < n
         /\ q < s => \A n \in Lines(c) : n < g[s].text[1].n
         /\ f # "csv" /\ g[s].text[1].n \in Nat
<1>1. DOMAIN g = 1..Len(g) /\ Len(g) \in Nat
  BY GivenTypes
<1>2. s < p \/ q < s
  BY <1>1 DEF Span
<1>3. IsHeading(g[s])
  BY DEF Section
<1> QED BY <1>2, <1>3, HeadingSide

\* The title in force at the lines of a chunk is the one after its last block.
LEMMA TitleOfLines ==
  ASSUME NEW f, HandedOverOf(f, blocks, given), NEW c, NEW p \in 1..Len(given),
         NEW q \in p..Len(given), Span(given, c, p, q), NEW n \in Lines(c), n \in Nat,
         NEW l \in 1..SectionBreak, NEW h
  PROVE  h \in InForce(l, n) <=>
           \E s \in 1..q : InForceAt(given, q, l, s) /\ h = given[s].text[1].n
<1> DEFINE N(s) == given[s].text[1].n
<1>1. GivenOK(f, given) /\ DOMAIN given = 1..Len(given) /\ Len(given) \in Nat
  BY GivenTypes DEF HandedOverOf
<1>2. l \in Nat /\ l <= SectionBreak /\ SectionBreak \in Nat
  BY LevelsSplit
\* A heading of that level or of a higher one
<1>3. ASSUME NEW s \in DOMAIN given, IsHeading(given[s]), ~(given[s].level > l)
      PROVE  /\ s < p \/ q < s
             /\ s < p => N(s) < n
             /\ q < s => n < N(s)
             /\ N(s) \in Nat /\ N(s) \in HeadingsOf(1..l)
  <2>1. given[s].level \in Nat /\ given[s].level \in Levels
    BY <1>1, <1>3, HeadingText
  <2>2. given[s].level \in 1..l /\ Section(given[s])
    BY <1>2, <1>3, <2>1, LevelsSplit DEF Section
  <2>3. N(s) \in HeadingsOf(1..l)
    BY <1>3, <2>2, HeadingNumbers
  <2> QED BY <1>1, <2>2, <2>3, SectionSide
<1>4. ASSUME NEW s \in DOMAIN given, NEW u \in DOMAIN given, s < u,
             IsHeading(given[s]), IsHeading(given[u])
      PROVE  N(s) < N(u) /\ N(s) \in Nat /\ N(u) \in Nat
  BY <1>1, <1>4, HeadingsInOrder, HeadingText
<1>5. ASSUME NEW s \in 1..q, InForceAt(given, q, l, s), h = N(s)
      PROVE  h \in InForce(l, n)
  <2>1. s \in DOMAIN given /\ IsHeading(given[s]) /\ given[s].level = l
    BY <1>1, <1>5 DEF InForceAt
  <2>2. h \in HeadingsOf({l})
    BY <1>5, <2>1, HeadingNumbers
  <2>3. h < n /\ h \in Nat
    BY <1>1, <1>2, <1>3, <1>5, <2>1
  <2>4. ASSUME NEW v \in HeadingsOf(1..l) PROVE v <= h \/ v > n
    <3>1. PICK u \in DOMAIN given : IsHeading(given[u]) /\ given[u].level \in 1..l /\ v = N(u)
      BY <2>4, HeadingNumbers
    <3>2. ~(given[u].level > l)
      BY <1>2, <3>1
    <3>3. CASE u > q
      BY <1>1, <1>3, <3>1, <3>2, <3>3
    <3>4. CASE ~(u > q)
      <4>1. u \notin s + 1..q
        BY <1>5, <3>1, <3>2 DEF InForceAt
      <4>2. u = s \/ u < s
        BY <1>1, <3>4, <4>1
      <4>3. u < s => v < h /\ v \in Nat
        BY <1>4, <1>5, <2>1, <3>1
      <4> QED BY <1>5, <2>3, <3>1, <4>2, <4>3
    <3> QED BY <3>3, <3>4
  <2> QED BY <2>2, <2>3, <2>4 DEF InForce
<1>6. ASSUME h \in InForce(l, n)
      PROVE  \E s \in 1..q : InForceAt(given, q, l, s) /\ h = N(s)
  <2>1. h \in HeadingsOf({l}) /\ h < n /\ \A v \in HeadingsOf(1..l) : v <= h \/ v > n
    BY <1>6 DEF InForce
  <2>2. PICK s \in DOMAIN given : IsHeading(given[s]) /\ given[s].level \in {l} /\ h = N(s)
    BY <2>1, HeadingNumbers
  <2>3. ~(given[s].level > l) /\ given[s].level = l
    BY <1>2, <2>2
  <2>4. s < p /\ h \in Nat
    BY <1>3, <2>1, <2>2, <2>3
  <2>5. s \in 1..q
    BY <1>1, <2>4
  <2>6. ASSUME NEW j \in s + 1..q, IsHeading(given[j]) PROVE given[j].level > l
    <3> SUFFICES ASSUME ~(given[j].level > l) PROVE FALSE
      OBVIOUS
    <3>1. j \in DOMAIN given /\ s < j /\ ~(q < j)
      BY <1>1, <2>5
    <3>2. N(j) < n /\ N(j) \in Nat /\ N(j) \in HeadingsOf(1..l)
      BY <1>3, <2>6, <3>1
    <3>3. h < N(j)
      BY <1>4, <2>2, <2>6, <3>1
    <3> QED BY <2>1, <2>4, <3>2, <3>3
  <2>7. InForceAt(given, q, l, s)
    BY <2>2, <2>3, <2>5, <2>6 DEF InForceAt
  <2> QED BY <2>2, <2>5, <2>7
<1> QED BY <1>5, <1>6

-----------------------------------------------------------------------------
\* The invariant says that no chunk spans the beginning of a section.
LEMMA InvSectionsApart == ParserInv /\ AssemblerInv => SectionsApart
<1> SUFFICES ASSUME ParserInv, AssemblerInv, NEW i \in DOMAIN chunks, NEW h \in SectionHeadings
             PROVE  (\A n \in Lines(chunks[i]) : n < h) \/ (\A n \in Lines(chunks[i]) : n > h)
  BY DEF SectionsApart
<1>1. HandedOverOf(format, blocks, given) /\ GivenOK(format, given) /\ ChunksOK(given, chunks)
  <2>1. chunks # <<>>
    OBVIOUS
  <2> QED BY <2>1, Chunked
<1>2. PICK p \in 1..Len(given) : \E q \in p..Len(given) : Span(given, chunks[i], p, q)
  BY <1>1, SpanOf
<1>3. PICK q \in p..Len(given) : Span(given, chunks[i], p, q)
  BY <1>2
<1>4. PICK s \in DOMAIN given : Section(given[s]) /\ h = given[s].text[1].n
  BY <1>1, SectionNumbers
<1>5. \A n \in Lines(chunks[i]) : n \in Nat
  <2> SUFFICES ASSUME NEW n \in Lines(chunks[i]) PROVE n \in Nat
    OBVIOUS
  <2>1. PICK j \in p..q : n \in LineNumbers(given[j].text)
    BY <1>3 DEF Span
  <2>2. j \in DOMAIN given
    BY <1>1, GivenTypes
  <2> QED BY <1>1, <2>1, <2>2, GivenTypes, TextMember
<1>6. h \in Nat
  BY <1>1, <1>3, <1>4, SectionSide
<1>7. (s < p => \A n \in Lines(chunks[i]) : h < n) /\ (q < s => \A n \in Lines(chunks[i]) : n < h)
      /\ (s < p \/ q < s)
  BY <1>1, <1>3, <1>4, SectionSide
<1> QED BY <1>5, <1>6, <1>7

\* ... that an empty trail is that of a chunk before the first heading or of a piece
\* of a block that cut the buffer,
LEMMA EmptyTrailAt ==
  ASSUME NEW f, HandedOverOf(f, blocks, given), NEW c, NEW p \in 1..Len(given),
         NEW q \in p..Len(given), Span(given, c, p, q), c.trail = NoTrail
  PROVE  \/ \A h \in HeadingsOf(Levels), n \in Lines(c) : n < h
         \/ \E j \in DOMAIN blocks : CutsBuffer(j) /\ Lines(c) \subseteq LineNumbers(blocks[j].text)
<1>1. GivenOK(f, given) /\ DOMAIN given = 1..Len(given) /\ Len(given) \in Nat
  BY GivenTypes DEF HandedOverOf
<1>2. CASE NoHeading(given, q)
  <2> SUFFICES ASSUME NEW h \in HeadingsOf(Levels), NEW n \in Lines(c) PROVE n < h
    OBVIOUS
  <2>1. PICK s \in DOMAIN given : IsHeading(given[s]) /\ h = given[s].text[1].n
    BY HeadingNumbers
  <2>2. q < s
    BY <1>1, <1>2, <2>1 DEF NoHeading
  <2> QED BY <1>1, <2>1, <2>2, HeadingSide
<1>3. CASE p = q /\ AfterBuffered(given, q) /\ IsLarge(given[q]) /\ ~IsHeading(given[q])
  <2>1. CASE blocks = <<>>
    <3>1. \A h : h \notin HeadingsOf(Levels)
      BY <2>1, HeadingNumbers DEF HandedOverOf, IsHeading
    <3> QED BY <3>1
  <2>2. CASE blocks # <<>>
    <3>1. given = blocks /\ q \in DOMAIN blocks
      BY <1>1, <2>2 DEF HandedOverOf
    <3>2. CutsBuffer(q)
      BY <1>3, <3>1 DEF CutsBuffer, AfterBuffered
    <3>3. \A x \in Lines(c) : x \in LineNumbers(blocks[q].text)
      <4>1. p..q = {q}
        BY <1>1, <1>3
      <4> QED BY <3>1, <4>1 DEF Span
    <3> QED BY <3>1, <3>2, <3>3
  <2> QED BY <2>1, <2>2
<1> QED BY <1>2, <1>3 DEF Span

\* ... that the section titles of a trail are those in force,
LEMMA TitleInForce ==
  ASSUME NEW f, HandedOverOf(f, blocks, given), NEW c, NEW p \in 1..Len(given),
         NEW q \in p..Len(given), Span(given, c, p, q), c.trail # NoTrail,
         NEW l \in 1..SectionBreak, NEW n \in Lines(c), n \in Nat
  PROVE  {c.trail[l]} \ {0} = InForce(l, n)
<1> DEFINE v == c.trail[l]
<1>1. GivenOK(f, given) /\ DOMAIN given = 1..Len(given) /\ Len(given) \in Nat
  BY GivenTypes DEF HandedOverOf
<1>2. TitleAt(given, q, l, v)
  BY DEF Span, TrailOK
<1>3. \A h : h \in InForce(l, n) <=>
               \E s \in 1..q : InForceAt(given, q, l, s) /\ h = given[s].text[1].n
  BY TitleOfLines
<1> HIDE DEF v
<1>4. CASE v = 0
  <2>1. \A h : h \notin InForce(l, n)
    BY <1>2, <1>3, <1>4 DEF TitleAt
  <2> QED BY <1>4, <2>1 DEF v
<1>5. CASE v # 0
  <2>1. PICK i \in 1..q : InForceAt(given, q, l, i) /\ v = given[i].text[1].n
    BY <1>2, <1>5 DEF TitleAt
  <2>2. ASSUME NEW s \in 1..q, InForceAt(given, q, l, s) PROVE s = i
    <3>1. ASSUME NEW j \in 1..q, NEW k \in 1..q, InForceAt(given, q, l, j), InForceAt(given, q, l, k)
          PROVE  ~(j < k)
      <4>1. IsHeading(given[k]) /\ given[k].level = l /\ l \in Nat /\ ~(l > l)
        BY <3>1, LevelsSplit DEF InForceAt
      <4>2. j < k => k \in j + 1..q
        OBVIOUS
      <4> QED BY <3>1, <4>1, <4>2 DEF InForceAt
    <3> QED BY <1>1, <2>1, <2>2, <3>1
  <2>3. \A h : h \in InForce(l, n) <=> h = v
    BY <1>3, <2>1, <2>2
  <2> QED BY <1>5, <2>3 DEF v
<1> QED BY <1>4, <1>5

\* ... that its other titles are of that section and not below the chunk,
LEMMA MinorTitle ==
  ASSUME NEW f, HandedOverOf(f, blocks, given), NEW c, NEW p \in 1..Len(given),
         NEW q \in p..Len(given), Span(given, c, p, q), c.trail # NoTrail, Lines(c) # {},
         \A n \in Lines(c) : n \in Nat,
         NEW l \in SectionBreak + 1..NumLevels, c.trail[l] # 0
  PROVE  /\ c.trail[l] \in HeadingsOf({l})
         /\ \E n \in Lines(c) : c.trail[l] <= n
         /\ \A s \in SectionHeadings, n \in Lines(c) : s < n => s < c.trail[l]
<1> DEFINE v == c.trail[l]
<1>1. GivenOK(f, given) /\ DOMAIN given = 1..Len(given) /\ Len(given) \in Nat
  BY GivenTypes DEF HandedOverOf
<1>2. OfSection(given, q, l, v)
  BY DEF Span, TrailOK
<1>3. PICK i \in 1..q : /\ IsHeading(given[i]) /\ given[i].level = l /\ v = given[i].text[1].n
                        /\ \A j \in i + 1..q : ~Section(given[j])
  BY <1>2 DEF OfSection
<1> HIDE DEF v
<1>4. i \in DOMAIN given /\ v \in Nat
  BY <1>1, <1>3, HeadingText
<1>5. v \in HeadingsOf({l})
  BY <1>3, <1>4, HeadingNumbers
<1>6. \E n \in Lines(c) : v <= n
  <2>1. CASE i \in p..q
    BY <1>3, <1>4, <2>1 DEF Span
  <2>2. CASE i < p
    <3>1. PICK n \in Lines(c) : TRUE
      OBVIOUS
    <3>2. v < n /\ n \in Nat
      BY <1>1, <1>3, <1>4, <2>2, <3>1, HeadingSide
    <3> QED BY <1>4, <3>2
  <2> QED BY <1>1, <2>1, <2>2
<1>7. ASSUME NEW h \in SectionHeadings, NEW n \in Lines(c), h < n PROVE h < v
  <2>1. PICK s \in DOMAIN given : Section(given[s]) /\ h = given[s].text[1].n
    BY <1>7, SectionNumbers
  <2>2. h \in Nat /\ (s < p \/ q < s) /\ (q < s => n < h)
    BY <1>1, <2>1, SectionSide
  <2>3. s < p /\ s \in 1..q
    BY <1>1, <1>7, <2>2
  <2>4. s # i
    BY <1>3, <2>1, LevelsSplit DEF Section
  <2>5. s < i
    BY <1>1, <1>3, <2>1, <2>3, <2>4
  <2> QED BY <1>1, <1>3, <1>4, <2>1, <2>5, HeadingsInOrder DEF Section
<1> QED BY <1>5, <1>6, <1>7 DEF v

\* ... all told, that the trail of a chunk is that of its section,
LEMMA InvTrailIsOfSection == ParserInv /\ AssemblerInv => TrailIsOfSection
<1> DEFINE Found(c) ==
      IF c.trail = NoTrail
      THEN \/ \A h \in HeadingsOf(Levels), n \in Lines(c) : n < h
           \/ \E j \in DOMAIN blocks : CutsBuffer(j) /\ Lines(c) \subseteq LineNumbers(blocks[j].text)
      ELSE /\ \A l \in 1..SectionBreak, n \in Lines(c) : {c.trail[l]} \ {0} = InForce(l, n)
           /\ \A l \in SectionBreak + 1..NumLevels : c.trail[l] # 0 =>
                /\ c.trail[l] \in HeadingsOf({l})
                /\ \E n \in Lines(c) : c.trail[l] <= n
                /\ \A s \in SectionHeadings, n \in Lines(c) : s < n => s < c.trail[l]
<1> SUFFICES ASSUME ParserInv, AssemblerInv, NEW i \in DOMAIN chunks, Lines(chunks[i]) # {}
             PROVE  Found(chunks[i])
  BY Zenon DEF TrailIsOfSection
<1>1. HandedOverOf(format, blocks, given) /\ GivenOK(format, given) /\ ChunksOK(given, chunks)
  <2>1. chunks # <<>>
    OBVIOUS
  <2> QED BY <2>1, Chunked
<1>2. PICK p \in 1..Len(given) : \E q \in p..Len(given) : Span(given, chunks[i], p, q)
  BY <1>1, SpanOf
<1>3. PICK q \in p..Len(given) : Span(given, chunks[i], p, q)
  BY <1>2
<1>4. \A n \in Lines(chunks[i]) : n \in Nat
  <2> SUFFICES ASSUME NEW n \in Lines(chunks[i]) PROVE n \in Nat
    OBVIOUS
  <2>1. PICK j \in p..q : n \in LineNumbers(given[j].text)
    BY <1>3 DEF Span
  <2>2. j \in DOMAIN given
    BY <1>1, GivenTypes
  <2> QED BY <1>1, <2>1, <2>2, GivenTypes, TextMember
<1> SUFFICES ASSUME NEW c, c = chunks[i] PROVE Found(c)
  OBVIOUS
<1>5. Span(given, c, p, q) /\ Lines(c) # {} /\ \A n \in Lines(c) : n \in Nat
  BY <1>3, <1>4
<1>6. CASE c.trail = NoTrail
  BY <1>1, <1>5, <1>6, EmptyTrailAt
<1>7. CASE c.trail # NoTrail
  <2>1. \A l \in 1..SectionBreak, n \in Lines(c) : {c.trail[l]} \ {0} = InForce(l, n)
    BY <1>1, <1>5, <1>7, TitleInForce
  <2>2. \A l \in SectionBreak + 1..NumLevels : c.trail[l] # 0 =>
           /\ c.trail[l] \in HeadingsOf({l})
           /\ \E n \in Lines(c) : c.trail[l] <= n
           /\ \A s \in SectionHeadings, n \in Lines(c) : s < n => s < c.trail[l]
    BY <1>1, <1>5, <1>7, MinorTitle
  <2> QED BY <1>7, <2>1, <2>2
<1> QED BY <1>6, <1>7

\* ... and that its pages are those of its text.
LEMMA InvPagesAreOfText == ParserInv /\ AssemblerInv => PagesAreOfText
<1> SUFFICES ASSUME ParserInv, AssemblerInv, NEW i \in DOMAIN chunks, Lines(chunks[i]) # {},
                    blocks # <<>>, \A j \in DOMAIN blocks : blocks[j].text # <<>>
             PROVE  chunks[i].pages =
                      {PageOf(blocks[j]) : j \in {k \in DOMAIN blocks :
                                 LineNumbers(blocks[k].text) \cap Lines(chunks[i]) # {}}}
  BY Zenon DEF PagesAreOfText
<1> DEFINE g == blocks
           c == chunks[i]
           from == {k \in DOMAIN g : LineNumbers(g[k].text) \cap Lines(c) # {}}
<1>1. GivenOK(format, g) /\ ChunksOK(g, chunks)
  <2>1. chunks # <<>>
    OBVIOUS
  <2>2. given = blocks
    BY <2>1, Chunked DEF HandedOverOf
  <2> QED BY <2>1, <2>2, Chunked
<1>2. \E p \in 1..Len(g) : \E q \in p..Len(g) : Span(g, c, p, q)
  BY <1>1, SpanOf
<1>2a. \A j \in DOMAIN g : g[j].page = 0 <=> format # "pdf"
  BY DEF ParserInv, Parsed
<1>2b. Lines(c) # {} /\ \A j \in DOMAIN g : g[j].text # <<>>
  OBVIOUS
<1> HIDE DEF g, c, from
<1>3. PICK p \in 1..Len(g) : \E q \in p..Len(g) : Span(g, c, p, q)
  BY <1>2
<1>4. PICK q \in p..Len(g) : Span(g, c, p, q)
  BY <1>3
<1>5. DOMAIN g = 1..Len(g) /\ Len(g) \in Nat /\ \A j \in p..q : j \in DOMAIN g
  <2>1. DOMAIN g = 1..Len(g) /\ Len(g) \in Nat
    BY <1>1, GivenTypes
  <2> QED BY <2>1
<1>6. \A j \in p..q : j \in from
  <2> SUFFICES ASSUME NEW j \in p..q PROVE j \in from
    OBVIOUS
  <2>1. \E x \in Lines(c) : x \in LineNumbers(g[j].text)
    BY <1>2b, <1>4, <1>5 DEF Span
  <2> QED BY <1>5, <2>1 DEF from
<1>7. c.pages = {PageOf(g[j]) : j \in p..q}
  BY <1>4 DEF Span
<1>8. CASE format = "csv"
  <2>1. \A j \in DOMAIN g : PageOf(g[j]) = 1
    BY <1>2a, <1>8 DEF PageOf
  <2>2. p \in p..q /\ \A j \in from : j \in DOMAIN g
    BY <1>5 DEF from
  <2>3. c.pages = {PageOf(g[j]) : j \in from}
    BY <1>5, <1>6, <1>7, <2>1, <2>2
  <2> QED BY <2>3 DEF c, g, from
<1>9. CASE format # "csv"
  <2>1. ASSUME NEW j \in from PROVE j \in p..q
    <3>1. PICK x \in Lines(c) : x \in LineNumbers(g[j].text)
      BY DEF from
    <3>2. PICK k \in p..q : x \in LineNumbers(g[k].text) /\ x # 0
      BY <1>4 DEF Span
    <3>3. j \in DOMAIN g /\ k \in DOMAIN g /\ j \in Nat /\ k \in Nat
      BY <1>5 DEF from
    <3>4. x \in Nat
      BY <1>1, <3>1, <3>3, GivenTypes, TextMember
    <3>5. ~(j < k) /\ ~(k < j)
      BY <1>1, <1>9, <3>1, <3>2, <3>3, <3>4, BlocksInOrder
    <3> QED BY <3>3, <3>5
  <2>2. c.pages = {PageOf(g[j]) : j \in from}
    BY <1>6, <1>7, <2>1
  <2> QED BY <2>2 DEF c, g, from
<1> QED BY <1>8, <1>9

-----------------------------------------------------------------------------
(* Cover and order. *)

\* No line of the next block yet
LEMMA SeenNone ==
  ASSUME NEW g, NEW k
  PROVE  Seen(g, k, 0) = Upto(g, k)
BY DEF Seen

\* The blocks of a CSV file: tables, or its header alone
CsvOK(f, g) == f = "csv" => (\A j \in DOMAIN g : g[j].type = "table") \/ Len(g) <= 1

\* Of a CSV file, tables are handed over or its header.
LEMMA GivenCsv ==
  ASSUME CsvTables, HandedOverOf(format, blocks, given)
  PROVE  CsvOK(format, given)
BY DEF CsvTables, HandedOverOf, CsvOK

\* A chunk goes on where the chunks before it stopped.
New(cs, i) == Lines(cs[i]) \ BeforeIn(cs, i)
Adds(f, cs, i) ==
  \/ New(cs, i) # {}
  \/ \E k \in DOMAIN cs[i].parts : cs[i].parts[k] = <<>>
  \/ \A k \in DOMAIN cs[i].parts : \A a \in DOMAIN cs[i].parts[k] : Rep(f, cs[i].parts[k][a])
InOrder(cs, i) == \A n \in New(cs, i) : \A m \in BeforeIn(cs, i) : m < n

\* The types of a chunk of the blocks p to q, r of them repeated
BufferChunk(f, g, cs, i, p, q, r) ==
  /\ GivenOK(f, g) /\ CsvOK(f, g) /\ cs[i] \in ChunkSet
  /\ p \in 1..Len(g) /\ q \in p..Len(g) /\ r \in 0..q - p
  /\ FromBuffer(g, cs, i, p, q, r)

\* The types of a chunk from the buffer, and what came before it
LEMMA BufferFacts ==
  ASSUME NEW f, NEW g, NEW cs, NEW i, NEW p, NEW q, NEW r, BufferChunk(f, g, cs, i, p, q, r)
  PROVE  /\ p \in Nat /\ q \in Nat /\ r \in Nat /\ p >= 1 /\ p + r - 1 \in Nat /\ p + r - 1 <= Len(g)
         /\ p + r - 1 < q /\ q \in DOMAIN g /\ Len(g) \in Nat /\ q \in p..q
         /\ \A j \in p..q : j \in DOMAIN g /\ ~Section(g[j])
         /\ BeforeIn(cs, i) = Upto(g, p + r - 1)
         /\ BeforeIn(cs, i) = Seen(g, p + r - 1, 0)
<1> USE DEF BufferChunk
<1>1. DOMAIN g = 1..Len(g) /\ Len(g) \in Nat
  BY GivenTypes
<1>2. /\ p \in Nat /\ q \in Nat /\ r \in Nat /\ p >= 1 /\ p + r - 1 \in Nat /\ p + r - 1 <= Len(g)
      /\ p + r - 1 < q /\ q \in DOMAIN g /\ q \in p..q /\ \A j \in p..q : j \in DOMAIN g
  BY <1>1
<1>3. BeforeIn(cs, i) = Upto(g, p + r - 1) /\ \A j \in p..q : ~Section(g[j])
  BY DEF FromBuffer, OverlapAt
<1> QED BY <1>1, <1>2, <1>3, SeenNone

\* A chunk from the buffer goes on where the chunks before it stopped.
LEMMA BufferInOrder ==
  ASSUME NEW f, NEW g, NEW cs, NEW i, NEW p, NEW q, NEW r, BufferChunk(f, g, cs, i, p, q, r)
  PROVE  InOrder(cs, i)
<1> SUFFICES ASSUME NEW n \in New(cs, i), NEW m \in BeforeIn(cs, i) PROVE m < n
  BY DEF InOrder
<1> DEFINE k == p + r - 1
<1>1. /\ p \in Nat /\ q \in Nat /\ k \in Nat /\ k <= Len(g) /\ Len(g) \in Nat
      /\ \A j \in p..q : j \in DOMAIN g /\ ~Section(g[j])
      /\ BeforeIn(cs, i) = Upto(g, k) /\ BeforeIn(cs, i) = Seen(g, k, 0)
  BY BufferFacts
<1>2. n \in Lines(cs[i]) /\ n \notin BeforeIn(cs, i)
  BY DEF New
<1>3. n # 0 /\ \E j \in p..q : n \in LineNumbers(g[j].text)
  BY <1>1, <1>2, BufferLines DEF BufferChunk
<1> HIDE DEF k
<1>4. PICK j \in p..q : n \in LineNumbers(g[j].text)
  BY <1>3
<1>5. PICK b \in DOMAIN g[j].text : g[j].text[b].n = n
  BY <1>4, TextMember
<1>6. GivenOK(f, g)
  BY DEF BufferChunk
<1>7. j \in DOMAIN g /\ j \in Nat /\ b \in Nat /\ b > 0 /\ n \in Nat
  <2>1. j \in DOMAIN g
    BY <1>1
  <2>2. g[j].text \in Seq(Line) /\ n \in Nat /\ j \in Nat
    BY <1>5, <1>6, <2>1, GivenTypes
  <2> QED BY <2>1, <2>2
<1>8. ~(j <= k)
  <2> SUFFICES ASSUME j <= k PROVE FALSE
    OBVIOUS
  <2>1. j \in 1..k
    BY <1>1, <1>4, <1>6, <1>7, GivenTypes
  <2>2. n \in Upto(g, k)
    BY <1>1, <1>3, <1>4, <1>7, <2>1 DEF Upto
  <2> QED BY <1>1, <1>2, <2>2
<1>9. Past(f, g, k, 0, j, b)
  BY <1>1, <1>5, <1>6, <1>7, <1>8 DEF Past
<1> QED BY <1>1, <1>2, <1>3, <1>5, <1>9, BeyondSeen

\* The conclusion of BufferLines
PartsAre(g, cs, i, p, q) ==
  /\ DOMAIN cs[i].parts = 1..q - p + 1
  /\ \A k \in 1..q - p + 1 : cs[i].parts[k] = g[p + k - 1].text /\ p + k - 1 \in p..q
  /\ \A j \in p..q : /\ j - p + 1 \in 1..q - p + 1 /\ p + (j - p + 1) - 1 = j
                     /\ cs[i].parts[j - p + 1] = g[j].text
  /\ \A x : x \in Lines(cs[i]) <=> x # 0 /\ \E j \in p..q : x \in LineNumbers(g[j].text)

\* Its parts are the blocks.
LEMMA PartsOfBuffer ==
  ASSUME NEW f, NEW g, NEW cs, NEW i, NEW p, NEW q, NEW r, BufferChunk(f, g, cs, i, p, q, r)
  PROVE  PartsAre(g, cs, i, p, q)
<1>1. FromBuffer(g, cs, i, p, q, r) /\ cs[i] \in ChunkSet /\ p \in Nat /\ q \in Nat
  BY BufferFacts DEF BufferChunk
<1>2. /\ DOMAIN cs[i].parts = 1..q - p + 1
      /\ \A k \in 1..q - p + 1 : cs[i].parts[k] = g[p + k - 1].text /\ p + k - 1 \in p..q
      /\ \A j \in p..q : /\ j - p + 1 \in 1..q - p + 1 /\ p + (j - p + 1) - 1 = j
                         /\ cs[i].parts[j - p + 1] = g[j].text
      /\ \A x : x \in Lines(cs[i]) <=> x # 0 /\ \E j \in p..q : x \in LineNumbers(g[j].text)
  BY <1>1, BufferLines, Zenon
<1> QED BY <1>2, Zenon DEF PartsAre

\* It adds something.
LEMMA BufferAdds ==
  ASSUME NEW f, NEW g, NEW cs, NEW i, NEW p, NEW q, NEW r, BufferChunk(f, g, cs, i, p, q, r)
  PROVE  Adds(f, cs, i)
<1> DEFINE k == p + r - 1
           w == g[q].text
<1>1. /\ p \in Nat /\ q \in Nat /\ r \in Nat /\ p >= 1 /\ k \in Nat /\ k <= Len(g) /\ k < q /\ Len(g) \in Nat
      /\ q \in DOMAIN g /\ q \in p..q /\ BeforeIn(cs, i) = Upto(g, k)
      /\ BeforeIn(cs, i) = Seen(g, k, 0)
  BY BufferFacts
<1>2. /\ DOMAIN cs[i].parts = 1..q - p + 1
      /\ \A j \in p..q : j - p + 1 \in 1..q - p + 1 /\ cs[i].parts[j - p + 1] = g[j].text
      /\ \A x : x \in Lines(cs[i]) <=> x # 0 /\ \E j \in p..q : x \in LineNumbers(g[j].text)
  BY PartsOfBuffer DEF PartsAre
<1>3. GivenOK(f, g) /\ CsvOK(f, g)
  BY DEF BufferChunk
<1>4. w \in Seq(Line) /\ TextOK(f, g[q].type, w) /\ \A a \in DOMAIN w : a \in Nat /\ a > 0 /\ w[a].n \in Nat
  <2>1. w \in Seq(Line) /\ TextOK(f, g[q].type, w) /\ \A a \in DOMAIN w : w[a].n \in Nat
    BY <1>1, <1>3, GivenTypes
  <2> HIDE DEF w
  <2>2. DOMAIN w = 1..Len(w)
    BY <2>1
  <2> QED BY <2>1, <2>2
<1> HIDE DEF k
<1>5. CASE w = <<>>
  <2>1. \E j \in DOMAIN cs[i].parts : cs[i].parts[j] = <<>>
    BY <1>1, <1>2, <1>5
  <2> QED BY <2>1 DEF Adds
<1>6. ASSUME NEW b \in DOMAIN w, ~Rep(f, w[b])
      PROVE  New(cs, i) # {}
  <2> DEFINE n == w[b].n
  <2>1. n # 0 /\ n \in Nat
    BY <1>4, <1>6 DEF Rep
  <2>2. n \in LineNumbers(w)
    BY <1>6, TextMember
  <2>3. n \in Lines(cs[i])
    BY <1>1, <1>2, <2>1, <2>2
  <2>4. Past(f, g, k, 0, q, b)
    BY <1>1, <1>3, <1>4, <1>6 DEF Past
  <2>5. \A m \in BeforeIn(cs, i) : m < n
    BY <1>1, <1>6, <2>4, NewAfterSeen
  <2>6. n \notin BeforeIn(cs, i)
    BY <2>1, <2>5
  <2> QED BY <2>3, <2>6 DEF New
<1>7. CASE w # <<>> /\ f # "csv"
  <2>1. 1 \in DOMAIN w /\ w[1].n # 0
    BY <1>1, <1>3, <1>7, FirstLine
  <2>2. ~Rep(f, w[1])
    BY <1>7, <2>1 DEF Rep
  <2> QED BY <1>6, <2>1, <2>2 DEF Adds
<1>8. CASE w # <<>> /\ f = "csv" /\ g[q].type = "table"
  <2>1. \E b \in DOMAIN w : ~Rep(f, w[b])
    BY <1>4, <1>8 DEF TextOK
  <2> QED BY <1>6, <2>1 DEF Adds
<1>9. CASE w # <<>> /\ f = "csv" /\ Len(g) <= 1
  <2>1. k = 0
    BY <1>1, <1>3, <1>9, GivenTypes
  <2>2. Upto(g, k) = {}
    BY <2>1 DEF Upto
  <2>3. 1 \in DOMAIN w /\ w[1].n # 0 /\ w[1].n \in LineNumbers(w)
    BY <1>1, <1>3, <1>9, FirstLine
  <2>4. w[1].n \in Lines(cs[i])
    BY <1>1, <1>2, <2>3
  <2> QED BY <1>1, <2>2, <2>4 DEF New, Adds
<1> QED BY <1>1, <1>3, <1>5, <1>7, <1>8, <1>9 DEF CsvOK

\* The same of a piece: the lines after c up to e of block j
PieceChunk(f, g, cs, i, j, c, e) ==
  /\ GivenOK(f, g) /\ CsvOK(f, g) /\ cs[i] \in ChunkSet
  /\ j \in DOMAIN g /\ c \in Nat /\ e \in Nat /\ FromPiece(g, cs, i, j, c, e)

PieceOK(f, g, cs, i, j, c, e) ==
  LET b == g[j]
  IN /\ b.text \in Seq(Line) /\ TextOK(f, b.type, b.text) /\ DOMAIN b.text = 1..Len(b.text)
     /\ Len(b.text) \in Nat /\ Len(Header(b)) \in {0, 2} /\ Len(Header(b)) <= c /\ c < e
     /\ e <= Len(b.text) /\ j \in Nat /\ j >= 1 /\ j <= Len(g) /\ Len(g) \in Nat
     /\ \A a \in DOMAIN b.text : b.text[a].n \in Nat
     /\ PieceIs(b, c, e, Header(b) \o SubSeq(b.text, c + 1, e))
     /\ PieceLines(b, c, e, Lines(cs[i]))
     /\ Len(cs[i].parts) = 1 /\ DOMAIN cs[i].parts = {1}
     /\ cs[i].parts[1] = Header(b) \o SubSeq(b.text, c + 1, e)

\* The types of a piece
LEMMA PieceFacts ==
  ASSUME NEW f, NEW g, NEW cs, NEW i, NEW j, NEW c, NEW e, PieceChunk(f, g, cs, i, j, c, e)
  PROVE  PieceOK(f, g, cs, i, j, c, e)
<1> DEFINE b == g[j]
           t == Header(b) \o SubSeq(b.text, c + 1, e)
<1>0. GivenOK(f, g) /\ j \in DOMAIN g /\ c \in Nat /\ e \in Nat /\ FromPiece(g, cs, i, j, c, e)
  BY DEF PieceChunk
<1>1. b.text \in Seq(Line) /\ TextOK(f, b.type, b.text) /\ j \in Nat /\ Len(g) \in Nat
      /\ DOMAIN g = 1..Len(g) /\ \A a \in DOMAIN b.text : b.text[a].n \in Nat
  BY <1>0, GivenTypes
<1>2. PieceIs(b, c, e, t) /\ PieceLines(b, c, e, Lines(cs[i]))
      /\ Len(cs[i].parts) = 1 /\ DOMAIN cs[i].parts = {1} /\ cs[i].parts[1] = t
  <2>1. /\ PieceIs(g[j], c, e, Header(g[j]) \o SubSeq(g[j].text, c + 1, e))
        /\ PieceLines(g[j], c, e, Lines(cs[i]))
        /\ Len(cs[i].parts) = 1 /\ DOMAIN cs[i].parts = {1}
        /\ cs[i].parts[1] = Header(g[j]) \o SubSeq(g[j].text, c + 1, e)
    <3>1. PieceParts(g, cs, i, j, c, e)
      BY <1>0, LinesOfPiece
    <3> QED BY <3>1, Zenon DEF PieceParts
  <2> QED BY <2>1
<1>3. Len(Header(b)) <= c /\ c < e /\ e <= Len(b.text)
  BY <1>2 DEF PieceIs
<1> HIDE DEF t
<1>4. Len(Header(b)) \in {0, 2} /\ DOMAIN b.text = 1..Len(b.text) /\ Len(b.text) \in Nat
  BY <1>1, HeaderOf
<1>5. j >= 1 /\ j <= Len(g)
  BY <1>0, <1>1
<1> HIDE DEF b
<1> QED BY <1>1, <1>2, <1>3, <1>4, <1>5 DEF PieceOK, b, t

\* What came before a piece, as the lines of j - 1 blocks and d lines of block j
LEMMA PieceSeen ==
  ASSUME NEW f, NEW g, NEW cs, NEW i, NEW j, NEW c, NEW e, PieceChunk(f, g, cs, i, j, c, e)
  PROVE  \E d \in {0, c} :
           /\ BeforeIn(cs, i) = Seen(g, j - 1, d)
           /\ d = 0 /\ c > 0 => c = Len(Header(g[j]))
           /\ \A a \in c + 1..e : Past(f, g, j - 1, d, j, a)
           /\ d <= c /\ d <= Len(g[j].text)
<1> DEFINE b == g[j]
<1>1. /\ b.text \in Seq(Line) /\ DOMAIN b.text = 1..Len(b.text) /\ Len(b.text) \in Nat
      /\ c < e /\ e <= Len(b.text) /\ j \in Nat /\ j >= 1 /\ j <= Len(g) /\ Len(g) \in Nat
  BY PieceFacts DEF PieceOK
<1>2. GivenOK(f, g) /\ j \in DOMAIN g /\ c \in Nat /\ e \in Nat
  BY DEF PieceChunk
<1>3. BeforeIn(cs, i) = Seen(g, j - 1, c) \/ (c = Len(Header(b)) /\ BeforeIn(cs, i) = Upto(g, j - 1))
  BY DEF PieceChunk, FromPiece, PieceBefore
<1>4. PICK d \in {0, c} : BeforeIn(cs, i) = Seen(g, j - 1, d) /\ (d = 0 /\ c > 0 => c = Len(Header(b)))
  BY <1>3, SeenNone
<1>5. ASSUME NEW a \in c + 1..e PROVE Past(f, g, j - 1, d, j, a)
  <2>1. j - 1 \in Nat /\ (j - 1) + 1 = j /\ j - 1 <= Len(g) /\ d \in Nat /\ d <= Len(b.text) /\ a > d
        /\ a \in DOMAIN b.text
    BY <1>1, <1>2
  <2> HIDE DEF b
  <2>2. b = g[j]
    BY DEF b
  <2> QED BY <1>2, <2>1, <2>2 DEF Past
<1>6. d <= c /\ d <= Len(b.text)
  BY <1>1, <1>2
<1> QED BY <1>4, <1>5, <1>6

\* A piece goes on where the chunks before it stopped.
LEMMA PieceInOrder ==
  ASSUME NEW f, NEW g, NEW cs, NEW i, NEW j, NEW c, NEW e, PieceChunk(f, g, cs, i, j, c, e)
  PROVE  InOrder(cs, i)
<1> SUFFICES ASSUME NEW n \in New(cs, i), NEW m \in BeforeIn(cs, i) PROVE m < n
  BY DEF InOrder
<1> DEFINE b == g[j]
           h == Len(Header(b))
<1>1. /\ h \in {0, 2} /\ h <= c /\ c < e /\ e <= Len(b.text) /\ PieceLines(b, c, e, Lines(cs[i]))
      /\ j \in Nat /\ DOMAIN b.text = 1..Len(b.text) /\ Len(b.text) \in Nat
      /\ \A a \in DOMAIN b.text : b.text[a].n \in Nat
  BY PieceFacts DEF PieceOK
<1>2. PICK d \in {0, c} :
           /\ BeforeIn(cs, i) = Seen(g, j - 1, d)
           /\ \A a \in c + 1..e : Past(f, g, j - 1, d, j, a)
           /\ d <= c /\ d <= Len(b.text) /\ (d = 0 /\ c > 0 => c = h)
  BY PieceSeen
<1>3. n \in Lines(cs[i]) /\ n \notin BeforeIn(cs, i)
  BY DEF New
<1>4. GivenOK(f, g) /\ CsvOK(f, g) /\ j \in DOMAIN g /\ c \in Nat /\ e \in Nat
  BY DEF PieceChunk
<1>5. PICK a \in (1..h) \cup (c + 1..e) : b.text[a].n = n /\ n # 0
  BY <1>1, <1>3 DEF PieceLines
<1> HIDE DEF b, h
<1>6. CASE a \in c + 1..e
  <2>1. Past(f, g, j - 1, d, j, a)
    BY <1>2, <1>6
  <2> QED BY <1>2, <1>3, <1>5, <2>1, BeyondSeen DEF b
<1>7. CASE a \in 1..h
  <2>1. d = 0
    <3> SUFFICES ASSUME d # 0 PROVE FALSE
      OBVIOUS
    <3>1. d = c /\ a \in 1..c /\ a \in DOMAIN b.text
      BY <1>1, <1>2, <1>4, <1>7
    <3>2. (j - 1) + 1 = j /\ n \in Nat \ {0}
      BY <1>1, <1>5, <3>1
    <3>3. n \in Seen(g, j - 1, c)
      BY <1>5, <3>1, <3>2 DEF Seen, b
    <3> QED BY <1>2, <1>3, <3>1, <3>3
  <2>2. Past(f, g, j - 1, 0, j, a)
    <3>1. (j - 1) + 1 = j /\ a \in DOMAIN b.text /\ a > 0
      BY <1>1, <1>4, <1>7
    <3>2. j - 1 \in Nat /\ j - 1 <= Len(g)
      BY <1>4, GivenTypes
    <3> QED BY <1>1, <1>4, <3>1, <3>2 DEF Past, b
  <2> QED BY <1>2, <1>3, <1>5, <2>1, <2>2, BeyondSeen DEF b
<1> QED BY <1>5, <1>6, <1>7

\* It adds something.
LEMMA PieceAdds ==
  ASSUME NEW f, NEW g, NEW cs, NEW i, NEW j, NEW c, NEW e, PieceChunk(f, g, cs, i, j, c, e)
  PROVE  Adds(f, cs, i)
<1> DEFINE b == g[j]
           h == Len(Header(b))
           t == cs[i].parts[1]
<1>1. /\ h \in {0, 2} /\ h <= c /\ c < e /\ e <= Len(b.text) /\ PieceLines(b, c, e, Lines(cs[i]))
      /\ j \in Nat /\ DOMAIN b.text = 1..Len(b.text) /\ Len(b.text) \in Nat
      /\ TextOK(f, b.type, b.text)
      /\ \A a \in DOMAIN b.text : b.text[a].n \in Nat
      /\ DOMAIN cs[i].parts = {1}
      /\ PieceIs(b, c, e, t)
  <2> HIDE DEF t
  <2>1. t = Header(b) \o SubSeq(b.text, c + 1, e)
    <3>0. PieceOK(f, g, cs, i, j, c, e)
      BY PieceFacts
    <3>1. cs[i].parts[1] = Header(g[j]) \o SubSeq(g[j].text, c + 1, e)
      BY <3>0 DEF PieceOK
    <3> QED BY <3>1 DEF t
  <2>2. PieceIs(b, c, e, t)
    BY <2>1, PieceFacts DEF PieceOK
  <2> QED BY <2>2, PieceFacts DEF PieceOK
<1>2. PICK d \in {0, c} :
           /\ BeforeIn(cs, i) = Seen(g, j - 1, d)
           /\ \A a \in c + 1..e : Past(f, g, j - 1, d, j, a)
  BY PieceSeen
<1>3. c \in Nat /\ e \in Nat
  BY DEF PieceChunk
<1> HIDE DEF b, h, t
<1>4. ASSUME NEW a \in c + 1..e, ~Rep(f, b.text[a]) PROVE New(cs, i) # {}
  <2> DEFINE n == b.text[a].n
  <2>1. a \in DOMAIN b.text
    BY <1>1, <1>3
  <2>2. n # 0 /\ n \in Nat
    BY <1>1, <1>4, <2>1 DEF Rep
  <2>3. n \in Lines(cs[i])
    BY <1>1, <2>2 DEF PieceLines, h
  <2>4. \A m \in BeforeIn(cs, i) : m < n
    BY <1>2, <1>4, NewAfterSeen DEF b
  <2>5. n \notin BeforeIn(cs, i)
    BY <2>2, <2>4
  <2> QED BY <2>3, <2>5 DEF New
<1>5. CASE \E a \in c + 1..e : ~Rep(f, b.text[a])
  BY <1>4, <1>5 DEF Adds
<1>6. CASE \A a \in c + 1..e : Rep(f, b.text[a])
  <2>1. h = 0
    <3> SUFFICES ASSUME h = 2 PROVE FALSE
      BY <1>1
    <3> DEFINE a == c + 1
    <3>1. a \in c + 1..e /\ a \in DOMAIN b.text /\ a # 1 /\ a # 2
      BY <1>1, <1>3
    <3> HIDE DEF a
    <3>2. Rep(f, b.text[a])
      BY <1>6, <3>1
    <3>3. b.text[a].n # 0 /\ (f = "csv" => b.text[a].n # 1)
      BY <1>1, <3>1 DEF TextOK
    <3> QED BY <3>2, <3>3 DEF Rep
  <2>2. DOMAIN t = 1..Len(t) /\ \A a \in h + 1..Len(t) : t[a] = b.text[c + a - h] /\ c + a - h \in c + 1..e
    BY <1>1, PieceText DEF h
  <2>3. \A a \in DOMAIN t : Rep(f, t[a])
    BY <1>6, <2>1, <2>2
  <2> QED BY <1>1, <2>3 DEF Adds, t
<1> QED BY <1>5, <1>6

-----------------------------------------------------------------------------
\* Either way a chunk came about
LEMMA ChunkCases ==
  ASSUME ParserInv, AssemblerInv, CsvTables, NEW i \in DOMAIN chunks
  PROVE  \/ \E p, q, r : BufferChunk(format, given, chunks, i, p, q, r)
         \/ \E j, c, e : PieceChunk(format, given, chunks, i, j, c, e)
<1>1. chunks # <<>>
  OBVIOUS
<1>2. /\ HandedOverOf(format, blocks, given) /\ GivenOK(format, given)
      /\ chunks[i] \in ChunkSet /\ SourceOK(given, chunks, i)
  BY <1>1, Chunked
<1>3. CsvOK(format, given) /\ DOMAIN given = 1..Len(given)
  BY <1>2, GivenCsv, GivenTypes
<1>4. CASE \E p \in 1..Len(given) : \E q \in p..Len(given) : \E r \in 0..q - p :
             FromBuffer(given, chunks, i, p, q, r)
  BY <1>2, <1>3, <1>4 DEF BufferChunk
<1>5. CASE \E j \in 1..Len(given) : \E c, e \in 0..Len(given[j].text) :
             FromPiece(given, chunks, i, j, c, e)
  <2>1. PICK j \in 1..Len(given) : \E c, e \in 0..Len(given[j].text) :
             FromPiece(given, chunks, i, j, c, e)
    BY <1>5
  <2>2. PICK c \in 0..Len(given[j].text), e \in 0..Len(given[j].text) :
             FromPiece(given, chunks, i, j, c, e)
    BY <2>1
  <2>3. c \in Nat /\ e \in Nat /\ j \in DOMAIN given
    BY <1>3
  <2>4. PieceChunk(format, given, chunks, i, j, c, e)
    BY <1>2, <1>3, <2>2, <2>3 DEF PieceChunk
  <2> QED BY <2>4
<1> QED BY <1>2, <1>4, <1>5 DEF SourceOK

\* The invariant says that chunks cover the document in order.
LEMMA InvChunksCoverInOrder == ParserInv /\ AssemblerInv /\ CsvTables => ChunksCoverInOrder
<1> SUFFICES ASSUME ParserInv, AssemblerInv, CsvTables PROVE ChunksCoverInOrder
  OBVIOUS
<1>1. ASSUME phase = "done" PROVE Content \ SectionHeadings \subseteq Before(Len(chunks) + 1)
  <2> SUFFICES ASSUME NEW n \in Content, n \notin SectionHeadings
               PROVE  n \in Before(Len(chunks) + 1)
    OBVIOUS
  <2>1. /\ HandedOverOf(format, blocks, given) /\ GivenOK(format, given) /\ Pending = <<>>
        /\ Before(Len(chunks) + 1) = BeforeIn(chunks, Len(chunks) + 1)
    BY <1>1, Chunked
  <2>2. BeforeIn(chunks, Len(chunks) + 1) = Upto(given, Len(given))
    BY <1>1 DEF AssemblerInv
  <2>3. n \in Covered(blocks, <<>>)
    BY <2>1 DEF ParserInv
  <2>4. LineNumbers(<<>>) = {}
    BY DEF LineNumbers
  <2>5. PICK s \in DOMAIN blocks : n \in LineNumbers(blocks[s].text)
    BY <2>3, <2>4, InCovered
  <2>6. given = blocks /\ s \in DOMAIN given /\ DOMAIN given = 1..Len(given)
    <3>1. blocks # <<>>
      BY <2>5
    <3> QED BY <2>1, <2>5, <3>1, GivenTypes DEF HandedOverOf
  <2>7. ~Section(given[s])
    <3> SUFFICES ASSUME Section(given[s]) PROVE FALSE
      OBVIOUS
    <3>1. LineNumbers(given[s].text) = {given[s].text[1].n}
      BY <2>1, <2>6, HeadingText DEF Section
    <3>2. n = given[s].text[1].n
      BY <2>5, <2>6, <3>1
    <3> QED BY <2>1, <2>6, <3>2, SectionNumbers
  <2>8. n \in Nat \ {0}
    <3>1. n \in DOMAIN lines /\ lines \in Seq(Line)
      BY DEF Content, ParserInv
    <3> QED BY <3>1
  <2>9. n \in Upto(given, Len(given))
    BY <2>5, <2>6, <2>7, <2>8 DEF Upto
  <2> QED BY <2>1, <2>2, <2>9
<1>2. ASSUME NEW i \in DOMAIN chunks
      PROVE  /\ Adds(format, chunks, i) /\ InOrder(chunks, i)
             /\ Before(i) = BeforeIn(chunks, i)
  <2>1. Adds(format, chunks, i) /\ InOrder(chunks, i)
    BY ChunkCases, BufferAdds, BufferInOrder, PieceAdds, PieceInOrder
  <2> QED BY <2>1 DEF Before, BeforeIn
<1>3. \A l : IsRepeated(l) <=> Rep(format, l)
  BY DEF IsRepeated, Rep
<1>4. ASSUME NEW i \in DOMAIN chunks
      PROVE  LET new == Lines(chunks[i]) \ Before(i)
             IN /\ \/ new # {}
                   \/ \E k \in DOMAIN chunks[i].parts : chunks[i].parts[k] = <<>>
                   \/ \A k \in DOMAIN chunks[i].parts : \A a \in DOMAIN chunks[i].parts[k] :
                        IsRepeated(chunks[i].parts[k][a])
                /\ \A n \in new, m \in Before(i) : m < n
  <2>1. Lines(chunks[i]) \ Before(i) = New(chunks, i) /\ Before(i) = BeforeIn(chunks, i)
    BY <1>2 DEF New
  <2>2. \/ New(chunks, i) # {}
        \/ \E k \in DOMAIN chunks[i].parts : chunks[i].parts[k] = <<>>
        \/ \A k \in DOMAIN chunks[i].parts : \A a \in DOMAIN chunks[i].parts[k] :
             IsRepeated(chunks[i].parts[k][a])
    BY <1>2, <1>3, Zenon DEF Adds
  <2>3. \A n \in New(chunks, i), m \in BeforeIn(chunks, i) : m < n
    BY <1>2 DEF InOrder
  <2> QED BY <2>1, <2>2, <2>3, Zenon
<1> QED BY <1>1, <1>4, Zenon DEF ChunksCoverInOrder

-----------------------------------------------------------------------------
(* Repetition. *)

\* The headers of the tables among the blocks
HeadersOf(g, H) ==
  \A x : x \in H <=> \E j \in DOMAIN g : /\ g[j].type = "table"
                                         /\ \E a \in {1, 2} \cap DOMAIN g[j].text : g[j].text[a].n = x

\* TableHeaders by the blocks that were handed over
LEMMA HeadersOfTables ==
  ASSUME NEW f, HandedOverOf(f, blocks, given)
  PROVE  HeadersOf(given, TableHeaders)
<1>1. ASSUME NEW x
      PROVE  x \in TableHeaders <=>
               \E j \in DOMAIN blocks : /\ blocks[j].type = "table"
                                        /\ \E a \in {1, 2} \cap DOMAIN blocks[j].text : blocks[j].text[a].n = x
  <2> DEFINE T == {j \in DOMAIN blocks : blocks[j].type = "table"}
             N(j) == {blocks[j].text[a].n : a \in {1, 2} \cap DOMAIN blocks[j].text}
  <2>1. TableHeaders = UNION {N(j) : j \in T}
    BY DEF TableHeaders
  <2> HIDE DEF T, N
  <2>2. x \in TableHeaders <=> \E j \in T : x \in N(j)
    BY <2>1
  <2>3. \A j : j \in T <=> j \in DOMAIN blocks /\ blocks[j].type = "table"
    BY DEF T
  <2>4. \A j : x \in N(j) <=> \E a \in {1, 2} \cap DOMAIN blocks[j].text : blocks[j].text[a].n = x
    BY DEF N
  <2> QED BY <2>2, <2>3, <2>4
<1>2. CASE blocks = <<>>
  <2>1. DOMAIN blocks = {}
    BY <1>2
  <2>2. \A j \in DOMAIN given : given[j].type # "table"
    BY <1>2 DEF HandedOverOf
  <2> QED BY <1>1, <2>1, <2>2 DEF HeadersOf
<1>3. CASE blocks # <<>>
  BY <1>1, <1>3 DEF HandedOverOf, HeadersOf
<1> QED BY <1>2, <1>3

\* Outside a CSV file a line is of one block.
LEMMA OneBlock ==
  ASSUME NEW f, NEW g, GivenOK(f, g), f # "csv", NEW i \in DOMAIN g, NEW j \in DOMAIN g,
         NEW x \in LineNumbers(g[i].text), x \in LineNumbers(g[j].text), x # 0
  PROVE  i = j
<1>1. i \in Nat /\ j \in Nat
  BY GivenTypes
<1>2. PICK a \in DOMAIN g[i].text : g[i].text[a].n = x
  BY TextMember
<1>3. x \in Nat
  BY <1>2, GivenTypes
<1>4. ~(i < j)
  <2> SUFFICES ASSUME i < j PROVE FALSE
    OBVIOUS
  <2>1. x < x
    BY BlocksInOrder
  <2> QED BY <1>3, <2>1
<1>5. ~(j < i)
  <2> SUFFICES ASSUME j < i PROVE FALSE
    OBVIOUS
  <2>1. x < x
    BY BlocksInOrder
  <2> QED BY <1>3, <2>1
<1> QED BY <1>1, <1>4, <1>5

\* What is repeated of the chunk before is prose, which a CSV file has none of.
LEMMA RepeatedBlock ==
  ASSUME NEW f, NEW g, NEW cs, NEW i, NEW p, NEW q, NEW r, BufferChunk(f, g, cs, i, p, q, r),
         NEW j \in p..p + r - 1
  PROVE  /\ f # "csv" /\ j \in DOMAIN g /\ g[j].type \in {"paragraph", "list"} /\ g[j].text # <<>>
         /\ j \in 1..p + r - 1 /\ j \in p..q
<1> DEFINE k == p + r - 1
<1>1. /\ p \in Nat /\ q \in Nat /\ r \in Nat /\ k \in Nat /\ k <= Len(g) /\ Len(g) \in Nat /\ p >= 1
      /\ k < q /\ q \in DOMAIN g /\ \A h \in p..q : h \in DOMAIN g /\ ~Section(g[h])
  BY BufferFacts
<1>2. GivenOK(f, g) /\ CsvOK(f, g) /\ \A h \in 1..r : Repeatable(g[p + h - 1])
  BY DEF BufferChunk, FromBuffer, OverlapAt
<1>3. j - p + 1 \in 1..r /\ p + (j - p + 1) - 1 = j
  BY <1>1
<1>4. Repeatable(g[j])
  BY <1>2, <1>3
<1>5. j \in DOMAIN g /\ j \in 1..k /\ j \in p..q
  BY <1>1
<1>6. g[j] \in BlockSet /\ BlockOK(f, g[j])
  BY <1>2, <1>5, GivenTypes
<1>7. g[j].type \in {"paragraph", "list"}
  BY <1>4, <1>6 DEF Repeatable, BlockSet, BlockType
<1>8. g[j].text # <<>>
  BY <1>6, <1>7 DEF BlockOK
<1>9. f # "csv"
  <2> SUFFICES ASSUME f = "csv" PROVE FALSE
    OBVIOUS
  <2>1. Len(g) <= 1
    BY <1>2, <1>5, <1>7 DEF CsvOK
  <2>2. q <= Len(g)
    BY <1>1, <1>2, GivenTypes
  <2> QED BY <1>1, <2>1, <2>2
<1> QED BY <1>5, <1>7, <1>8, <1>9

\* The lines of part m that chunks before have, headers apart
Repeats(cs, i, H, m) == LineNumbers(cs[i].parts[m]) \cap (BeforeIn(cs, i) \ H) # {}

\* Of a chunk from the buffer, the overlap repeats lines and nothing else.
LEMMA BufferRepeats ==
  ASSUME NEW f, NEW g, NEW cs, NEW i, NEW p, NEW q, NEW r, BufferChunk(f, g, cs, i, p, q, r),
         NEW H, HeadersOf(g, H), NEW m \in 1..q - p + 1
  PROVE  Repeats(cs, i, H, m) <=> m <= r
<1> DEFINE k == p + r - 1
           j == p + m - 1
<1>1. /\ p \in Nat /\ q \in Nat /\ r \in Nat /\ k \in Nat /\ k <= Len(g) /\ Len(g) \in Nat /\ p >= 1
      /\ k < q /\ \A h \in p..q : h \in DOMAIN g /\ ~Section(g[h])
      /\ BeforeIn(cs, i) = Upto(g, k) /\ BeforeIn(cs, i) = Seen(g, k, 0)
  BY BufferFacts
<1>2. j \in p..q /\ j \in Nat /\ cs[i].parts[m] = g[j].text
  <2>1. j \in p..q /\ j \in Nat
    BY <1>1
  <2>2. PartsAre(g, cs, i, p, q)
    BY PartsOfBuffer
  <2>3. cs[i].parts[m] = g[p + m - 1].text
    BY <2>2 DEF PartsAre
  <2> QED BY <2>1, <2>3
<1>3. GivenOK(f, g) /\ CsvOK(f, g) /\ j \in DOMAIN g /\ ~Section(g[j])
  BY <1>1, <1>2 DEF BufferChunk
<1>4. ASSUME m <= r PROVE Repeats(cs, i, H, m)
  <2>1. j \in p..p + r - 1
    BY <1>1, <1>2, <1>4
  <2> HIDE DEF j
  <2>2. /\ f # "csv" /\ g[j].type \in {"paragraph", "list"} /\ g[j].text # <<>> /\ j \in 1..k
    BY <2>1, RepeatedBlock
  <2> DEFINE n == g[j].text[1].n
  <2>3. n \in Nat \ {0} /\ n \in LineNumbers(g[j].text)
    BY <1>3, <2>2, FirstLine
  <2>4. n \in BeforeIn(cs, i)
    BY <1>1, <1>3, <2>2, <2>3 DEF Upto
  <2>5. n \notin H
    <3> SUFFICES ASSUME n \in H PROVE FALSE
      OBVIOUS
    <3>1. PICK s \in DOMAIN g : g[s].type = "table" /\ \E a \in {1, 2} \cap DOMAIN g[s].text : g[s].text[a].n = n
      BY DEF HeadersOf
    <3>2. n \in LineNumbers(g[s].text)
      BY <3>1, TextMember
    <3>3. s = j
      BY <1>3, <2>2, <2>3, <3>2, OneBlock
    <3> QED BY <2>2, <3>1, <3>3
  <2> QED BY <1>2, <2>3, <2>4, <2>5 DEF Repeats
<1>5. ASSUME ~(m <= r), Repeats(cs, i, H, m) PROVE FALSE
  <2>1. PICK x \in LineNumbers(g[j].text) : x \in BeforeIn(cs, i) /\ x \notin H
    BY <1>2, <1>5 DEF Repeats
  <2>2. j > k
    BY <1>1, <1>5
  <2> HIDE DEF j
  <2>3. PICK b \in DOMAIN g[j].text : g[j].text[b].n = x
    BY <2>1, TextMember
  <2>4. b \in Nat /\ b > 0 /\ x \in Nat /\ TextOK(f, g[j].type, g[j].text) /\ 1 \in DOMAIN g[j].text
    <3>1. g[j].text \in Seq(Line) /\ TextOK(f, g[j].type, g[j].text) /\ x \in Nat
      BY <1>3, <2>3, GivenTypes
    <3> QED BY <2>3, <3>1
  <2>5. Past(f, g, k, 0, j, b)
    BY <1>1, <1>2, <1>3, <2>2, <2>3, <2>4 DEF Past
  <2>6. Rep(f, g[j].text[b])
    <3> SUFFICES ASSUME ~Rep(f, g[j].text[b]) PROVE FALSE
      OBVIOUS
    <3>1. x < x
      BY <1>1, <2>1, <2>3, <2>5, NewAfterSeen
    <3> QED BY <2>4, <3>1
  <2>7. x # 0
    BY <1>1, <2>1 DEF Upto
  <2>8. f = "csv" /\ x = 1
    BY <2>3, <2>6, <2>7 DEF Rep
  <2>9. g[j].type # "table"
    <3> SUFFICES ASSUME g[j].type = "table" PROVE FALSE
      OBVIOUS
    <3>1. g[j].text[1].n = 1
      BY <2>4, <2>8 DEF TextOK
    <3>2. 1 \in H
      BY <1>3, <2>4, <3>1 DEF HeadersOf
    <3> QED BY <2>1, <2>8, <3>2
  <2>10. Len(g) <= 1
    BY <1>3, <2>8, <2>9 DEF CsvOK
  <2>11. j <= Len(g)
    BY <1>3, GivenTypes
  <2>12. k = 0
    BY <1>1, <1>2, <2>2, <2>10, <2>11
  <2>13. Upto(g, 0) = {}
    BY DEF Upto
  <2> QED BY <1>1, <2>1, <2>12, <2>13
<1> QED BY <1>4, <1>5

\* A piece repeats nothing but headers.
LEMMA PieceRepeats ==
  ASSUME NEW f, NEW g, NEW cs, NEW i, NEW j, NEW c, NEW e, PieceChunk(f, g, cs, i, j, c, e),
         NEW H, HeadersOf(g, H)
  PROVE  ~Repeats(cs, i, H, 1)
<1> DEFINE b == g[j]
           h == Len(Header(b))
           t == cs[i].parts[1]
<1>0. PieceOK(f, g, cs, i, j, c, e)
  BY PieceFacts
<1>1. /\ h \in {0, 2} /\ h <= c /\ c < e /\ e <= Len(b.text)
      /\ j \in Nat /\ DOMAIN b.text = 1..Len(b.text) /\ Len(b.text) \in Nat /\ b.text \in Seq(Line)
      /\ TextOK(f, b.type, b.text) /\ j >= 1 /\ j <= Len(g) /\ Len(g) \in Nat
      /\ \A a \in DOMAIN b.text : b.text[a].n \in Nat
  BY <1>0 DEF PieceOK
<1>2. PieceIs(b, c, e, t)
  <2> HIDE DEF t
  <2>1. t = Header(b) \o SubSeq(b.text, c + 1, e)
    <3>1. cs[i].parts[1] = Header(g[j]) \o SubSeq(g[j].text, c + 1, e)
      BY <1>0 DEF PieceOK
    <3> QED BY <3>1 DEF t
  <2> QED BY <1>0, <2>1 DEF PieceOK
<1>3. PICK d \in {0, c} :
           /\ BeforeIn(cs, i) = Seen(g, j - 1, d)
           /\ \A a \in c + 1..e : Past(f, g, j - 1, d, j, a)
  BY PieceSeen
<1>4. c \in Nat /\ e \in Nat /\ CsvOK(f, g) /\ j \in DOMAIN g /\ GivenOK(f, g)
  BY DEF PieceChunk
<1>5. HasHeader(b) \/ h = 0
  BY <1>1, HeaderOf
<1> HIDE DEF b, h, t
<1> SUFFICES ASSUME NEW x \in LineNumbers(t), x \in BeforeIn(cs, i), x \notin H PROVE FALSE
  BY DEF Repeats, t
<1>6. x # 0
  BY <1>3 DEF Seen, Upto
<1>7. PICK a \in (1..h) \cup (c + 1..e) : b.text[a].n = x
  BY <1>2, NumbersOfPiece DEF PieceNumbers, h
<1>8. a \in DOMAIN b.text /\ x \in Nat /\ 1 \in DOMAIN b.text /\ a \in Nat
  BY <1>1, <1>4, <1>7
<1>9. b.type = "table" => a \notin {1, 2}
  BY <1>4, <1>7, <1>8 DEF HeadersOf, b
<1>10. CASE a \in 1..h
  <2>1. b.type = "table" /\ a \in {1, 2}
    BY <1>1, <1>5, <1>10 DEF HasHeader
  <2> QED BY <1>9, <2>1
<1>11. CASE a \in c + 1..e /\ ~Rep(f, b.text[a])
  <2>1. x < x
    BY <1>3, <1>7, <1>11, NewAfterSeen DEF b
  <2> QED BY <1>8, <2>1
<1>12. CASE a \in c + 1..e /\ Rep(f, b.text[a])
  <2>1. f = "csv" /\ x = 1
    BY <1>6, <1>7, <1>12 DEF Rep
  <2>2. a = 1
    BY <1>1, <1>7, <1>8, <2>1 DEF TextOK
  <2>3. c = 0
    BY <1>4, <1>12, <2>2
  <2>4. Len(g) <= 1
    BY <1>4, <1>9, <2>1, <2>2 DEF CsvOK, b
  <2>5. j - 1 = 0 /\ d = 0
    BY <1>1, <1>3, <2>3, <2>4
  <2>6. BeforeIn(cs, i) = Upto(g, 0)
    BY <1>3, <2>5, SeenNone
  <2>7. Upto(g, 0) = {}
    BY DEF Upto
  <2> QED BY <2>6, <2>7
<1> QED BY <1>7, <1>10, <1>11, <1>12

\* The overlap is the end of the chunk before, and small.
LEMMA BufferRepeatsOverlap ==
  ASSUME NEW f, NEW g, NEW cs, NEW i, NEW p, NEW q, NEW r, BufferChunk(f, g, cs, i, p, q, r),
         NEW H, HeadersOf(g, H)
  PROVE  /\ r \in 0..Len(cs[i].parts) /\ DOMAIN cs[i].parts = 1..Len(cs[i].parts)
         /\ {m \in DOMAIN cs[i].parts : Repeats(cs, i, H, m)} = 1..r
         /\ r > 0 => LET last == cs[i - 1].parts
                     IN r <= Len(last) /\ \A m \in 1..r : cs[i].parts[m] = last[Len(last) - r + m]
         /\ TotalTokens([m \in 1..r |-> cs[i].parts[m]]) <= Overlap
<1> DEFINE n == q - p + 1
           c == cs[i].parts
<1>1. /\ p \in Nat /\ q \in Nat /\ r \in Nat /\ p + r - 1 < q
  BY BufferFacts
<1>2. n \in Nat /\ r <= n /\ (p + r - 1) - p + 1 = r
  BY <1>1
<1>3. Len(c) = n /\ OverlapAt(g, cs, i, p, r) /\ c \in Seq(Seq(Line))
  BY DEF BufferChunk, FromBuffer, ChunkSet
<1>4. DOMAIN c = 1..n
  BY <1>3
<1>5. \A m \in 1..n : Repeats(cs, i, H, m) <=> m <= r
  BY BufferRepeats
<1>6. \A m \in 1..n : c[m] = g[p + m - 1].text
  <2>1. PartsAre(g, cs, i, p, q)
    BY PartsOfBuffer
  <2> QED BY <2>1 DEF PartsAre
<1> HIDE DEF n, c
<1>7. {m \in DOMAIN c : Repeats(cs, i, H, m)} = 1..r
  BY <1>1, <1>2, <1>4, <1>5
<1>8. \A m \in 1..r : c[m] = g[p + m - 1].text
  BY <1>1, <1>2, <1>6
<1>9. r > 0 => LET last == cs[i - 1].parts
              IN r <= Len(last) /\ \A m \in 1..r : c[m] = last[Len(last) - r + m]
  BY <1>3, <1>8 DEF OverlapAt
<1>10. TotalTokens([m \in 1..r |-> c[m]]) = Total(Counts(g, p, p + r - 1))
  <2> DEFINE s == [m \in 1..r |-> c[m]]
  <2>1. DOMAIN s = 1..r /\ \A m \in 1..r : s[m] = g[p + m - 1].text
    BY <1>8
  <2>2. Counts(g, p, p + r - 1) = [m \in 1..r |-> Tokens(g[p + m - 1].text)]
    BY <1>2 DEF Counts
  <2> HIDE DEF s
  <2>3. [m \in DOMAIN s |-> Tokens(s[m])] = [m \in 1..r |-> Tokens(g[p + m - 1].text)]
    BY <2>1
  <2> QED BY <2>2, <2>3 DEF TotalTokens, s
<1>11. Total(Counts(g, p, p + r - 1)) <= Overlap
  BY <1>3 DEF OverlapAt
<1>12. r \in 0..Len(c) /\ DOMAIN c = 1..Len(c)
  BY <1>1, <1>2, <1>3, <1>4
<1>13. TotalTokens([m \in 1..r |-> c[m]]) <= Overlap
  BY <1>10, <1>11
<1> QED BY <1>7, <1>9, <1>12, <1>13 DEF c

\* What of the repetition is told by the blocks: only prose and list items
LEMMA RepeatedTypes ==
  ASSUME NEW f, NEW g, NEW cs, NEW i, NEW p, NEW q, NEW r, BufferChunk(f, g, cs, i, p, q, r),
         NEW m \in 1..r, NEW j \in DOMAIN g,
         LineNumbers(cs[i].parts[m]) \cap LineNumbers(g[j].text) # {}
  PROVE  g[j].type \in {"paragraph", "list"}
<1> DEFINE h == p + m - 1
<1>1. /\ p \in Nat /\ q \in Nat /\ r \in Nat /\ p + r - 1 < q
  BY BufferFacts
<1>2. h \in p..p + r - 1 /\ m \in 1..q - p + 1
  BY <1>1
<1>3. cs[i].parts[m] = g[h].text
  <2>1. PartsAre(g, cs, i, p, q)
    BY PartsOfBuffer
  <2> QED BY <1>2, <2>1 DEF PartsAre
<1> HIDE DEF h
<1>4. f # "csv" /\ h \in DOMAIN g /\ g[h].type \in {"paragraph", "list"}
  BY <1>2, RepeatedBlock
<1>5. GivenOK(f, g)
  BY DEF BufferChunk
<1>6. PICK x \in LineNumbers(g[h].text) : x \in LineNumbers(g[j].text)
  BY <1>3
<1>7. x # 0
  <2>1. PICK a \in DOMAIN g[h].text : g[h].text[a].n = x
    BY <1>6, TextMember
  <2>2. TextOK(f, g[h].type, g[h].text)
    BY <1>4, <1>5, GivenTypes
  <2> QED BY <1>4, <2>1, <2>2 DEF TextOK
<1>8. h = j
  BY <1>4, <1>5, <1>6, <1>7, OneBlock
<1> QED BY <1>4, <1>8

\* The invariant says that nothing but the overlap is repeated.
LEMMA InvRepeatsOnlyOverlap == ParserInv /\ AssemblerInv /\ CsvTables => RepeatsOnlyOverlap
<1> SUFFICES ASSUME ParserInv, AssemblerInv, CsvTables, NEW i \in DOMAIN chunks
             PROVE  LET parts == chunks[i].parts
                        again == {k \in DOMAIN parts : LineNumbers(parts[k]) \cap (Before(i) \ TableHeaders) # {}}
                    IN \E r \in 0..Len(parts) :
                         /\ again = 1..r
                         /\ r > 0 => LET last == chunks[i - 1].parts
                                     IN r <= Len(last) /\ \A k \in 1..r : parts[k] = last[Len(last) - r + k]
                         /\ TotalTokens([k \in 1..r |-> parts[k]]) <= Overlap
                         /\ \A k \in again, j \in DOMAIN blocks :
                              LineNumbers(parts[k]) \cap LineNumbers(blocks[j].text) # {} =>
                                blocks[j].type \in {"paragraph", "list"}
  BY Zenon DEF RepeatsOnlyOverlap
<1> DEFINE parts == chunks[i].parts
           again == {k \in DOMAIN parts : LineNumbers(parts[k]) \cap (Before(i) \ TableHeaders) # {}}
           Fits(r) ==
             /\ r \in 0..Len(parts)
             /\ again = 1..r
             /\ r > 0 => LET last == chunks[i - 1].parts
                         IN r <= Len(last) /\ \A k \in 1..r : parts[k] = last[Len(last) - r + k]
             /\ TotalTokens([k \in 1..r |-> parts[k]]) <= Overlap
             /\ \A k \in again, j \in DOMAIN blocks :
                  LineNumbers(parts[k]) \cap LineNumbers(blocks[j].text) # {} =>
                    blocks[j].type \in {"paragraph", "list"}
<1>1. chunks # <<>>
  OBVIOUS
<1>2. HandedOverOf(format, blocks, given) /\ Before(i) = BeforeIn(chunks, i)
  BY <1>1, Chunked
<1>3. HeadersOf(given, TableHeaders)
  BY <1>2, HeadersOfTables
<1>4. again = {k \in DOMAIN parts : Repeats(chunks, i, TableHeaders, k)}
  BY <1>2 DEF Repeats
<1>5. ASSUME NEW p, NEW q, NEW r, BufferChunk(format, given, chunks, i, p, q, r)
      PROVE  Fits(r)
  <2>1. /\ r \in 0..Len(chunks[i].parts)
        /\ {k \in DOMAIN chunks[i].parts : Repeats(chunks, i, TableHeaders, k)} = 1..r
        /\ r > 0 => LET last == chunks[i - 1].parts
                    IN r <= Len(last) /\ \A m \in 1..r : chunks[i].parts[m] = last[Len(last) - r + m]
        /\ TotalTokens([m \in 1..r |-> chunks[i].parts[m]]) <= Overlap
    BY <1>3, <1>5, BufferRepeatsOverlap
  <2>2. again = 1..r
    BY <1>4, <2>1
  <2>3. ASSUME NEW k \in 1..r, NEW j \in DOMAIN blocks,
               LineNumbers(parts[k]) \cap LineNumbers(blocks[j].text) # {}
        PROVE  blocks[j].type \in {"paragraph", "list"}
    <3>1. given = blocks
      <4>1. blocks # <<>>
        OBVIOUS
      <4> QED BY <1>2, <4>1 DEF HandedOverOf
    <3>2. j \in DOMAIN given /\ LineNumbers(chunks[i].parts[k]) \cap LineNumbers(given[j].text) # {}
      BY <2>3, <3>1
    <3>3. given[j].type \in {"paragraph", "list"}
      BY <1>5, <2>3, <3>2, RepeatedTypes
    <3> QED BY <3>1, <3>3
  <2> HIDE DEF again
  <2> QED BY <2>1, <2>2, <2>3
<1>6. ASSUME NEW j, NEW c, NEW e, PieceChunk(format, given, chunks, i, j, c, e)
      PROVE  Fits(0)
  <2>1. DOMAIN parts = {1} /\ Len(parts) = 1
    BY <1>6, PieceFacts DEF PieceOK
  <2>2. ~Repeats(chunks, i, TableHeaders, 1)
    BY <1>3, <1>6, PieceRepeats
  <2>3. again = {} /\ 1..0 = {}
    BY <1>4, <2>1, <2>2
  <2>4. TotalTokens([k \in 1..0 |-> parts[k]]) = 0
    <3> DEFINE s == [k \in 1..0 |-> parts[k]]
    <3>1. DOMAIN s = {}
      BY <2>3
    <3> HIDE DEF s
    <3>2. [k \in DOMAIN s |-> Tokens(s[k])] = <<>>
      BY <3>1
    <3> QED BY <3>2, TotalEmpty DEF TotalTokens, s
  <2> HIDE DEF again
  <2> QED BY <2>1, <2>3, <2>4, SizeAssumption
<1>7. \E r : Fits(r)
  BY <1>5, <1>6, ChunkCases
<1> HIDE DEF again
<1> QED BY <1>7 DEF again

-----------------------------------------------------------------------------
(* Size. *)

\* Headings that break no section are minor headings.
LEMMA MinorNumbers ==
  ASSUME NEW f, HandedOverOf(f, blocks, given), NEW s \in DOMAIN given, IsHeading(given[s]),
         ~Section(given[s])
  PROVE  LineNumbers(given[s].text) \cap MinorHeadings # {}
<1>1. GivenOK(f, given)
  BY DEF HandedOverOf
<1>2. given[s].level \in Levels /\ 1 \in DOMAIN given[s].text
  BY <1>1, HeadingText
<1>3. given[s].level \in SectionBreak + 1..NumLevels
  BY <1>2, LevelsSplit DEF Section
<1>4. given[s].text[1].n \in MinorHeadings
  BY <1>3, HeadingNumbers DEF MinorHeadings
<1>5. given[s].text[1].n \in LineNumbers(given[s].text)
  BY <1>2, TextMember
<1> QED BY <1>4, <1>5

\* Part m counts for nothing if it is a minor heading.
Body(cs, i, M, m) ==
  IF LineNumbers(cs[i].parts[m]) \cap M # {} THEN 0 ELSE Tokens(cs[i].parts[m])

\* A chunk from the buffer is within the limit and the overlap.
LEMMA BufferWithin ==
  ASSUME NEW f, NEW g, NEW cs, NEW i, NEW p, NEW q, NEW r, BufferChunk(f, g, cs, i, p, q, r), NEW M,
         \A s \in DOMAIN g : IsHeading(g[s]) /\ ~Section(g[s]) => LineNumbers(g[s].text) \cap M # {}
  PROVE  Total([m \in DOMAIN cs[i].parts |-> Body(cs, i, M, m)]) <= MaxChunk + Overlap
<1> DEFINE n == q - p + 1
           c == cs[i].parts
           D == BodyCounts(g, p, q)
           s == [m \in DOMAIN c |-> Body(cs, i, M, m)]
<1>1. /\ p \in Nat /\ q \in Nat /\ p >= 1 /\ p <= q /\ q <= Len(g) /\ Len(g) \in Nat
      /\ \A j \in p..q : j \in DOMAIN g /\ ~Section(g[j])
  <2>1. r \in Nat /\ p \in Nat /\ q \in Nat /\ p + r - 1 < q /\ q \in DOMAIN g
    BY BufferFacts
  <2>2. q <= Len(g)
    BY <2>1, GivenTypes DEF BufferChunk
  <2>3. p >= 1 /\ Len(g) \in Nat /\ \A j \in p..q : j \in DOMAIN g /\ ~Section(g[j])
    BY BufferFacts
  <2>4. p <= q
    <3>1. q \in p..q
      BY BufferFacts
    <3> QED BY <2>1, <3>1
  <2> QED BY <2>1, <2>2, <2>3, <2>4
<1>2. GivenOK(f, g) /\ Total(D) <= MaxChunk + Overlap
  BY DEF BufferChunk, FromBuffer
<1>3. DOMAIN c = 1..n /\ \A m \in 1..n : c[m] = g[p + m - 1].text /\ p + m - 1 \in p..q
  <2>1. PartsAre(g, cs, i, p, q)
    BY PartsOfBuffer
  <2> QED BY <2>1 DEF PartsAre
<1>4. D \in Seq(Nat) /\ Len(D) = n /\ Total(D) \in Nat
  <2>1. p \in Nat \ {0} /\ q \in Nat /\ q <= Len(g) /\ p <= q + 1 /\ GivenOK(f, g)
    BY <1>1, <1>2
  <2>2. D \in Seq(Nat) /\ Total(D) \in Nat
    BY <2>1, CountTypes
  <2>3. Len(D) = n
    BY <2>1, CountTypes
  <2> QED BY <2>2, <2>3
<1>5. n \in Nat /\ D = [m \in 1..n |-> BodyCount(g[p + m - 1])]
  BY <1>1 DEF BodyCounts
<1> HIDE DEF n, c, D
<1>6. ASSUME NEW m \in 1..n
      PROVE  Body(cs, i, M, m) \in Nat /\ Body(cs, i, M, m) <= D[m]
  <2> DEFINE j == p + m - 1
  <2>1. c[m] = g[j].text /\ j \in p..q
    BY <1>3
  <2>2. D[m] = BodyCount(g[j])
    BY <1>5
  <2> HIDE DEF j
  <2>3. j \in DOMAIN g /\ ~Section(g[j])
    BY <1>1, <2>1
  <2>4. g[j].text \in Seq(Line)
    BY <1>2, <2>3, GivenTypes
  <2>5. Tokens(g[j].text) \in Nat
    BY <2>4, TokensNat
  <2>6. Body(cs, i, M, m) = IF LineNumbers(g[j].text) \cap M # {} THEN 0 ELSE Tokens(g[j].text)
    BY <2>1 DEF Body, c
  <2>7. IsHeading(g[j]) => LineNumbers(g[j].text) \cap M # {}
    BY <2>3
  <2> QED BY <2>2, <2>5, <2>6, <2>7 DEF BodyCount
<1>7. s \in Seq(Nat) /\ Len(s) = n /\ \A m \in 1..n : s[m] = Body(cs, i, M, m)
  BY <1>3, <1>5, <1>6
<1> HIDE DEF s
<1>8. \A m \in 1..Len(s) : s[m] <= D[m]
  BY <1>6, <1>7
<1>9. Total(s) <= Total(D) /\ Total(s) \in Nat
  BY <1>4, <1>7, <1>8, TotalMonotone, TotalNat
<1>10. Total(s) <= MaxChunk + Overlap
  BY <1>2, <1>4, <1>9, SizeAssumption
<1> QED BY <1>10 DEF s, c

\* A piece: the header of the table and lines that fit, or one line
WithinAlone(t, H) ==
  \/ \A a \in DOMAIN t : t[a].kind \in {"prose", "indented"}
  \/ \E h \in {0, 2} :
       LET header == SubSeq(t, 1, h)
           others == SubSeq(t, h + 1, Len(t))
       IN /\ h = 0 \/ LineNumbers(header) \subseteq H
          /\ Len(others) = 1 \/ Tokens(header) + LinesTokens(others) <= MaxChunk

\* A piece is its header and the lines after it.
Halves(b, c, e, t) ==
  /\ SubSeq(t, 1, Len(Header(b))) = Header(b)
  /\ SubSeq(t, Len(Header(b)) + 1, Len(t)) = SubSeq(b.text, c + 1, e)
  /\ Len(SubSeq(b.text, c + 1, e)) = e - c

\* A piece is its header and the lines after it.
LEMMA PieceHalves ==
  ASSUME NEW b, NEW c, NEW e, NEW t, PieceIs(b, c, e, t)
  PROVE  Halves(b, c, e, t)
<1> DEFINE h == Len(Header(b))
           u == SubSeq(b.text, c + 1, e)
           H == Header(b)
<1>1. /\ t \in Seq(Line) /\ Len(t) = h + e - c
      /\ u \in Seq(Line) /\ Len(u) = e - c
      /\ \A a \in 1..h : t[a] = b.text[a]
  BY PieceText
<1>2. c \in Nat /\ e \in Nat /\ h <= c /\ c < e /\ e <= Len(b.text) /\ t = H \o u /\ b.text \in Seq(Line)
  BY DEF PieceIs
<1>3. H \in Seq(Line) /\ h \in Nat /\ h = Len(H)
  BY <1>2, HeaderOf
<1> HIDE DEF H, h, u
<1>4. H \in Seq(Line) /\ u \in Seq(Line)
  BY <1>1, <1>3
<1>5. /\ Len(H \o u) = Len(H) + Len(u)
      /\ \A a \in 1..Len(H) : (H \o u)[a] = H[a]
      /\ \A a \in 1..Len(u) : (H \o u)[Len(H) + a] = u[a]
  BY <1>4, Concatenated
<1>6. /\ Len(t) = h + Len(u) /\ (\A a \in 1..h : t[a] = H[a])
      /\ \A a \in 1..Len(u) : t[h + a] = u[a]
  BY <1>2, <1>3, <1>5
<1>7. SubSeq(t, 1, h) = H
  <2> DEFINE v == SubSeq(t, 1, h)
  <2>1. h <= Len(t) /\ Len(u) \in Nat
    BY <1>3, <1>4, <1>6
  <2>2. v \in Seq(Line) /\ Len(v) = h /\ \A a \in 1..h : v[a] = t[a]
    BY <1>1, <1>3, <2>1
  <2> HIDE DEF v
  <2>3. v = H
    BY <1>3, <1>6, <2>2, SeqEqual
  <2> QED BY <2>3 DEF v
<1>8. SubSeq(t, h + 1, Len(t)) = u
  <2> DEFINE v == SubSeq(t, h + 1, Len(t))
             n == Len(u)
  <2>1. n \in Nat /\ Len(t) = h + n /\ n > 0
    BY <1>1, <1>2, <1>4, <1>6
  <2> HIDE DEF n
  <2>2. h + 1 \in 1..Len(t) /\ Len(t) \in 1..Len(t) /\ Len(t) - (h + 1) + 1 = n
    BY <1>3, <2>1
  <2>3. v \in Seq(Line) /\ Len(v) = Len(t) - (h + 1) + 1
        /\ \A a \in 1..Len(t) - (h + 1) + 1 : v[a] = t[h + 1 + a - 1]
    BY <1>1, <1>3, <2>2
  <2> HIDE DEF v
  <2>4. \A a \in 1..n : v[a] = t[h + a]
    <3> SUFFICES ASSUME NEW a \in 1..n PROVE v[a] = t[h + a]
      OBVIOUS
    <3>1. h + 1 + a - 1 = h + a
      BY <1>3, <2>1
    <3> QED BY <2>2, <2>3, <3>1
  <2>5. v = u
    BY <1>4, <1>6, <2>2, <2>3, <2>4, SeqEqual DEF n
  <2> QED BY <2>5 DEF v
<1> QED BY <1>1, <1>7, <1>8 DEF H, h, u, Halves

\* A piece fits on its own, or is one line or one paragraph.
LEMMA PieceWithin ==
  ASSUME NEW f, NEW g, NEW cs, NEW i, NEW j, NEW c, NEW e, PieceChunk(f, g, cs, i, j, c, e),
         NEW H, HeadersOf(g, H)
  PROVE  WithinAlone(cs[i].parts[1], H)
<1> DEFINE b == g[j]
           h == Len(Header(b))
           t == cs[i].parts[1]
           u == SubSeq(b.text, c + 1, e)
<1>0. PieceOK(f, g, cs, i, j, c, e)
  BY PieceFacts
<1>1. /\ h \in {0, 2} /\ h <= c /\ c < e /\ e <= Len(b.text) /\ h = Len(Header(b))
      /\ DOMAIN b.text = 1..Len(b.text) /\ Len(b.text) \in Nat /\ b.text \in Seq(Line)
      /\ TextOK(f, b.type, b.text)
  BY <1>0 DEF PieceOK
<1>2. PieceIs(b, c, e, t)
  <2> HIDE DEF t
  <2>1. t = Header(b) \o SubSeq(b.text, c + 1, e)
    <3>1. cs[i].parts[1] = Header(g[j]) \o SubSeq(g[j].text, c + 1, e)
      BY <1>0 DEF PieceOK
    <3> QED BY <3>1 DEF t
  <2> QED BY <1>0, <2>1 DEF PieceOK
<1>3. c \in Nat /\ e \in Nat /\ j \in DOMAIN g
      /\ (b.type = "paragraph" \/ e = c + 1 \/ Tokens(Header(b)) + LinesTokens(u) <= MaxChunk)
  BY DEF PieceChunk, FromPiece
<1>4. HasHeader(b) \/ h = 0
  BY <1>1, HeaderOf
<1>5. SubSeq(t, 1, h) = Header(b) /\ SubSeq(t, h + 1, Len(t)) = u /\ Len(u) = e - c
  <2>1. Halves(b, c, e, t)
    BY <1>2, PieceHalves
  <2> HIDE DEF b, t
  <2> QED BY <2>1 DEF Halves
<1>6. /\ DOMAIN t = 1..Len(t) /\ Len(t) = h + e - c
      /\ \A a \in h + 1..Len(t) : t[a] = b.text[c + a - h] /\ c + a - h \in c + 1..e
  <2> HIDE DEF t
  <2> QED BY <1>2, PieceText
<1>7. h = 0 \/ LineNumbers(Header(b)) \subseteq H
  <2> SUFFICES ASSUME h = 2, NEW x \in LineNumbers(Header(b)) PROVE x \in H
    BY <1>1
  <2>1. b.type = "table"
    BY <1>4 DEF HasHeader
  <2>2. DOMAIN Header(b) = 1..2 /\ \A a \in 1..2 : Header(b)[a] = b.text[a]
    BY <1>1, HeaderOf
  <2>3. PICK a \in 1..2 : Header(b)[a].n = x
    BY <2>2, TextMember
  <2>4. a \in {1, 2} \cap DOMAIN b.text /\ b.text[a].n = x
    BY <1>1, <1>3, <2>2, <2>3
  <2> QED BY <1>3, <2>1, <2>4 DEF HeadersOf
<1> HIDE DEF b, h, t, u
<1>8. CASE Len(u) = 1 \/ Tokens(Header(b)) + LinesTokens(u) <= MaxChunk
  <2>1. \E k \in {0, 2} :
       LET header == SubSeq(t, 1, k)
           others == SubSeq(t, k + 1, Len(t))
       IN /\ k = 0 \/ LineNumbers(header) \subseteq H
          /\ Len(others) = 1 \/ Tokens(header) + LinesTokens(others) <= MaxChunk
    BY <1>1, <1>5, <1>7, <1>8
  <2> QED BY <2>1 DEF WithinAlone, t
<1>9. CASE b.type = "paragraph" /\ Len(u) # 1
  <2>1. h = 0
    BY <1>4, <1>9 DEF HasHeader
  <2>2. Len(b.text) # 1
    BY <1>1, <1>3, <1>5, <1>9, <2>1
  <2>3. \A a \in DOMAIN b.text : b.text[a].kind \in {"prose", "indented"}
    BY <1>1, <1>9, <2>2 DEF TextOK
  <2>4. \A a \in DOMAIN t : t[a].kind \in {"prose", "indented"}
    <3> SUFFICES ASSUME NEW a \in DOMAIN t PROVE t[a].kind \in {"prose", "indented"}
      OBVIOUS
    <3>1. a \in h + 1..Len(t)
      BY <1>6, <2>1
    <3>2. t[a] = b.text[c + a - h] /\ c + a - h \in c + 1..e
      BY <1>6, <3>1
    <3>3. c + a - h \in DOMAIN b.text
      BY <1>1, <1>3, <3>2
    <3> QED BY <2>3, <3>2, <3>3
  <2> QED BY <2>4 DEF WithinAlone, t
<1>10. CASE e = c + 1
  <2>1. Len(u) = 1
    BY <1>3, <1>5, <1>10
  <2> QED BY <1>8, <2>1
<1> QED BY <1>3, <1>8, <1>9, <1>10

\* The invariant says that chunks are within the limit.
LEMMA InvChunksWithinLimit == ParserInv /\ AssemblerInv /\ CsvTables => ChunksWithinLimit
<1> SUFFICES ASSUME ParserInv, AssemblerInv, CsvTables PROVE ChunksWithinLimit
  OBVIOUS
<1>1. ASSUME NEW i \in DOMAIN chunks
      PROVE  LET parts == chunks[i].parts
                 body(k) == IF LineNumbers(parts[k]) \cap MinorHeadings # {} THEN 0 ELSE Tokens(parts[k])
             IN \/ Total([k \in DOMAIN parts |-> body(k)]) <= MaxChunk + Overlap
                \/ Len(parts) = 1 /\ WithinAlone(parts[1], TableHeaders)
  <2>1. chunks # <<>>
    OBVIOUS
  <2>2. HandedOverOf(format, blocks, given)
    BY <2>1, Chunked
  <2>3. HeadersOf(given, TableHeaders)
    BY <2>2, HeadersOfTables
  <2>4. \A s \in DOMAIN given : IsHeading(given[s]) /\ ~Section(given[s]) =>
                                   LineNumbers(given[s].text) \cap MinorHeadings # {}
    BY <2>2, MinorNumbers
  <2>5. ASSUME NEW p, NEW q, NEW r, BufferChunk(format, given, chunks, i, p, q, r)
        PROVE  Total([k \in DOMAIN chunks[i].parts |-> Body(chunks, i, MinorHeadings, k)]) <= MaxChunk + Overlap
    BY <2>4, <2>5, BufferWithin
  <2>6. ASSUME NEW j, NEW c, NEW e, PieceChunk(format, given, chunks, i, j, c, e)
        PROVE  Len(chunks[i].parts) = 1 /\ WithinAlone(chunks[i].parts[1], TableHeaders)
    <3>1. Len(chunks[i].parts) = 1
      BY <2>6, PieceFacts DEF PieceOK
    <3>2. WithinAlone(chunks[i].parts[1], TableHeaders)
      BY <2>3, <2>6, PieceWithin
    <3> QED BY <3>1, <3>2
  <2>7. \/ Total([k \in DOMAIN chunks[i].parts |-> Body(chunks, i, MinorHeadings, k)]) <= MaxChunk + Overlap
        \/ Len(chunks[i].parts) = 1 /\ WithinAlone(chunks[i].parts[1], TableHeaders)
    BY <2>5, <2>6, ChunkCases
  <2> QED BY <2>7 DEF Body
<1> QED BY <1>1, Zenon DEF ChunksWithinLimit, WithinAlone

-----------------------------------------------------------------------------
(* What holds of every document. *)

(* Parsing keeps the lines in order, in the blocks and in what is gathered: the   *)
(* invariant of the scanner's loop (markdown_scanner.py:64-229).                  *)
THEOREM ParserInvariant == Spec => []ParserInv
BY InitParserInv, NextParserInv, PTL DEF Spec

(* The inductive invariant of the whole pipeline: the chunks are made of blocks     *)
(* that follow each other, and have what was taken (assembler.py:55-179).           *)
THEOREM TextInvariant == Spec => [](ParserInv /\ AssemblerInv /\ CsvTables)
BY InitParserInv, NextParserInv, InitAssemblerInv, NextAssemblerInv, InitCsvTables, NextCsvTables, PTL DEF Spec

(* Parsing keeps every line that says something once and in order, and whole, or of a  *)
(* CSV row the cells that have a column of their own.  The text of fence lines, and all  *)
(* rows of a CSV file whose first line is blank, are lost                                 *)
(* (markdown_scanner.py:64-229, docx.py:44-92, parsers/__init__.py:31-85).                *)
THEOREM LinesKeptAlways == Spec => []LinesKept
<1>1. Init => ParserInv /\ Whole
  BY InitParserInv, InitWhole
<1>2. ParserInv /\ Whole /\ [Next]_vars => (ParserInv /\ Whole)'
  BY NextParserInv, NextWhole
<1>3. ParserInv /\ Whole => LinesKept
  BY InvLinesKept
<1> QED BY <1>1, <1>2, <1>3, PTL DEF Spec

(* Every line that parsing keeps is in a chunk, section titles excepted, and chunks go *)
(* on where the one before stopped (assembler.py:111-172).                              *)
THEOREM ChunksCoverAlways == Spec => []ChunksCoverInOrder
BY TextInvariant, InvChunksCoverInOrder, PTL

(* A chunk repeats the end of the one before it within the overlap, or a header      *)
(* (assembler.py:211-236, 250-256).                                                   *)
THEOREM OverlapOnlyAlways == Spec => []RepeatsOnlyOverlap
BY TextInvariant, InvRepeatsOnlyOverlap, PTL

(* No chunk spans the beginning of a section (assembler.py:101-104, 124-127).        *)
THEOREM SectionsApartAlways == Spec => []SectionsApart
BY TextInvariant, InvSectionsApart, PTL

(* A chunk is within max_chunk_size, an overlap and minor headings, or is a piece     *)
(* (assembler.py:141, 148-170, 258-333).                                              *)
THEOREM WithinLimitAlways == Spec => []ChunksWithinLimit
BY TextInvariant, InvChunksWithinLimit, PTL

(* The heading trail of a chunk has the title in force of every level that breaks      *)
(* sections, and of a deeper level one of that section; it is missing before the first  *)
(* heading and on the pieces of a block that cut the buffer only                          *)
(* (assembler.py:57-59, 101-104, 111-158).                                                *)
THEOREM TrailAlways == Spec => []TrailIsOfSection
BY TextInvariant, InvTrailIsOfSection, PTL

(* The pages of a chunk are those of its text (assembler.py:136-140, 166-169).        *)
THEOREM PagesAlways == Spec => []PagesAreOfText
BY TextInvariant, InvPagesAreOfText, PTL
=============================================================================
