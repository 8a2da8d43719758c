--------------------------- MODULE FramingProofs ---------------------------
(***************************************************************************)
(* Proofs about Framing.tla, for messages of any sizes and types, any      *)
(* number of them, and any headers of another implementation.              *)
(***************************************************************************)
EXTENDS Framing, NaturalProofs, SequenceTheorems, TLAPS

-----------------------------------------------------------------------------
(* The header lines of a message, and what is known of them after some     *)
(* have been read.                                                         *)

LineOk(h) ==
    /\ h.kind = "length" => h.value \in 0..MaxSize
    /\ h.kind = "type" => h.value \in Types

\* Line i is the last of its kind among the first p.
IsLast(lines, p, i, kind) ==
    /\ lines[i].kind = kind
    /\ \A j \in (i + 1)..p : lines[j].kind # kind

Lacks(lines, p, kind) == \A i \in 1..p : lines[i].kind # kind

\* The state of a read after the first p lines, none of which was refused.
After(cl, gv, gt, lines, p) ==
    /\ \A i \in 1..p : LineOk(lines[i])
    /\ \/ cl = -1 /\ Lacks(lines, p, "length")
       \/ \E i \in 1..p : IsLast(lines, p, i, "length") /\ cl = lines[i].value
    /\ gv = ~Lacks(lines, p, "content-type")
    /\ \/ gt = Vardict /\ Lacks(lines, p, "type")
       \/ \E i \in 1..p : IsLast(lines, p, i, "type") /\ gt = lines[i].value

LEMMA LastFacts ==
    ASSUME NEW lines \in Seq(HeaderLine), NEW kind
    PROVE  \/ LastOf(lines, kind) = 0 /\ Lacks(lines, Len(lines), kind)
           \/ /\ LastOf(lines, kind) \in 1..Len(lines)
              /\ IsLast(lines, Len(lines), LastOf(lines, kind), kind)
<1>. DEFINE I == {i \in 1..Len(lines) : lines[i].kind = kind}
<1>1. LastOf(lines, kind) = IF I # {} THEN Max(I) ELSE 0
    BY DEF LastOf, SelectLastInSeq
<1>2. Len(lines) \in Nat
    BY LenProperties
<1>3. CASE I = {}
    BY <1>1, <1>3 DEF Lacks
<1>4. CASE I # {}
  <2>1. I \subseteq 0..Len(lines)
    BY <1>2
  <2>2. PICK m \in I : \A k \in I : m >= k
    BY <1>2, <1>4, <2>1, GreatestNumber
  <2>3. Max(I) \in I /\ \A k \in I : Max(I) >= k
    BY <2>2 DEF Max
  <2>4. PICK n : n = Max(I)
    OBVIOUS
  <2>5. n \in 1..Len(lines) /\ lines[n].kind = kind
    BY <2>3, <2>4
  <2>6. ASSUME NEW j \in (n + 1)..Len(lines) PROVE lines[j].kind # kind
    <3>1. j \in 1..Len(lines) /\ n \in Int /\ j > n
        BY <1>2, <2>5
    <3>2. j \notin I
        BY <2>3, <2>4, <3>1
    <3>. QED
        BY <3>1, <3>2
  <2>7. LastOf(lines, kind) = n
    BY <1>1, <1>4, <2>4
  <2>. QED
    BY <2>5, <2>6, <2>7 DEF IsLast
<1>. QED
    BY <1>3, <1>4

LEMMA LastIsUnique ==
    ASSUME NEW lines, NEW p \in Nat, NEW kind, NEW i \in 1..p, NEW k \in 1..p,
           IsLast(lines, p, i, kind), IsLast(lines, p, k, kind)
    PROVE  i = k
<1>1. CASE i < k
    BY <1>1 DEF IsLast
<1>2. CASE k < i
    BY <1>2 DEF IsLast
<1>. QED
    BY <1>1, <1>2

\* The last line of a kind, found in the middle of reading, is LastOf.
LEMMA LastIsLastOf ==
    ASSUME NEW lines \in Seq(HeaderLine), NEW kind, NEW i \in 1..Len(lines),
           IsLast(lines, Len(lines), i, kind)
    PROVE  LastOf(lines, kind) = i
<1>1. Len(lines) \in Nat
    BY LenProperties
<1>2. ~Lacks(lines, Len(lines), kind)
    BY DEF IsLast, Lacks
<1>. QED
    BY <1>1, <1>2, LastFacts, LastIsUnique

LEMMA LacksIsZero ==
    ASSUME NEW lines \in Seq(HeaderLine), NEW kind
    PROVE  LastOf(lines, kind) = 0 <=> Lacks(lines, Len(lines), kind)
<1>1. Len(lines) \in Nat
    BY LenProperties
<1>. QED
    BY <1>1, LastFacts DEF IsLast, Lacks

\* A message with a line that is refused is invalid.
LEMMA BadLineIsInvalid ==
    ASSUME NEW lines \in Seq(HeaderLine), NEW i \in 1..Len(lines),
           ~LineOk(lines[i]), NEW parses
    PROVE  Meaning(lines, parses) = "invalid"
<1>1. ~ValidLines(lines)
    BY DEF ValidLines, LineOk
<1>. QED
    BY <1>1 DEF Meaning

SizeOf(lines) ==
    IF ValidLines(lines) THEN lines[LastOf(lines, "length")].value ELSE 0

LEMMA SizeOfIsNat ==
    ASSUME NEW lines \in Seq(HeaderLine)
    PROVE  SizeOf(lines) \in Nat
<1>1. ASSUME ValidLines(lines)
      PROVE  lines[LastOf(lines, "length")].value \in Nat
  <2>1. LastOf(lines, "length") \in 1..Len(lines)
    BY <1>1, LastFacts DEF ValidLines
  <2>2. lines[LastOf(lines, "length")].kind = "length"
    BY <1>1, <2>1, LastFacts DEF ValidLines, IsLast
  <2>3. lines[LastOf(lines, "length")].value \in 0..MaxSize
    BY <1>1, <2>1, <2>2 DEF ValidLines
  <2>. QED
    BY <2>3
<1>. QED
    BY <1>1 DEF SizeOf

\* Reading all lines one by one gives what the lines mean as a whole.
LEMMA AllLinesRead ==
    ASSUME NEW lines \in Seq(HeaderLine), NEW cl, NEW gv, NEW gt,
           After(cl, gv, gt, lines, Len(lines)), cl > 0
    PROVE  /\ SizeOf(lines) = cl
           /\ Meaning(lines, TRUE) = IF gv THEN gt ELSE "json"
           /\ Meaning(lines, FALSE) = IF gv THEN gt ELSE "invalid"
<1>1. PICK n \in 1..Len(lines) :
        IsLast(lines, Len(lines), n, "length") /\ cl = lines[n].value
    BY DEF After
<1>2. LastOf(lines, "length") = n
    BY <1>1, LastIsLastOf
<1>3. ValidLines(lines)
  <2>1. n # 0
    BY LenProperties
  <2>2. \A i \in 1..Len(lines) : LineOk(lines[i])
    BY DEF After
  <2>. QED
    BY <1>1, <1>2, <2>1, <2>2 DEF ValidLines, LineOk
<1>4. SizeOf(lines) = cl
    BY <1>1, <1>2, <1>3 DEF SizeOf
<1>5. gv <=> LastOf(lines, "content-type") # 0
    BY LacksIsZero DEF After
<1>6. gt = IF LastOf(lines, "type") = 0 THEN Vardict
           ELSE lines[LastOf(lines, "type")].value
  <2>1. CASE gt = Vardict /\ Lacks(lines, Len(lines), "type")
    BY <2>1, LacksIsZero
  <2>2. CASE \E i \in 1..Len(lines) :
                IsLast(lines, Len(lines), i, "type") /\ gt = lines[i].value
    <3>1. PICK i \in 1..Len(lines) :
            IsLast(lines, Len(lines), i, "type") /\ gt = lines[i].value
        BY <2>2
    <3>2. LastOf(lines, "type") = i /\ i # 0
        BY <3>1, LastIsLastOf, LenProperties
    <3>. QED
        BY <3>1, <3>2
  <2>. QED
    BY <2>1, <2>2 DEF After
<1>7. ASSUME NEW b \in BOOLEAN
      PROVE  Meaning(lines, b) = IF gv THEN gt
                                 ELSE IF b THEN "json" ELSE "invalid"
  <2>1. gv \in BOOLEAN
    BY DEF After
  <2>. QED
    BY <1>3, <1>5, <1>6, <2>1, Zenon DEF Meaning
<1>8. Meaning(lines, TRUE) = IF gv THEN gt ELSE "json"
    BY <1>7
<1>9. Meaning(lines, FALSE) = IF gv THEN gt ELSE "invalid"
    BY <1>7
<1>. QED
    BY <1>4, <1>8, <1>9

\* Without a length, or with a length of zero, a message is invalid.
LEMMA NoLengthIsInvalid ==
    ASSUME NEW lines \in Seq(HeaderLine), NEW cl, NEW gv, NEW gt,
           After(cl, gv, gt, lines, Len(lines)), ~(cl > 0), NEW parses
    PROVE  Meaning(lines, parses) = "invalid"
<1>1. CASE Lacks(lines, Len(lines), "length")
    BY <1>1, LacksIsZero DEF Meaning, ValidLines
<1>2. CASE \E i \in 1..Len(lines) :
              IsLast(lines, Len(lines), i, "length") /\ cl = lines[i].value
    BY <1>2, LastIsLastOf DEF Meaning, ValidLines
<1>. QED
    BY <1>1, <1>2 DEF After

\* What is known after one line more, for each kind of line.
LEMMA OneLineMore ==
    ASSUME NEW lines \in Seq(HeaderLine), NEW p \in Nat, p < Len(lines),
           NEW cl, NEW gv, NEW gt, After(cl, gv, gt, lines, p),
           NEW q, q = p + 1, NEW h, h = lines[q], LineOk(h)
    PROVE  /\ h.kind = "length" => After(h.value, gv, gt, lines, q)
           /\ h.kind = "content-type" => After(cl, TRUE, gt, lines, q)
           /\ h.kind = "type" => After(cl, gv, h.value, lines, q)
           /\ h.kind = "other" => After(cl, gv, gt, lines, q)
<1>1. 1..q = (1..p) \cup {q}
    OBVIOUS
<1>2. \A i \in 1..q : LineOk(lines[i])
    BY <1>1 DEF After
<1>3. ASSUME NEW kind, h.kind # kind
      PROVE  /\ Lacks(lines, q, kind) <=> Lacks(lines, p, kind)
             /\ \A i \in 1..p : IsLast(lines, p, i, kind)
                                    => IsLast(lines, q, i, kind)
  <2>1. Lacks(lines, q, kind) <=> Lacks(lines, p, kind)
    BY <1>1, <1>3 DEF Lacks
  <2>2. ASSUME NEW i \in 1..p, IsLast(lines, p, i, kind)
        PROVE  IsLast(lines, q, i, kind)
    <3>1. (i + 1)..q = ((i + 1)..p) \cup {q}
        OBVIOUS
    <3>. QED
        BY <1>3, <2>2, <3>1 DEF IsLast
  <2>. QED
    BY <2>1, <2>2
<1>4. /\ ~Lacks(lines, q, h.kind)
      /\ IsLast(lines, q, q, h.kind)
      /\ q \in 1..q
    BY <1>1 DEF Lacks, IsLast
<1>5. CASE h.kind = "length"
  <2>1. gv = ~Lacks(lines, q, "content-type")
    BY <1>3, <1>5 DEF After
  <2>2. \/ gt = Vardict /\ Lacks(lines, q, "type")
        \/ \E i \in 1..q :
              IsLast(lines, q, i, "type") /\ gt = lines[i].value
    BY <1>1, <1>3, <1>5 DEF After
  <2>3. After(h.value, gv, gt, lines, q)
    BY <1>2, <1>4, <1>5, <2>1, <2>2 DEF After
  <2>. QED
    BY <1>5, <2>3
<1>6. h.kind # "length" =>
        \/ cl = -1 /\ Lacks(lines, q, "length")
        \/ \E i \in 1..q :
              IsLast(lines, q, i, "length") /\ cl = lines[i].value
    BY <1>1, <1>3 DEF After
<1>7. CASE h.kind = "content-type"
  <2>1. \/ gt = Vardict /\ Lacks(lines, q, "type")
        \/ \E i \in 1..q :
              IsLast(lines, q, i, "type") /\ gt = lines[i].value
    BY <1>1, <1>3, <1>7 DEF After
  <2>2. TRUE = ~Lacks(lines, q, "content-type")
    BY <1>4, <1>7
  <2>3. After(cl, TRUE, gt, lines, q)
    BY <1>2, <1>6, <1>7, <2>1, <2>2 DEF After
  <2>. QED
    BY <1>7, <2>3
<1>8. CASE h.kind = "type"
  <2>1. gv = ~Lacks(lines, q, "content-type")
    BY <1>3, <1>8 DEF After
  <2>2. After(cl, gv, h.value, lines, q)
    BY <1>2, <1>4, <1>6, <1>8, <2>1 DEF After
  <2>. QED
    BY <1>8, <2>2
<1>9. CASE h.kind = "other"
  <2>1. gv = ~Lacks(lines, q, "content-type")
    BY <1>3, <1>9 DEF After
  <2>2. \/ gt = Vardict /\ Lacks(lines, q, "type")
        \/ \E i \in 1..q :
              IsLast(lines, q, i, "type") /\ gt = lines[i].value
    BY <1>1, <1>3, <1>9 DEF After
  <2>3. After(cl, gv, gt, lines, q)
    BY <1>2, <1>6, <1>9, <2>1, <2>2 DEF After
  <2>. QED
    BY <1>9, <2>3
<1>. QED
    BY <1>5, <1>7, <1>8, <1>9

\* Of a fresh read nothing is known.
LEMMA NoLineRead ==
    ASSUME NEW lines
    PROVE  After(-1, FALSE, Vardict, lines, 0)
  BY DEF After, Lacks

\* What JsonrpcOutputStream writes is valid, and means what it says.
LEMMA HeadersAreValid ==
    ASSUME NEW size \in Sizes, NEW type \in Types, NEW use \in BOOLEAN
    PROVE  /\ Headers(size, type, use) \in Seq(HeaderLine)
           /\ SizeOf(Headers(size, type, use)) = size
           /\ Meaning(Headers(size, type, use), TRUE)
                = IF use THEN type ELSE "json"
<1>1. size \in Int /\ size \in 0..MaxSize /\ size > 0
    BY SizeAssumption
<1>2. /\ Length(size) \in HeaderLine
      /\ TypeGvariant \in HeaderLine
      /\ GvariantType(type) \in HeaderLine
    BY <1>1 DEF HeaderLine, Length, TypeGvariant, GvariantType
<1>3. CASE ~use
  <2>1. PICK lines : lines = Headers(size, type, use)
    OBVIOUS
  <2>2. lines = <<Length(size)>>
    BY <1>3, <2>1 DEF Headers
  <2>3. lines \in Seq(HeaderLine) /\ Len(lines) = 1 /\ lines[1] = Length(size)
    BY <1>2, <2>2
  <2>4. LineOk(lines[1])
    BY <1>1, <2>3 DEF LineOk, Length
  <2>5. After(size, FALSE, Vardict, lines, 1)
    <3>1. After(-1, FALSE, Vardict, lines, 0)
        BY NoLineRead
    <3>2. lines[1].kind = "length" /\ lines[1].value = size
        BY <2>3 DEF Length
    <3>3. 0 \in Nat /\ 0 < Len(lines) /\ 1 = 0 + 1
        BY <2>3
    <3>. QED
        BY <2>3, <2>4, <3>1, <3>2, <3>3, OneLineMore
  <2>6. SizeOf(lines) = size /\ Meaning(lines, TRUE) = "json"
    BY <1>1, <2>3, <2>5, AllLinesRead
  <2>. QED
    BY <1>3, <2>1, <2>3, <2>6
<1>4. CASE use
  <2>1. PICK lines : lines = Headers(size, type, use)
    OBVIOUS
  <2>2. lines = <<Length(size)>> \o <<TypeGvariant, GvariantType(type)>>
    BY <1>4, <2>1 DEF Headers
  <2>3. /\ lines \in Seq(HeaderLine) /\ Len(lines) = 3
        /\ lines[1] = Length(size)
        /\ lines[2] = TypeGvariant
        /\ lines[3] = GvariantType(type)
    BY <1>2, <2>2
  <2>4. /\ lines[1].kind = "length" /\ lines[1].value = size
        /\ lines[2].kind = "content-type"
        /\ lines[3].kind = "type" /\ lines[3].value = type
    BY <2>3 DEF Length, TypeGvariant, GvariantType
  <2>5. LineOk(lines[1]) /\ LineOk(lines[2]) /\ LineOk(lines[3])
    BY <1>1, <2>4 DEF LineOk
  <2>6. After(-1, FALSE, Vardict, lines, 0)
    BY NoLineRead
  <2>7. After(size, FALSE, Vardict, lines, 1)
    <3>1. 0 \in Nat /\ 0 < Len(lines) /\ 1 = 0 + 1
        BY <2>3
    <3>. QED
        BY <2>3, <2>4, <2>5, <2>6, <3>1, OneLineMore
  <2>8. After(size, TRUE, Vardict, lines, 2)
    <3>1. 1 \in Nat /\ 1 < Len(lines) /\ 2 = 1 + 1
        BY <2>3
    <3>. QED
        BY <2>3, <2>4, <2>5, <2>7, <3>1, OneLineMore
  <2>9. After(size, TRUE, type, lines, 3)
    <3>1. 2 \in Nat /\ 2 < Len(lines) /\ 3 = 2 + 1
        BY <2>3
    <3>. QED
        BY <2>3, <2>4, <2>5, <2>8, <3>1, OneLineMore
  <2>10. SizeOf(lines) = size /\ Meaning(lines, TRUE) = type
    BY <1>1, <2>3, <2>9, AllLinesRead
  <2>. QED
    BY <1>4, <2>1, <2>3, <2>10
<1>. QED
    BY <1>3, <1>4

-----------------------------------------------------------------------------
(* What is on its way from one end to the other.                           *)

Bytes == [kind : {"byte"}, value : Int]

Item == HeaderLine \cup {EmptyLine} \cup Bytes

\* What one write puts on the wire: the lines, and what fills the body.
Chunk == [lines : Seq(HeaderLine), byte : Int]

Extent(c) == Len(c.lines) + 1 + SizeOf(c.lines)

ItemOf(c, i) ==
    IF i <= Len(c.lines) THEN c.lines[i]
    ELSE IF i = Len(c.lines) + 1 THEN EmptyLine ELSE Byte(c.byte)

Means(c) == Message(c.byte, Meaning(c.lines, c.byte # Unparsable))

Meanings == {Means(c) : c \in Chunk}

\* The items are those of the writes ch, of which the j-th one ends at at[j].
\* Those that are read already are at positions up to 0; only if the writer
\* has gone, the last ones may be missing.
Laid(items, open, fs, ch, at) ==
    /\ ch \in Seq(Chunk) /\ Len(ch) = Len(fs)
    /\ at \in [Nat -> Int]
    /\ \A j \in 1..Len(fs) :
          fs[j] = Means(ch[j]) /\ at[j] = at[j - 1] + Extent(ch[j])
    /\ \A j \in 0..Len(fs) : at[j] <= at[Len(fs)]
    /\ \A j \in 1..Len(fs) : \A i \in 1..Len(items) :
          at[j - 1] < i /\ i <= at[j] => items[i] = ItemOf(ch[j], i - at[j - 1])
    /\ Len(items) <= at[Len(fs)]
    /\ open => Len(items) = at[Len(fs)]

\* A reader that got k messages is at the beginning, in the lines or at the
\* body of the next one, and its state is that of the lines it has read.
ReaderAt(fs, ch, at, k, ph, cl, gv, gt) ==
    /\ k \in 0..Len(fs)
    /\ ph \in {"idle", "headers", "body"}
    /\ ph = "idle" => at[k] = 0
    /\ ph = "headers" =>
          /\ at[k] <= 0
          /\ k = Len(fs) => at[k] = 0 /\ cl = -1 /\ gv = FALSE /\ gt = Vardict
          /\ k < Len(fs) => /\ 0 - at[k] <= Len(ch[k + 1].lines)
                            /\ After(cl, gv, gt, ch[k + 1].lines, 0 - at[k])
    /\ ph = "body" =>
          /\ k < Len(fs)
          /\ at[k] = 0 - (Len(ch[k + 1].lines) + 1)
          /\ cl > 0
          /\ After(cl, gv, gt, ch[k + 1].lines, Len(ch[k + 1].lines))

StreamOf(items, open, fs, k, ph, cl, gv, gt) ==
    \E ch \in Seq(Chunk), at \in [Nat -> Int] :
        Laid(items, open, fs, ch, at) /\ ReaderAt(fs, ch, at, k, ph, cl, gv, gt)

LEMMA ChunkFacts ==
    ASSUME NEW c \in Chunk
    PROVE  /\ c.lines \in Seq(HeaderLine) /\ Len(c.lines) \in Nat
           /\ SizeOf(c.lines) \in Nat
           /\ Extent(c) \in Nat /\ Extent(c) > 0
           /\ c.byte \in Int
<1>1. c.lines \in Seq(HeaderLine) /\ c.byte \in Int
    BY DEF Chunk
<1>2. Len(c.lines) \in Nat /\ SizeOf(c.lines) \in Nat
    BY <1>1, LenProperties, SizeOfIsNat
<1>. QED
    BY <1>1, <1>2 DEF Extent

LEMMA SuffixFacts ==
    ASSUME NEW items \in Seq(Item), NEW n \in 0..Len(items)
    PROVE  /\ SubSeq(items, n + 1, Len(items)) \in Seq(Item)
           /\ Len(SubSeq(items, n + 1, Len(items))) = Len(items) - n
           /\ \A i \in 1..(Len(items) - n) :
                 SubSeq(items, n + 1, Len(items))[i] = items[i + n]
<1>1. Len(items) \in Nat
    BY LenProperties
<1>2. n + 1 \in 1..(Len(items) + 1) /\ Len(items) \in n..Len(items)
    BY <1>1
<1>. QED
    BY <1>1, <1>2, SubSeqProperties

\* Reading n items moves all positions.
LEMMA LaidShift ==
    ASSUME NEW items \in Seq(Item), NEW open, NEW fs \in Seq(Meanings),
           NEW ch, NEW at, Laid(items, open, fs, ch, at),
           NEW n \in 0..Len(items)
    PROVE  Laid(SubSeq(items, n + 1, Len(items)), open, fs, ch,
                [j \in Nat |-> at[j] - n])
<1>. DEFINE rest == SubSeq(items, n + 1, Len(items))
            to == [j \in Nat |-> at[j] - n]
<1>1. Len(items) \in Nat /\ Len(fs) \in Nat /\ n \in Nat
    BY LenProperties
<1>2. /\ Len(rest) = Len(items) - n
      /\ \A i \in 1..(Len(items) - n) : rest[i] = items[i + n]
    BY SuffixFacts
<1>3. at \in [Nat -> Int] /\ \A j \in Nat : at[j] \in Int
    BY DEF Laid
<1>4. to \in [Nat -> Int] /\ \A j \in Nat : to[j] = at[j] - n
    BY <1>1, <1>3
<1>. HIDE DEF rest, to
<1>5. \A j \in 1..Len(fs) :
        fs[j] = Means(ch[j]) /\ to[j] = to[j - 1] + Extent(ch[j])
  <2>. SUFFICES ASSUME NEW j \in 1..Len(fs)
                PROVE  fs[j] = Means(ch[j]) /\ to[j] = to[j - 1] + Extent(ch[j])
    OBVIOUS
  <2>1. j \in Nat /\ j - 1 \in Nat
    BY <1>1
  <2>2. fs[j] = Means(ch[j]) /\ at[j] = at[j - 1] + Extent(ch[j])
    BY DEF Laid
  <2>3. Extent(ch[j]) \in Nat
    <3>1. ch[j] \in Chunk
        BY ElementOfSeq DEF Laid
    <3>. QED
        BY <3>1, ChunkFacts
  <2>4. to[j] = at[j] - n /\ to[j - 1] = at[j - 1] - n
    BY <1>4, <2>1
  <2>5. at[j] \in Int /\ at[j - 1] \in Int
    BY <1>3, <2>1
  <2>. QED
    BY <1>1, <2>2, <2>3, <2>4, <2>5
<1>6. \A j \in 0..Len(fs) : to[j] <= to[Len(fs)]
  <2>. SUFFICES ASSUME NEW j \in 0..Len(fs) PROVE to[j] <= to[Len(fs)]
    OBVIOUS
  <2>1. j \in Nat
    BY <1>1
  <2>2. at[j] <= at[Len(fs)] /\ at[j] \in Int /\ at[Len(fs)] \in Int
    BY <1>1, <1>3, <2>1 DEF Laid
  <2>3. to[j] = at[j] - n /\ to[Len(fs)] = at[Len(fs)] - n
    BY <1>1, <1>4, <2>1
  <2>. QED
    BY <1>1, <2>2, <2>3
<1>7. ASSUME NEW j \in 1..Len(fs), NEW i \in 1..Len(rest),
             to[j - 1] < i, i <= to[j]
      PROVE  rest[i] = ItemOf(ch[j], i - to[j - 1])
  <2>1. j \in Nat /\ j - 1 \in Nat
    BY <1>1
  <2>2. PICK x \in Int, y \in Int : x = at[j - 1] /\ y = at[j]
    BY <1>3, <2>1
  <2>3. to[j] = y - n /\ to[j - 1] = x - n
    BY <1>4, <2>1, <2>2
  <2>4. i \in Nat /\ i + n \in 1..Len(items) /\ i \in 1..(Len(items) - n)
    BY <1>1, <1>2
  <2>5. x < i + n /\ i + n <= y
    BY SMTT(30), <1>1, <1>7, <2>2, <2>3, <2>4
  <2>6. items[i + n] = ItemOf(ch[j], (i + n) - x)
    BY <2>2, <2>4, <2>5 DEF Laid
  <2>7. (i + n) - x = i - to[j - 1]
    BY <1>1, <2>2, <2>3, <2>4
  <2>. QED
    BY <1>2, <2>4, <2>6, <2>7
<1>8. Len(rest) <= to[Len(fs)] /\ (open => Len(rest) = to[Len(fs)])
  <2>1. at[Len(fs)] \in Int /\ to[Len(fs)] = at[Len(fs)] - n
    BY <1>1, <1>3, <1>4
  <2>2. Len(items) <= at[Len(fs)] /\ (open => Len(items) = at[Len(fs)])
    BY DEF Laid
  <2>. QED
    BY <1>1, <1>2, <2>1, <2>2
<1>9. Laid(rest, open, fs, ch, to)
    BY <1>4, <1>5, <1>6, <1>7, <1>8 DEF Laid
<1>. QED
    BY <1>9 DEF rest, to

\* If the writer is gone, less may arrive than was written.
LEMMA LaidCut ==
    ASSUME NEW items \in Seq(Item), NEW open, NEW fs \in Seq(Meanings),
           NEW ch, NEW at, Laid(items, open, fs, ch, at),
           NEW n \in 0..Len(items)
    PROVE  Laid(SubSeq(items, 1, n), FALSE, fs, ch, at)
<1>. DEFINE rest == SubSeq(items, 1, n)
<1>1. Len(items) \in Nat /\ Len(fs) \in Nat /\ n \in Nat /\ n <= Len(items)
    BY LenProperties
<1>2. Len(rest) = n /\ \A i \in 1..n : rest[i] = items[i]
    BY <1>1, SubSeqProperties
<1>. HIDE DEF rest
<1>3. Len(rest) <= at[Len(fs)]
  <2>1. Len(items) <= at[Len(fs)] /\ at[Len(fs)] \in Int
    BY <1>1 DEF Laid
  <2>. QED
    BY <1>1, <1>2, <2>1
<1>4. ASSUME NEW j \in 1..Len(fs), NEW i \in 1..Len(rest),
             at[j - 1] < i, i <= at[j]
      PROVE  rest[i] = ItemOf(ch[j], i - at[j - 1])
  <2>1. i \in 1..n /\ i \in 1..Len(items)
    BY <1>1, <1>2
  <2>2. items[i] = ItemOf(ch[j], i - at[j - 1])
    BY <1>4, <2>1 DEF Laid
  <2>. QED
    BY <1>2, <2>1, <2>2
<1>5. Laid(rest, FALSE, fs, ch, at)
    BY <1>3, <1>4 DEF Laid
<1>. QED
    BY <1>5 DEF rest

LEMMA JoinFacts ==
    ASSUME NEW s \in Seq(Item), NEW t \in Seq(Item), NEW n, NEW m,
           n = Len(s), m = Len(t)
    PROVE  /\ s \o t \in Seq(Item) /\ Len(s \o t) = n + m
           /\ \A i \in 1..n : (s \o t)[i] = s[i]
           /\ \A i \in 1..m : (s \o t)[n + i] = t[i]
<1>1. n \in Nat /\ m \in Nat
    BY LenProperties
<1>2. /\ s \o t \in Seq(Item) /\ Len(s \o t) = n + m
      /\ \A i \in 1..(n + m) :
            (s \o t)[i] = IF i <= n THEN s[i] ELSE t[i - n]
    BY <1>1, ConcatProperties
<1>3. ASSUME NEW i \in 1..n PROVE (s \o t)[i] = s[i]
  <2>1. i \in 1..(n + m) /\ i <= n
    BY <1>1
  <2>. QED
    BY <1>2, <2>1
<1>4. ASSUME NEW i \in 1..m PROVE (s \o t)[n + i] = t[i]
  <2>1. n + i \in 1..(n + m) /\ ~(n + i <= n) /\ (n + i) - n = i
    BY <1>1
  <2>. QED
    BY <1>2, <2>1
<1>. QED
    BY <1>2, <1>3, <1>4

Written(items, c) ==
    items \o c.lines \o <<EmptyLine>>
          \o [i \in 1..SizeOf(c.lines) |-> Byte(c.byte)]

LEMMA WrittenFacts ==
    ASSUME NEW items \in Seq(Item), NEW c \in Chunk
    PROVE  /\ Written(items, c) \in Seq(Item)
           /\ Len(Written(items, c)) = Len(items) + Extent(c)
           /\ \A i \in 1..Len(items) : Written(items, c)[i] = items[i]
           /\ \A i \in 1..Extent(c) :
                 Written(items, c)[Len(items) + i] = ItemOf(c, i)
<1>1. PICK n \in Nat, l \in Nat, s \in Nat :
        /\ n = Len(items) /\ l = Len(c.lines) /\ s = SizeOf(c.lines)
        /\ Extent(c) = l + 1 + s
    BY ChunkFacts, LenProperties DEF Extent
<1>2. PICK body : body = [i \in 1..s |-> Byte(c.byte)]
    OBVIOUS
<1>3. body \in Seq(Item) /\ Len(body) = s /\ \A i \in 1..s : body[i] = Byte(c.byte)
  <2>1. Byte(c.byte) \in Item
    BY ChunkFacts DEF Item, Bytes, Byte
  <2>2. body \in [1..s -> Item]
    BY <1>2, <2>1
  <2>3. body \in Seq(Item)
    BY <2>2
  <2>4. Len(body) = s
    BY <2>2, <2>3, LenProperties
  <2>. QED
    BY <1>2, <2>3, <2>4
<1>4. c.lines \in Seq(Item) /\ <<EmptyLine>> \in Seq(Item)
    BY ChunkFacts DEF Item
<1>5. PICK a : a = items \o c.lines
    OBVIOUS
<1>6. /\ a \in Seq(Item) /\ Len(a) = n + l
      /\ \A i \in 1..n : a[i] = items[i]
      /\ \A i \in 1..l : a[n + i] = c.lines[i]
    BY <1>1, <1>4, <1>5, JoinFacts
<1>7. PICK b : b = a \o <<EmptyLine>>
    OBVIOUS
<1>8. /\ b \in Seq(Item) /\ Len(b) = n + l + 1
      /\ \A i \in 1..(n + l) : b[i] = a[i]
      /\ b[n + l + 1] = EmptyLine
  <2>1. PICK e \in Seq(Item) : e = <<EmptyLine>> /\ Len(e) = 1 /\ e[1] = EmptyLine
    BY <1>4
  <2>2. 1 \in 1..1
    OBVIOUS
  <2>. QED
    BY <1>6, <1>7, <2>1, <2>2, JoinFacts
<1>9. PICK w : w = b \o body
    OBVIOUS
<1>10. /\ w \in Seq(Item) /\ Len(w) = n + l + 1 + s
       /\ \A i \in 1..(n + l + 1) : w[i] = b[i]
       /\ \A i \in 1..s : w[n + l + 1 + i] = body[i]
  <2>1. PICK q : q = n + l + 1
    OBVIOUS
  <2>2. /\ w \in Seq(Item) /\ Len(w) = q + s
        /\ \A i \in 1..q : w[i] = b[i]
        /\ \A i \in 1..s : w[q + i] = body[i]
    <3>1. b \in Seq(Item) /\ q = Len(b)
        BY <1>8, <2>1
    <3>2. body \in Seq(Item) /\ s = Len(body)
        BY <1>3
    <3>. QED
        BY <1>9, <3>1, <3>2, JoinFacts
  <2>. QED
    BY <2>1, <2>2
<1>11. w = Written(items, c)
    BY <1>1, <1>2, <1>5, <1>7, <1>9 DEF Written
<1>12. ASSUME NEW i \in 1..n PROVE w[i] = items[i]
  <2>1. i \in 1..(n + l) /\ i \in 1..(n + l + 1)
    BY <1>1
  <2>. QED
    BY <1>6, <1>8, <1>10, <2>1
<1>13. ASSUME NEW i \in 1..(l + 1 + s)
       PROVE  w[n + i] = ItemOf(c, i)
  <2>1. CASE i <= l
    <3>1. i \in 1..l /\ n + i \in 1..(n + l) /\ n + i \in 1..(n + l + 1)
        BY <1>1, <2>1
    <3>2. w[n + i] = c.lines[i]
        BY <1>6, <1>8, <1>10, <3>1
    <3>. QED
        BY <1>1, <2>1, <3>2 DEF ItemOf
  <2>2. CASE i = l + 1
    <3>1. n + i = n + l + 1 /\ n + i \in 1..(n + l + 1)
        BY <1>1, <2>2
    <3>2. w[n + i] = EmptyLine
        BY <1>8, <1>10, <3>1
    <3>. QED
        BY <1>1, <2>2, <3>2 DEF ItemOf
  <2>3. CASE i > l + 1
    <3>1. PICK k \in 1..s : i = l + 1 + k
      <4>1. i \in Int /\ i <= l + 1 + s
        BY <1>1
      <4>2. i - (l + 1) \in 1..s
        BY <1>1, <2>3, <4>1
      <4>3. l + 1 \in Int
        OBVIOUS
      <4>4. \A x, y \in Int : y + (x - y) = x
        OBVIOUS
      <4>5. i = l + 1 + (i - (l + 1))
        BY <4>1, <4>3, <4>4
      <4>. QED
        BY <4>2, <4>5
    <3>2. n + i = n + l + 1 + k
        BY <1>1, <3>1
    <3>3. w[n + i] = Byte(c.byte)
        BY <1>3, <1>10, <3>2
    <3>4. ~(i <= l) /\ i # l + 1
        BY <1>1, <2>3
    <3>. QED
        BY <1>1, <3>3, <3>4 DEF ItemOf
  <2>. QED
    BY <1>1, <2>1, <2>2, <2>3
<1>. QED
    BY <1>1, <1>10, <1>11, <1>12, <1>13

\* A write goes behind all that was written before.
LEMMA LaidWrite ==
    ASSUME NEW items \in Seq(Item), NEW fs \in Seq(Meanings),
           NEW ch, NEW at, Laid(items, TRUE, fs, ch, at), NEW c \in Chunk,
           NEW n \in Nat, n = Len(fs)
    PROVE  Laid(Written(items, c), TRUE, Append(fs, Means(c)), Append(ch, c),
                [at EXCEPT ![n + 1] = at[n] + Extent(c)])
<1>1. PICK fs2 : fs2 = Append(fs, Means(c))
    OBVIOUS
<1>2. PICK ch2 : ch2 = Append(ch, c)
    OBVIOUS
<1>3. PICK to : to = [at EXCEPT ![n + 1] = at[n] + Extent(c)]
    OBVIOUS
<1>4. PICK all : all = Written(items, c)
    OBVIOUS
<1>5. Extent(c) \in Nat /\ Extent(c) > 0
    BY ChunkFacts
<1>6. /\ at \in [Nat -> Int] /\ \A j \in Nat : at[j] \in Int
      /\ Len(items) = at[n] /\ Len(items) \in Nat
    BY LenProperties DEF Laid
<1>7. /\ to \in [Nat -> Int]
      /\ \A j \in 0..n : to[j] = at[j]
      /\ to[n + 1] = at[n] + Extent(c)
    BY <1>3, <1>5, <1>6
<1>8. /\ Len(fs2) = n + 1 /\ fs2[n + 1] = Means(c)
      /\ \A j \in 1..n : fs2[j] = fs[j]
    BY <1>1, AppendProperties
<1>9. ch \in Seq(Chunk) /\ Len(ch) = n
    BY DEF Laid
<1>10. /\ ch2 \in Seq(Chunk) /\ Len(ch2) = n + 1 /\ ch2[n + 1] = c
       /\ \A j \in 1..n : ch2[j] = ch[j]
    BY <1>2, <1>9, AppendProperties
<1>11. /\ Len(all) = at[n] + Extent(c)
       /\ \A i \in 1..at[n] : all[i] = items[i]
       /\ \A i \in 1..Extent(c) : all[at[n] + i] = ItemOf(c, i)
    BY <1>4, <1>6, WrittenFacts
<1>12. \A j \in 1..(n + 1) :
         fs2[j] = Means(ch2[j]) /\ to[j] = to[j - 1] + Extent(ch2[j])
  <2>. SUFFICES ASSUME NEW j \in 1..(n + 1)
                PROVE  /\ fs2[j] = Means(ch2[j])
                       /\ to[j] = to[j - 1] + Extent(ch2[j])
    OBVIOUS
  <2>1. CASE j \in 1..n
    <3>1. fs[j] = Means(ch[j]) /\ at[j] = at[j - 1] + Extent(ch[j])
        BY <2>1 DEF Laid
    <3>2. to[j] = at[j] /\ to[j - 1] = at[j - 1]
        BY <1>7, <2>1
    <3>. QED
        BY <1>8, <1>10, <2>1, <3>1, <3>2
  <2>2. CASE j = n + 1
    <3>1. j - 1 = n /\ n \in 0..n
        BY <2>2
    <3>. QED
        BY <1>7, <1>8, <1>10, <2>2, <3>1
  <2>. QED
    BY <2>1, <2>2
<1>13. \A j \in 0..(n + 1) : to[j] <= to[n + 1]
  <2>. SUFFICES ASSUME NEW j \in 0..(n + 1) PROVE to[j] <= to[n + 1]
    OBVIOUS
  <2>1. CASE j \in 0..n
    <3>1. at[j] <= at[n] /\ at[j] \in Int /\ at[n] \in Int
        BY <1>6, <2>1 DEF Laid
    <3>2. to[j] = at[j] /\ to[n + 1] = at[n] + Extent(c)
        BY <1>7, <2>1
    <3>. QED
        BY <1>5, <3>1, <3>2
  <2>2. CASE j = n + 1
    BY <1>5, <1>6, <1>7, <2>2
  <2>. QED
    BY <2>1, <2>2
<1>14. ASSUME NEW j \in 1..(n + 1), NEW i \in 1..Len(all),
              to[j - 1] < i, i <= to[j]
       PROVE  all[i] = ItemOf(ch2[j], i - to[j - 1])
  <2>1. CASE j \in 1..n
    <3>1. to[j] = at[j] /\ to[j - 1] = at[j - 1] /\ ch2[j] = ch[j]
        BY SMTT(30), <1>7, <1>10, <2>1
    <3>2. at[j] <= at[n] /\ at[j] \in Int /\ at[n] \in Int
        BY <1>6, <2>1 DEF Laid
    <3>3. i \in 1..at[n] /\ i \in 1..Len(items)
        BY <1>6, <1>14, <3>1, <3>2
    <3>4. items[i] = ItemOf(ch[j], i - at[j - 1])
        BY <1>14, <2>1, <3>1, <3>3 DEF Laid
    <3>. QED
        BY <1>11, <3>1, <3>3, <3>4
  <2>2. CASE j = n + 1
    <3>1. j - 1 = n /\ to[j - 1] = at[n] /\ ch2[j] = c
        BY <1>7, <1>10, <2>2
    <3>2. i \in Int /\ at[n] \in Nat
        BY <1>6
    <3>3. at[n] < i /\ i <= at[n] + Extent(c)
        BY <1>5, <1>7, <1>14, <2>2, <3>1
    <3>4. i - at[n] \in 1..Extent(c) /\ i = at[n] + (i - at[n])
        BY <1>5, <3>2, <3>3
    <3>. QED
        BY <1>11, <3>1, <3>4
  <2>. QED
    BY <2>1, <2>2
<1>15. Laid(all, TRUE, fs2, ch2, to)
    BY <1>7, <1>8, <1>10, <1>11, <1>12, <1>13, <1>14 DEF Laid
<1>. QED
    BY <1>1, <1>2, <1>3, <1>4, <1>15

LEMMA StreamBegins ==
    ASSUME NEW cl, NEW gv, NEW gt
    PROVE  StreamOf(<<>>, TRUE, <<>>, 0, "idle", cl, gv, gt)
<1>1. PICK at : at = [j \in Nat |-> 0]
    OBVIOUS
<1>2. at \in [Nat -> Int] /\ at[0] = 0
    BY <1>1
<1>3. <<>> \in Seq(Chunk) /\ Len(<<>>) = 0
    OBVIOUS
<1>4. Laid(<<>>, TRUE, <<>>, <<>>, at)
  <2>1. \A j \in 0..0 : at[j] <= at[0]
    BY <1>2
  <2>. QED
    BY <1>2, <1>3, <2>1 DEF Laid
<1>5. ReaderAt(<<>>, <<>>, at, 0, "idle", cl, gv, gt)
    BY <1>2, <1>3 DEF ReaderAt
<1>. QED
    BY <1>2, <1>3, <1>4, <1>5 DEF StreamOf

LEMMA StreamWritten ==
    ASSUME NEW items \in Seq(Item), NEW fs \in Seq(Meanings), NEW k,
           NEW ph, NEW cl, NEW gv, NEW gt, NEW c \in Chunk,
           StreamOf(items, TRUE, fs, k, ph, cl, gv, gt)
    PROVE  StreamOf(Written(items, c), TRUE, Append(fs, Means(c)),
                    k, ph, cl, gv, gt)
<1>1. PICK ch \in Seq(Chunk), at \in [Nat -> Int] :
        Laid(items, TRUE, fs, ch, at) /\ ReaderAt(fs, ch, at, k, ph, cl, gv, gt)
    BY DEF StreamOf
<1>2. PICK n \in Nat : n = Len(fs)
    BY LenProperties
<1>3. Extent(c) \in Nat
    BY ChunkFacts
<1>4. PICK fs2 : fs2 = Append(fs, Means(c))
    OBVIOUS
<1>5. PICK ch2 : ch2 = Append(ch, c)
    OBVIOUS
<1>6. PICK to : to = [at EXCEPT ![n + 1] = at[n] + Extent(c)]
    OBVIOUS
<1>7. Laid(Written(items, c), TRUE, fs2, ch2, to)
    BY <1>1, <1>2, <1>4, <1>5, <1>6, LaidWrite
<1>8. ch2 \in Seq(Chunk) /\ to \in [Nat -> Int]
    BY <1>7 DEF Laid
<1>9. k \in 0..n /\ k \in Nat
    BY <1>1, <1>2 DEF ReaderAt
<1>10. to[k] = at[k]
    BY <1>6, <1>9
<1>11. Len(fs2) = n + 1
    BY <1>2, <1>4, AppendProperties
<1>12. Len(ch) = n
    BY <1>1, <1>2 DEF Laid
<1>13. ch2[n + 1] = c /\ \A j \in 1..n : ch2[j] = ch[j]
    BY <1>5, <1>12, AppendProperties
<1>14. k \in 0..(n + 1) /\ k < n + 1
    BY <1>9
<1>15. CASE k < n
  <2>1. ch2[k + 1] = ch[k + 1]
    BY <1>9, <1>13, <1>15
  <2>2. k # n /\ k # n + 1
    BY <1>9, <1>15
  <2>3. ReaderAt(fs2, ch2, to, k, ph, cl, gv, gt)
    BY <1>1, <1>2, <1>10, <1>11, <1>14, <1>15, <2>1, <2>2 DEF ReaderAt
  <2>. QED
    BY <1>4, <1>7, <1>8, <2>3 DEF StreamOf
<1>16. CASE k = n
  <2>1. ch2[k + 1] = c /\ Len(c.lines) \in Nat
    BY <1>13, <1>16, ChunkFacts
  <2>2. ph \in {"idle", "headers"} /\ (ph = "idle" => at[k] = 0)
    BY <1>1, <1>2, <1>9, <1>16 DEF ReaderAt
  <2>3. ph = "headers" => at[k] = 0 /\ cl = -1 /\ gv = FALSE /\ gt = Vardict
    BY <1>1, <1>2, <1>16 DEF ReaderAt
  <2>4. ph = "headers" => After(cl, gv, gt, c.lines, 0)
    BY <2>3, NoLineRead
  <2>5. k # n + 1 /\ 0 - 0 = 0 /\ 0 <= Len(c.lines)
    BY <1>9, <1>16, <2>1
  <2>6. ReaderAt(fs2, ch2, to, k, ph, cl, gv, gt)
    BY <1>10, <1>11, <1>14, <2>1, <2>2, <2>3, <2>4, <2>5 DEF ReaderAt
  <2>. QED
    BY <1>4, <1>7, <1>8, <2>6 DEF StreamOf
<1>17. k < n \/ k = n
    BY <1>9
<1>. QED
    BY <1>15, <1>16, <1>17, Zenon

LEMMA StreamCut ==
    ASSUME NEW items \in Seq(Item), NEW open, NEW fs \in Seq(Meanings), NEW k,
           NEW ph, NEW cl, NEW gv, NEW gt,
           StreamOf(items, open, fs, k, ph, cl, gv, gt),
           NEW n \in 0..Len(items)
    PROVE  StreamOf(SubSeq(items, 1, n), FALSE, fs, k, ph, cl, gv, gt)
  BY LaidCut DEF StreamOf

LEMMA StreamFresh ==
    ASSUME NEW items \in Seq(Item), NEW open, NEW fs \in Seq(Meanings), NEW k,
           NEW cl, NEW gv, NEW gt,
           StreamOf(items, open, fs, k, "idle", cl, gv, gt),
           NEW cl2, cl2 = -1, NEW gv2, gv2 = FALSE, NEW gt2, gt2 = Vardict
    PROVE  StreamOf(items, open, fs, k, "headers", cl2, gv2, gt2)
<1>1. PICK ch \in Seq(Chunk), at \in [Nat -> Int] :
        /\ Laid(items, open, fs, ch, at)
        /\ ReaderAt(fs, ch, at, k, "idle", cl, gv, gt)
    BY DEF StreamOf
<1>2. k \in 0..Len(fs) /\ at[k] = 0
    BY <1>1 DEF ReaderAt
<1>3. k < Len(fs) => Len(ch[k + 1].lines) \in Nat
  <2>. SUFFICES ASSUME k < Len(fs) PROVE Len(ch[k + 1].lines) \in Nat
    OBVIOUS
  <2>1. k + 1 \in 1..Len(ch)
    BY <1>1, <1>2, LenProperties DEF Laid
  <2>. QED
    BY <2>1, ElementOfSeq, ChunkFacts
<1>4. ReaderAt(fs, ch, at, k, "headers", cl2, gv2, gt2)
  <2>1. PICK p : p = 0 - at[k]
    OBVIOUS
  <2>2. p = 0 /\ at[k] <= 0
    BY <1>2, <2>1
  <2>3. k < Len(fs) => After(cl2, gv2, gt2, ch[k + 1].lines, p)
    BY <2>2, NoLineRead
  <2>. QED
    BY <1>2, <1>3, <2>1, <2>2, <2>3 DEF ReaderAt
<1>. QED
    BY <1>1, <1>4 DEF StreamOf

\* The next item is the one after the first p lines of the write c.
NextIs(items, fs, ch, at, k, cl, gv, gt, c, p) ==
    /\ k \in 0..Len(fs) /\ k + 1 \in 1..Len(fs)
    /\ c = ch[k + 1] /\ p = 0 - at[k]
    /\ p \in 0..Len(c.lines)
    /\ After(cl, gv, gt, c.lines, p)
    /\ fs[k + 1] = Means(c)
    /\ items[1] = ItemOf(c, p + 1)

\* What a reader in the lines of a message finds next.
LEMMA LineComes ==
    ASSUME NEW items \in Seq(Item), NEW open, NEW fs \in Seq(Meanings),
           NEW ch, NEW at, Laid(items, open, fs, ch, at),
           NEW k, NEW cl, NEW gv, NEW gt,
           ReaderAt(fs, ch, at, k, "headers", cl, gv, gt), Len(items) > 0
    PROVE  \E c \in Chunk, p \in Nat :
              NextIs(items, fs, ch, at, k, cl, gv, gt, c, p)
<1>. PICK c, p : c = ch[k + 1] /\ p = 0 - at[k]
    OBVIOUS
<1>1. Len(items) \in Nat /\ Len(fs) \in Nat
    BY LenProperties
<1>2. k \in 0..Len(fs) /\ k \in Nat
    BY <1>1 DEF ReaderAt
<1>3. at \in [Nat -> Int] /\ at[k] \in Int /\ at[k] <= 0
    BY <1>2 DEF Laid, ReaderAt
<1>4. k # Len(fs)
    BY <1>1, <1>3 DEF Laid
<1>5. k < Len(fs) /\ k + 1 \in 1..Len(fs) /\ (k + 1) - 1 = k
    BY <1>1, <1>2, <1>4
<1>6. c \in Chunk
    BY <1>5, ElementOfSeq DEF Laid
<1>7. p \in Int /\ p <= Len(c.lines) /\ After(cl, gv, gt, c.lines, p)
    BY <1>3, <1>5 DEF ReaderAt
<1>8. p \in 0..Len(c.lines)
    BY <1>3, <1>6, <1>7, ChunkFacts
<1>9. fs[k + 1] = Means(c) /\ at[k + 1] = at[k] + Extent(c)
    BY <1>5 DEF Laid
<1>10. 1 \in 1..Len(items) /\ at[k] < 1 /\ 1 <= at[k + 1]
  <2>1. PICK e \in Nat, l \in Nat, x \in Int :
          e = Extent(c) /\ l = Len(c.lines) /\ x = at[k]
    BY <1>3, <1>6, ChunkFacts
  <2>2. e >= l + 1
    <3>1. PICK s \in Nat : s = SizeOf(c.lines)
        BY <1>6, ChunkFacts
    <3>2. e = l + 1 + s
        BY <2>1, <3>1 DEF Extent
    <3>. QED
        BY <3>2
  <2>3. x <= 0 /\ 0 - x <= l /\ at[k + 1] = x + e
    BY <1>3, <1>7, <1>9, <2>1
  <2>4. x < 1 /\ 1 <= x + e
    BY <2>2, <2>3
  <2>. QED
    BY <1>1, <2>1, <2>3, <2>4
<1>11. items[1] = ItemOf(c, 1 - at[k])
    BY <1>5, <1>10 DEF Laid
<1>12. 1 - at[k] = p + 1
    BY <1>3
<1>. QED
    BY <1>2, <1>5, <1>6, <1>7, <1>8, <1>9, <1>11, <1>12 DEF NextIs

\* read_headers_cb with a line that is not empty: it belongs to the next
\* message, is refused only if that one is invalid, and the reader goes on.
LEMMA StreamLine ==
    ASSUME NEW items \in Seq(Item), NEW open, NEW fs \in Seq(Meanings), NEW k,
           NEW cl, NEW gv, NEW gt,
           StreamOf(items, open, fs, k, "headers", cl, gv, gt),
           NEW n \in Nat, n = Len(items), n > 0, items[1] # EmptyLine,
           NEW h, h = items[1]
    PROVE  /\ h \in HeaderLine
           /\ ~LineOk(h) => k + 1 \in 1..Len(fs) /\ fs[k + 1].as = "invalid"
           /\ LineOk(h) =>
                \A cl2, gv2, gt2 :
                   \/ /\ h.kind = "length"
                      /\ cl2 = h.value /\ gv2 = gv /\ gt2 = gt
                   \/ /\ h.kind = "content-type"
                      /\ cl2 = cl /\ gv2 = TRUE /\ gt2 = gt
                   \/ /\ h.kind = "type"
                      /\ cl2 = cl /\ gv2 = gv /\ gt2 = h.value
                   \/ /\ h.kind = "other"
                      /\ cl2 = cl /\ gv2 = gv /\ gt2 = gt
                   => StreamOf(SubSeq(items, 2, n), open, fs, k, "headers",
                               cl2, gv2, gt2)
<1>1. PICK ch \in Seq(Chunk), at \in [Nat -> Int] :
        /\ Laid(items, open, fs, ch, at)
        /\ ReaderAt(fs, ch, at, k, "headers", cl, gv, gt)
    BY DEF StreamOf
<1>2. PICK c \in Chunk, p \in Nat :
        NextIs(items, fs, ch, at, k, cl, gv, gt, c, p)
  <2>1. Len(items) > 0
    OBVIOUS
  <2>. QED
    BY <1>1, <2>1, LineComes
<1>3. /\ c \in Chunk /\ k \in 0..Len(fs) /\ k + 1 \in 1..Len(fs)
      /\ p \in 0..Len(c.lines)
      /\ After(cl, gv, gt, c.lines, p)
      /\ fs[k + 1] = Means(c)
      /\ h = ItemOf(c, p + 1)
      /\ c = ch[k + 1] /\ p = 0 - at[k]
    BY <1>2 DEF NextIs
<1>4. c.lines \in Seq(HeaderLine) /\ Len(c.lines) \in Nat
    BY <1>3, ChunkFacts
<1>5. p # Len(c.lines)
  <2>1. SUFFICES ASSUME p = Len(c.lines) PROVE FALSE
    OBVIOUS
  <2>2. ~(p + 1 <= Len(c.lines)) /\ p + 1 = Len(c.lines) + 1
    BY <1>4, <2>1
  <2>. QED
    BY <1>3, <2>2 DEF ItemOf
<1>6. p \in Nat /\ p < Len(c.lines) /\ p + 1 \in 1..Len(c.lines)
  <2>1. PICK l \in Nat : l = Len(c.lines)
    BY <1>4
  <2>2. p <= l /\ p # l
    BY <1>3, <1>5, <2>1
  <2>3. p < l /\ p + 1 \in 1..l
    BY <2>2
  <2>. QED
    BY <2>1, <2>3
<1>7. h = c.lines[p + 1]
    BY <1>3, <1>4, <1>6 DEF ItemOf
<1>8. h \in HeaderLine
    BY <1>4, <1>6, <1>7, ElementOfSeq
<1>9. ASSUME ~LineOk(h) PROVE fs[k + 1].as = "invalid"
  <2>1. \A parses : Meaning(c.lines, parses) = "invalid"
    BY <1>4, <1>6, <1>7, <1>9, BadLineIsInvalid
  <2>. QED
    BY <1>3, <2>1 DEF Means, Message
<1>10. ASSUME LineOk(h), NEW cl2, NEW gv2, NEW gt2,
              \/ /\ h.kind = "length"
                 /\ cl2 = h.value /\ gv2 = gv /\ gt2 = gt
              \/ /\ h.kind = "content-type"
                 /\ cl2 = cl /\ gv2 = TRUE /\ gt2 = gt
              \/ /\ h.kind = "type"
                 /\ cl2 = cl /\ gv2 = gv /\ gt2 = h.value
              \/ /\ h.kind = "other"
                 /\ cl2 = cl /\ gv2 = gv /\ gt2 = gt
       PROVE  StreamOf(SubSeq(items, 2, n), open, fs, k, "headers",
                       cl2, gv2, gt2)
  <2>1. PICK q : q = p + 1
    OBVIOUS
  <2>2. After(cl2, gv2, gt2, c.lines, q)
    <3>1. /\ h.kind = "length" => After(h.value, gv, gt, c.lines, q)
          /\ h.kind = "content-type" => After(cl, TRUE, gt, c.lines, q)
          /\ h.kind = "type" => After(cl, gv, h.value, c.lines, q)
          /\ h.kind = "other" => After(cl, gv, gt, c.lines, q)
        BY <1>3, <1>4, <1>6, <1>7, <1>10, <2>1, OneLineMore
    <3>2. CASE h.kind = "content-type" /\ cl2 = cl /\ gv2 = TRUE /\ gt2 = gt
        BY <3>1, <3>2
    <3>. QED
        BY <1>10, <3>1, <3>2
  <2>3. PICK to : to = [j \in Nat |-> at[j] - 1]
    OBVIOUS
  <2>4. Laid(SubSeq(items, 2, n), open, fs, ch, to)
    <3>1. 1 \in 0..Len(items) /\ 1 + 1 = 2
        OBVIOUS
    <3>. QED
        BY <1>1, <2>3, <3>1, LaidShift
  <2>5. k \in Nat /\ at[k] \in Int /\ k < Len(fs)
    BY <1>3, LenProperties
  <2>6. to[k] = at[k] - 1
    BY <2>3, <2>5
  <2>7. to[k] <= 0 /\ 0 - to[k] = q /\ q <= Len(c.lines)
    <3>1. PICK x \in Int : x = at[k]
        BY <2>5
    <3>2. p = 0 - x /\ to[k] = x - 1 /\ p >= 0
        BY <1>3, <1>6, <2>6, <3>1
    <3>3. x - 1 <= 0 /\ 0 - (x - 1) = p + 1
        BY <3>2
    <3>. QED
        BY <1>4, <1>6, <2>1, <3>2, <3>3
  <2>8. ReaderAt(fs, ch, to, k, "headers", cl2, gv2, gt2)
    <3>1. k # Len(fs) /\ k \in 0..Len(fs)
        BY <1>3, <2>5, LenProperties
    <3>. QED
        BY <1>3, <2>2, <2>7, <3>1 DEF ReaderAt
  <2>. QED
    BY <2>4, <2>8 DEF StreamOf, Laid
<1>. QED
    BY <1>3, <1>8, <1>9, <1>10

LEMMA LineIsNotEmpty ==
    ASSUME NEW h \in HeaderLine
    PROVE  h # EmptyLine
  BY DEF HeaderLine, EmptyLine

\* read_headers_cb with the empty line: it is refused only if the message is
\* invalid, and the body comes next.
LEMMA StreamEmptyLine ==
    ASSUME NEW items \in Seq(Item), NEW open, NEW fs \in Seq(Meanings), NEW k,
           NEW cl, NEW gv, NEW gt,
           StreamOf(items, open, fs, k, "headers", cl, gv, gt),
           NEW n \in Nat, n = Len(items), n > 0, items[1] = EmptyLine
    PROVE  /\ cl > 0 => StreamOf(SubSeq(items, 2, n), open, fs, k, "body",
                                 cl, gv, gt)
           /\ ~(cl > 0) => k + 1 \in 1..Len(fs) /\ fs[k + 1].as = "invalid"
<1>1. PICK ch \in Seq(Chunk), at \in [Nat -> Int] :
        /\ Laid(items, open, fs, ch, at)
        /\ ReaderAt(fs, ch, at, k, "headers", cl, gv, gt)
    BY DEF StreamOf
<1>2. PICK c \in Chunk, p \in Nat :
        NextIs(items, fs, ch, at, k, cl, gv, gt, c, p)
  <2>1. Len(items) > 0
    OBVIOUS
  <2>. QED
    BY <1>1, <2>1, LineComes
<1>3. /\ c \in Chunk /\ k \in 0..Len(fs) /\ k + 1 \in 1..Len(fs)
      /\ p \in 0..Len(c.lines)
      /\ After(cl, gv, gt, c.lines, p)
      /\ fs[k + 1] = Means(c)
      /\ EmptyLine = ItemOf(c, p + 1)
      /\ c = ch[k + 1] /\ p = 0 - at[k]
    BY <1>2 DEF NextIs
<1>4. c.lines \in Seq(HeaderLine)
    BY <1>3, ChunkFacts
<1>5. PICK l \in Nat : l = Len(c.lines)
    BY <1>3, ChunkFacts
<1>6. p = l
  <2>1. p <= l
    BY <1>3, <1>5
  <2>2. CASE p < l
    <3>1. p + 1 \in 1..l /\ p + 1 <= l
        BY <2>2
    <3>2. ItemOf(c, p + 1) = c.lines[p + 1]
        BY <1>5, <3>1 DEF ItemOf
    <3>3. c.lines[p + 1] \in HeaderLine
        BY <1>4, <1>5, <3>1, ElementOfSeq
    <3>. QED
        BY <1>3, <3>2, <3>3, LineIsNotEmpty
  <2>. QED
    BY <2>1, <2>2
<1>7. After(cl, gv, gt, c.lines, Len(c.lines))
    BY <1>3, <1>5, <1>6
<1>8. ASSUME ~(cl > 0) PROVE fs[k + 1].as = "invalid"
  <2>1. \A parses : Meaning(c.lines, parses) = "invalid"
    BY <1>4, <1>7, <1>8, NoLengthIsInvalid
  <2>. QED
    BY <1>3, <2>1 DEF Means, Message
<1>9. ASSUME cl > 0
      PROVE  StreamOf(SubSeq(items, 2, n), open, fs, k, "body", cl, gv, gt)
  <2>1. PICK to : to = [j \in Nat |-> at[j] - 1]
    OBVIOUS
  <2>2. Laid(SubSeq(items, 2, n), open, fs, ch, to)
    <3>1. 1 \in 0..Len(items) /\ 1 + 1 = 2
        OBVIOUS
    <3>. QED
        BY <1>1, <2>1, <3>1, LaidShift
  <2>3. k \in Nat /\ at[k] \in Int /\ k < Len(fs) /\ k \in 0..Len(fs)
    BY <1>3, LenProperties
  <2>4. to[k] = at[k] - 1
    BY <2>1, <2>3
  <2>5. to[k] = 0 - (Len(c.lines) + 1)
    <3>1. PICK x \in Int : x = at[k]
        BY <2>3
    <3>2. l = 0 - x /\ to[k] = x - 1
        BY <1>3, <1>6, <2>4, <3>1
    <3>3. x - 1 = 0 - (l + 1)
        BY <3>2
    <3>. QED
        BY <1>5, <3>2, <3>3
  <2>6. ReaderAt(fs, ch, to, k, "body", cl, gv, gt)
    BY <1>3, <1>7, <1>9, <2>3, <2>5 DEF ReaderAt
  <2>. QED
    BY <2>2, <2>6 DEF StreamOf, Laid
<1>. QED
    BY <1>3, <1>8, <1>9

\* The body is one of bytes b, and the next message is made of it.
BodyIs(items, open, fs, k, cl, gv, gt, n, b) ==
    /\ 1 \in 1..cl
    /\ \A i \in 1..cl : items[i] = Byte(b)
    /\ k + 1 \in 1..Len(fs)
    /\ gv \/ b # Unparsable =>
         /\ fs[k + 1] = Message(b, IF gv THEN gt ELSE "json")
         /\ \A cl2, gv2, gt2 :
              StreamOf(SubSeq(items, cl + 1, n), open, fs, k + 1,
                       "idle", cl2, gv2, gt2)
    /\ ~gv /\ b = Unparsable => fs[k + 1].as = "invalid"

\* read_body_cb with a whole body: it is that of the next message, as it was
\* encoded, and refused only if that one is invalid.
LEMMA StreamBody ==
    ASSUME NEW items \in Seq(Item), NEW open, NEW fs \in Seq(Meanings), NEW k,
           NEW cl \in Nat, NEW gv, NEW gt,
           StreamOf(items, open, fs, k, "body", cl, gv, gt),
           NEW n \in Nat, n = Len(items), cl <= n
    PROVE  \E b \in Int : BodyIs(items, open, fs, k, cl, gv, gt, n, b)
<1>1. PICK ch \in Seq(Chunk), at \in [Nat -> Int] :
        /\ Laid(items, open, fs, ch, at)
        /\ ReaderAt(fs, ch, at, k, "body", cl, gv, gt)
    BY DEF StreamOf
<1>2. PICK c : c = ch[k + 1]
    OBVIOUS
<1>3. PICK m \in Nat : m = Len(fs)
    BY LenProperties
<1>4. k \in 0..m /\ k < m
    BY <1>1, <1>3 DEF ReaderAt
<1>5. k \in Nat /\ k + 1 \in 1..m /\ (k + 1) - 1 = k /\ k + 1 \in Nat
    BY <1>4
<1>6. /\ at[k] = 0 - (Len(c.lines) + 1) /\ cl > 0
      /\ After(cl, gv, gt, c.lines, Len(c.lines))
    BY <1>1, <1>2 DEF ReaderAt
<1>7. c \in Chunk
    BY <1>1, <1>2, <1>3, <1>5, ElementOfSeq DEF Laid
<1>8. c.lines \in Seq(HeaderLine) /\ c.byte \in Int
    BY <1>7, ChunkFacts
<1>9. PICK l \in Nat : l = Len(c.lines)
    BY <1>7, ChunkFacts
<1>10. /\ SizeOf(c.lines) = cl
       /\ Meaning(c.lines, TRUE) = IF gv THEN gt ELSE "json"
       /\ Meaning(c.lines, FALSE) = IF gv THEN gt ELSE "invalid"
    BY <1>6, <1>8, AllLinesRead
<1>11. Extent(c) = l + 1 + cl
    BY <1>9, <1>10 DEF Extent
<1>12. at[k + 1] = cl /\ fs[k + 1] = Means(c)
  <2>1. fs[k + 1] = Means(c) /\ at[k + 1] = at[k] + Extent(c)
    BY <1>1, <1>2, <1>3, <1>5 DEF Laid
  <2>2. (0 - (l + 1)) + (l + 1 + cl) = cl
    OBVIOUS
  <2>. QED
    BY <1>6, <1>9, <1>11, <2>1, <2>2
<1>13. ASSUME NEW i \in 1..cl PROVE items[i] = Byte(c.byte)
  <2>1. i \in Int /\ i >= 1 /\ i \in 1..Len(items) /\ i <= cl
    OBVIOUS
  <2>2. at[k] < i /\ i <= at[k + 1]
    BY <1>6, <1>9, <1>12, <2>1
  <2>3. items[i] = ItemOf(c, i - at[k])
    BY <1>1, <1>2, <1>3, <1>5, <2>1, <2>2 DEF Laid
  <2>4. i - at[k] = i + (l + 1)
    BY <1>6, <1>9, <2>1
  <2>5. ~(i + (l + 1) <= l) /\ i + (l + 1) # l + 1
    BY <2>1
  <2>. QED
    BY <1>9, <2>3, <2>4, <2>5 DEF ItemOf
<1>14. ASSUME gv \/ c.byte # Unparsable
       PROVE  fs[k + 1] = Message(c.byte, IF gv THEN gt ELSE "json")
  <2>1. CASE c.byte # Unparsable
    <3>1. Meaning(c.lines, c.byte # Unparsable) = IF gv THEN gt ELSE "json"
        BY <1>10, <2>1
    <3>. QED
        BY <1>12, <3>1 DEF Means
  <2>2. CASE c.byte = Unparsable /\ gv
    <3>1. Meaning(c.lines, c.byte # Unparsable) = gt
        BY <1>10, <2>2
    <3>. QED
        BY <1>12, <2>2, <3>1 DEF Means
  <2>. QED
    BY <1>14, <2>1, <2>2
<1>15. ASSUME ~gv, c.byte = Unparsable PROVE fs[k + 1].as = "invalid"
  <2>1. Meaning(c.lines, c.byte # Unparsable) = "invalid"
    BY <1>10, <1>15
  <2>. QED
    BY <1>12, <2>1 DEF Means, Message
<1>16. ASSUME NEW cl2, NEW gv2, NEW gt2
       PROVE  StreamOf(SubSeq(items, cl + 1, n), open, fs, k + 1,
                       "idle", cl2, gv2, gt2)
  <2>1. PICK to : to = [j \in Nat |-> at[j] - cl]
    OBVIOUS
  <2>2. Laid(SubSeq(items, cl + 1, n), open, fs, ch, to)
    <3>1. cl \in 0..Len(items)
        OBVIOUS
    <3>. QED
        BY <1>1, <2>1, <3>1, LaidShift
  <2>3. to[k + 1] = 0
    BY <1>5, <1>12, <2>1
  <2>4. PICK k2 : k2 = k + 1
    OBVIOUS
  <2>5. ReaderAt(fs, ch, to, k2, "idle", cl2, gv2, gt2)
    BY <1>3, <1>5, <2>3, <2>4 DEF ReaderAt
  <2>. QED
    BY <2>2, <2>4, <2>5 DEF StreamOf, Laid
<1>17. 1 \in 1..cl
    BY <1>6
<1>. QED
    BY <1>3, <1>5, <1>8, <1>13, <1>14, <1>15, <1>16, <1>17 DEF BodyIs

-----------------------------------------------------------------------------
(* The inductive invariant.                                                *)

Got == [msg : Int, as : Types \cup {"json"}]

TypeInv ==
    /\ useGvariant \in [Ends -> BOOLEAN]
    /\ wire \in [Ends -> Seq(Item)]
    /\ gone \subseteq Ends
    /\ frames \in [Ends -> Seq(Meanings)]
    /\ \A e \in Ends : Len(frames[e]) <= MaxMessages[e]
    /\ phase \in [Ends -> {"idle", "headers", "body", "failed"}]
    /\ contentLength \in [Ends -> (-1)..MaxSize]
    /\ gvariant \in [Ends -> BOOLEAN]
    /\ gvariantType \in [Ends -> Types]
    /\ hasSeenGvariant \in [Ends -> BOOLEAN]
    /\ received \in [Ends -> Seq(Got)]
    /\ choice \in [Ends -> {"none", "json", "gvariant"}]

\* The reader of e finds on its wire what its peer wrote after the messages
\* it got.
Stream(e) ==
    StreamOf(wire[Other(e)], Other(e) \notin gone, frames[Other(e)],
             Len(received[e]), phase[e],
             contentLength[e], gvariant[e], gvariantType[e])

StreamInv == \A e \in Ends : phase[e] # "failed" => Stream(e)

GotGvariant(e) == \E i \in 1..Len(received[e]) : received[e][i].as # "json"

\* has_seen_gvariant also counts a message that failed.
SeenInv ==
    \A e \in Ends :
        phase[e] # "failed" => (hasSeenGvariant[e] <=> GotGvariant(e))

\* A read fails only over a message that is invalid, or because one of the
\* ends closed; JsonrpcOutputStream writes nothing JsonrpcInputStream refuses.
FailsForAReason ==
    \A e \in Ends : phase[e] = "failed" =>
        \/ gone # {}
        \/ LET i == Len(received[e]) + 1 IN
           i <= Len(frames[Other(e)]) /\ frames[Other(e)][i].as = "invalid"

Inv ==
    /\ TypeInv
    /\ StreamInv
    /\ SeenInv
    /\ ReceivedIsSent
    /\ FailsForAReason
    /\ FollowsPeer

LEMMA OtherFacts ==
    ASSUME NEW e \in Ends
    PROVE  /\ Other(e) \in Ends /\ Other(e) # e /\ Other(Other(e)) = e
           /\ \A x \in Ends : x = e \/ x = Other(e)
<1>1. Other("a") = "b" /\ Other("b") = "a"
    BY DEF Other, Ends
<1>. QED
    BY <1>1 DEF Ends

LEMMA InitInv == Init => Inv
<1>. SUFFICES ASSUME Init PROVE Inv
    OBVIOUS
<1>1. TypeInv
  <2>1. <<>> \in Seq(Item) /\ <<>> \in Seq(Meanings) /\ <<>> \in Seq(Got)
    OBVIOUS
  <2>2. \A e \in Ends : Len(frames[e]) = 0 /\ MaxMessages[e] \in Nat
    BY MessagesAssumption DEF Init, Ends
  <2>3. Vardict \in Types /\ -1 \in (-1)..MaxSize
    BY SizeAssumption, VardictAssumption
  <2>. QED
    BY <2>1, <2>2, <2>3 DEF Init, TypeInv
<1>2. \A e \in Ends : Len(received[e]) = 0 /\ phase[e] = "idle"
    BY DEF Init
<1>3. StreamInv
  <2>. SUFFICES ASSUME NEW e \in Ends PROVE Stream(e)
    BY DEF StreamInv
  <2>1. /\ wire[Other(e)] = <<>> /\ frames[Other(e)] = <<>>
        /\ (Other(e) \notin gone) = TRUE
    BY OtherFacts DEF Init
  <2>. QED
    BY <1>2, <2>1, StreamBegins DEF Stream
<1>4. SeenInv
    BY <1>2 DEF SeenInv, GotGvariant, Init
<1>5. ReceivedIsSent
    BY <1>2 DEF ReceivedIsSent
<1>6. FailsForAReason
    BY <1>2 DEF FailsForAReason
<1>7. FollowsPeer
    BY <1>2 DEF FollowsPeer, Init
<1>. QED
    BY <1>1, <1>3, <1>4, <1>5, <1>6, <1>7 DEF Inv

-----------------------------------------------------------------------------
(* Writing.                                                                *)

\* JsonrpcOutputStream and another implementation write chunks.
WriteChunk(e, c) ==
    Write(e, c.lines, SizeOf(c.lines), Byte(c.byte), Means(c))

LEMMA MessageIsChunk ==
    ASSUME Inv, NEW e \in Ends, NEW size \in Sizes, NEW type \in Types,
           WriteMessage(e, size, type)
    PROVE  \E c \in Chunk : WriteChunk(e, c)
<1>1. PICK m \in Nat : m = Len(frames[e]) + 1
    BY LenProperties DEF Inv, TypeInv
<1>2. PICK use \in BOOLEAN : use = useGvariant[e]
    BY DEF Inv, TypeInv
<1>3. PICK lines : lines = Headers(size, type, use)
    OBVIOUS
<1>4. /\ lines \in Seq(HeaderLine)
      /\ SizeOf(lines) = size
      /\ Meaning(lines, TRUE) = IF use THEN type ELSE "json"
    BY <1>3, HeadersAreValid
<1>5. PICK c : c = [lines |-> lines, byte |-> m]
    OBVIOUS
<1>6. c \in Chunk /\ c.lines = lines /\ c.byte = m
    BY <1>1, <1>4, <1>5 DEF Chunk
<1>7. m # Unparsable
    BY <1>1, LenProperties DEF Inv, TypeInv, Unparsable
<1>8. Means(c) = Message(m, IF use THEN type ELSE "json")
    BY <1>4, <1>6, <1>7 DEF Means
<1>9. Write(e, lines, size, Byte(m), Message(m, IF use THEN type ELSE "json"))
    BY <1>1, <1>2, <1>3 DEF WriteMessage
<1>10. WriteChunk(e, c)
    BY <1>4, <1>6, <1>8, <1>9 DEF WriteChunk
<1>. QED
    BY <1>6, <1>10

LEMMA ForeignIsChunk ==
    ASSUME Inv, NEW e \in Ends, NEW lines \in ForeignHeaders[e],
           NEW parses \in BOOLEAN, WriteForeign(e, lines, parses)
    PROVE  \E c \in Chunk : WriteChunk(e, c)
<1>1. PICK m \in Nat : m = Len(frames[e]) + 1
    BY LenProperties DEF Inv, TypeInv
<1>2. lines \in Seq(HeaderLine)
    BY ForeignAssumption
<1>3. PICK b \in Int : b = IF parses THEN m ELSE Unparsable
    BY <1>1 DEF Unparsable
<1>4. PICK c : c = [lines |-> lines, byte |-> b]
    OBVIOUS
<1>5. c \in Chunk /\ c.lines = lines /\ c.byte = b
    BY <1>2, <1>4 DEF Chunk
<1>6. m # Unparsable
    BY <1>1, LenProperties DEF Inv, TypeInv, Unparsable
<1>7. (b # Unparsable) = parses
    BY <1>3, <1>6
<1>8. Means(c) = Message(b, Meaning(lines, parses))
    BY <1>5, <1>7 DEF Means
<1>9. Write(e, lines, SizeOf(lines), Byte(b), Message(b, Meaning(lines, parses)))
    BY <1>1, <1>3 DEF WriteForeign, SizeOf
<1>10. WriteChunk(e, c)
    BY <1>5, <1>8, <1>9 DEF WriteChunk
<1>. QED
    BY <1>5, <1>10

LEMMA WriteStep ==
    ASSUME Inv, NEW e \in Ends, NEW c \in Chunk, WriteChunk(e, c)
    PROVE  Inv'
<1>1. /\ e \notin gone
      /\ Len(frames[e]) < MaxMessages[e]
      /\ wire' = [wire EXCEPT ![e] = Written(@, c)]
      /\ frames' = [frames EXCEPT ![e] = Append(@, Means(c))]
      /\ UNCHANGED <<gone, phase, stateVars, modeVars, received>>
    BY DEF WriteChunk, Write, Written
<1>2. /\ UNCHANGED <<gone, phase, contentLength, gvariant, gvariantType>>
      /\ UNCHANGED <<received, useGvariant, hasSeenGvariant, choice>>
    BY <1>1 DEF stateVars, modeVars
<1>3. TypeInv
    BY DEF Inv
<1>4. /\ wire[e] \in Seq(Item) /\ frames[e] \in Seq(Meanings)
      /\ Means(c) \in Meanings
    BY <1>3 DEF TypeInv, Meanings
<1>5. /\ wire'[e] = Written(wire[e], c)
      /\ frames'[e] = Append(frames[e], Means(c))
      /\ \A x \in Ends : x # e => wire'[x] = wire[x] /\ frames'[x] = frames[x]
    BY <1>1, <1>3 DEF TypeInv
<1>6. /\ Len(frames'[e]) = Len(frames[e]) + 1
      /\ \A i \in 1..Len(frames[e]) : frames'[e][i] = frames[e][i]
    BY <1>4, <1>5, AppendProperties
<1>7. TypeInv'
  <2>1. Written(wire[e], c) \in Seq(Item)
    BY <1>4, WrittenFacts
  <2>2. wire' \in [Ends -> Seq(Item)]
    BY <1>1, <1>3, <2>1 DEF TypeInv
  <2>3. Append(frames[e], Means(c)) \in Seq(Meanings)
    BY <1>4, AppendProperties
  <2>4. frames' \in [Ends -> Seq(Meanings)]
    BY <1>1, <1>3, <2>3 DEF TypeInv
  <2>5. Len(frames[e]) + 1 <= MaxMessages[e]
    <3>1. Len(frames[e]) \in Nat /\ MaxMessages[e] \in Nat
        BY <1>4, LenProperties, MessagesAssumption DEF Ends
    <3>. QED
        BY <1>1, <3>1
  <2>6. \A x \in Ends : Len(frames'[x]) <= MaxMessages[x]
    BY <1>3, <1>5, <1>6, <2>5 DEF TypeInv
  <2>. QED
    BY <1>2, <1>3, <2>2, <2>4, <2>6 DEF TypeInv
<1>8. StreamInv'
  <2>. SUFFICES ASSUME NEW x \in Ends, phase'[x] # "failed" PROVE Stream(x)'
    BY DEF StreamInv
  <2>1. Stream(x)
    BY <1>2 DEF Inv, StreamInv
  <2>2. CASE Other(x) = e
    <3>1. StreamOf(wire[e], TRUE, frames[e], Len(received[x]), phase[x],
                   contentLength[x], gvariant[x], gvariantType[x])
      <4>1. (Other(x) \notin gone) = TRUE
        BY <1>1, <2>2
      <4>. QED
        BY <2>1, <2>2, <4>1 DEF Stream
    <3>2. StreamOf(Written(wire[e], c), TRUE, Append(frames[e], Means(c)),
                   Len(received[x]), phase[x],
                   contentLength[x], gvariant[x], gvariantType[x])
        BY <1>4, <3>1, StreamWritten
    <3>3. (Other(x) \notin gone') = TRUE
        BY <1>1, <1>2, <2>2
    <3>4. StreamOf(wire'[e], TRUE, frames'[e],
                   Len(received'[x]), phase'[x],
                   contentLength'[x], gvariant'[x], gvariantType'[x])
        BY <1>2, <1>5, <3>2
    <3>. QED
        BY <2>2, <3>3, <3>4 DEF Stream
  <2>3. CASE Other(x) # e
    <3>1. wire'[Other(x)] = wire[Other(x)] /\ frames'[Other(x)] = frames[Other(x)]
        BY <1>5, <2>3, OtherFacts
    <3>. QED
        BY <1>2, <2>1, <3>1 DEF Stream
  <2>. QED
    BY <2>2, <2>3
<1>9. SeenInv' /\ FollowsPeer'
    BY <1>2 DEF Inv, SeenInv, GotGvariant, FollowsPeer
<1>10. \A x \in Ends :
         /\ Len(frames[x]) \in Nat /\ Len(frames'[x]) \in Nat
         /\ Len(frames[x]) <= Len(frames'[x])
         /\ \A i \in 1..Len(frames[x]) : frames'[x][i] = frames[x][i]
  <2>. TAKE x \in Ends
  <2>1. Len(frames[x]) \in Nat
    BY <1>3, LenProperties DEF TypeInv
  <2>. QED
    BY <1>5, <1>6, <2>1
<1>11. ReceivedIsSent'
  <2>. SUFFICES ASSUME NEW x \in Ends, NEW i \in 1..Len(received[x])
                PROVE  /\ i <= Len(frames'[Other(x)])
                       /\ received[x][i] = frames'[Other(x)][i]
    BY <1>2 DEF ReceivedIsSent
  <2>1. i <= Len(frames[Other(x)]) /\ received[x][i] = frames[Other(x)][i]
    BY DEF Inv, ReceivedIsSent
  <2>2. i \in Nat /\ i >= 1 /\ Other(x) \in Ends
    BY OtherFacts, LenProperties
  <2>. QED
    BY <1>10, <2>1, <2>2
<1>12. FailsForAReason'
  <2>. SUFFICES ASSUME NEW x \in Ends, phase[x] = "failed", gone = {},
                       NEW i, i = Len(received[x]) + 1
                PROVE  /\ i <= Len(frames'[Other(x)])
                       /\ frames'[Other(x)][i].as = "invalid"
    BY <1>2 DEF FailsForAReason
  <2>1. i <= Len(frames[Other(x)]) /\ frames[Other(x)][i].as = "invalid"
    BY DEF Inv, FailsForAReason
  <2>2. i \in Nat /\ i >= 1 /\ Other(x) \in Ends
    BY <1>3, OtherFacts, LenProperties DEF TypeInv
  <2>. QED
    BY <1>10, <2>1, <2>2
<1>. QED
    BY <1>7, <1>8, <1>9, <1>11, <1>12 DEF Inv

\* The streams of the ends whose reading no step is about.
LEMMA StreamUnchanged ==
    ASSUME NEW x \in Ends,
           wire'[Other(x)] = wire[Other(x)],
           (Other(x) \notin gone') = (Other(x) \notin gone),
           frames'[Other(x)] = frames[Other(x)],
           received'[x] = received[x], phase'[x] = phase[x],
           contentLength'[x] = contentLength[x],
           gvariant'[x] = gvariant[x], gvariantType'[x] = gvariantType[x],
           Stream(x)
    PROVE  Stream(x)'
  BY DEF Stream

LEMMA VanishStep ==
    ASSUME Inv, NEW e \in Ends, Vanish(e)
    PROVE  Inv'
<1>1. PICK n \in 0..Len(wire[e]) :
        /\ gone' = gone \cup {e}
        /\ wire' = [wire EXCEPT ![e] = SubSeq(@, 1, n)]
        /\ UNCHANGED <<frames, phase, stateVars, modeVars, received>>
    BY DEF Vanish
<1>2. /\ UNCHANGED <<frames, phase, contentLength, gvariant, gvariantType>>
      /\ UNCHANGED <<received, useGvariant, hasSeenGvariant, choice>>
    BY <1>1 DEF stateVars, modeVars
<1>3. TypeInv /\ wire[e] \in Seq(Item)
    BY DEF Inv, TypeInv
<1>4. TypeInv'
  <2>1. SubSeq(wire[e], 1, n) \in Seq(Item)
    BY <1>3, LenProperties, SubSeqProperties
  <2>2. wire' \in [Ends -> Seq(Item)]
    BY <1>1, <1>3, <2>1 DEF TypeInv
  <2>3. gone' \subseteq Ends
    BY <1>1, <1>3 DEF TypeInv
  <2>. QED
    BY <1>2, <1>3, <2>2, <2>3 DEF TypeInv
<1>5. StreamInv'
  <2>. SUFFICES ASSUME NEW x \in Ends, phase'[x] # "failed" PROVE Stream(x)'
    BY DEF StreamInv
  <2>1. Stream(x)
    BY <1>2 DEF Inv, StreamInv
  <2>2. CASE Other(x) = e
    <3>1. wire'[e] = SubSeq(wire[e], 1, n) /\ (Other(x) \notin gone') = FALSE
        BY <1>1, <1>3, <2>2 DEF TypeInv
    <3>2. frames[e] \in Seq(Meanings)
        BY <1>3 DEF TypeInv
    <3>3. PICK open : open = (Other(x) \notin gone)
        OBVIOUS
    <3>4. StreamOf(wire[e], open, frames[e], Len(received[x]), phase[x],
                   contentLength[x], gvariant[x], gvariantType[x])
        BY <2>1, <2>2, <3>3 DEF Stream
    <3>5. StreamOf(SubSeq(wire[e], 1, n), FALSE, frames[e], Len(received[x]),
                   phase[x], contentLength[x], gvariant[x], gvariantType[x])
        BY <1>3, <3>2, <3>4, StreamCut
    <3>. QED
        BY <1>2, <2>2, <3>1, <3>5 DEF Stream
  <2>3. CASE Other(x) # e
    <3>1. wire'[Other(x)] = wire[Other(x)]
        BY <1>1, <1>3, <2>3, OtherFacts DEF TypeInv
    <3>2. (Other(x) \notin gone') = (Other(x) \notin gone)
        BY <1>1, <2>3
    <3>. QED
        BY <1>2, <2>1, <3>1, <3>2, StreamUnchanged
  <2>. QED
    BY <2>2, <2>3
<1>6. gone' # {}
    BY <1>1
<1>7. SeenInv' /\ FollowsPeer' /\ ReceivedIsSent' /\ FailsForAReason'
    BY <1>2, <1>6
    DEF Inv, SeenInv, GotGvariant, FollowsPeer, ReceivedIsSent, FailsForAReason
<1>. QED
    BY <1>4, <1>5, <1>7 DEF Inv

LEMMA SetUseGvariantStep ==
    ASSUME Inv, NEW e \in Ends, NEW use \in BOOLEAN, SetUseGvariant(e, use)
    PROVE  Inv'
<1>1. /\ useGvariant' = [useGvariant EXCEPT ![e] = use]
      /\ choice' = [choice EXCEPT ![e] = IF use THEN "gvariant" ELSE "json"]
      /\ UNCHANGED <<wire, gone, frames, phase, contentLength, gvariant>>
      /\ UNCHANGED <<gvariantType, hasSeenGvariant, received>>
    BY DEF SetUseGvariant, writeVars, stateVars
<1>2. TypeInv'
    BY <1>1 DEF Inv, TypeInv
<1>3. StreamInv'
    BY <1>1 DEF Inv, StreamInv, Stream
<1>4. SeenInv' /\ ReceivedIsSent' /\ FailsForAReason'
    BY <1>1 DEF Inv, SeenInv, GotGvariant, ReceivedIsSent, FailsForAReason
<1>5. FollowsPeer'
  <2>. SUFFICES ASSUME NEW x \in Ends
                PROVE  /\ GotGvariant(x) /\ choice'[x] # "json" => useGvariant'[x]
                       /\ ~GotGvariant(x) /\ choice'[x] # "gvariant"
                            => ~useGvariant'[x]
    BY <1>1 DEF FollowsPeer, GotGvariant
  <2>1. CASE x = e
    BY <1>1, <2>1 DEF Inv, TypeInv
  <2>2. CASE x # e
    <3>1. useGvariant'[x] = useGvariant[x] /\ choice'[x] = choice[x]
        BY <1>1, <2>2 DEF Inv, TypeInv
    <3>. QED
        BY <3>1 DEF Inv, FollowsPeer, GotGvariant
  <2>. QED
    BY <2>1, <2>2
<1>. QED
    BY <1>2, <1>3, <1>4, <1>5 DEF Inv

-----------------------------------------------------------------------------
(* Reading.  A step of the reader of e takes items from the wire of its    *)
(* peer; it goes on with the same message, fails, or delivers the message. *)

Takes(e) ==
    /\ wire' \in [Ends -> Seq(Item)]
    /\ wire'[e] = wire[e]
    /\ UNCHANGED <<gone, frames>>

LEMMA TakeFacts ==
    ASSUME TypeInv, NEW e \in Ends, NEW n \in 0..Len(Arrived(e)), Take(e, n),
           UNCHANGED <<gone, frames>>
    PROVE  /\ Takes(e)
           /\ wire'[Other(e)] = SubSeq(Arrived(e), n + 1, Len(Arrived(e)))
<1>1. /\ Other(e) \in Ends /\ Other(e) # e
      /\ Arrived(e) = wire[Other(e)] /\ Arrived(e) \in Seq(Item)
    BY OtherFacts DEF Arrived, TypeInv
<1>2. PICK rest : rest = SubSeq(Arrived(e), n + 1, Len(Arrived(e)))
    OBVIOUS
<1>3. rest \in Seq(Item)
    BY <1>1, <1>2, SuffixFacts
<1>4. wire' = [wire EXCEPT ![Other(e)] = rest]
    BY <1>1, <1>2 DEF Take
<1>. QED
    BY <1>1, <1>2, <1>3, <1>4 DEF Takes, TypeInv

\* The other end reads what this step leaves alone.
LEMMA OthersStream ==
    ASSUME Inv, NEW e \in Ends, Takes(e), NEW x \in Ends, x # e,
           phase'[x] # "failed",
           received'[x] = received[x], phase'[x] = phase[x],
           contentLength'[x] = contentLength[x],
           gvariant'[x] = gvariant[x], gvariantType'[x] = gvariantType[x]
    PROVE  Stream(x)'
<1>1. Other(x) = e
    BY OtherFacts
<1>2. Stream(x)
    BY DEF Inv, StreamInv
<1>. QED
    BY <1>1, <1>2, StreamUnchanged DEF Takes

LEMMA GoOnStep ==
    ASSUME Inv, NEW e \in Ends, Takes(e), UNCHANGED <<modeVars, received>>,
           phase' \in [Ends -> {"idle", "headers", "body", "failed"}],
           contentLength' \in [Ends -> (-1)..MaxSize],
           gvariant' \in [Ends -> BOOLEAN],
           gvariantType' \in [Ends -> Types],
           \A x \in Ends : x # e =>
              /\ phase'[x] = phase[x] /\ contentLength'[x] = contentLength[x]
              /\ gvariant'[x] = gvariant[x] /\ gvariantType'[x] = gvariantType[x],
           phase[e] # "failed", phase'[e] # "failed", Stream(e)'
    PROVE  Inv'
<1>1. UNCHANGED <<received, useGvariant, hasSeenGvariant, choice, gone, frames>>
    BY DEF Takes, modeVars
<1>2. TypeInv'
    BY <1>1 DEF Inv, TypeInv, Takes
<1>3. StreamInv'
  <2>. SUFFICES ASSUME NEW x \in Ends, phase'[x] # "failed" PROVE Stream(x)'
    BY DEF StreamInv
  <2>1. CASE x = e
    BY <2>1
  <2>2. CASE x # e
    BY <1>1, <2>2, OthersStream
  <2>. QED
    BY <2>1, <2>2
<1>4. \A x \in Ends : phase'[x] = "failed" <=> phase[x] = "failed"
    OBVIOUS
<1>5. SeenInv' /\ ReceivedIsSent' /\ FollowsPeer'
    BY <1>1, <1>4
    DEF Inv, SeenInv, GotGvariant, ReceivedIsSent, FollowsPeer
<1>6. FailsForAReason'
    BY <1>1, <1>4 DEF Inv, FailsForAReason
<1>. QED
    BY <1>2, <1>3, <1>5, <1>6 DEF Inv

LEMMA FailStep ==
    ASSUME Inv, NEW e \in Ends, Takes(e), ReadFails(e),
           \/ gone # {}
           \/ /\ Len(received[e]) + 1 \in 1..Len(frames[Other(e)])
              /\ frames[Other(e)][Len(received[e]) + 1].as = "invalid"
    PROVE  Inv'
<1>1. /\ phase' = [phase EXCEPT ![e] = "failed"]
      /\ hasSeenGvariant' = [hasSeenGvariant EXCEPT ![e] = @ \/ gvariant[e]]
      /\ UNCHANGED <<contentLength, gvariant, gvariantType>>
      /\ UNCHANGED <<useGvariant, choice, received, gone, frames>>
    BY DEF ReadFails, Takes, stateVars
<1>2. TypeInv'
  <2>1. hasSeenGvariant' \in [Ends -> BOOLEAN]
    BY <1>1 DEF Inv, TypeInv
  <2>2. phase' \in [Ends -> {"idle", "headers", "body", "failed"}]
    BY <1>1 DEF Inv, TypeInv
  <2>. QED
    BY <1>1, <2>1, <2>2 DEF Inv, TypeInv, Takes
<1>3. phase'[e] = "failed" /\ \A x \in Ends : x # e => phase'[x] = phase[x]
    BY <1>1 DEF Inv, TypeInv
<1>4. StreamInv'
  <2>. SUFFICES ASSUME NEW x \in Ends, phase'[x] # "failed" PROVE Stream(x)'
    BY DEF StreamInv
  <2>1. x # e
    BY <1>3
  <2>. QED
    BY <1>1, <1>3, <2>1, OthersStream
<1>5. SeenInv'
  <2>. SUFFICES ASSUME NEW x \in Ends, phase'[x] # "failed"
                PROVE  hasSeenGvariant'[x] <=> GotGvariant(x)
    BY <1>1 DEF SeenInv, GotGvariant
  <2>1. x # e /\ phase[x] # "failed"
    BY <1>3
  <2>2. hasSeenGvariant'[x] = hasSeenGvariant[x]
    BY <1>1, <2>1 DEF Inv, TypeInv
  <2>. QED
    BY <2>1, <2>2 DEF Inv, SeenInv
<1>6. ReceivedIsSent' /\ FollowsPeer'
    BY <1>1 DEF Inv, ReceivedIsSent, FollowsPeer
<1>7. FailsForAReason'
  <2>. SUFFICES ASSUME NEW x \in Ends, phase'[x] = "failed", gone = {}
                PROVE  /\ Len(received[x]) + 1 <= Len(frames[Other(x)])
                       /\ frames[Other(x)][Len(received[x]) + 1].as = "invalid"
    BY <1>1 DEF FailsForAReason
  <2>1. CASE x = e
    BY <2>1, LenProperties
  <2>2. CASE x # e
    BY <1>3, <2>2 DEF Inv, FailsForAReason
  <2>. QED
    BY <2>1, <2>2
<1>. QED
    BY <1>2, <1>4, <1>5, <1>6, <1>7 DEF Inv

LEMMA ReadMessageStep ==
    ASSUME Inv, NEW e \in Ends, ReadMessage(e)
    PROVE  Inv'
<1>1. /\ phase[e] = "idle"
      /\ phase' = [phase EXCEPT ![e] = "headers"]
      /\ contentLength' = [contentLength EXCEPT ![e] = -1]
      /\ gvariant' = [gvariant EXCEPT ![e] = FALSE]
      /\ gvariantType' = [gvariantType EXCEPT ![e] = Vardict]
      /\ UNCHANGED <<wire, gone, frames, modeVars, received>>
    BY DEF ReadMessage, FreshState, writeVars
<1>2. /\ phase'[e] = "headers" /\ contentLength'[e] = -1
      /\ gvariant'[e] = FALSE /\ gvariantType'[e] = Vardict
      /\ \A x \in Ends : x # e =>
            /\ phase'[x] = phase[x] /\ contentLength'[x] = contentLength[x]
            /\ gvariant'[x] = gvariant[x] /\ gvariantType'[x] = gvariantType[x]
    BY <1>1 DEF Inv, TypeInv
<1>3. Takes(e)
    BY <1>1 DEF Inv, TypeInv, Takes
<1>4. /\ phase' \in [Ends -> {"idle", "headers", "body", "failed"}]
      /\ contentLength' \in [Ends -> (-1)..MaxSize]
      /\ gvariant' \in [Ends -> BOOLEAN]
      /\ gvariantType' \in [Ends -> Types]
  <2>1. -1 \in (-1)..MaxSize /\ Vardict \in Types
    BY SizeAssumption, VardictAssumption
  <2>. QED
    BY <1>1, <2>1 DEF Inv, TypeInv
<1>5. Stream(e)'
  <2>1. wire[Other(e)] \in Seq(Item) /\ frames[Other(e)] \in Seq(Meanings)
    BY OtherFacts DEF Inv, TypeInv
  <2>2. PICK open : open = (Other(e) \notin gone)
    OBVIOUS
  <2>3. StreamOf(wire[Other(e)], open, frames[Other(e)], Len(received[e]),
                 "idle", contentLength[e], gvariant[e], gvariantType[e])
    BY <1>1, <2>2 DEF Inv, StreamInv, Stream
  <2>4. StreamOf(wire[Other(e)], open, frames[Other(e)], Len(received[e]),
                 "headers", contentLength'[e], gvariant'[e], gvariantType'[e])
    BY <1>2, <2>1, <2>3, StreamFresh
  <2>5. open = (Other(e) \notin gone')
    BY <1>1, <2>2
  <2>. QED
    BY <1>1, <1>2, <2>4, <2>5 DEF Stream
<1>6. phase[e] # "failed" /\ phase'[e] # "failed"
    BY <1>1, <1>2
<1>. QED
    BY <1>1, <1>2, <1>3, <1>4, <1>5, <1>6, GoOnStep

\* The stream that a reader in the lines of a message has before it.
LEMMA ArrivedFacts ==
    ASSUME Inv, NEW e \in Ends
    PROVE  /\ Arrived(e) \in Seq(Item) /\ Len(Arrived(e)) \in Nat
           /\ frames[Other(e)] \in Seq(Meanings)
           /\ phase[e] # "failed" =>
                StreamOf(Arrived(e), Other(e) \notin gone, frames[Other(e)],
                         Len(received[e]), phase[e],
                         contentLength[e], gvariant[e], gvariantType[e])
           /\ Arrived(e) # <<>> =>
                Len(Arrived(e)) > 0 /\ Head(Arrived(e)) = Arrived(e)[1]
<1>1. Arrived(e) \in Seq(Item) /\ frames[Other(e)] \in Seq(Meanings)
    BY OtherFacts DEF Inv, TypeInv, Arrived
<1>2. Arrived(e) # <<>> =>
        Len(Arrived(e)) > 0 /\ Head(Arrived(e)) = Arrived(e)[1]
    BY <1>1
<1>. QED
    BY <1>1, <1>2, LenProperties DEF Inv, StreamInv, Stream, Arrived

LEMMA ReadLineStep ==
    ASSUME Inv, NEW e \in Ends, ReadLine(e)
    PROVE  Inv'
<1>1. PICK items \in Seq(Item) : items = Arrived(e)
    BY ArrivedFacts
<1>2. PICK n \in Nat : n = Len(items)
    BY LenProperties
<1>3. PICK h : h = Head(Arrived(e))
    OBVIOUS
<1>4. /\ phase[e] = "headers" /\ n > 0 /\ h = items[1] /\ h # EmptyLine
      /\ Take(e, 1) /\ LineIsRead(e, h) /\ UNCHANGED <<gone, frames>>
    BY <1>1, <1>2, <1>3, ArrivedFacts DEF ReadLine
<1>5. PICK k : k = Len(received[e])
    OBVIOUS
<1>6. PICK fs \in Seq(Meanings) : fs = frames[Other(e)]
    BY ArrivedFacts
<1>7. PICK open : open = (Other(e) \notin gone)
    OBVIOUS
<1>8. PICK cl, gv, gt :
        cl = contentLength[e] /\ gv = gvariant[e] /\ gt = gvariantType[e]
    OBVIOUS
<1>9. StreamOf(items, open, fs, k, "headers", cl, gv, gt)
    BY <1>1, <1>4, <1>5, <1>6, <1>7, <1>8, ArrivedFacts
<1>10. /\ h \in HeaderLine
       /\ ~LineOk(h) => k + 1 \in 1..Len(fs) /\ fs[k + 1].as = "invalid"
       /\ LineOk(h) =>
            \A cl2, gv2, gt2 :
               \/ /\ h.kind = "length"
                  /\ cl2 = h.value /\ gv2 = gv /\ gt2 = gt
               \/ /\ h.kind = "content-type"
                  /\ cl2 = cl /\ gv2 = TRUE /\ gt2 = gt
               \/ /\ h.kind = "type"
                  /\ cl2 = cl /\ gv2 = gv /\ gt2 = h.value
               \/ /\ h.kind = "other"
                  /\ cl2 = cl /\ gv2 = gv /\ gt2 = gt
               => StreamOf(SubSeq(items, 2, n), open, fs, k, "headers",
                           cl2, gv2, gt2)
    BY <1>2, <1>4, <1>9, StreamLine
<1>11. Takes(e) /\ wire'[Other(e)] = SubSeq(items, 2, n)
  <2>1. 1 \in 0..Len(Arrived(e)) /\ 1 + 1 = 2
    BY <1>1, <1>2, <1>4
  <2>2. TypeInv
    BY DEF Inv
  <2>. QED
    BY <1>1, <1>2, <1>4, <2>1, <2>2, TakeFacts
<1>12. h.kind \in {"length", "content-type", "type", "other"}
    BY <1>10 DEF HeaderLine
<1>13. h.kind = "length" =>
          (LengthIsValid(h.value) <=> h.value \in 0..MaxSize)
  <2>. SUFFICES ASSUME h.kind = "length"
                PROVE  LengthIsValid(h.value) <=> h.value \in 0..MaxSize
    OBVIOUS
  <2>1. h.value \in Int
    BY <1>10 DEF HeaderLine
  <2>. QED
    BY <2>1, SizeAssumption DEF LengthIsValid
<1>14. CASE ReadFails(e) /\ ~LineOk(h)
  <2>1. /\ Len(received[e]) + 1 \in 1..Len(frames[Other(e)])
        /\ frames[Other(e)][Len(received[e]) + 1].as = "invalid"
    BY <1>5, <1>6, <1>10, <1>14
  <2>. QED
    BY <1>11, <1>14, <2>1, FailStep
<1>15. ASSUME LineOk(h), UNCHANGED <<phase, modeVars, received>>,
              contentLength' = [contentLength EXCEPT ![e] =
                                  IF h.kind = "length" THEN h.value ELSE @],
              gvariant' = [gvariant EXCEPT ![e] =
                                  IF h.kind = "content-type" THEN TRUE ELSE @],
              gvariantType' = [gvariantType EXCEPT ![e] =
                                  IF h.kind = "type" THEN h.value ELSE @]
       PROVE  Inv'
  <2>1. /\ contentLength'[e] = IF h.kind = "length" THEN h.value ELSE cl
        /\ gvariant'[e] = IF h.kind = "content-type" THEN TRUE ELSE gv
        /\ gvariantType'[e] = IF h.kind = "type" THEN h.value ELSE gt
    BY <1>8, <1>15 DEF Inv, TypeInv
  <2>2. \A x \in Ends : x # e =>
          /\ phase'[x] = phase[x] /\ contentLength'[x] = contentLength[x]
          /\ gvariant'[x] = gvariant[x] /\ gvariantType'[x] = gvariantType[x]
    BY <1>15 DEF Inv, TypeInv
  <2>3. contentLength' \in [Ends -> (-1)..MaxSize]
    <3>1. h.kind = "length" => h.value \in (-1)..MaxSize
        BY <1>15, SizeAssumption DEF LineOk
    <3>. QED
        BY <1>15, <3>1 DEF Inv, TypeInv
  <2>4. gvariant' \in [Ends -> BOOLEAN]
    BY <1>15 DEF Inv, TypeInv
  <2>5. gvariantType' \in [Ends -> Types]
    BY <1>15 DEF Inv, TypeInv, LineOk
  <2>6. PICK cl2, gv2, gt2 :
          /\ cl2 = contentLength'[e] /\ gv2 = gvariant'[e]
          /\ gt2 = gvariantType'[e]
    OBVIOUS
  <2>7. \/ /\ h.kind = "length"
           /\ cl2 = h.value /\ gv2 = gv /\ gt2 = gt
        \/ /\ h.kind = "content-type"
           /\ cl2 = cl /\ gv2 = TRUE /\ gt2 = gt
        \/ /\ h.kind = "type"
           /\ cl2 = cl /\ gv2 = gv /\ gt2 = h.value
        \/ /\ h.kind = "other"
           /\ cl2 = cl /\ gv2 = gv /\ gt2 = gt
    BY <1>12, <2>1, <2>6
  <2>8. StreamOf(SubSeq(items, 2, n), open, fs, k, "headers", cl2, gv2, gt2)
    BY <1>10, <1>15, <2>7
  <2>9. open = (Other(e) \notin gone') /\ fs = frames'[Other(e)]
    BY <1>4, <1>6, <1>7
  <2>10. k = Len(received'[e]) /\ phase'[e] = "headers"
    BY <1>4, <1>5, <1>15
  <2>11. Stream(e)'
    BY <1>11, <2>6, <2>8, <2>9, <2>10 DEF Stream
  <2>12. /\ phase[e] # "failed" /\ phase'[e] # "failed"
         /\ phase' \in [Ends -> {"idle", "headers", "body", "failed"}]
    BY <1>4, <1>15, <2>10 DEF Inv, TypeInv
  <2>. QED
    BY <1>11, <1>15, <2>2, <2>3, <2>4, <2>5, <2>11, <2>12, GoOnStep
<1>16. /\ [contentLength EXCEPT ![e] = contentLength[e]] = contentLength
       /\ [gvariant EXCEPT ![e] = gvariant[e]] = gvariant
       /\ [gvariantType EXCEPT ![e] = gvariantType[e]] = gvariantType
    BY DEF Inv, TypeInv
<1>17. CASE /\ h.kind = "length" /\ LengthIsValid(h.value)
            /\ contentLength' = [contentLength EXCEPT ![e] = h.value]
            /\ UNCHANGED <<phase, gvariant, gvariantType, modeVars, received>>
    BY <1>13, <1>15, <1>16, <1>17 DEF LineOk
<1>18. CASE /\ h.kind = "content-type"
            /\ gvariant' = [gvariant EXCEPT ![e] = TRUE]
            /\ UNCHANGED <<phase, contentLength, gvariantType, modeVars, received>>
    BY <1>15, <1>16, <1>18 DEF LineOk
<1>19. CASE /\ h.kind = "type" /\ h.value \in Types
            /\ gvariantType' = [gvariantType EXCEPT ![e] = h.value]
            /\ UNCHANGED <<phase, contentLength, gvariant, modeVars, received>>
    BY <1>15, <1>16, <1>19 DEF LineOk
<1>20. CASE /\ h.kind \notin {"length", "content-type", "type"}
            /\ UNCHANGED <<phase, stateVars, modeVars, received>>
    BY <1>15, <1>16, <1>20 DEF LineOk, stateVars
<1>21. CASE /\ \/ h.kind = "length" /\ ~LengthIsValid(h.value)
               \/ h.kind = "type" /\ h.value \notin Types
            /\ ReadFails(e)
  <2>1. ~LineOk(h)
    BY <1>13, <1>21 DEF LineOk
  <2>. QED
    BY <1>14, <1>21, <2>1
<1>. QED
    BY <1>4, <1>17, <1>18, <1>19, <1>20, <1>21 DEF LineIsRead

LEMMA ReadEmptyLineStep ==
    ASSUME Inv, NEW e \in Ends, ReadEmptyLine(e)
    PROVE  Inv'
<1>1. PICK items \in Seq(Item) : items = Arrived(e)
    BY ArrivedFacts
<1>2. PICK n \in Nat : n = Len(items)
    BY LenProperties
<1>3. /\ phase[e] = "headers" /\ n > 0 /\ items[1] = EmptyLine
      /\ Take(e, 1) /\ UNCHANGED <<gone, frames>>
    BY <1>1, <1>2, ArrivedFacts DEF ReadEmptyLine
<1>4. PICK k : k = Len(received[e])
    OBVIOUS
<1>5. PICK fs \in Seq(Meanings) : fs = frames[Other(e)]
    BY ArrivedFacts
<1>6. PICK open : open = (Other(e) \notin gone)
    OBVIOUS
<1>7. PICK cl, gv, gt :
        cl = contentLength[e] /\ gv = gvariant[e] /\ gt = gvariantType[e]
    OBVIOUS
<1>8. StreamOf(items, open, fs, k, "headers", cl, gv, gt)
    BY <1>1, <1>3, <1>4, <1>5, <1>6, <1>7, ArrivedFacts
<1>9. /\ cl > 0 => StreamOf(SubSeq(items, 2, n), open, fs, k, "body", cl, gv, gt)
      /\ ~(cl > 0) => k + 1 \in 1..Len(fs) /\ fs[k + 1].as = "invalid"
    BY <1>2, <1>3, <1>8, StreamEmptyLine
<1>10. Takes(e) /\ wire'[Other(e)] = SubSeq(items, 2, n)
  <2>1. 1 \in 0..Len(Arrived(e)) /\ 1 + 1 = 2
    BY <1>1, <1>2, <1>3
  <2>2. TypeInv
    BY DEF Inv
  <2>. QED
    BY <1>1, <1>2, <1>3, <2>1, <2>2, TakeFacts
<1>11. CASE ~HasBody(e) /\ ReadFails(e)
  <2>1. /\ Len(received[e]) + 1 \in 1..Len(frames[Other(e)])
        /\ frames[Other(e)][Len(received[e]) + 1].as = "invalid"
    BY <1>4, <1>5, <1>7, <1>9, <1>11 DEF HasBody
  <2>. QED
    BY <1>10, <1>11, <2>1, FailStep
<1>12. CASE /\ HasBody(e)
            /\ phase' = [phase EXCEPT ![e] = "body"]
            /\ UNCHANGED <<stateVars, modeVars, received>>
  <2>1. /\ phase'[e] = "body"
        /\ UNCHANGED <<contentLength, gvariant, gvariantType, modeVars, received>>
        /\ \A x \in Ends : x # e => phase'[x] = phase[x]
        /\ phase' \in [Ends -> {"idle", "headers", "body", "failed"}]
    BY <1>12 DEF Inv, TypeInv, stateVars
  <2>2. StreamOf(SubSeq(items, 2, n), open, fs, k, "body", cl, gv, gt)
    BY <1>7, <1>9, <1>12 DEF HasBody
  <2>3. open = (Other(e) \notin gone') /\ fs = frames'[Other(e)]
    BY <1>3, <1>5, <1>6
  <2>4. Stream(e)'
    BY <1>4, <1>7, <1>10, <2>1, <2>2, <2>3 DEF Stream
  <2>5. /\ contentLength' \in [Ends -> (-1)..MaxSize]
        /\ gvariant' \in [Ends -> BOOLEAN]
        /\ gvariantType' \in [Ends -> Types]
    BY <2>1 DEF Inv, TypeInv
  <2>6. phase[e] # "failed" /\ phase'[e] # "failed"
    BY <1>3, <2>1
  <2>. QED
    BY <1>10, <2>1, <2>4, <2>5, <2>6, GoOnStep
<1>. QED
    BY <1>11, <1>12 DEF ReadEmptyLine

LEMMA BodyHasLength ==
    ASSUME NEW items, NEW open, NEW fs, NEW k, NEW cl, NEW gv, NEW gt,
           StreamOf(items, open, fs, k, "body", cl, gv, gt)
    PROVE  cl > 0
  BY DEF StreamOf, ReaderAt

\* What call_read_cb does with a message.
DeliverStep(e, message) ==
    /\ phase' = [phase EXCEPT ![e] = "idle"]
    /\ hasSeenGvariant' = [hasSeenGvariant EXCEPT ![e] = @ \/ gvariant[e]]
    /\ received' = [received EXCEPT ![e] = Append(@, message)]
    /\ Upgrade(e)
    /\ UNCHANGED <<stateVars, choice>>

LEMMA DeliverInv ==
    ASSUME Inv, NEW e \in Ends, Takes(e), phase[e] # "failed",
           NEW message \in Got, DeliverStep(e, message),
           message.as # "json" <=> gvariant[e],
           NEW k \in Nat, k = Len(received[e]) + 1,
           k \in 1..Len(frames[Other(e)]), frames[Other(e)][k] = message,
           Stream(e)'
    PROVE  Inv'
<1>1. /\ phase' = [phase EXCEPT ![e] = "idle"]
      /\ hasSeenGvariant' = [hasSeenGvariant EXCEPT ![e] = @ \/ gvariant[e]]
      /\ received' = [received EXCEPT ![e] = Append(@, message)]
      /\ useGvariant' = [useGvariant EXCEPT ![e] = @ \/ hasSeenGvariant'[e]]
      /\ UNCHANGED <<contentLength, gvariant, gvariantType>>
      /\ UNCHANGED <<choice, gone, frames>>
    BY DEF DeliverStep, Upgrade, Takes, stateVars
<1>2. TypeInv
    BY DEF Inv
<1>3. received[e] \in Seq(Got)
    BY <1>2 DEF TypeInv
<1>4. /\ phase'[e] = "idle"
      /\ received'[e] = Append(received[e], message)
      /\ hasSeenGvariant'[e] = (hasSeenGvariant[e] \/ gvariant[e])
      /\ useGvariant'[e] = (useGvariant[e] \/ hasSeenGvariant'[e])
    BY <1>1, <1>2 DEF TypeInv
<1>5. \A x \in Ends : x # e =>
        /\ phase'[x] = phase[x] /\ received'[x] = received[x]
        /\ hasSeenGvariant'[x] = hasSeenGvariant[x]
        /\ useGvariant'[x] = useGvariant[x]
    BY <1>1, <1>2 DEF TypeInv
<1>6. /\ Append(received[e], message) \in Seq(Got)
      /\ Len(received'[e]) = k /\ received'[e][k] = message
      /\ \A i \in 1..(k - 1) : received'[e][i] = received[e][i]
      /\ k - 1 = Len(received[e])
    BY <1>3, <1>4, AppendProperties, LenProperties
<1>7. TypeInv'
  <2>1. received' \in [Ends -> Seq(Got)]
    BY <1>1, <1>2, <1>6 DEF TypeInv
  <2>2. phase' \in [Ends -> {"idle", "headers", "body", "failed"}]
    BY <1>1, <1>2 DEF TypeInv
  <2>3. hasSeenGvariant' \in [Ends -> BOOLEAN]
    BY <1>1, <1>2 DEF TypeInv
  <2>4. useGvariant' \in [Ends -> BOOLEAN]
    BY <1>1, <1>2, <2>3 DEF TypeInv
  <2>. QED
    BY <1>1, <1>2, <2>1, <2>2, <2>3, <2>4 DEF TypeInv, Takes
<1>8. StreamInv'
  <2>. SUFFICES ASSUME NEW x \in Ends, phase'[x] # "failed" PROVE Stream(x)'
    BY DEF StreamInv
  <2>1. CASE x = e
    BY <2>1
  <2>2. CASE x # e
    BY <1>1, <1>5, <2>2, OthersStream
  <2>. QED
    BY <2>1, <2>2
<1>9. GotGvariant(e)' <=> GotGvariant(e) \/ gvariant[e]
  <2>1. 1..k = (1..(k - 1)) \cup {k}
    BY <1>6, LenProperties
  <2>. QED
    BY <1>6, <2>1 DEF GotGvariant
<1>10. \A x \in Ends : x # e => (GotGvariant(x)' <=> GotGvariant(x))
    BY <1>5 DEF GotGvariant
<1>11. hasSeenGvariant'[e] <=> GotGvariant(e)'
  <2>1. hasSeenGvariant[e] <=> GotGvariant(e)
    BY DEF Inv, SeenInv
  <2>2. hasSeenGvariant'[e] <=> (hasSeenGvariant[e] \/ gvariant[e])
    BY <1>4
  <2>. QED
    BY <1>9, <2>1, <2>2
<1>12. SeenInv'
  <2>. SUFFICES ASSUME NEW x \in Ends, phase'[x] # "failed"
                PROVE  hasSeenGvariant'[x] <=> GotGvariant(x)'
    BY DEF SeenInv
  <2>1. CASE x = e
    BY <1>11, <2>1
  <2>2. CASE x # e
    BY <1>5, <1>10, <2>2 DEF Inv, SeenInv
  <2>. QED
    BY <2>1, <2>2
<1>13. ReceivedIsSent'
  <2>. SUFFICES ASSUME NEW x \in Ends, NEW i \in 1..Len(received'[x])
                PROVE  /\ i <= Len(frames[Other(x)])
                       /\ received'[x][i] = frames[Other(x)][i]
    BY <1>1 DEF ReceivedIsSent
  <2>1. CASE x = e /\ i = k
    BY <1>6, <2>1
  <2>2. CASE x = e /\ i # k
    <3>1. i \in 1..(k - 1)
        BY <1>6, <2>2
    <3>. QED
        BY <1>6, <2>2, <3>1 DEF Inv, ReceivedIsSent
  <2>3. CASE x # e
    BY <1>5, <2>3 DEF Inv, ReceivedIsSent
  <2>. QED
    BY <2>1, <2>2, <2>3
<1>14. FailsForAReason'
  <2>. SUFFICES ASSUME NEW x \in Ends, phase'[x] = "failed", gone = {}
                PROVE  /\ Len(received'[x]) + 1 <= Len(frames[Other(x)])
                       /\ frames[Other(x)][Len(received'[x]) + 1].as = "invalid"
    BY <1>1 DEF FailsForAReason
  <2>1. x # e
    BY <1>4
  <2>. QED
    BY <1>5, <2>1 DEF Inv, FailsForAReason
<1>15. FollowsPeer'
  <2>. SUFFICES ASSUME NEW x \in Ends
                PROVE  /\ GotGvariant(x)' /\ choice[x] # "json" => useGvariant'[x]
                       /\ ~GotGvariant(x)' /\ choice[x] # "gvariant"
                            => ~useGvariant'[x]
    BY <1>1 DEF FollowsPeer, GotGvariant
  <2>1. /\ GotGvariant(x) /\ choice[x] # "json" => useGvariant[x]
        /\ ~GotGvariant(x) /\ choice[x] # "gvariant" => ~useGvariant[x]
    BY DEF Inv, FollowsPeer, GotGvariant
  <2>2. CASE x = e
    <3>1. useGvariant'[e] <=> (useGvariant[e] \/ GotGvariant(e)')
        BY <1>4, <1>11
    <3>. QED
        BY <1>9, <2>1, <2>2, <3>1
  <2>3. CASE x # e
    BY <1>5, <1>10, <2>1, <2>3
  <2>. QED
    BY <2>2, <2>3
<1>. QED
    BY <1>7, <1>8, <1>12, <1>13, <1>14, <1>15 DEF Inv

LEMMA ReadBodyStep ==
    ASSUME Inv, NEW e \in Ends, ReadBody(e)
    PROVE  Inv'
<1>1. PICK items \in Seq(Item) : items = Arrived(e)
    BY ArrivedFacts
<1>2. PICK n \in Nat : n = Len(items)
    BY LenProperties
<1>3. PICK cl, gv, gt :
        cl = contentLength[e] /\ gv = gvariant[e] /\ gt = gvariantType[e]
    OBVIOUS
<1>4. PICK message : message = Decoded(e, SubSeq(items, 1, cl))
    OBVIOUS
<1>5. /\ phase[e] = "body" /\ n >= cl /\ Take(e, cl) /\ UNCHANGED <<gone, frames>>
      /\ \/ DeliverStep(e, message) /\ (gv \/ message.msg # Unparsable)
         \/ ~gv /\ message.msg = Unparsable /\ ReadFails(e)
    BY <1>1, <1>2, <1>3, <1>4 DEF ReadBody, DeliverStep
<1>6. PICK k : k = Len(received[e])
    OBVIOUS
<1>7. PICK fs \in Seq(Meanings) : fs = frames[Other(e)]
    BY ArrivedFacts
<1>8. PICK open : open = (Other(e) \notin gone)
    OBVIOUS
<1>9. StreamOf(items, open, fs, k, "body", cl, gv, gt)
    BY <1>1, <1>3, <1>5, <1>6, <1>7, <1>8, ArrivedFacts
<1>10. cl \in Nat /\ cl <= n /\ gv \in BOOLEAN /\ gt \in Types
  <2>1. cl \in (-1)..MaxSize /\ cl > 0
    BY <1>3, <1>9, BodyHasLength DEF Inv, TypeInv
  <2>2. cl \in Int
    BY <2>1, SizeAssumption
  <2>. QED
    BY <1>3, <1>5, <2>1, <2>2 DEF Inv, TypeInv
<1>11. PICK b \in Int : BodyIs(items, open, fs, k, cl, gv, gt, n, b)
    BY <1>2, <1>9, <1>10, StreamBody
<1>12. /\ 1 \in 1..cl
       /\ \A i \in 1..cl : items[i] = Byte(b)
       /\ k + 1 \in 1..Len(fs)
       /\ gv \/ b # Unparsable =>
            /\ fs[k + 1] = Message(b, IF gv THEN gt ELSE "json")
            /\ \A cl2, gv2, gt2 :
                 StreamOf(SubSeq(items, cl + 1, n), open, fs, k + 1,
                          "idle", cl2, gv2, gt2)
       /\ ~gv /\ b = Unparsable => fs[k + 1].as = "invalid"
    BY <1>11 DEF BodyIs
<1>13. message = Message(b, IF gv THEN gt ELSE "json")
  <2>1. PICK body : body = SubSeq(items, 1, cl)
    OBVIOUS
  <2>2. Len(body) = cl /\ \A i \in 1..cl : body[i] = items[i]
    BY <1>2, <1>10, <2>1, SubSeqProperties
  <2>3. \A i \in 1..Len(body) : body[i] = Byte(b)
    BY <1>12, <2>2
  <2>4. body[1].value = b
    BY <1>12, <2>2, <2>3 DEF Byte
  <2>. QED
    BY <1>3, <1>4, <2>1, <2>3, <2>4 DEF Decoded
<1>14. message.msg = b /\ message.as = (IF gv THEN gt ELSE "json")
    BY <1>13 DEF Message
<1>15. Takes(e) /\ wire'[Other(e)] = SubSeq(items, cl + 1, n)
  <2>1. cl \in 0..Len(Arrived(e))
    BY <1>1, <1>2, <1>10
  <2>2. TypeInv
    BY DEF Inv
  <2>. QED
    BY <1>1, <1>2, <1>5, <2>1, <2>2, TakeFacts
<1>16. CASE ~gv /\ message.msg = Unparsable /\ ReadFails(e)
  <2>1. /\ Len(received[e]) + 1 \in 1..Len(frames[Other(e)])
        /\ frames[Other(e)][Len(received[e]) + 1].as = "invalid"
    BY <1>6, <1>7, <1>12, <1>14, <1>16
  <2>. QED
    BY <1>15, <1>16, <2>1, FailStep
<1>17. CASE DeliverStep(e, message) /\ (gv \/ message.msg # Unparsable)
  <2>1. fs[k + 1] = message
    BY <1>12, <1>13, <1>14, <1>17
  <2>2. message \in Got
    BY <1>10, <1>13 DEF Got, Message
  <2>3. message.as # "json" <=> gvariant[e]
    BY <1>3, <1>10, <1>14, VardictAssumption
  <2>4. PICK q \in Nat : q = k + 1
    BY <1>6, LenProperties DEF Inv, TypeInv
  <2>5. /\ received'[e] = Append(received[e], message)
        /\ phase'[e] = "idle"
    BY <1>17 DEF DeliverStep, Inv, TypeInv
  <2>6. Len(received'[e]) = q
    BY <1>6, <2>4, <2>5, AppendProperties DEF Inv, TypeInv
  <2>7. PICK cl2, gv2, gt2 :
          /\ cl2 = contentLength'[e] /\ gv2 = gvariant'[e]
          /\ gt2 = gvariantType'[e]
    OBVIOUS
  <2>8. StreamOf(SubSeq(items, cl + 1, n), open, fs, q, "idle", cl2, gv2, gt2)
    BY <1>12, <1>14, <1>17, <2>4
  <2>9. open = (Other(e) \notin gone') /\ fs = frames'[Other(e)]
    BY <1>5, <1>7, <1>8
  <2>10. Stream(e)'
    BY <1>15, <2>5, <2>6, <2>7, <2>8, <2>9 DEF Stream
  <2>11. /\ q = Len(received[e]) + 1
         /\ q \in 1..Len(frames[Other(e)])
         /\ frames[Other(e)][q] = message
    BY <1>6, <1>7, <1>12, <2>1, <2>4
  <2>12. phase[e] # "failed"
    BY <1>5
  <2>. QED
    BY <1>15, <1>17, <2>2, <2>3, <2>10, <2>11, <2>12, DeliverInv
<1>. QED
    BY <1>5, <1>16, <1>17

LEMMA ReadEndStep ==
    ASSUME Inv, NEW e \in Ends, ReadEnd(e)
    PROVE  Inv'
<1>1. gone # {} /\ UNCHANGED <<gone, frames>>
    BY DEF ReadEnd
<1>2. CASE BodyCutShort(e)
  <2>1. Take(e, Len(Arrived(e))) /\ ReadFails(e)
    BY <1>2 DEF BodyCutShort
  <2>2. Len(Arrived(e)) \in 0..Len(Arrived(e)) /\ TypeInv
    BY ArrivedFacts DEF Inv
  <2>3. Takes(e)
    BY <1>1, <2>1, <2>2, TakeFacts
  <2>. QED
    BY <1>1, <2>1, <2>3, FailStep
<1>3. CASE UNCHANGED wire /\ ReadFails(e)
  <2>1. Takes(e)
    BY <1>1, <1>3 DEF Takes, Inv, TypeInv
  <2>. QED
    BY <1>1, <1>3, <2>1, FailStep
<1>. QED
    BY <1>2, <1>3 DEF ReadEnd

LEMMA ReadCancelledStep ==
    ASSUME Inv, NEW e \in Ends, ReadCancelled(e)
    PROVE  Inv'
<1>1. gone # {} /\ ReadFails(e) /\ UNCHANGED <<wire, gone, frames>>
    BY DEF ReadCancelled, writeVars
<1>2. Takes(e)
    BY <1>1 DEF Takes, Inv, TypeInv
<1>. QED
    BY <1>1, <1>2, FailStep

LEMMA StutterStep ==
    ASSUME Inv, UNCHANGED vars
    PROVE  Inv'
<1>1. /\ UNCHANGED <<wire, gone, frames, phase, contentLength, gvariant>>
      /\ UNCHANGED <<gvariantType, useGvariant, hasSeenGvariant, choice, received>>
    BY DEF vars, writeVars, stateVars, modeVars
<1>2. TypeInv' /\ StreamInv'
    BY <1>1 DEF Inv, TypeInv, StreamInv, Stream
<1>3. SeenInv' /\ ReceivedIsSent' /\ FailsForAReason' /\ FollowsPeer'
    BY <1>1
    DEF Inv, SeenInv, GotGvariant, ReceivedIsSent, FailsForAReason, FollowsPeer
<1>. QED
    BY <1>2, <1>3 DEF Inv

LEMMA NextInv ==
    ASSUME Inv, [Next]_vars
    PROVE  Inv'
<1>1. ASSUME NEW e \in Ends, NEW size \in Sizes, NEW type \in Types,
             WriteMessage(e, size, type)
      PROVE  Inv'
    BY <1>1, MessageIsChunk, WriteStep
<1>2. ASSUME NEW e \in Ends, NEW lines \in ForeignHeaders[e],
             NEW parses \in BOOLEAN, WriteForeign(e, lines, parses)
      PROVE  Inv'
    BY <1>2, ForeignIsChunk, WriteStep
<1>3. CASE UNCHANGED vars
    BY <1>3, StutterStep
<1>4. CASE Next
    BY <1>1, <1>2, <1>4, VanishStep, SetUseGvariantStep, ReadMessageStep,
       ReadLineStep, ReadEmptyLineStep, ReadBodyStep, ReadEndStep,
       ReadCancelledStep
    DEF Next
<1>. QED
    BY <1>3, <1>4

-----------------------------------------------------------------------------
(* Theorems.                                                               *)

\* The inductive invariant holds in every reachable state: on each wire there
\* is what was written after the messages that were received.
THEOREM Invariance == Spec => []Inv
  BY InitInv, NextInv, PTL DEF Spec

\* The state of the streams keeps its types; a Content-Length above
\* max_size_bytes is never taken over from a header line.
THEOREM TypeCorrect == Spec => []TypeOK
<1>1. Inv => TypeOK
  <2>. SUFFICES ASSUME Inv PROVE TypeOK
    OBVIOUS
  <2>1. ASSUME NEW e \in Ends, NEW i \in 1..Len(wire[e])
        PROVE  wire[e][i].kind \in {"length", "content-type", "type", "other",
                                    "end", "byte"}
    <3>1. wire[e][i] \in Item
        BY ElementOfSeq DEF Inv, TypeInv
    <3>. QED
        BY <3>1 DEF Item, HeaderLine, EmptyLine, Bytes
  <2>2. ASSUME NEW e \in Ends, NEW i \in 1..Len(received[e])
        PROVE  received[e][i].as \in Types \cup {"json"}
    <3>1. received[e][i] \in Got
        BY ElementOfSeq DEF Inv, TypeInv
    <3>. QED
        BY <3>1 DEF Got
  <2>. QED
    BY <2>1, <2>2 DEF Inv, TypeInv, TypeOK
<1>. QED
    BY <1>1, Invariance, PTL

\* ReceivedIsSent: jsonrpc_input_stream_read_message_finish returns the
\* messages that jsonrpc_output_stream_create_bytes or another implementation
\* wrote, in their order and each decoded as it was encoded.
THEOREM ReceivedIsSentHolds == Spec => []ReceivedIsSent
<1>1. Inv => ReceivedIsSent
    BY DEF Inv
<1>. QED
    BY <1>1, Invariance, PTL

\* FailsForAReason: JsonrpcInputStream refuses only what is invalid by the
\* headers and the body as a whole, and nothing JsonrpcOutputStream writes,
\* unless one of the ends has closed.
THEOREM FailsForAReasonHolds == Spec => []FailsForAReason
<1>1. Inv => FailsForAReason
    BY DEF Inv
<1>. QED
    BY <1>1, Invariance, PTL

\* FollowsPeer: jsonrpc_client_call_read_cb switches an end to GVariant if and
\* only if its peer uses it, unless the program of the end chose.
THEOREM FollowsPeerHolds == Spec => []FollowsPeer
<1>1. Inv => FollowsPeer
    BY DEF Inv
<1>. QED
    BY <1>1, Invariance, PTL

-----------------------------------------------------------------------------
(* No read waits in vain: the part of EveryMessageArrives that is safety.  *)

\* The guards of the steps of a read.
CanRead(e) ==
    \/ phase[e] = "idle"
    \/ phase[e] = "headers" /\ (Arrived(e) # <<>> \/ Other(e) \in gone)
    \/ /\ phase[e] = "body"
       /\ Len(Arrived(e)) >= contentLength[e] \/ Other(e) \in gone

\* An end that is up and whose reads have not failed has a step to take as
\* long as there is a message that it has not received.
NoReadStuck ==
    \A e \in Ends :
        /\ e \notin gone /\ phase[e] # "failed"
        /\ Len(received[e]) < Len(frames[Other(e)])
        => CanRead(e)

\* What an open writer wrote of the next message and was not read is there.
LEMMA StreamGoesOn ==
    ASSUME NEW items \in Seq(Item), NEW fs \in Seq(Meanings), NEW k, NEW ph,
           NEW cl, NEW gv, NEW gt,
           StreamOf(items, TRUE, fs, k, ph, cl, gv, gt), k < Len(fs)
    PROVE  /\ ph = "headers" => items # <<>>
           /\ ph = "body" => Len(items) >= cl
<1>1. PICK ch \in Seq(Chunk), at \in [Nat -> Int] :
        /\ Laid(items, TRUE, fs, ch, at)
        /\ ReaderAt(fs, ch, at, k, ph, cl, gv, gt)
    BY DEF StreamOf
<1>2. PICK m \in Nat, n \in Nat : m = Len(fs) /\ n = Len(items)
    BY LenProperties
<1>3. k \in 0..m /\ k < m
    BY <1>1, <1>2 DEF ReaderAt
<1>4. PICK q \in Nat : q = k + 1 /\ q \in 1..m /\ q \in 0..m /\ q - 1 = k
    BY <1>3
<1>5. PICK c : c = ch[q]
    OBVIOUS
<1>6. c \in Chunk
    BY <1>1, <1>2, <1>4, <1>5, ElementOfSeq DEF Laid
<1>7. PICK l \in Nat, s \in Nat : l = Len(c.lines) /\ s = SizeOf(c.lines)
    BY <1>6, ChunkFacts
<1>8. PICK x \in Int, y \in Int : x = at[k] /\ y = at[q]
    BY <1>3, <1>4
<1>9. y = x + (l + 1 + s) /\ y <= n
  <2>1. at[q] = at[q - 1] + Extent(ch[q])
    BY <1>1, <1>2, <1>4 DEF Laid
  <2>2. at[q] <= at[m] /\ n = at[m]
    BY <1>1, <1>2, <1>4 DEF Laid
  <2>3. Extent(ch[q]) = l + 1 + s
    BY <1>5, <1>7 DEF Extent
  <2>. QED
    BY <1>4, <1>8, <2>1, <2>2, <2>3
<1>10. CASE ph = "headers"
  <2>1. 0 - x <= l
    BY <1>1, <1>2, <1>3, <1>4, <1>5, <1>7, <1>8, <1>10 DEF ReaderAt
  <2>2. n > 0
    BY <1>9, <2>1
  <2>. QED
    BY <1>2, <1>10, <2>2
<1>11. CASE ph = "body"
  <2>1. /\ x = 0 - (l + 1)
        /\ After(cl, gv, gt, c.lines, Len(c.lines)) /\ cl > 0
    BY <1>1, <1>4, <1>5, <1>7, <1>8, <1>11 DEF ReaderAt
  <2>2. s = cl
    BY <1>6, <1>7, <2>1, ChunkFacts, AllLinesRead
  <2>3. n >= s
    BY <1>9, <2>1
  <2>. QED
    BY <1>2, <1>11, <2>2, <2>3
<1>. QED
    BY <1>10, <1>11

\* NoReadStuck: a whole message that was written is never left lying there
\* by jsonrpc_input_stream_read_message_async, for want of a byte that the
\* headers made it expect, or of a read.
THEOREM NoReadStuckHolds == Spec => []NoReadStuck
<1>1. Inv => NoReadStuck
  <2>. SUFFICES ASSUME Inv, NEW e \in Ends, phase[e] # "failed",
                       Len(received[e]) < Len(frames[Other(e)]),
                       Other(e) \notin gone
                PROVE  CanRead(e)
    BY DEF NoReadStuck, CanRead, Inv, TypeInv
  <2>1. (Other(e) \notin gone) = TRUE
    OBVIOUS
  <2>2. /\ phase[e] = "headers" => Arrived(e) # <<>>
        /\ phase[e] = "body" => Len(Arrived(e)) >= contentLength[e]
    BY <2>1, ArrivedFacts, StreamGoesOn
  <2>3. phase[e] \in {"idle", "headers", "body", "failed"}
    BY DEF Inv, TypeInv
  <2>. QED
    BY <2>2, <2>3 DEF CanRead
<1>. QED
    BY <1>1, Invariance, PTL

-----------------------------------------------------------------------------
(* The streams implement MessageStream.tla.                                *)

\* What MessageStream.tla calls invalid and failed.
Invalid ==
    [e \in Ends |-> {i \in 1..Len(frames[e]) : frames[e][i].as = "invalid"}]

Failed == {e \in Ends : phase[e] = "failed"}

LEMMA PromisedOther ==
    ASSUME NEW e \in Ends
    PROVE  Promise!Other(e) = Other(e)
  BY DEF Promise!Other, Other

\* Lines, modes and choices are no concern of MessageStream.tla.
LEMMA QuietStep ==
    ASSUME UNCHANGED <<frames, gone, received>>, UNCHANGED Failed
    PROVE  [Promise!Next]_(Promise!vars)
<1>1. Promise!vars' = Promise!vars
    BY DEF Promise!vars, Failed
<1>. QED
    BY <1>1

\* Promise!Send.
LEMMA WriteImplements ==
    ASSUME Inv, NEW e \in Ends, NEW c \in Chunk, WriteChunk(e, c)
    PROVE  [Promise!Next]_(Promise!vars)
<1>1. /\ e \notin gone
      /\ frames' = [frames EXCEPT ![e] = Append(@, Means(c))]
      /\ UNCHANGED <<gone, phase, received>>
    BY DEF WriteChunk, Write
<1>2. frames \in [Ends -> Seq(Meanings)] /\ Means(c) \in Meanings
    BY DEF Inv, TypeInv, Meanings
<1>3. PICK n \in Nat : n = Len(frames[e])
    BY <1>2, LenProperties
<1>4. /\ frames'[e] = Append(frames[e], Means(c))
      /\ \A x \in Ends : x # e => frames'[x] = frames[x]
    BY <1>1, <1>2
<1>5. /\ Len(frames'[e]) = n + 1 /\ frames'[e][n + 1] = Means(c)
      /\ \A i \in 1..n : frames'[e][i] = frames[e][i]
  <2>1. PICK before \in Seq(Meanings) : before = frames[e]
    BY <1>2
  <2>2. PICK new \in Meanings : new = Means(c)
    BY <1>2
  <2>3. /\ Len(Append(before, new)) = n + 1 /\ Append(before, new)[n + 1] = new
        /\ \A i \in 1..n : Append(before, new)[i] = before[i]
    BY <1>3, <2>1, AppendProperties
  <2>. QED
    BY <1>4, <2>1, <2>2, <2>3
<1>6. \E i \in 1..Len(frames'[e]) :
          frames' = [frames EXCEPT ![e] = Append(@, frames'[e][i])]
  <2>1. n + 1 \in 1..Len(frames'[e])
    BY <1>3, <1>5
  <2>2. PICK new : new = frames'[e][n + 1]
    OBVIOUS
  <2>3. new = Means(c)
    BY <1>5, <2>2
  <2>4. frames' = [frames EXCEPT ![e] = Append(@, new)]
    BY <1>1, <2>3
  <2>. QED
    BY <2>1, <2>2, <2>4, Zenon
<1>7. Invalid' \in {Invalid, [Invalid EXCEPT ![e] = @ \cup {n + 1}]}
  <2>1. \A x \in Ends : x # e => Invalid'[x] = Invalid[x]
    BY <1>4 DEF Invalid
  <2>2. CASE Means(c).as = "invalid"
    <3>1. Invalid'[e] = Invalid[e] \cup {n + 1}
        BY <1>3, <1>5, <2>2 DEF Invalid
    <3>. QED
        BY <2>1, <3>1 DEF Invalid
  <2>3. CASE Means(c).as # "invalid"
    <3>1. Invalid'[e] = Invalid[e]
        BY <1>3, <1>5, <2>3 DEF Invalid
    <3>. QED
        BY <2>1, <3>1 DEF Invalid
  <2>. QED
    BY <2>2, <2>3
<1>8. UNCHANGED Failed
    BY <1>1 DEF Failed
<1>9. Promise!Send(e)
    BY <1>1, <1>3, <1>6, <1>7, <1>8 DEF Promise!Send, Invalid, Failed
<1>. QED
    BY <1>9 DEF Promise!Next

\* Promise!Fail: what FailsForAReason says of the state that is reached.
LEMMA FailImplements ==
    ASSUME Inv, Inv', NEW e \in Ends, phase[e] # "failed", ReadFails(e),
           UNCHANGED <<gone, frames>>
    PROVE  [Promise!Next]_(Promise!vars)
<1>1. /\ phase' = [phase EXCEPT ![e] = "failed"]
      /\ UNCHANGED <<received, gone, frames>>
    BY DEF ReadFails
<1>2. phase'[e] = "failed" /\ \A x \in Ends : x # e => phase'[x] = phase[x]
    BY <1>1 DEF Inv, TypeInv
<1>3. Failed' = Failed \cup {e} /\ e \notin Failed
    BY <1>2 DEF Failed
<1>4. PICK k \in Nat : k = Len(received[e])
    BY LenProperties DEF Inv, TypeInv
<1>5. gone # {} \/ k + 1 \in Invalid[Other(e)]
  <2>1. \/ gone # {}
        \/ /\ k + 1 <= Len(frames[Other(e)])
           /\ frames[Other(e)][k + 1].as = "invalid"
    BY <1>1, <1>2, <1>4 DEF Inv, FailsForAReason
  <2>2. Len(frames[Other(e)]) \in Nat /\ Other(e) \in Ends
    BY OtherFacts, LenProperties DEF Inv, TypeInv
  <2>. QED
    BY <1>4, <2>1, <2>2 DEF Invalid
<1>6. Promise!Awaited(e) = k + 1
    BY <1>4 DEF Promise!Awaited
<1>7. Promise!Fail(e)
    BY <1>1, <1>3, <1>5, <1>6, PromisedOther
    DEF Promise!Fail, Failed, Invalid
<1>. QED
    BY <1>7 DEF Promise!Next

\* Promise!Receive: what ReceivedIsSent says of the state that is reached.
LEMMA DeliverImplements ==
    ASSUME Inv, Inv', NEW e \in Ends, phase[e] # "failed",
           NEW message, DeliverStep(e, message), UNCHANGED <<gone, frames>>
    PROVE  [Promise!Next]_(Promise!vars)
<1>1. /\ phase' = [phase EXCEPT ![e] = "idle"]
      /\ received' = [received EXCEPT ![e] = Append(@, message)]
      /\ UNCHANGED <<gone, frames>>
    BY DEF DeliverStep
<1>2. UNCHANGED Failed /\ e \notin Failed
    BY <1>1 DEF Inv, TypeInv, Failed
<1>3. /\ received \in [Ends -> Seq(Got)]
      /\ received' \in [Ends -> Seq(Got)]
    BY DEF Inv, TypeInv
<1>4. PICK k \in Nat : k = Len(received[e])
    BY <1>3, LenProperties
<1>5. PICK got : got = received'[e]
    OBVIOUS
<1>6. Len(got) = k + 1 /\ got[k + 1] = message /\ got \in Seq(Got)
  <2>1. got = Append(received[e], message)
    BY <1>1, <1>3, <1>5
  <2>2. PICK before \in Seq(Got) : before = received[e]
    BY <1>3
  <2>3. got = Append(before, message) /\ Len(before) = k
    BY <1>4, <2>1, <2>2
  <2>4. Len(got) = k + 1 /\ got[k + 1] = message
    BY <1>4, <2>2, <2>3
  <2>5. got \in Seq(Got)
    BY <1>3, <1>5
  <2>. QED
    BY <2>4, <2>5
<1>7. k + 1 \in 1..Len(got)
    BY <1>4, <1>6
<1>8. message \in Got
    BY <1>6, <1>7, ElementOfSeq
<1>9. PICK m \in Nat : m = Len(frames[Other(e)])
    BY OtherFacts, LenProperties DEF Inv, TypeInv
<1>10. k + 1 <= m /\ message = frames[Other(e)][k + 1]
    BY <1>1, <1>5, <1>6, <1>7, <1>9 DEF Inv, ReceivedIsSent
<1>11. k + 1 \in 1..m \ Invalid[Other(e)]
  <2>1. message.as # "invalid"
    BY <1>8, VardictAssumption DEF Got
  <2>. QED
    BY <1>9, <1>10, <2>1, OtherFacts DEF Invalid
<1>12. Promise!Awaited(e) = k + 1
    BY <1>4 DEF Promise!Awaited
<1>13. Promise!Receive(e)
    BY <1>1, <1>2, <1>9, <1>10, <1>11, <1>12, PromisedOther
    DEF Promise!Receive, Failed, Invalid
<1>. QED
    BY <1>13 DEF Promise!Next

\* Promise!Close.
LEMMA VanishImplements ==
    ASSUME NEW e \in Ends, Vanish(e)
    PROVE  [Promise!Next]_(Promise!vars)
<1>1. /\ e \notin gone /\ gone' = gone \cup {e}
      /\ UNCHANGED <<frames, phase, received>>
    BY DEF Vanish
<1>2. Promise!Close(e)
    BY <1>1 DEF Promise!Close
<1>. QED
    BY <1>2 DEF Promise!Next

\* A step of a read that neither ends it nor fails.
LEMMA GoOnImplements ==
    ASSUME Inv, NEW e \in Ends, phase[e] # "failed",
           NEW p \in {"headers", "body"}, phase' = [phase EXCEPT ![e] = p],
           UNCHANGED <<frames, gone, received>>
    PROVE  [Promise!Next]_(Promise!vars)
<1>1. UNCHANGED Failed
    BY DEF Inv, TypeInv, Failed
<1>. QED
    BY <1>1, QuietStep

LEMMA HeadersImplement ==
    ASSUME Inv, Inv', NEW e \in Ends,
           ReadMessage(e) \/ ReadLine(e) \/ ReadEmptyLine(e)
    PROVE  [Promise!Next]_(Promise!vars)
<1>1. phase \in [Ends -> {"idle", "headers", "body", "failed"}]
    BY DEF Inv, TypeInv
<1>2. CASE ReadMessage(e)
  <2>1. /\ phase[e] # "failed" /\ phase' = [phase EXCEPT ![e] = "headers"]
        /\ UNCHANGED <<frames, gone, received>>
    BY <1>2 DEF ReadMessage, writeVars
  <2>. QED
    BY <2>1, GoOnImplements
<1>3. CASE ReadLine(e)
  <2>1. phase[e] = "headers" /\ UNCHANGED <<gone, frames>>
    BY <1>3 DEF ReadLine
  <2>2. ReadFails(e) \/ UNCHANGED <<phase, received>>
    BY <1>3 DEF ReadLine, LineIsRead
  <2>3. CASE ReadFails(e)
    BY <2>1, <2>3, FailImplements
  <2>4. CASE UNCHANGED <<phase, received>>
    <3>1. phase' = [phase EXCEPT ![e] = "headers"]
        BY <1>1, <2>1, <2>4
    <3>. QED
        BY <2>1, <2>4, <3>1, GoOnImplements
  <2>. QED
    BY <2>2, <2>3, <2>4
<1>4. CASE ReadEmptyLine(e)
  <2>1. phase[e] = "headers" /\ UNCHANGED <<gone, frames>>
    BY <1>4 DEF ReadEmptyLine
  <2>2. \/ ReadFails(e)
        \/ phase' = [phase EXCEPT ![e] = "body"] /\ UNCHANGED received
    BY <1>4 DEF ReadEmptyLine
  <2>3. CASE ReadFails(e)
    BY <2>1, <2>3, FailImplements
  <2>4. CASE phase' = [phase EXCEPT ![e] = "body"] /\ UNCHANGED received
    BY <2>1, <2>4, GoOnImplements
  <2>. QED
    BY <2>2, <2>3, <2>4
<1>. QED
    BY <1>2, <1>3, <1>4

LEMMA EndsImplement ==
    ASSUME Inv, Inv', NEW e \in Ends,
           ReadBody(e) \/ ReadEnd(e) \/ ReadCancelled(e)
    PROVE  [Promise!Next]_(Promise!vars)
<1>1. CASE ReadBody(e)
  <2>1. phase[e] = "body" /\ UNCHANGED <<gone, frames>>
    BY <1>1 DEF ReadBody
  <2>2. ReadFails(e) \/ \E message : DeliverStep(e, message)
    BY <1>1 DEF ReadBody, DeliverStep
  <2>. QED
    BY <2>1, <2>2, FailImplements, DeliverImplements
<1>2. CASE ReadEnd(e) \/ ReadCancelled(e)
  <2>1. /\ phase[e] \in {"headers", "body"} /\ ReadFails(e)
        /\ UNCHANGED <<gone, frames>>
    BY <1>2 DEF ReadEnd, BodyCutShort, ReadCancelled, writeVars
  <2>2. phase[e] # "failed"
    BY <2>1
  <2>. QED
    BY <2>1, <2>2, FailImplements
<1>. QED
    BY <1>1, <1>2

\* Every step of the streams is one that MessageStream.tla allows.
LEMMA StepImplements ==
    Inv /\ Inv' /\ [Next]_vars => [Promise!Next]_(Promise!vars)
<1>. SUFFICES ASSUME Inv, Inv', [Next]_vars
              PROVE  [Promise!Next]_(Promise!vars)
    OBVIOUS
<1>1. ASSUME NEW e \in Ends, NEW size \in Sizes, NEW type \in Types,
             WriteMessage(e, size, type)
      PROVE  [Promise!Next]_(Promise!vars)
    BY <1>1, MessageIsChunk, WriteImplements
<1>2. ASSUME NEW e \in Ends, NEW lines \in ForeignHeaders[e],
             NEW parses \in BOOLEAN, WriteForeign(e, lines, parses)
      PROVE  [Promise!Next]_(Promise!vars)
    BY <1>2, ForeignIsChunk, WriteImplements
<1>3. ASSUME NEW e \in Ends, NEW use \in BOOLEAN, SetUseGvariant(e, use)
      PROVE  [Promise!Next]_(Promise!vars)
  <2>1. UNCHANGED <<frames, gone, received>> /\ UNCHANGED Failed
    BY <1>3 DEF SetUseGvariant, writeVars, Failed
  <2>. QED
    BY <2>1, QuietStep
<1>4. CASE UNCHANGED vars
  <2>1. UNCHANGED <<frames, gone, received>> /\ UNCHANGED Failed
    BY <1>4 DEF vars, writeVars, Failed
  <2>. QED
    BY <2>1, QuietStep
<1>5. CASE Next
    BY <1>1, <1>2, <1>3, <1>5, VanishImplements, HeadersImplement, EndsImplement
    DEF Next
<1>. QED
    BY <1>4, <1>5

\* The streams implement MessageStream.tla: for messages of any sizes and
\* types, whatever another implementation writes, and wherever an end
\* vanishes, messages arrive in order, each once and as it was sent, and a
\* read fails only at one that is invalid or once an end closed.
THEOREM Implementation == Spec => KeepsPromise
<1>1. Init => Promise!Init
    BY DEF Init, Promise!Init
<1>2. Inv /\ Inv' /\ [Next]_vars => [Promise!Next]_(Promise!vars)
    BY StepImplements
<1>. QED
    BY <1>1, <1>2, Invariance, PTL DEF Spec, KeepsPromise, Promise!Spec
=============================================================================
