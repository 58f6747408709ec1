----------------------------- MODULE OutputPages -----------------------------
(* What the model is shown of an output that is too long: a preview of its   *)
(* head and tail (src/tools/modelOutput.js), pages and matches of the stored *)
(* text (read and search of src/storage/toolOutputs.js), a page made shorter *)
(* when it does not fit what is sent (src/tools/outputPage.js), and a page   *)
(* of a file (src/tools/files.js).                                           *)
(*                                                                           *)
(* A text is a sequence of UTF-16 units: a one-byte and a two-byte           *)
(* character, the two halves of one of four bytes, and the newline. A byte   *)
(* is a newline, one that stands alone, one that leads n bytes, or a         *)
(* continuation. Names, hashes and the base64 copy are left out; the base64  *)
(* copy counts for the size of a page.                                       *)
LOCAL INSTANCE Integers
LOCAL INSTANCE Sequences
LOCAL INSTANCE FiniteSets
LOCAL INSTANCE FiniteSetsExt
LOCAL INSTANCE SequencesExt

CONSTANTS
  Before, Wide   \* how far the preview of a match reaches: 120 before it, 300 in all

Bytes(text) ==
  FlattenSeq([i \in DOMAIN text |->
    CASE text[i] = "two" -> <<2, 0>> [] text[i] = "high" -> <<4, 0, 0, 0>>
      [] text[i] = "low" -> <<>> [] text[i] = "newline" -> <<10>> [] OTHER -> <<1>>])

Slice(seq, from, to) == SubSeq(seq, from + 1, to)

(* Whether bytes are whole characters.                                       *)
Span(byte) == IF byte \in {2, 4} THEN byte ELSE 1
Decodes(bytes) ==
  \A i \in DOMAIN bytes :
    /\ bytes[i] = 0 => \E j \in 1 .. i - 1 : bytes[j] # 0 /\ i < j + Span(bytes[j])
    /\ bytes[i] # 0 => /\ i + Span(bytes[i]) - 1 <= Len(bytes)
                       /\ \A j \in i + 1 .. i + Span(bytes[i]) - 1 : bytes[j] = 0

-----------------------------------------------------------------------------
(* Pages. Arguments that are left out are NotGiven, an error is Invalid.     *)

NotGiven == -1
Given(argument, default) == IF argument = NotGiven THEN default ELSE argument
Invalid == [offset |-> NotGiven]

LineStarts(bytes) ==
  <<0>> \o SetToSortSeq({i \in 1 .. Len(bytes) - 1 : bytes[i] = 10}, <)
StartOf(bytes, line) ==
  IF line <= Len(LineStarts(bytes)) THEN LineStarts(bytes)[line] ELSE Len(bytes)
LineAt(bytes, end) == 1 + Cardinality({i \in DOMAIN bytes : bytes[i] = 10 /\ i <= end})
LastLine(bytes, next) == IF next = 0 THEN 0 ELSE LineAt(bytes, next - 1)

ByLine(args) == args.startLine # NotGiven \/ args.endLine # NotGiven
FirstLine(args) == Given(args.startLine, 1)
IsInvalid(bytes, args) ==
  IF ByLine(args) THEN args.offset # NotGiven \/ args.endLine \in 1 .. FirstLine(args) - 1
                  ELSE Given(args.offset, 0) > Len(bytes)

Read(text, args) ==
  LET bytes == Bytes(text)
      offset == IF ByLine(args) THEN StartOf(bytes, FirstLine(args)) ELSE Given(args.offset, 0)
      rangeEnd == IF args.endLine = NotGiven THEN Len(bytes) ELSE StartOf(bytes, args.endLine + 1)
      next == Min({offset + args.maxBytes, rangeEnd}) IN
  IF IsInvalid(bytes, args) THEN Invalid
  ELSE [offset |-> offset, nextOffset |-> next, rangeEnd |-> rangeEnd,
        bytes |-> Slice(bytes, offset, next), total |-> Len(bytes), eof |-> next = Len(bytes),
        truncated |-> next < rangeEnd,
        endLine |-> IF ByLine(args) THEN LastLine(bytes, next) ELSE NotGiven,
        nextStartLine |-> IF ByLine(args) /\ next < Len(bytes) THEN LineAt(bytes, next) ELSE NotGiven]

-----------------------------------------------------------------------------
(* A page made shorter. Its size is that of the base64 copy, of the text if  *)
(* the bytes decode, and of the line numbers if they are there.              *)

Size(page) ==
  4 * ((Len(page.bytes) + 2) \div 3) + (IF Decodes(page.bytes) THEN Len(page.bytes) ELSE 2)
    + (IF page.endLine = NotGiven THEN 0 ELSE 1)

Candidate(page, length) ==
  IF length = Len(page.bytes) THEN page
  ELSE [page EXCEPT !.bytes = SubSeq(@, 1, length), !.nextOffset = page.offset + length,
                    !.eof = page.offset + length = page.total,
                    !.truncated = page.offset + length < page.rangeEnd,
                    !.endLine = NotGiven, !.nextStartLine = NotGiven]
Fits(page, cap) == Size(page) <= cap

Largest(page, cap) ==
  LET Search[low \in 2 .. Len(page.bytes) + 1, high \in 1 .. Len(page.bytes), found \in 1 .. Len(page.bytes)] ==
        LET middle == (low + high) \div 2 IN
        IF low > high THEN found
        ELSE IF Fits(Candidate(page, middle), cap) THEN Search[middle + 1, high, middle]
        ELSE Search[low, middle - 1, found]
  IN Search[2, Len(page.bytes) - 1, 1]

ShrinkOutputPage(page, cap) ==
  CASE Fits(page, cap) -> page
    [] page.bytes = <<>> \/ ~Fits(Candidate(page, 1), cap) -> Invalid
    [] Len(page.bytes) = 1 -> Candidate(page, 1)
    [] OTHER -> Candidate(page, Largest(page, cap))

-----------------------------------------------------------------------------
(* Matches: those of a literal text that do not overlap, from the left.      *)

Newlines(text) == SetToSortSeq({i \in DOMAIN text : text[i] = "newline"}, <)
MatchesAt(text, query, index) ==
  /\ index + Len(query) <= Len(text)
  /\ Slice(text, index, index + Len(query)) = query
EndOfLine(text, index) ==
  Min({Len(text)} \cup {i - 1 : i \in {j \in DOMAIN text : j > index /\ text[j] = "newline"}})

IsLow(text, at) == at < Len(text) /\ text[at + 1] = "low"
Forward(text, at) == IF IsLow(text, at) THEN at + 1 ELSE at
Backward(text, at) == IF IsLow(text, at) THEN at - 1 ELSE at
Preview(text, index, lineStart) ==
  LET start == Forward(text, Max({lineStart, index - Before}))
      end == Backward(text, Min({EndOfLine(text, index), start + Wide})) IN
  [text |-> Slice(text, start, end), column |-> start - lineStart + 1,
   truncated |-> start > lineStart \/ EndOfLine(text, index) > end]

CrossedOnly(at, part, from) == [line |-> at.line + Len(Newlines(part)), start |-> at.start]
(* The lines that end in a part of the text, after which the count goes on.  *)
Crossed(at, part, from) ==
  LET ends == Newlines(part) IN
  IF ends = <<>> THEN at
  ELSE [line |-> at.line + Len(ends), start |-> from + Last(ends)]

Ahead(text, query, at) == {i \in at.cursor .. Len(text) - 1 : MatchesAt(text, query, i)}
FoundAt(text, query, at, index, here, offset) ==
  [cursor |-> index + Len(query), offset |-> offset + Len(Bytes(query)),
   here |-> Crossed(here, query, index),
   matches |-> Append(at.matches,
     [line |-> here.line, column |-> index - here.start + 1, offset |-> offset,
      bytes |-> Len(Bytes(query)), preview |-> Preview(text, index, here.start)])]
Skip(text, query, at, index, skipped) ==
  FoundAt(text, query, at, index, Crossed(at.here, skipped, at.cursor), at.offset + Len(Bytes(skipped)))
NextFound(text, query, at, ahead) ==
  IF ahead = {} THEN at
  ELSE Skip(text, query, at, Min(ahead), Slice(text, at.cursor, Min(ahead)))

Search(text, query, limit) ==
  LET After[n \in 0 .. limit] ==
        IF n = 0 THEN [cursor |-> 0, offset |-> 0, here |-> [line |-> 1, start |-> 0], matches |-> <<>>]
        ELSE NextFound(text, query, After[n - 1], Ahead(text, query, After[n - 1]))
      Result(at) ==
        [matches |-> at.matches,
         truncated |-> Len(at.matches) = limit /\ Ahead(text, query, at) # {}]
  IN Result(After[limit])

-----------------------------------------------------------------------------
(* Previews of the head and the tail of bytes, each half of a budget.        *)

HeadOf(bytes) ==   \* a decoder keeps back a character that is not whole
  SubSeq(bytes, 1, Max({0} \cup {n \in DOMAIN bytes : Decodes(SubSeq(bytes, 1, n))}))
TailStart(bytes, each) ==
  Min({Len(bytes)} \cup {i \in Max({0, Len(bytes) - each}) .. Len(bytes) - 1 : bytes[i + 1] # 0})
TextPreview(bytes, budget) ==
  LET each == budget \div 2
      head == HeadOf(SubSeq(bytes, 1, Min({each, Len(bytes)})))
      tail == Slice(bytes, TailStart(bytes, each), Len(bytes)) IN
  [head |-> head, tail |-> tail, omitted |-> Len(bytes) - Len(head) - Len(tail)]
PreviewSize(preview) == Len(preview.head) + Len(preview.tail)

FitPreview(bytes, cap) ==
  LET Search2[low \in 0 .. cap + 1, high \in -1 .. cap, found \in 0 .. cap] ==
        LET middle == (low + high) \div 2 IN
        IF low > high THEN found
        ELSE IF PreviewSize(TextPreview(bytes, middle)) <= cap THEN Search2[middle + 1, high, middle]
        ELSE Search2[low, middle - 1, found]
  IN TextPreview(bytes, Search2[0, Min({cap, Len(bytes)}), 0])

-----------------------------------------------------------------------------
(* Properties, over all texts and arguments.                                 *)

LineOf(bytes, i) == 1 + Cardinality({j \in 1 .. i - 1 : bytes[j] = 10})
Asked(bytes, args) ==   \* the bytes asked for: of lines, or behind an offset
  SelectSeq([i \in DOMAIN bytes |-> i], LAMBDA i :
    IF ByLine(args) THEN LineOf(bytes, i) >= FirstLine(args) /\
                         (args.endLine = NotGiven \/ LineOf(bytes, i) <= args.endLine)
    ELSE i > Given(args.offset, 0))

(* Read on from where each page ends, until none is truncated, and the bytes *)
(* of the lines or the range that were asked for are read once each: however *)
(* small the page is made to fit what is sent, it begins where it says, ends *)
(* where the next begins, and moves on. The lines it names are the last it   *)
(* shows and the first it has not shown whole.                               *)
PagesAreExact(text, args, cap) ==
  \A bytes \in {Bytes(text)} : \A asked \in {Asked(bytes, args)}, page \in {Read(text, args)} :
  IsInvalid(bytes, args) \/ \A sent \in {ShrinkOutputPage(page, cap)} :
  LET shown == Len(sent.bytes) IN
  IF sent = Invalid THEN ~Fits(Candidate(page, Min({1, Len(page.bytes)})), cap)
  ELSE /\ Fits(sent, cap)
       /\ asked # <<>> => shown > 0 /\ sent.offset + 1 = asked[1]
       /\ shown <= Len(asked) /\ sent.nextOffset = sent.offset + shown
       /\ \A i \in 1 .. shown : asked[i] = sent.offset + i /\ sent.bytes[i] = bytes[asked[i]]
       /\ sent.truncated <=> shown < Len(asked)
       /\ sent.eof <=> sent.nextOffset = Len(bytes)
       /\ sent.endLine # NotGiven /\ shown > 0 => sent.endLine = LineOf(bytes, sent.nextOffset)
       /\ sent.nextStartLine # NotGiven => sent.nextStartLine = LineOf(bytes, sent.nextOffset + 1)

(* A search finds each place the text occurs, but those that overlap one     *)
(* found before, up to its limit, and says whether there are more; the line, *)
(* the column and the offset of each are its own, so that a page read there  *)
(* starts with it, and the preview shows whole characters of its line.       *)
MatchesAreFound(text, query, limit) ==
  \A found \in {Search(text, query, limit)} :
  LET Place(k) == CHOOSE i \in 0 .. Len(text) :
                    Len(Bytes(SubSeq(text, 1, i))) = found.matches[k].offset
                      /\ ~IsLow(text, i)
      Free == {i \in 0 .. Len(text) : MatchesAt(text, query, i)}
      After(k) == IF k = 0 THEN 0 ELSE Place(k) + Len(query)
      Ends(i) == {j \in 1 .. i : text[j] = "newline"} IN
  /\ \A k \in DOMAIN found.matches : \A place \in {Place(k)}, free \in {After(k - 1)} :
       LET match == found.matches[k]
           preview == match.preview.text
           line == Max({0} \cup Ends(place)) IN
       /\ place \in Free /\ ~\E i \in Free : i \in free .. place - 1
       /\ place >= free
       /\ match.line = 1 + Cardinality(Ends(place))
       /\ match.column = place - line + 1
       /\ Read(text, [offset |-> match.offset, maxBytes |-> match.bytes,
                      startLine |-> NotGiven, endLine |-> NotGiven]).bytes = Bytes(query)
       /\ Decodes(Bytes(preview)) /\ Len(preview) <= Wide /\ "newline" \notin {preview[i] : i \in DOMAIN preview}
       /\ preview # <<>> => ~IsLow(preview, 0) /\ Last(preview) # "high"
       /\ SubSeq(text, line + match.preview.column,
                 line + match.preview.column - 1 + Len(preview)) = preview
  /\ found.truncated <=> /\ Len(found.matches) = limit
                         /\ \E i \in Free : i >= After(limit)
  /\ Len(found.matches) < limit => ~\E i \in Free : i >= After(Len(found.matches))

(* The preview of a stored text is its head and its tail, of whole           *)
(* characters that do not overlap, within the budget, and counts what is     *)
(* left out.                                                                 *)
PreviewIsExact(text, cap) ==
  \A bytes \in {Bytes(text)} : \A preview \in {FitPreview(bytes, cap)} :
  /\ PreviewSize(preview) <= cap /\ preview.omitted >= 0
  /\ IsPrefix(preview.head, bytes) /\ IsSuffix(preview.tail, bytes)
  /\ Decodes(preview.head) /\ Decodes(preview.tail)

-----------------------------------------------------------------------------
(* A read of a file: what it shows of it, and where it says that the next    *)
(* page begins (normalizeReadRange and cachedReadResult in                   *)
(* src/tools/files.js).                                                      *)

LinesOf(bytes) ==
  LET ends == SetToSortSeq({i \in DOMAIN bytes : bytes[i] = 10 \/ i = Len(bytes)}, <)
  IN  [k \in DOMAIN ends |-> Slice(bytes, IF k = 1 THEN 0 ELSE ends[k - 1], ends[k])]

(* A range by lines or by an offset and a number of lines, not by both.      *)
ByOffset(args) == args.offset # NotGiven \/ args.limit # NotGiven
NormalizeReadRange(args) ==
  LET start == IF ByOffset(args) THEN Given(args.offset, 0) + 1 ELSE Given(args.startLine, 1)
      end == IF ByOffset(args) /\ args.limit # NotGiven THEN start + args.limit - 1 ELSE args.endLine
  IN  IF (ByLine(args) /\ ByOffset(args)) \/ (end # NotGiven /\ end < start) THEN Invalid
      ELSE [startLine |-> start, endLine |-> end, maxBytes |-> args.maxBytes]

(* A character that the cap would split is left out.                         *)
Whole(bytes) == SubSeq(bytes, 1, Max({n \in 0 .. Len(bytes) : Decodes(SubSeq(bytes, 1, n))}))

NextAfter(shown) ==
  Len(LinesOf(shown)) - IF shown # <<>> /\ Last(shown) # 10 THEN 1 ELSE 0

Showing(shown, truncated, range, after) ==
  [content |-> shown, truncated |-> truncated,
   endLine |-> range.startLine + Len(LinesOf(shown)) - 1,
   nextStartLine |-> IF truncated THEN range.startLine + NextAfter(shown) ELSE after]
Select(selected, range, after) ==
  LET truncated == Len(selected) > range.maxBytes
  IN  Showing(IF truncated THEN Whole(Slice(selected, 0, range.maxBytes)) ELSE selected,
              truncated, range, after)
EndIn(lines, range) ==
  IF range.endLine = NotGiven THEN Len(lines) ELSE Min({range.endLine, Len(lines)})
ReadLines(lines, range, end) ==
  Select(FlattenSeq(SubSeq(lines, range.startLine, end)), range,
         IF end < Len(lines) THEN end + 1 ELSE NotGiven)
ReadFrom(lines, range) == ReadLines(lines, range, EndIn(lines, range))
ReadResult(text, range) == ReadFrom(LinesOf(Bytes(text)), range)

-----------------------------------------------------------------------------
(* What it means: the content is what begins at the first line asked for, in *)
(* whole characters and within the limit; the next page begins with the      *)
(* first line that is not shown whole, and there is none only at the end. (It*)
(* begins where this one did if that line alone is too long.)                *)
FileIsReadExactly(text, args) ==
  \A range \in {NormalizeReadRange(args)}, lines \in {LinesOf(Bytes(text))} :
  LET Until(line) == FlattenSeq(SubSeq(lines, range.startLine, line - 1))
      lastLine == EndIn(lines, range)
  IN  range # Invalid => \A result \in {ReadResult(text, range)} :
        /\ IsPrefix(result.content, FlattenSeq(SubSeq(lines, range.startLine, Len(lines))))
        /\ Decodes(result.content) /\ Len(result.content) <= range.maxBytes
        /\ \A line \in range.startLine .. Len(lines) :
             /\ line <= result.endLine <=> IsStrictPrefix(Until(line), result.content)
             /\ result.nextStartLine # NotGiven =>
                  (line < result.nextStartLine <=> IsPrefix(Until(line + 1), result.content))
             /\ result.nextStartLine = NotGiven => line <= result.endLine
        /\ result.truncated => result.nextStartLine <= lastLine
=============================================================================
