------------------------------- MODULE Markdown -------------------------------
(* How answers reach the terminal while they stream in, and how their text   *)
(* is styled, wrapped and put in tables (src/terminal/markdown.js).          *)
EXTENDS Integers, Sequences, SequencesExt, FiniteSetsExt

Total(numbers) == FoldLeft(LAMBDA sum, n : sum + n, 0, numbers)

-----------------------------------------------------------------------------
(* Streaming. A text is the sequence of the kinds of its lines; a chunk ends *)
(* after so many complete lines.                                             *)

Fences(lines) == Len(SelectSeq(lines, LAMBDA line : line = "fence"))
InFence(lines) == Fences(lines) % 2 = 1
AfterFence(lines) == Fences(lines) = 1
FenceOpen(lines) == InFence(lines)

(* All up to the last blank line that is in no fence is ready.               *)
SplitFlushableMarkdown(lines) ==
  Max({0} \cup {i \in DOMAIN lines : lines[i] = "blank" /\ ~FenceOpen(SubSeq(lines, 1, i))})

Push(s, text, upto) ==
  LET ready == SplitFlushableMarkdown(SubSeq(text, s.shown + 1, upto))
  IN  IF ready = 0 THEN s
      ELSE [shown |-> s.shown + ready,
            pieces |-> Append(s.pieces, SubSeq(text, s.shown + 1, s.shown + ready))]
Flush(s, text) == Append(s.pieces, SubSeq(text, s.shown + 1, Len(text)))
Streamed(text, chunks) ==
  Flush(FoldLeft(LAMBDA s, upto : Push(s, text, upto), [shown |-> 0, pieces |-> <<>>], chunks), text)

(* A piece with markup of tool calls is hidden. Lines in a fence are code.   *)
Notice == "notice"
StripPseudoToolMarkup(piece) == Contains(piece, "markup")
RenderMarkdown(piece) ==
  IF StripPseudoToolMarkup(piece) THEN <<Notice>>
  ELSE LET styled == [i \in DOMAIN piece |->
                        [line |-> piece[i], code |-> InFence(SubSeq(piece, 1, i))]]
       IN  SelectSeq(styled, LAMBDA shown : shown.line # "blank")

(* Whatever the chunks, what is shown line by line is what the whole text    *)
(* shows, code as code, and only pieces with markup are replaced.            *)
StreamsAsWhole(text, chunks) ==
  LET pieces == Streamed(text, chunks)
      clean == SelectSeq(pieces, LAMBDA piece : ~Contains(piece, "markup"))
      upTo(i) == Total([k \in 1 .. i |-> Len(pieces[k])])
      whole(i) == SelectSeq([k \in 1 .. Len(pieces[i]) |->
                               [line |-> text[upTo(i - 1) + k],
                                code |-> InFence(SubSeq(text, 1, upTo(i - 1) + k))]],
                            LAMBDA shown : shown.line # "blank")
  IN  /\ FlattenSeq(pieces) = text
      /\ \A i \in DOMAIN pieces :
           RenderMarkdown(pieces[i]) = IF Contains(pieces[i], "markup") THEN <<Notice>> ELSE whole(i)

-----------------------------------------------------------------------------
(* Inline styles. A reset ends all of them, so those still open are set      *)
(* again after it.                                                           *)

WithoutLast(styles, style) ==
  LET at == Max({0} \cup {i \in DOMAIN styles : styles[i] = style})
  IN  IF at = 0 THEN styles ELSE RemoveAt(styles, at)
CloseInlineStyle(active, style) == <<"reset">> \o WithoutLast(active, style)

RenderToken(s, token) ==
  CASE token.type = "text" -> [s EXCEPT !.output = @ \o <<"text">>]
    [] token.type = "code" -> [s EXCEPT !.output = @ \o <<"code", "text", "reset">> \o s.active]
    [] token.type = "link" -> [s EXCEPT !.output = @ \o <<"dim", "text", "reset">> \o s.active]
    [] token.type = "open" -> [s EXCEPT !.active = Append(@, token.style),
                                        !.output = Append(@, token.style)]
    [] token.type = "close" -> [s EXCEPT !.active = WithoutLast(@, token.style),
                                         !.output = @ \o CloseInlineStyle(s.active, token.style)]
RenderInlineTokens(tokens) ==
  LET s == FoldLeft(RenderToken, [active |-> <<>>, output |-> <<>>], tokens)
  IN  s.output \o IF s.active # <<>> THEN <<"reset">> ELSE <<>>

(* The styles each text is in: as the tokens nest and as the terminal has it.*)
Nested(tokens) ==
  FoldLeft(LAMBDA s, token :
             CASE token.type = "open" -> [s EXCEPT !.open = Append(@, token.style)]
               [] token.type = "close" -> [s EXCEPT !.open = Front(@)]
               [] OTHER -> [s EXCEPT !.texts = Append(@, ToSet(s.open) \cup
                              (CASE token.type = "code" -> {"code"}
                                 [] token.type = "link" -> {"dim"} [] OTHER -> {}))],
           [open |-> <<>>, texts |-> <<>>], tokens).texts
Terminal(output) ==
  FoldLeft(LAMBDA s, code :
             CASE code = "text" -> [s EXCEPT !.texts = Append(@, s.on)]
               [] code = "reset" -> [s EXCEPT !.on = {}]
               [] OTHER -> [s EXCEPT !.on = @ \cup {code}],
           [on |-> {}, texts |-> <<>>], output)

(* Each text has the styles it is nested in, and the line leaves none behind.*)
StyledAsNested(tokens) ==
  LET terminal == Terminal(RenderInlineTokens(tokens))
  IN  terminal.texts = Nested(tokens) /\ terminal.on = {}

-----------------------------------------------------------------------------
(* Wrapping at spaces, else anywhere. Escape sequences take up no cell.      *)

TokenWidth(token) == CASE token = "wide" -> 2 [] token = "style" -> 0 [] OTHER -> 1
DisplayWidth(tokens) == Total([i \in DOMAIN tokens |-> TokenWidth(tokens[i])])
Breaks(tokens) == {i \in DOMAIN tokens : tokens[i] = "space"}
FindLastBreak(tokens) == Max({0} \cup Breaks(tokens))

TrimStart(tokens) ==
  LET first == Min({Len(tokens) + 1} \cup (DOMAIN tokens \ Breaks(tokens)))
  IN  SubSeq(tokens, first, Len(tokens))
TrimEnd(tokens) ==
  SubSeq(tokens, 1, Max({0} \cup (DOMAIN tokens \ Breaks(tokens))))
AddLine(lines, line) == IF line = <<>> THEN lines ELSE Append(lines, line)

Carried(line, break) == TrimStart(SubSeq(line, break + 1, Len(line)))

WrapToken(s, token, width) ==
  LET line == Append(s.line, token)
      break == FindLastBreak(line)
  IN  IF DisplayWidth(line) <= width \/ Len(line) = 1 THEN [s EXCEPT !.line = line]
      ELSE IF break > 0
      THEN [lines |-> AddLine(s.lines, TrimEnd(SubSeq(line, 1, break - 1))),
            line |-> Carried(line, break)]
      ELSE [lines |-> AddLine(s.lines, TrimEnd(s.line)), line |-> <<token>>]

WrapAnsiText(tokens, width) ==
  LET s == FoldLeft(LAMBDA t, token : WrapToken(t, token, width),
                    [lines |-> <<>>, line |-> <<>>], tokens)
      lines == AddLine(s.lines, TrimEnd(s.line))
  IN  IF lines = <<>> THEN <<<<>>>> ELSE lines

(* Words that do not fit one line are cut wherever the line ends.            *)
HardWrapLongLine(line, width) ==
  LET s == FoldLeft(LAMBDA t, char :
             IF DisplayWidth(Append(t.line, char)) > width /\ t.line # <<>>
             THEN [lines |-> Append(t.lines, t.line), line |-> <<char>>]
             ELSE [t EXCEPT !.line = Append(@, char)],
             [lines |-> <<>>, line |-> <<>>], line)
  IN  IF DisplayWidth(line) <= width THEN <<line>> ELSE AddLine(s.lines, s.line)

JoinWord(s, word, width) ==
  LET longer == s.line \o <<"space">> \o word
  IN  CASE s.line = <<>> -> [s EXCEPT !.line = word]
        [] s.line # <<>> /\ DisplayWidth(longer) <= width -> [s EXCEPT !.line = longer]
        [] OTHER -> [lines |-> Append(s.lines, s.line), line |-> word]
WrapPlainText(words, width) ==
  LET s == FoldLeft(LAMBDA t, word : JoinWord(t, word, width),
                    [lines |-> <<>>, line |-> <<>>], words)
      lines == AddLine(s.lines, s.line)
  IN  FlattenSeq([i \in DOMAIN lines |-> HardWrapLongLine(lines[i], width)])

(* Nothing but spaces is dropped and no line is too wide. (A line that keeps *)
(* a space at its start, behind a style, may be by a wide glyph's last cell.)*)
Spaceless(tokens) == SelectSeq(tokens, LAMBDA token : token # "space")
WrapsAll(tokens, width) ==
  LET lines == WrapAnsiText(tokens, width)
      glyphs == SelectSeq(tokens, LAMBDA token : token # "style")
      spaced == \E i \in Breaks(glyphs) : i = 1 \/ glyphs[i - 1] = "space"
      slack == IF spaced THEN 1 ELSE 0
  IN  /\ Spaceless(FlattenSeq(lines)) = Spaceless(tokens)
      /\ \A i \in DOMAIN lines : DisplayWidth(lines[i]) <= width + slack
WrapsWords(words, width) ==
  LET lines == WrapPlainText(words, width)
  IN  /\ Spaceless(FlattenSeq(lines)) = FlattenSeq(words)
      /\ \A i \in DOMAIN lines : DisplayWidth(lines[i]) <= width

-----------------------------------------------------------------------------
(* The columns of a table that is too wide give up cells, the widest first.  *)

Available(natural, tableWidth) ==
  Max({Len(natural) * 3, tableWidth - (Len(natural) * 3 + 1)})
MinWidth(natural, i, available) ==
  Min({natural[i], Max({3, (available \div Len(natural)) \div 2})})

Narrowed(widths, natural, available) ==
  LET extra(i) == widths[i] - MinWidth(natural, i, available)
      most == Max({extra(i) : i \in DOMAIN widths})
  IN  IF Total(widths) <= available \/ most <= 0 THEN widths
      ELSE [widths EXCEPT ![Min({i \in DOMAIN widths : extra(i) = most})] = @ - 1]
NarrowedMore(widths, available) ==
  LET most == Max(ToSet(widths))
  IN  IF Total(widths) <= available \/ most <= 1 THEN widths
      ELSE [widths EXCEPT ![Min({i \in DOMAIN widths : widths[i] = most})] = @ - 1]

FitInto(natural, available) ==   \* each round takes one cell, while there are too many
  LET rounds == [i \in 1 .. Total(natural) - available |-> i]
      narrow == FoldLeft(LAMBDA w, i : Narrowed(w, natural, available), natural, rounds)
      narrower == FoldLeft(LAMBDA w, i : NarrowedMore(w, available), narrow, rounds)
  IN  IF rounds = <<>> THEN natural ELSE [i \in DOMAIN natural |-> Max({1, narrower[i]})]
FitTableColumnWidths(natural, tableWidth) == FitInto(natural, Available(natural, tableWidth))

(* The table fits, save one cell for each empty column; no column grows      *)
(* beyond what it holds, shrinks below three cells or shrinks for nothing.   *)
FitsTable(natural, tableWidth) ==
  \A widths \in {FitTableColumnWidths(natural, tableWidth)} :
  LET empty == Len(SelectSeq(natural, LAMBDA width : width = 0))
      available == Available(natural, tableWidth)
  IN  /\ Total(widths) <= available + empty
      /\ \A i \in DOMAIN widths :
           widths[i] >= Min({natural[i], 3}) /\ widths[i] <= Max({natural[i], 1})
      /\ widths # natural => Total(natural) > available /\ Total(widths) >= available
-----------------------------------------------------------------------------
(* How nested lists and quotes of an answer are found in the parser's tokens *)
(* and rendered (parseMarkdownItBlocks).                                     *)

From(tokens, i) == SubSeq(tokens, i, Len(tokens))
Between(tokens, open, close) == SubSeq(tokens, open + 1, close - 1)

Opened(tokens, type) == Len(SelectSeq(tokens, LAMBDA token : token.type = type))
FindMatchingToken(tokens, open, close) ==
  Min({Len(tokens)} \cup
      {i \in DOMAIN tokens : /\ tokens[i].type = close
                             /\ Opened(SubSeq(tokens, 1, i), open)
                                  = Opened(SubSeq(tokens, 1, i), close)})

RECURSIVE ParseMarkdownItBlocks(_), CollectItems(_, _)

ParseListItemTokens(tokens, number) ==
  IF tokens # <<>> /\ tokens[1].type = "paragraph_open"
  THEN [number |-> number, text |-> tokens[2].text,
        childBlocks |-> ParseMarkdownItBlocks(From(tokens, 4))]
  ELSE [number |-> number, text |-> 0, childBlocks |-> ParseMarkdownItBlocks(tokens)]

CollectItems(tokens, number) ==
  LET close == FindMatchingToken(tokens, "item_open", "item_close")
  IN  CASE tokens = <<>> -> <<>>
        [] tokens # <<>> /\ Head(tokens).type = "item_open" ->
             <<ParseListItemTokens(Between(tokens, 1, close), number)>>
               \o CollectItems(From(tokens, close + 1), number + 1)
        [] OTHER -> CollectItems(Tail(tokens), number)

ParseMarkdownItBlocks(tokens) ==
  LET type == IF tokens = <<>> THEN "end" ELSE Head(tokens).type
      closeQuote == FindMatchingToken(tokens, "quote_open", "quote_close")
      closeList == FindMatchingToken(tokens, "list_open", "list_close")
  IN  CASE type = "end" -> <<>>
        [] type = "paragraph_open" ->
             <<[type |-> "text", text |-> tokens[2].text]>>
               \o ParseMarkdownItBlocks(From(tokens, 4))
        [] type = "code" ->
             <<[type |-> "text", text |-> Head(tokens).text]>>
               \o ParseMarkdownItBlocks(Tail(tokens))
        [] type = "quote_open" ->
             <<[type |-> "quote", blocks |-> ParseMarkdownItBlocks(Between(tokens, 1, closeQuote))]>>
               \o ParseMarkdownItBlocks(From(tokens, closeQuote + 1))
        [] type = "list_open" ->
             <<[type |-> "list", items |-> CollectItems(Between(tokens, 1, closeList), Head(tokens).text)]>>
               \o ParseMarkdownItBlocks(From(tokens, closeList + 1))
        [] OTHER -> ParseMarkdownItBlocks(Tail(tokens))

(* A rendered line is its text behind the marks of what it stands in.        *)
Behind(mark, lines) ==
  [i \in DOMAIN lines |-> [lines[i] EXCEPT !.marks = <<mark>> \o @]]
Line(text) == [marks |-> <<>>, text |-> text]
Bar == <<"bar", 0>>
Indent == <<"indent", 0>>
Marker(number) == <<"marker", number>>

RECURSIVE RenderBlocks(_)
RenderList(items) ==
  FlattenSeq([i \in DOMAIN items |->
    Behind(Marker(items[i].number), <<Line(items[i].text)>>)
      \o Behind(Indent, RenderBlocks(items[i].childBlocks))])
RenderBlock(block) ==
  CASE block.type = "text" -> <<Line(block.text)>>
    [] block.type = "quote" -> Behind(Bar, RenderBlocks(block.blocks))
    [] block.type = "list" -> RenderList(block.items)
RenderBlocks(blocks) == FlattenSeq([i \in DOMAIN blocks |-> RenderBlock(blocks[i])])

-----------------------------------------------------------------------------
(* A document as a tree: texts, quotes of nodes, lists of items of nodes.    *)

Token(type, text) == <<[type |-> type, text |-> text]>>
RECURSIVE TokensOf(_)
TokensOf(nodes) ==
  FlattenSeq([i \in DOMAIN nodes |->
    LET node == nodes[i]
    IN  CASE node.kind = "paragraph" ->
               Token("paragraph_open", 0) \o Token("inline", node.text) \o Token("paragraph_close", 0)
          [] node.kind = "code" -> Token("code", node.text)
          [] node.kind = "quote" ->
               Token("quote_open", 0) \o TokensOf(node.nodes) \o Token("quote_close", 0)
          [] node.kind = "list" ->
               Token("list_open", 3)
                 \o FlattenSeq([k \in DOMAIN node.items |->
                      Token("item_open", 0) \o TokensOf(node.items[k]) \o Token("item_close", 0)])
                 \o Token("list_close", 0)])

RECURSIVE Meant(_)
MeantItem(nodes, number) ==
  LET own == nodes # <<>> /\ nodes[1].kind = "paragraph"
  IN  <<[marks |-> <<Marker(number)>>, text |-> IF own THEN nodes[1].text ELSE 0]>>
        \o Behind(Indent, Meant(IF own THEN Tail(nodes) ELSE nodes))
Meant(nodes) ==
  FlattenSeq([i \in DOMAIN nodes |->
    LET node == nodes[i]
    IN  CASE node.kind \in {"paragraph", "code"} -> <<Line(node.text)>>
          [] node.kind = "quote" -> Behind(Bar, Meant(node.nodes))
          [] node.kind = "list" ->
               FlattenSeq([k \in DOMAIN node.items |-> MeantItem(node.items[k], 2 + k)])])

(* Each text of a document is shown once, in its order, behind the marks of  *)
(* just the quotes, lists and numbered items it stands in.                   *)
RendersAsNested(document) ==
  RenderBlocks(ParseMarkdownItBlocks(TokensOf(document))) = Meant(document)
=============================================================================
