----------------------------- MODULE PromptFrame -----------------------------
(* How the prompt is laid out in the rows of the terminal and redrawn in     *)
(* place (src/terminal/promptLayout.js). A text is the sequence of what it   *)
(* shows: glyphs of one or two cells, marks of none, styles, tabs, newlines. *)
EXTENDS Integers, Sequences, SequencesExt, FiniteSetsExt

CONSTANT None

GraphemeWidth(glyph) ==
  CASE glyph = "wide" -> 2 [] glyph \in {"mark", "style"} -> 0 [] OTHER -> 1
DisplayedWidth(glyph, columns) ==
  IF GraphemeWidth(glyph) > columns THEN 1 ELSE GraphemeWidth(glyph)

-----------------------------------------------------------------------------
(* Rows and the caret before the glyph at `offset`. A full last row is       *)
(* followed by an empty one.                                                 *)

NextLine(s) == [s EXCEPT !.rows = Append(@, <<>>), !.column = 0]
NextLineIf(s, full) == IF full THEN NextLine(s) ELSE s
Put(s, glyph, width) ==
  [s EXCEPT !.rows[Len(s.rows)] = Append(@, glyph), !.column = @ + width]
Position(s, columns) ==
  IF s.column = columns THEN [row |-> Len(s.rows), column |-> 0]
  ELSE [row |-> Len(s.rows) - 1, column |-> s.column]
Marked(s, here, columns) ==
  IF here /\ s.caret = None THEN [s EXCEPT !.caret = Position(s, columns)] ELSE s

Tab(s, columns) ==
  FoldLeft(LAMBDA t, i : Put(NextLineIf(t, t.column = columns), "space", 1),
           NextLineIf(s, s.column = columns),
           [i \in 1 .. 8 - (s.column % 8) |-> i])

Overflows(s, glyph, columns) ==
  LET width == DisplayedWidth(glyph, columns)
  IN  width > 0 /\ s.column + width > columns /\ s.column > 0
Place(s, glyph, here, columns) ==
  CASE glyph = "style" -> Put(s, glyph, 0)
    [] glyph = "newline" -> NextLine(Marked(s, here, columns))
    [] glyph = "tab" -> Tab(Marked(s, here, columns), columns)
    [] OTHER -> Put(Marked(NextLineIf(s, Overflows(s, glyph, columns)), here, columns),
                    glyph, DisplayedWidth(glyph, columns))

Layout(s, end) ==
  [lines |-> s.rows, end |-> end, cursor |-> IF s.caret = None THEN end ELSE s.caret]
Ended(s) == Layout(s, [row |-> Len(s.rows) - 1, column |-> s.column])
LastLine(s, columns) == Ended(NextLineIf(s, s.column = columns))
LayoutTerminalText(text, columns, offset) ==
  LastLine(FoldLeft(LAMBDA s, i : Place(s, text[i], offset < i, columns),
                    [rows |-> <<<<>>>>, column |-> 0, caret |-> None],
                    [i \in DOMAIN text |-> i]), columns)

RowWidth(row, columns) ==
  FoldLeft(LAMBDA n, glyph : n + DisplayedWidth(glyph, columns), 0, row)
Cells(glyphs) == SelectSeq(glyphs, LAMBDA glyph : GraphemeWidth(glyph) > 0)

(* No row is wider than the terminal, nothing is dropped or moved, and the   *)
(* caret stands in the terminal, behind what is before its offset and before *)
(* the rest, also where a wide glyph or a full row moves to the next row.    *)
LaidOut(text, columns, offset) ==
  \A layout \in {LayoutTerminalText(text, columns, offset)} :
  LET caret == layout.cursor
      drawn(glyphs) == Cells(SelectSeq(glyphs, LAMBDA glyph : glyph # "newline"))
  IN  /\ \A i \in DOMAIN layout.lines : RowWidth(layout.lines[i], columns) <= columns
      /\ caret.row + 1 \in DOMAIN layout.lines /\ caret.column < columns
      /\ ~Contains(text, "tab") =>
           /\ Cells(FlattenSeq(layout.lines)) = drawn(text)
           /\ RowWidth(drawn(SubSeq(text, 1, offset)), columns)
                = RowWidth(FlattenSeq(SubSeq(layout.lines, 1, caret.row)), columns) + caret.column

-----------------------------------------------------------------------------
(* The part of the prompt and its menu that fits the terminal. The selected  *)
(* option takes up the menu's lines from focus.start to focus.end.           *)

WithNewlines(lines) ==
  FlattenSeq([i \in DOMAIN lines |-> IF i = 1 THEN lines[i] ELSE <<"newline">> \o lines[i]])
MenuRows(menu, columns) == LayoutTerminalText(WithNewlines(menu), columns, 0).lines
PhysicalRows(menu, columns) ==
  IF menu = <<>> THEN 0
  ELSE LayoutTerminalText(Append(WithNewlines(menu), "newline"), columns, 0).end.row

ViewportStart(base, menu, columns, height) ==
  LET reserve == IF menu # <<>> /\ base.cursor.row = base.end.row
                 THEN Min({Len(MenuRows(menu, columns)), height \div 3}) ELSE 0
  IN  Max({0, base.cursor.row - height + 1 + reserve})

(* As many of the menu's first lines are dropped as the focus needs.         *)
FitsUnwrapped(base, menu, focus, start, columns, height) ==
  Len(base.lines) + focus.end - start
    <= ViewportStart(base, SubSeq(menu, start + 1, Len(menu)), columns, height) + height
FitsFrom(base, menu, focus, start, columns, height) ==
  Len(base.lines) + PhysicalRows(SubSeq(menu, start + 1, focus.end), columns)
    <= ViewportStart(base, SubSeq(menu, start + 1, Len(menu)), columns, height) + height
MenuStart(base, menu, focus, columns, height) ==
  Min({start \in 0 .. focus.start :
         start = focus.start \/ FitsFrom(base, menu, focus, start, columns, height)})

Viewport(base, rows, first, start, height) ==
  [lines |-> SubSeq(rows, first + 1, Min({Len(rows), first + height})),
   cursor |-> [row |-> base.cursor.row - first, column |-> base.cursor.column],
   start |-> start, viewportStart |-> first, textRows |-> Len(base.lines)]
FrameWith(base, shown, start, columns, height) ==
  Viewport(base, base.lines \o IF shown = <<>> THEN <<>> ELSE MenuRows(shown, columns),
           ViewportStart(base, shown, columns, height), start, height)
FrameFrom(base, menu, start, columns, height) ==
  FrameWith(base, SubSeq(menu, start + 1, Len(menu)), start, columns, height)
FrameOf(base, columns, height, menu, focus) ==
  FrameFrom(base, menu, MenuStart(base, menu, focus, columns, height), columns, height)
LayoutPromptFrame(text, offset, columns, height, menu, focus) ==
  FrameOf(LayoutTerminalText(text, columns, offset), columns, height, menu, focus)

(* The frame fits the terminal, the caret is in it, and all of the selected  *)
(* option too unless the text and the option alone fill the terminal.        *)
ShowsCaretAndChoice(text, offset, columns, height, menu, focus) ==
  \A frame \in {LayoutPromptFrame(text, offset, columns, height, menu, focus)} :
    LET textRows == frame.textRows - frame.viewportStart
        rowsFrom(first) == PhysicalRows(SubSeq(menu, first + 1, focus.end), columns)
    IN  /\ Len(frame.lines) <= height
        /\ frame.cursor.row + 1 \in DOMAIN frame.lines
        /\ textRows + rowsFrom(focus.start) <= height => textRows + rowsFrom(frame.start) <= height
        /\ frame.start <= focus.start

-----------------------------------------------------------------------------
(* The escape sequences that turn one frame into the next, from the caret of *)
(* the one that is shown.                                                    *)

VerticalMove(delta) ==
  CASE delta < 0 -> <<[do |-> "up", by |-> -delta]>>
    [] delta > 0 -> <<[do |-> "down", by |-> delta]>>
    [] OTHER -> <<>>
Do(what) == <<[do |-> what]>>
MoveTo(row, target) == VerticalMove(target - row) \o Do("return")
CrLf == Do("return") \o Do("newline")

Same(previous, next) ==
  LET most == Min({Len(previous.lines), Len(next.lines)})
  IN  Min({i \in 0 .. most : i = most \/ previous.lines[i + 1] # next.lines[i + 1]})

Rewritten(next, first) ==
  FlattenSeq([i \in 1 .. Len(next.lines) - first |->
    (IF i = 1 THEN <<>> ELSE CrLf) \o <<[do |-> "write", row |-> next.lines[first + i]]>>])
Reach(previous, first) ==
  CASE first < Len(previous.lines) -> MoveTo(previous.cursor.row, first)
    [] first >= Len(previous.lines) /\ first > 0 ->
         MoveTo(previous.cursor.row, first - 1) \o Do("newline")
    [] OTHER -> <<>>

FramePatch(previous, next) ==
  LET first == Same(previous, next)
      old == Len(previous.lines)
      new == Len(next.lines)
      changed == first < new
      shorter == old > new
      last == IF changed THEN new - 1 ELSE previous.cursor.row
      row == IF shorter THEN new ELSE last
  IN  (IF changed THEN Reach(previous, first) \o Rewritten(next, first) ELSE <<>>)
        \o (CASE ~shorter -> <<>>
              [] shorter /\ changed -> CrLf \o Do("clear")
              [] OTHER -> MoveTo(previous.cursor.row, new) \o Do("clear"))
        \o VerticalMove(next.cursor.row - row) \o Do("return")
        \o <<[do |-> "right", by |-> next.cursor.column]>>

(* A terminal: the last row scrolls, moves stop at the edges. The rows above *)
(* the frame have numbers of their own.                                      *)
Blank == 0
Act(terminal, sequence) ==
  LET at == terminal.at
      height == Len(terminal.rows)
  IN  CASE sequence.do = "up" -> [terminal EXCEPT !.at = Max({1, at - sequence.by})]
        [] sequence.do = "down" -> [terminal EXCEPT !.at = Min({height, at + sequence.by})]
        [] sequence.do = "right" -> [terminal EXCEPT !.column = @ + sequence.by]
        [] sequence.do = "return" -> [terminal EXCEPT !.column = 0]
        [] sequence.do = "write" -> [terminal EXCEPT !.rows[at] = sequence.row]
        [] sequence.do = "clear" ->
             [terminal EXCEPT !.rows = [i \in DOMAIN @ |-> IF i < at THEN @[i] ELSE Blank]]
        [] sequence.do = "newline" /\ at < height -> [terminal EXCEPT !.at = at + 1]
        [] sequence.do = "newline" /\ at = height ->
             [terminal EXCEPT !.rows = Append(Tail(@), Blank)]

NoFrame == [lines |-> <<>>, cursor |-> [row |-> 0, column |-> 0]]
Showing(frame, top, height) ==
  [rows |-> [i \in 1 .. height |->
               CASE i < top -> -i
                 [] i >= top /\ i < top + Len(frame.lines) -> frame.lines[i - top + 1]
                 [] OTHER -> Blank],
   at |-> top + frame.cursor.row, column |-> frame.cursor.column]

(* Wherever the old frame stands on the screen, the patch leaves the new one *)
(* in its place, the caret in it, nothing of the old one and all of what is  *)
(* above, scrolled by what the frame no longer fits.                         *)
DrawsFrame(previous, next, top, height) ==
  LET after == FoldLeft(Act, Showing(previous, top, height), FramePatch(previous, next))
      scrolled == Max({0, top + Len(next.lines) - 1 - height})
      expected == Showing(next, top - scrolled, height)
  IN  after = [expected EXCEPT !.rows =
                 [i \in DOMAIN @ |-> IF i < top - scrolled THEN -(i + scrolled) ELSE @[i]]]
=============================================================================
