----------------------------- MODULE MCAlgorithms -----------------------------
(* The pure functions of the system, each over every input within a bound.   *)
EXTENDS PromptFrame, Markdown

VARIABLE input

H == INSTANCE Hunks WITH Context <- 1
O == INSTANCE OutputPages WITH Before <- 1, Wide <- 3
P == INSTANCE Patches WITH Context <- 1
R == INSTANCE ResponseStream

UpTo(n, S) == UNION {[1 .. k -> S] : k \in 0 .. n}

-----------------------------------------------------------------------------
(* Texts of up to three lines and patches of one or two hunks.               *)

Words == {"a", "b"}
Endings(n) == {[i \in 1 .. n |-> IF i = n THEN last ELSE IF i = 1 THEN first ELSE "lf"] :
                 first \in {"lf", "crlf"}, last \in {"", "lf"}}
Lines ==
  UNION {{[i \in 1 .. n |-> [text |-> words[i], eol |-> ends[i]]] :
            words \in [1 .. n -> Words], ends \in Endings(n)} : n \in 0 .. 3}
Hunks ==
  [start : 1 .. 4, old : UNION {[1 .. n -> Words] : n \in 0 .. 2}, new : {<<>>, <<"n">>}]

Patching ==
  \E lines \in Lines, first \in Hunks :
    input' = [of |-> "patch", lines |-> lines, hunks |-> <<first>>]
PatchingMore ==
  /\ input.of = "patch" /\ Len(input.hunks) = 1
  /\ P!ResolveHunkStart(input.lines, input.hunks[1]) > 0
  /\ \E second \in Hunks : input' = [input EXCEPT !.hunks = Append(@, second)]

(* Texts of up to five lines before and after a change.                      *)
DiffTexts ==
  {FlattenSeq(lines) \o last : lines \in UpTo(4, {<<"a", "n">>, <<"b", "r", "n">>}), last \in {<<>>, <<"a">>}}
Comparing ==
  \E original \in DiffTexts, next \in DiffTexts :
    input' = [of |-> "diff", original |-> original, next |-> next]

(* Documents three deep and patches of one or two operations.                *)
Leaf(n) == [kind |-> "leaf", value |-> n]
Arrays(values) == {[kind |-> "array", items |-> items] : items \in UpTo(2, values)}
Objects(values) ==
  {[kind |-> "object", fields |-> fields] : fields \in UNION {[keys -> values] : keys \in {{}, {"k"}, {"0"}}}}
Inner == {Leaf(1)} \cup Arrays({Leaf(1)}) \cup Objects({Leaf(2)})
Pointers == UpTo(3, {"0", "1", "-", "k"}) \ {<<>>}
Operations ==
  [op : {"set", "append"}, pointer : Pointers, value : {Leaf(3), [kind |-> "array", items |-> <<>>]}]
    \cup [op : {"delete"}, pointer : Pointers]
Editing ==
  \E root \in Arrays(Inner) \cup Objects(Inner), operation \in Operations :
    input' = [of |-> "json", root |-> root, operations |-> <<operation>>]
EditingMore ==
  /\ input.of = "json" /\ Len(input.operations) = 1
  /\ P!PlanJsonPatch(input.root, input.operations) # P!Missing
  /\ \E second \in [op : {"delete"}, pointer : {<<"0">>, <<"k">>, <<"0", "0">>}] :
       input' = [input EXCEPT !.operations = Append(@, second)]

(* A patch that is accepted leaves in the file what it means, hunk by hunk,  *)
(* although the hunks are moved, sorted and shifted by one another           *)
(* (planStructuredPatch); a patch of a document changes the places it names  *)
(* (planJsonPatch). The diff shown before turns the old lines into the new,  *)
(* and the counts are those of the smallest change (textDiff.js).            *)
PatchLeavesWhatItMeans ==
  /\ input.of = "patch" => P!LeavesWhatItMeans(input.lines, input.hunks)
  /\ input.of = "diff" => P!DiffTells(input.original, input.next)
  /\ input.of = "json" => P!ChangesWhatItNames(input.root, input.operations)

-----------------------------------------------------------------------------
(* Texts of up to four glyphs in a terminal of one to three columns; prompts *)
(* with menus of up to three lines; frames of up to three lines.             *)

Glyphs == {"narrow", "wide", "mark", "newline", "tab"}

LayingOut ==
  \E text \in UpTo(4, Glyphs), columns \in 1 .. 3 : \E offset \in 0 .. Len(text) :
    input' = [of |-> "layout", text |-> text, columns |-> columns, offset |-> offset]

MenuLines == {<<"narrow">>, <<"narrow", "narrow">>, <<"narrow", "narrow", "narrow">>}
Prompting ==
  \E text \in UpTo(4, {"narrow", "newline"}), menu \in UpTo(3, MenuLines), height \in 1 .. 5 :
  \E offset \in 0 .. Len(text), chosen \in DOMAIN menu :
    input' = [of |-> "prompt", text |-> text, offset |-> offset, height |-> height,
              menu |-> menu, focus |-> [start |-> chosen - 1, end |-> chosen]]

Frames ==
  UNION {[lines : [1 .. n -> {1, 2}], cursor : [row : 0 .. n - 1, column : 0 .. 1]] : n \in 1 .. 3}
Redrawing ==
  \E previous \in Frames \cup {NoFrame}, next \in Frames, height \in 3 .. 4 :
  \E top \in 1 .. height - Max({0, Len(previous.lines) - 1}) :
    input' = [of |-> "frame", previous |-> previous, next |-> next, height |-> height, top |-> top]

(* A text of any glyphs and any width of the terminal is laid out whole, and *)
(* the caret where it belongs (layoutTerminalText). However long the text    *)
(* and the menu are, the caret and the option that is selected stay on the   *)
(* screen (layoutPromptFrame). What is written for a keystroke turns the old *)
(* frame on the screen into the new one and nothing else (framePatch).       *)
TerminalShowsThePrompt ==
  /\ input.of = "layout" => LaidOut(input.text, input.columns, input.offset)
  /\ input.of = "prompt" =>
       ShowsCaretAndChoice(input.text, input.offset, 2, input.height, input.menu, input.focus)
  /\ input.of = "frame" =>
       DrawsFrame(input.previous, input.next, input.top, input.height)

-----------------------------------------------------------------------------
(* Answers of up to five lines in any chunks; up to five inline tokens; up   *)
(* to six glyphs, three words or three columns of a table.                   *)

Streaming ==
  \E text \in UpTo(5, {"text", "blank", "fence", "markup"}) : \E ends \in SUBSET (DOMAIN text) :
    input' = [of |-> "stream", text |-> text, chunks |-> SetToSortSeq(ends, <)]

Inline ==
  [type : {"text", "code", "link"}, style : {"none"}]
    \cup [type : {"open", "close"}, style : {"strong", "em"}]
OpenBefore(tokens, i) ==
  FoldLeft(LAMBDA open, token :
             CASE token.type = "open" -> Append(open, token.style)
               [] token.type = "close" /\ open # <<>> -> Front(open)
               [] OTHER -> open, <<>>, SubSeq(tokens, 1, i - 1))
WellNested(tokens) ==
  \A i \in DOMAIN tokens : tokens[i].type = "close" =>
    LET open == OpenBefore(tokens, i) IN open # <<>> /\ open[Len(open)] = tokens[i].style
Styling ==
  \E tokens \in UpTo(5, Inline) :
    WellNested(tokens) /\ input' = [of |-> "inline", tokens |-> tokens]

Wrapping ==
  \/ \E tokens \in UpTo(6, {"narrow", "wide", "style", "space"}), width \in 2 .. 4 :
       input' = [of |-> "wrap", tokens |-> tokens, width |-> width]
  \/ \E words \in UpTo(3, UpTo(3, {"narrow", "wide"}) \ {<<>>}), width \in 2 .. 4 :
       input' = [of |-> "words", words |-> words, width |-> width]
Fitting ==
  \E natural \in (UpTo(3, {0, 1, 3, 5, 8}) \cup UpTo(2, {0, 3, 8, 12})) \ {<<>>}, tableWidth \in {8, 13, 16, 22, 25} :
    input' = [of |-> "table", natural |-> natural, tableWidth |-> tableWidth]

Leaves == [kind : {"paragraph", "code"}, text : {1, 2}]
Quotes(contents) == {[kind |-> "quote", nodes |-> nodes] : nodes \in contents}
Lists(items) == {[kind |-> "list", items |-> contents] : contents \in items}
SomeOf(n, S) == UpTo(n, S) \ {<<>>}
Flat == Leaves \cup Quotes(SomeOf(2, Leaves)) \cup Lists(SomeOf(2, SomeOf(1, Leaves)))
Nest(nodes) ==
  Quotes({<<node, leaf>> : node \in nodes, leaf \in Leaves})
    \cup Lists({<<<<leaf, node>>, <<leaf>>>> : node \in nodes, leaf \in Leaves})
    \cup Lists({<<<<node>>, <<node, leaf>>>> : node \in nodes, leaf \in Leaves})
Nesting ==
  \E node \in Nest(Flat) \cup Nest(Nest(Flat)), leaf \in Leaves :
    input' = [of |-> "blocks", document |-> <<node, leaf>>]

(* An answer that streams in shows what it shows as a whole, however it is   *)
(* cut into chunks, and never the markup of a tool call (splitFlushable-     *)
(* Markdown; the fences are alike and not nested). Styles that end inside    *)
(* other styles do not end those (renderInlineTokens). Lists and quotes in   *)
(* one another keep their texts, marks and numbers (parseMarkdownItBlocks).  *)
(* Text is wrapped whole into the width there is (wrapAnsiText,              *)
(* wrapPlainText) and columns are narrowed until the table fits              *)
(* (fitTableColumnWidths).                                                   *)
AnswerIsShownWhole ==
  /\ input.of = "stream" => StreamsAsWhole(input.text, input.chunks)
  /\ input.of = "inline" => StyledAsNested(input.tokens)
  /\ input.of = "blocks" => RendersAsNested(input.document)
  /\ input.of = "wrap" => WrapsAll(input.tokens, input.width)
  /\ input.of = "words" => WrapsWords(input.words, input.width)
  /\ input.of = "table" => FitsTable(input.natural, input.tableWidth)

-----------------------------------------------------------------------------
(* Texts of up to four short lines, before and after a task, and any choice  *)
(* of the hunks between them.                                                *)
FileTexts ==
  {FlattenSeq(lines) \o last : lines \in UpTo(4, {<<"a", "n">>, <<"b", "n">>}), last \in {<<>>, <<"a">>}}
Deciding ==
  \E before \in FileTexts, after \in FileTexts : \E chosen \in SUBSET (DOMAIN H!LineHunks(before, after)) :
    \E reverse \in BOOLEAN :
      /\ chosen # {}
      /\ input' = [of |-> "hunks", before |-> before, after |-> after, chosen |-> chosen, reverse |-> reverse]

(* Undoing some of a task's hunks, or doing them again, exchanges those and  *)
(* leaves every other line, or is refused (lineHunks, applyHunks).           *)
HunksLandWhereTheyBelong ==
  input.of = "hunks" => H!LandsWhereItBelongs(input.before, input.after, input.chosen, input.reverse)

-----------------------------------------------------------------------------
(* Stored outputs of up to four UTF-16 units, halves of a character always   *)
(* together.                                                                 *)
OutputTexts ==
  {text \in UpTo(4, {"one", "two", "newline", "high", "low"}) : \A i \in DOMAIN text :
     /\ text[i] = "high" => i < Len(text) /\ text[i + 1] = "low"
     /\ text[i] = "low" => i > 1 /\ text[i - 1] = "high"}
PageArguments ==
  [startLine : {-1, 1, 2, 3}, endLine : {-1, 1, 2}, offset : {-1}, maxBytes : {1, 2, 5}]
    \cup [startLine : {-1}, endLine : {-1}, offset : {-1, 1, 3}, maxBytes : {1, 2, 5}]
Paging ==
  \E text \in OutputTexts :
    \/ \E arguments \in PageArguments, cap \in {5, 8, 11, 17} :
         input' = [of |-> "page", text |-> text, arguments |-> arguments, cap |-> cap]
    \/ \E query \in UpTo(2, {"one", "newline"}) \ {<<>>}, limit \in 1 .. 2 :
         input' = [of |-> "search", text |-> text, query |-> query, limit |-> limit]
    \/ \E cap \in 0 .. 6 : input' = [of |-> "preview", text |-> text, cap |-> cap]

FileArguments ==
  [startLine : {-1, 1, 2}, endLine : {-1, 2}, offset : {-1, 1}, limit : {-1, 1},
   maxBytes : {1, 2, 4, 9}]
ReadingFile ==
  \E text \in OutputTexts, arguments \in FileArguments :
    input' = [of |-> "file", text |-> text, arguments |-> arguments]

(* Whatever a page, a match or a preview shows of a stored output is what    *)
(* stands at the place it names, in whole characters, within its limit, and  *)
(* the pages that follow one another leave nothing out; and so for a file    *)
(* (read and search of toolOutputs.js, modelOutput.js, outputPage.js,        *)
(* cachedReadResult of files.js).                                            *)
OutputIsReadExactly ==
  /\ input.of = "page" => O!PagesAreExact(input.text, input.arguments, input.cap)
  /\ input.of = "search" => O!MatchesAreFound(input.text, input.query, input.limit)
  /\ input.of = "preview" => O!PreviewIsExact(input.text, input.cap)
  /\ input.of = "file" => O!FileIsReadExactly(input.text, input.arguments)

-----------------------------------------------------------------------------
(* Turns of up to two blocks, the last perhaps cut off, in chunks of one     *)
(* size, with the end of the stream perhaps lost; conversations of up to     *)
(* four messages. A chat stream has no call without arguments.               *)
Blocks ==
  {[type |-> "text", total |-> 2, sent |-> 2]}
    \cup {[type |-> "tool", total |-> total, sent |-> total] : total \in {0, 2}}
Turns ==
  [blocks : UpTo(2, Blocks), finish : {"stop"}]
    \cup [blocks : {blocks \o <<[type |-> "tool", total |-> 2, sent |-> 1]>> : blocks \in UpTo(1, Blocks)},
           finish : {"length"}]
LineEnds == {<<R!Token("lf")>>, <<R!Token("cr"), R!Token("lf")>>}
Receiving ==
  \E turn \in Turns, chat \in BOOLEAN, ending \in LineEnds, size \in {1, 2, 3, 5, 8, 60} :
  \E cut \in 0 .. Len(R!Tokens(R!Events(turn, chat), ending)) :
    /\ chat => \A i \in DOMAIN turn.blocks : turn.blocks[i].type = "tool" => turn.blocks[i].total > 0
    /\ input' = [of |-> "answer", turn |-> turn, chat |-> chat, ending |-> ending, size |-> size, cut |-> cut]

Messages == [role : {"system", "user", "assistant", "tool"}, content : {<<>>, <<1>>, <<1, 2>>}]
Requesting ==
  \E messages \in UpTo(3, Messages) : input' = [of |-> "request", messages |-> messages]

(* An answer is read as the provider said it, in whatever chunks it arrives, *)
(* or fails as incomplete when its end is missing (consumeSseEvents,         *)
(* readAnthropicSse, readChatCompletionSse). A request says what the         *)
(* conversation says, once and in order, and its roles take turns            *)
(* (toAnthropicRequest).                                                     *)
AnswersAreReadWhole ==
  /\ input.of = "answer" =>
       R!ReadAsSaid(input.turn, input.chat, input.ending, input.size, input.cut)
  /\ input.of = "request" => R!KeepsTheConversation(input.messages)

-----------------------------------------------------------------------------
Init == input = [of |-> "none"]
Next == \/ input.of = "none" /\ (\/ Patching \/ LayingOut \/ Prompting \/ Redrawing
                                \/ Streaming \/ Styling \/ Wrapping \/ Fitting \/ Nesting
                                \/ Comparing \/ Editing \/ ReadingFile
                                \/ Deciding \/ Paging \/ Receiving \/ Requesting)
        \/ PatchingMore \/ EditingMore
Spec == Init /\ [][Next]_input
=============================================================================
