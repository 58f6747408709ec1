---------------------------- MODULE ResponseStream ----------------------------
(* What the model clients make of a request and of the answer that streams   *)
(* in (src/llm/anthropicClient.js, deepseekClient.js, streamCompletion.js).  *)
(*                                                                           *)
(* A stream is a sequence of tokens: the ends of lines, the field that names *)
(* an event, and the two halves of an event's data, so that a chunk may end  *)
(* inside any of them. The text of a message is the sequence of its pieces;  *)
(* the arguments of a call are JSON when all its pieces are there. Usage and *)
(* the callbacks for progress are left out.                                  *)
EXTENDS Integers, Sequences, FiniteSets, SequencesExt

CONSTANT None

-----------------------------------------------------------------------------
(* consumeSseEvents: frames end at an empty line; of a frame the data lines  *)
(* count. Data that is not whole is no JSON.                                 *)

Token(is) == [is |-> is]
HalfOf(event, n) == [is |-> "data", half |-> n, event |-> event]
IsHalf(token) == token.is = "data"

LineEnd(tokens, i) ==   \* how many tokens a line end at i takes, 0 if there is none
  CASE i \in DOMAIN tokens /\ tokens[i].is = "lf" -> 1
    [] i + 1 \in DOMAIN tokens /\ tokens[i].is = "cr" /\ tokens[i + 1].is = "lf" -> 2
    [] OTHER -> 0
Both(first, second) == IF second = 0 THEN 0 ELSE first + second
Second(tokens, i, first) ==
  IF first = 0 THEN 0 ELSE Both(first, LineEnd(tokens, i + first))
FrameEnd(tokens, i) == Second(tokens, i, LineEnd(tokens, i))   \* of an empty line, else 0

Data(raw) == SelectSeq(raw, IsHalf)
Whole(data) == Len(data) = 2 /\ data[1].half = 1 /\ data[2] = HalfOf(data[1].event, 2)
Malformed == [type |-> "malformed"]
Parsed(data) == IF Whole(data) THEN data[1].event ELSE Malformed

Consumed(state, at, data) ==
  [rest |-> SubSeq(state.rest, at + FrameEnd(state.rest, at), Len(state.rest)),
   items |-> IF data = <<>> THEN state.items ELSE Append(state.items, Parsed(data))]
FrameAt(state, at) == Consumed(state, at, Data(SubSeq(state.rest, 1, at - 1)))
FrameIn(state, ends) == IF ends = {} THEN state ELSE FrameAt(state, Min(ends))
NextFrame(state, token) ==
  FrameIn(state, {i \in DOMAIN state.rest : FrameEnd(state.rest, i) > 0})
ConsumeSseEvents(buffer) == FoldLeft(NextFrame, [items |-> <<>>, rest |-> buffer], buffer)

(* Each chunk is put behind what the last one left; at the end of the stream *)
(* what is left is taken for a frame.                                        *)
DropRest(rest) == <<>>   \* what a chunk leaves unfinished is lost
KeepRest(rest) == rest
Kept(state, consumed) ==
  [items |-> state.items \o consumed.items, rest |-> KeepRest(consumed.rest)]
AtEnd(read) ==
  read.items \o ConsumeSseEvents(read.rest \o <<Token("lf"), Token("lf")>>).items
ReadEvents(chunks) ==
  LET Chunk(state, chunk) == Kept(state, ConsumeSseEvents(state.rest \o chunk))
  IN  AtEnd(FoldLeft(Chunk, [items |-> <<>>, rest |-> <<>>], chunks))

-----------------------------------------------------------------------------
(* A call is complete when it has a name and its arguments are JSON. A       *)
(* message is the pieces of its text and its calls, or an error.             *)
Incomplete == [error |-> TRUE]
CompleteCall(call) == call.named /\ Len(call.pieces) = call.total
Finished(content, calls, done, finish) ==
  IF ~done \/ finish = None \/ \E i \in DOMAIN calls : ~CompleteCall(calls[i]) THEN Incomplete
  ELSE [content |-> content, calls |-> calls, finish |-> finish]

(* readAnthropicSse: the blocks of a message by their index. An event that   *)
(* is not JSON is passed over; no arguments at all stand for an object.      *)
AnthropicEvent(state, event) ==
  LET i == event.index
      block == IF i \in DOMAIN state.blocks THEN state.blocks[i]
               ELSE [type |-> event.of, named |-> FALSE, pieces |-> <<>>, total |-> event.total]
      Put(new) == [state EXCEPT !.blocks = [j \in DOMAIN state.blocks \cup {i} |->
                                              IF j = i THEN new ELSE state.blocks[j]]]
  IN  CASE event.type = "start" ->
             Put([type |-> event.of, named |-> TRUE, pieces |-> <<>>, total |-> event.total])
        [] event.type = "text" -> [Put(block) EXCEPT !.content = Append(@, event.piece)]
        [] event.type = "arguments" -> Put([block EXCEPT !.pieces = Append(@, event.piece)])
        [] event.type = "finish" -> [state EXCEPT !.finish = event.reason]
        [] event.type = "stop" -> [state EXCEPT !.done = TRUE]
        [] OTHER -> state
AnthropicMessage(read) ==
  LET tools == {i \in DOMAIN read.blocks : read.blocks[i].type = "tool"}
      order == SetToSortSeq(tools, <)
      Call(block) == [named |-> block.named, pieces |-> block.pieces,
                      total |-> IF block.pieces = <<>> THEN 0 ELSE block.total]
  IN  Finished(read.content, [k \in DOMAIN order |-> Call(read.blocks[order[k]])],
               read.done, read.finish)
ReadAnthropicSse(chunks) ==
  AnthropicMessage(FoldLeft(AnthropicEvent, [content |-> <<>>, blocks |-> <<>>, finish |-> None,
                                             done |-> FALSE], ReadEvents(chunks)))

(* readChatCompletionSse, applyChatDelta: calls by their place in the list.  *)
(* An event that is not JSON fails the request.                              *)
ChatEvent(state, event) ==
  LET i == event.index
      old == IF i \in DOMAIN state.calls THEN state.calls[i]
             ELSE [named |-> FALSE, pieces |-> <<>>, total |-> event.total]
      Put(new) == [state EXCEPT !.calls = [j \in 1 .. Max({i, Len(state.calls)}) |->
                     IF j = i THEN new ELSE IF j \in DOMAIN state.calls THEN state.calls[j]
                     ELSE [named |-> FALSE, pieces |-> <<>>, total |-> 1]]]
  IN  CASE event.type = "text" -> [state EXCEPT !.content = Append(@, event.piece)]
        [] event.type = "start" -> Put([old EXCEPT !.named = TRUE])
        [] event.type = "arguments" -> Put([old EXCEPT !.pieces = Append(@, event.piece)])
        [] event.type = "finish" -> [state EXCEPT !.finish = event.reason]
        [] event.type = "stop" -> [state EXCEPT !.done = TRUE]
        [] OTHER -> [state EXCEPT !.failed = TRUE]
ChatMessage(read) ==
  IF read.failed THEN Incomplete ELSE Finished(read.content, read.calls, read.done, read.finish)
ReadChatCompletionSse(chunks) ==
  ChatMessage(FoldLeft(ChatEvent, [content |-> <<>>, calls |-> <<>>, finish |-> None,
                                   done |-> FALSE, failed |-> FALSE], ReadEvents(chunks)))

-----------------------------------------------------------------------------
(* The providers: a turn is its blocks, text or a call of so many pieces of  *)
(* which some are sent, and why it ends. A text is sent in two pieces. A     *)
(* chat stream counts its calls only and has no start of a text.             *)
Event(type, index, block) ==
  [type |-> type, index |-> index, of |-> block.type, total |-> block.total, piece |-> <<>>]
BlockEvents(block, index, chat) ==
  LET Piece(n) == [Event(IF block.type = "text" THEN "text" ELSE "arguments", index, block)
                     EXCEPT !.piece = <<index, n>>]
  IN  (IF chat /\ block.type = "text" THEN <<>> ELSE <<Event("start", index, block)>>)
        \o [n \in 1 .. block.sent |-> Piece(n)]
Place(turn, i, chat) ==
  IF chat /\ turn.blocks[i].type = "tool"
  THEN Cardinality({j \in 1 .. i : turn.blocks[j].type = "tool"}) ELSE i
Events(turn, chat) ==
  FlattenSeq([i \in DOMAIN turn.blocks |-> BlockEvents(turn.blocks[i], Place(turn, i, chat), chat)])
    \o <<[type |-> "finish", index |-> 1, of |-> "text", total |-> 0, reason |-> turn.finish],
         [type |-> "stop", index |-> 1, of |-> "text", total |-> 0]>>
Tokens(events, ending) ==
  FlattenSeq([i \in DOMAIN events |->
    <<Token("name")>> \o ending \o <<HalfOf(events[i], 1), HalfOf(events[i], 2)>> \o ending \o ending])

(* What the turn says: texts and calls in their order.                       *)
Said(turn, chat) ==
  LET At(i) == Place(turn, i, chat)
      Pieces(i) == [n \in 1 .. turn.blocks[i].sent |-> <<At(i), n>>]
      Of(type) == SetToSortSeq({i \in DOMAIN turn.blocks : turn.blocks[i].type = type}, <)
      texts == Of("text") tools == Of("tool")
  IN  [content |-> FlattenSeq([k \in DOMAIN texts |-> Pieces(texts[k])]),
       calls |-> [k \in DOMAIN tools |-> [named |-> TRUE, pieces |-> Pieces(tools[k]),
                                          total |-> turn.blocks[tools[k]].total]],
       finish |-> turn.finish]

CutCall(turn) ==
  \E i \in DOMAIN turn.blocks : turn.blocks[i].type = "tool" /\ turn.blocks[i].sent < turn.blocks[i].total

Chunks(sent, size) ==
  [k \in 1 .. (Len(sent) + size - 1) \div size |->
     SubSeq(sent, (k - 1) * size + 1, Min({k * size, Len(sent)}))]
Sent(tokens, cut) == SubSeq(tokens, 1, Len(tokens) - cut)
Read(turn, chat, ending, size, cut) ==
  LET message(chunks) == IF chat THEN ReadChatCompletionSse(chunks) ELSE ReadAnthropicSse(chunks)
  IN  message(Chunks(Sent(Tokens(Events(turn, chat), ending), cut), size))

ReadAsSaid(turn, chat, ending, size, cut) ==
  LET trailing == 2 * Len(ending)
      arrived == cut <= trailing /\ ~CutCall(turn)
  IN  Read(turn, chat, ending, size, cut) = IF arrived THEN Said(turn, chat) ELSE Incomplete

-----------------------------------------------------------------------------
(* toAnthropicRequest: a message is its role and what it says, its text and  *)
(* calls or the answer to one; turns of one role are put together. System    *)
(* messages lead, or are turns of the user where they stand.                 *)
ConvertMessage(message) ==
  [role |-> IF message.role = "assistant" THEN "assistant" ELSE "user", content |-> message.content]

SameRole(messages, message) == messages # <<>> /\ messages[Len(messages)].role = message.role
AppendAnthropicMessage(messages, message) ==
  IF SameRole(messages, message)
  THEN [messages EXCEPT ![Len(messages)].content = @ \o message.content]
  ELSE Append(messages, message)

Leading(messages) ==
  Min({i \in 1 .. Len(messages) + 1 : i > Len(messages) \/ messages[i].role # "system"}) - 1
ToAnthropicRequest(messages) ==
  LET lead == Leading(messages)
      others == SubSeq(messages, lead + 1, Len(messages))
      Add(turns, message) == AppendAnthropicMessage(turns, ConvertMessage(message))
  IN  [system |-> FlattenSeq([i \in 1 .. lead |-> messages[i].content]),
       messages |-> FoldLeft(Add, <<>>, others)]

(* The roles take turns, and everything is said once, in its place, by the   *)
(* role that said it.                                                        *)
KeepsTheConversation(messages) ==
  LET request == ToAnthropicRequest(messages) turns == request.messages
      By(role, turn) == [k \in DOMAIN turn.content |-> <<role, turn.content[k]>>]
      role(message) == IF message.role = "assistant" THEN "assistant" ELSE "user"
      lead == Leading(messages)
      said == FlattenSeq([i \in 1 .. Len(messages) - lead |->
                By(role(messages[lead + i]), messages[lead + i])])
  IN  /\ \A i \in 1 .. Len(turns) - 1 : turns[i].role # turns[i + 1].role
      /\ FlattenSeq([i \in DOMAIN turns |-> By(turns[i].role, turns[i])]) = said
      /\ request.system = FlattenSeq([i \in 1 .. lead |-> messages[i].content])
=============================================================================
