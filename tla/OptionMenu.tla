------------------------------ MODULE OptionMenu ------------------------------
(* The menu that asks for one of several options (selectOption in            *)
(* src/terminal/select.js): a filter, a selection, a window of the options   *)
(* that match, and four ways out.                                            *)
EXTENDS Integers, Sequences, FiniteSetsExt

CONSTANTS Options,    \* the search texts, in order
          Keys,
          Rows,       \* options on the screen
          MaxLength,  \* of what is typed
          None

VARIABLES filter, choice, frame, answer
vars == <<filter, choice, frame, answer>>

Includes(text, part) ==
  \E i \in 0 .. Len(text) - Len(part) : SubSeq(text, i + 1, i + Len(part)) = part
Filtered(query) ==
  LET matching[i \in 0 .. Len(Options)] ==
        IF i = 0 THEN <<>>
        ELSE IF Includes(Options[i], query) THEN Append(matching[i - 1], Options[i])
        ELSE matching[i - 1]
  IN  matching[Len(Options)]
Clamp(index, visible) == Max({0, Min({index, Len(visible) - 1})})

(* The window: the selection in its middle, unless an end is near.           *)
WindowStart(total, index) == Min({Max({0, total - Rows}), Max({0, index - Rows \div 2})})
Frame(query, index) ==
  LET visible == Filtered(query)
      selected == Clamp(index, visible)
      start == WindowStart(Len(visible), selected)
  IN  [items |-> SubSeq(visible, start + 1, Min({start + Rows, Len(visible)})),
       marked |-> selected - start + 1]

Open == answer = <<>>
Render(query, index) ==
  /\ filter' = query /\ choice' = Clamp(index, Filtered(query))
  /\ frame' = Frame(query, index) /\ UNCHANGED answer

Init ==
  /\ filter = <<>> /\ choice \in 0 .. Len(Options) - 1
  /\ frame = Frame(<<>>, choice) /\ answer = <<>>

Up ==
  /\ Open /\ Filtered(filter) # <<>>
  /\ Render(filter, IF choice = 0 THEN Len(Filtered(filter)) - 1 ELSE choice - 1)
Down ==
  /\ Open /\ Filtered(filter) # <<>>
  /\ Render(filter, IF choice = Len(Filtered(filter)) - 1 THEN 0 ELSE choice + 1)
Type(key) == Open /\ Len(filter) < MaxLength /\ Render(Append(filter, key), 0)
Backspace == Open /\ Render(SubSeq(filter, 1, Max({0, Len(filter) - 1})), 0)

Close(value) == Open /\ answer' = <<value>> /\ UNCHANGED <<filter, choice, frame>>
Enter ==
  IF Filtered(filter) = <<>> THEN Open /\ Render(filter, choice)
  ELSE Close(Filtered(filter)[choice + 1])
Cancel == Close(None)  \* Escape, Ctrl-C or the caller's signal

Next == Up \/ Down \/ (\E key \in Keys : Type(key)) \/ Backspace \/ Enter \/ Cancel
Spec == Init /\ [][Next]_vars

-----------------------------------------------------------------------------
(* The option that Enter takes is on the screen and marked there, wherever   *)
(* the filter and the arrows have been (menuWindow and render).              *)
EnterTakesTheMarked ==
  Open /\ Filtered(filter) # <<>> =>
    /\ frame.marked \in DOMAIN frame.items
    /\ frame.items[frame.marked] = Filtered(filter)[choice + 1]
=============================================================================
