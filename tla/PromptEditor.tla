----------------------------- MODULE PromptEditor -----------------------------
(* The line editor of the prompt with its menus of commands, files and       *)
(* skills and its history (readPromptLine in src/terminal/select.js). A      *)
(* skill is loaded while further keys are handled.                           *)
EXTENDS Integers, Sequences, FiniteSetsExt

CONSTANTS History,    \* the prompts before, the latest last
          Keys,       \* what is typed
          MaxLength,  \* of what is typed
          MaxLoads,   \* skills that are loaded at once
          None

VARIABLES buffer, cursor, selected, historyIndex,
          shown,    \* the last frame: the text, the caret, the menu, the highlighted option
          loads,    \* where the skills that are being loaded will be put in
          outcome   \* what the prompt returned
vars == <<buffer, cursor, selected, historyIndex, shown, loads, outcome>>

-----------------------------------------------------------------------------
(* Text by code points; a start beyond the text is its end.                  *)

ReplaceRange(text, start, end, replacement) ==
  LET at == Min({start, Len(text)})
  IN  SubSeq(text, 1, at) \o replacement
        \o SubSeq(text, at + Max({0, end - start}) + 1, Len(text))
Before(text, at) == Max({0} \cup {i \in 0 .. Len(text) : i < at})
After(text, at) == Min({Len(text)} \cup {i \in 0 .. Len(text) : i > at})

-----------------------------------------------------------------------------
(* Menus. No command's name is part of another's.                            *)

Option(search, insert, final) == [search |-> search, insert |-> insert, final |-> final]
SlashOptions == <<Option(<<"x">>, <<"/", "x">>, <<>>), Option(<<"y">>, <<"/", "y">>, <<>>)>>
PathOptions == <<Option(<<"x">>, <<"@", "x", "/">>, <<"@", "x", "/", " ">>),
                 Option(<<"x", "y">>, <<"@", "x", "y", " ">>, <<"@", "x", "y", " ">>)>>
SkillOptions == <<Option(<<"x">>, <<>>, <<>>), Option(<<"y">>, <<>>, <<>>)>>
Replacement(option) == <<"$">> \o option.search \o <<" ">>

Includes(text, part) ==
  \E i \in 0 .. Len(text) - Len(part) : SubSeq(text, i + 1, i + Len(part)) = part
Matching(options, query) ==
  LET matching[i \in 0 .. Len(options)] ==
        IF i = 0 THEN <<>>
        ELSE IF Includes(options[i].search, query) THEN Append(matching[i - 1], options[i])
        ELSE matching[i - 1]
  IN  matching[Len(options)]

TriggerStart(text, at) ==
  LET stop == Max({0} \cup {i \in 1 .. at : i <= Len(text) /\ text[i] \in {" ", "@", "$"}})
  IN  IF stop = 0 \/ text[stop] = " " \/ (stop > 1 /\ text[stop - 1] # " ") THEN 0 ELSE stop

NoMenu == [type |-> "none", start |-> 0, visible |-> <<>>]
ActiveMenu(text, at) ==
  LET stop == TriggerStart(text, at)
      query == SubSeq(text, stop + 1, Min({at, Len(text)}))
  IN  CASE stop > 0 /\ text[stop] = "@" ->
             [type |-> "@", start |-> stop - 1, visible |-> Matching(PathOptions, query)]
        [] stop > 0 /\ text[stop] = "$" ->
             [type |-> "$", start |-> stop - 1, visible |-> Matching(SkillOptions, query)]
        [] stop = 0 /\ text # <<>> /\ text[1] = "/" ->
             [type |-> "/", start |-> 0, visible |-> Matching(SlashOptions, Tail(text))]
        [] OTHER -> NoMenu
Menu == ActiveMenu(buffer, cursor)

Clamp(choice, visible) == IF choice >= Len(visible) THEN Max({0, Len(visible) - 1}) ELSE choice
Highlighted(menu, choice) == IF menu.visible = <<>> THEN None ELSE menu.visible[choice + 1]

-----------------------------------------------------------------------------
FrameAtEnd(text, at, choice) ==
  LET menu == ActiveMenu(text, Len(text))
  IN  [text |-> text, caret |-> at, menu |-> menu.visible,
       highlighted |-> Highlighted(menu, Clamp(choice, menu.visible))]
Frame(text, at, choice) ==
  LET menu == ActiveMenu(text, at)
  IN  [text |-> text, caret |-> at, menu |-> menu.visible,
       highlighted |-> Highlighted(menu, Clamp(choice, menu.visible))]

Render(text, at, choice) ==
  /\ buffer' = text /\ cursor' = at
  /\ selected' = Clamp(choice, ActiveMenu(text, at).visible)
  /\ shown' = Frame(text, at, choice)

Init ==
  /\ buffer = <<>> /\ cursor = 0 /\ selected = 0 /\ historyIndex = Len(History) + 1
  /\ shown = Frame(<<>>, 0, 0) /\ loads = {} /\ outcome = None

Reading == outcome = None
NoHistory == historyIndex' = Len(History) + 1
Edit(text, at) == Render(text, at, 0) /\ NoHistory /\ UNCHANGED <<loads, outcome>>

(* Up and Down choose in a menu, else they browse the history from an empty  *)
(* prompt.                                                                   *)
Choose(choice) ==
  /\ Render(buffer, cursor, choice)
  /\ UNCHANGED <<historyIndex, loads, outcome>>
ChooseUp ==
  /\ Reading /\ Menu.type # "none" /\ Menu.visible # <<>>
  /\ Choose(IF selected = 0 THEN Len(Menu.visible) - 1 ELSE selected - 1)
ChooseDown ==
  /\ Reading /\ Menu.type # "none" /\ Menu.visible # <<>>
  /\ Choose(IF selected = Len(Menu.visible) - 1 THEN 0 ELSE selected + 1)

Browsing == historyIndex # Len(History) + 1
Recall(index) ==
  /\ historyIndex' = index
  /\ LET text == IF index = Len(History) + 1 THEN <<>> ELSE History[index]
     IN  Render(text, Len(text), 0)
  /\ UNCHANGED <<loads, outcome>>
RecallUp ==
  /\ Reading /\ Menu.type = "none" /\ (buffer = <<>> \/ Browsing) /\ History # <<>>
  /\ Recall(Max({1, historyIndex - 1}))
RecallDown ==
  /\ Reading /\ Menu.type = "none" /\ Browsing
  /\ Recall(Min({Len(History) + 1, historyIndex + 1}))

Move(at) ==
  /\ Reading /\ Render(buffer, at, selected)
  /\ UNCHANGED <<historyIndex, loads, outcome>>
Left == Move(Before(buffer, cursor))
Right == Move(After(buffer, cursor))
Home == Move(0)
End == Move(Len(buffer))

Type(char) ==
  /\ Reading /\ Len(buffer) < MaxLength
  /\ char = " " => ~(Menu.type = "@" /\ Menu.visible # <<>>)
  /\ Edit(ReplaceRange(buffer, cursor, cursor, <<char>>), cursor + 1)
Backspace ==
  /\ Reading /\ cursor > 0
  /\ LET previous == Before(buffer, cursor)
     IN  Edit(ReplaceRange(buffer, previous, cursor, <<>>), previous)
Delete ==
  /\ Reading /\ cursor < Len(buffer)
  /\ Edit(ReplaceRange(buffer, cursor, After(buffer, cursor), <<>>), cursor)
Escape ==
  /\ Reading /\ Menu.type # "none"
  /\ IF Menu.type = "/" THEN Edit(<<>>, 0)
     ELSE Edit(ReplaceRange(buffer, Menu.start, cursor, <<>>), Menu.start)

(* A menu's option is put in. A skill is loaded first: its place is cleared, *)
(* the frame too, and whatever stands there then is replaced.                *)
(* (A choice beyond the menu, left by a skill's empty place, takes nothing.) *)
Chosen == IF selected < Len(Menu.visible) THEN Menu.visible[selected + 1] ELSE None
PutIn(text, start) ==
  /\ Render(ReplaceRange(buffer, start, cursor, text), start + Len(text), 0)
  /\ UNCHANGED <<historyIndex, outcome>>

Apply(text) ==
  /\ Len(buffer) <= MaxLength
  /\ \/ /\ Menu.type = "$" /\ Cardinality(loads) < MaxLoads
        /\ buffer' = ReplaceRange(buffer, Menu.start, cursor, <<>>)
        /\ cursor' = Menu.start
        /\ loads' = loads \cup {[start |-> Menu.start, option |-> Chosen]}
        /\ shown' = None /\ UNCHANGED <<selected, historyIndex, outcome>>
     \/ /\ Menu.type = "@" /\ PutIn(text, Menu.start) /\ UNCHANGED loads
TabCompletes ==
  /\ Reading /\ Chosen # None
  /\ \/ /\ Menu.type = "/"
        /\ LET text == Chosen.insert
           IN  Render(text, Len(text), 0)
        /\ UNCHANGED <<historyIndex, loads, outcome>>
     \/ Apply(Chosen.insert)
SpaceFinalizes ==
  /\ Reading /\ Menu.type = "@" /\ Chosen # None
  /\ Apply(Chosen.final)

Loaded(load) ==
  /\ loads' = loads \ {load}
  /\ PutIn(Replacement(load.option), load.start)

Submit(text) ==
  /\ buffer' = text /\ cursor' = Len(text) /\ shown' = None /\ outcome' = text
  /\ UNCHANGED <<selected, historyIndex, loads>>
Exact ==
  LET same == {i \in DOMAIN Menu.visible : Menu.visible[i].insert = buffer}
  IN  IF same = {} THEN Chosen ELSE Menu.visible[Min(same)]
Return ==
  /\ Reading
  /\ \/ /\ Menu.type = "/" /\ Exact # None
        /\ Submit(Exact.insert)
     \/ /\ Menu.type \in {"@", "$"} /\ Chosen # None
        /\ Apply(Chosen.insert)
     \/ /\ Menu.visible = <<>> \/ (Menu.type = "/" /\ Exact = None)
        /\ Submit(buffer)

Leave(result) ==
  /\ Reading /\ outcome' = result /\ shown' = None
  /\ UNCHANGED <<buffer, cursor, selected, historyIndex, loads>>
ControlC == Leave(<<"exit">>)
Abort == Leave(<<>>)

Next ==
  \/ ChooseUp \/ ChooseDown \/ RecallUp \/ RecallDown
  \/ Left \/ Right \/ Home \/ End
  \/ \E char \in Keys : Type(char)
  \/ Backspace \/ Delete \/ Escape
  \/ TabCompletes \/ SpaceFinalizes \/ Return
  \/ \E load \in loads : Loaded(load)
  \/ ControlC \/ Abort

Spec == Init /\ [][Next]_vars

-----------------------------------------------------------------------------
(* While the prompt is read the screen shows the text, the caret and the     *)
(* menu as they are, after every key and every skill that was loaded among   *)
(* the keys (render in readPromptLine); nothing while a skill is loaded and  *)
(* no key came.                                                              *)
ScreenIsCurrent ==
  Reading /\ shown # None =>
    shown = Frame(buffer, cursor, selected) /\ selected = Clamp(selected, Menu.visible)

(* The option that Tab, Space or Enter takes is the one highlighted on the   *)
(* screen. (While a skill is loaded nothing is.)                             *)
TakesTheHighlighted ==
  Reading /\ shown # None /\ Menu.visible # <<>> =>
    shown.highlighted = IF Menu.type = "/" THEN Exact ELSE Chosen
=============================================================================
