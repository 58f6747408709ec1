------------------------------ MODULE MCTools ------------------------------
(* What a tool or the terminal does for the user: six parts that are         *)
(* checked side by side, in each behaviour the one that Init picks.          *)
EXTENDS Integers, Sequences, TLC

CONSTANTS
  Parts,   \* those that are checked
  Paths, MaxEntries, MaxCalls, MaxEdits, Mode,   \* of the tools that change files
  Slots, Dirs, Commands, Registrations, Asking, ForWorkers,   \* of the permissions
  MaxTasks, MaxAsked, MaxChanges,
  Whole,
  History, Keys, MaxLength, MaxLoads,   \* of the prompt
  Options, FilterKeys, Rows,            \* of the menu
  Users, Providers, Models, Values, MaxUpdates,   \* of the settings; users are processes
  None

ASSUME CallAssumption ==
  /\ Slots \cap {"edit", "edit for good", "run", "run all"} = {}
  /\ ForWorkers \subseteq Registrations /\ Asking \subseteq Registrations

VARIABLES
  part,
  \* tools that change files
  files, edits, mode, granted, aborted, call, calls, phase, plans, next, written, undo,
  uncertain, failed, result, report, started, known, edited, raced,
  \* permissions
  allowed, grantedForTask, approved, allCommands, mayWrite, tasks, running, stopped,
  asked, made, place, tool, changes, said, effect,
  \* changes of a task
  disk, before, after, sampled, command, typed, decisions, agreed, moved,
  \* prompt and menu
  buffer, cursor, selected, historyIndex, shown, loads, outcome,
  filter, choice, frame, answer,
  \* settings
  settings, updates, view, begun, given, wanted, together

F == INSTANCE FileTools
P == INSTANCE Permissions WITH
  mode <- allowed, granted <- grantedForTask, aborted <- stopped, calls <- asked,
  Tools <- Registrations, Mutates <- Asking, NeedsApproval <- Asking,
  MaxCalls <- MaxAsked
C == INSTANCE ChangeSet WITH
  Context <- 1, Original <- <<"a", "n", "b", "n">>,
  TaskTexts <- {<<"a", "n", "x", "n", "b", "n">>, <<"x", "n", "b", "n", "y", "n">>, None},
  UserChar <- "u", MaxEdits <- 2, MaxDecisions <- 2, edits <- typed, raced <- moved
E == INSTANCE PromptEditor
O == INSTANCE OptionMenu WITH Keys <- FilterKeys
S == INSTANCE Settings WITH
  Processes <- Users, Workspace <- [u \in Users |-> u], file <- settings, raced <- together

ASSUME FileAssumption ==
  /\ {MaxEntries, MaxCalls, MaxEdits} \subseteq Nat
  /\ None \notin Paths \cup F!Inodes \cup F!Stored

ASSUME MenuAssumption == Rows \in Nat \ {0} /\ Options \in Seq(Seq(STRING))

SomePrompts == <<<<"x">>, <<"/", "x">>, <<"y">>>>
SomeOptions == <<<<"x", "y">>, <<"y">>, <<"x">>, <<"x", "x">>, <<"y", "x">>>>
SomeModels == {<<"a", 1>>, <<"a", 2>>, <<"b", 1>>}

ASSUME SettingsAssumption ==
  /\ Providers # {} /\ None \notin Providers
  /\ \A model \in Models : model[1] \in Providers
  /\ \A provider \in Providers : \E model \in Models : model[1] = provider
  /\ S!Torn # None /\ \A doc \in S!Documents : doc # None

fileVars == <<files, edits, mode, granted, aborted, call, calls, phase, plans, next, written,
              undo, uncertain, failed, result, report, started, known, edited, raced>>
permissionVars == <<allowed, grantedForTask, approved, allCommands, mayWrite, tasks, running,
                    stopped, asked, made, place, tool, changes, said, effect>>
changeVars == <<disk, before, after, sampled, command, typed, decisions, agreed, moved>>
promptVars == <<buffer, cursor, selected, historyIndex, shown, loads, outcome>>
menuVars == <<filter, choice, frame, answer>>
settingVars == <<settings, updates, view, begun, given, wanted, together>>

Init ==
  /\ part \in Parts
  /\ F!Init /\ P!Init /\ C!Init /\ E!Init /\ O!Init /\ S!Init
  /\ part = "files" \/ \A p \in Paths : files[p] = None
  /\ part = "permissions" \/ /\ allowed = "read-only"
                             /\ place = CHOOSE dir \in Dirs : TRUE
                             /\ tool = CHOOSE r \in Registrations : TRUE
  /\ part = "menu" \/ choice = 0
  /\ part = "settings" \/ settings = None

Next ==
  /\ UNCHANGED part
  /\ IF part = "files" THEN F!Next ELSE UNCHANGED fileVars
  /\ IF part = "permissions" THEN P!Next ELSE UNCHANGED permissionVars
  /\ IF part = "changes" THEN C!Next ELSE UNCHANGED changeVars
  /\ IF part = "prompt" THEN E!Next ELSE UNCHANGED promptVars
  /\ IF part = "menu" THEN O!Next ELSE UNCHANGED menuVars
  /\ IF part = "settings" THEN S!Next ELSE UNCHANGED settingVars

Spec == Init /\ [][Next]_
  <<part, fileVars, permissionVars, changeVars, promptVars, menuVars, settingVars>>

Alike == Permutations(Paths) \cup Permutations(Slots) \cup Permutations(Users)

-----------------------------------------------------------------------------
(* A call of a tool leaves every file as it was, or names it, and destroys   *)
(* nothing that others wrote before the comparison that its change rests on  *)
(* (applyPatchSet in tools/files.js).                                        *)
PatchesAreHonest == []F!TellsWhatChanged /\ F!OthersKept

(* Everything a call does was allowed by the user for that task, directory   *)
(* and registration, and the user is not asked again for what is allowed     *)
(* (tools/runtime.js, tools/shell.js). A process that starts finds allowed   *)
(* what was allowed for its workspace, and its updates of the settings lose  *)
(* nothing that was said one after the other (config/settings.js).           *)
OnlyWhatIsAllowed ==
  /\ part = "permissions" => P!EffectsWereAllowed /\ P!NeverAskedAgain
  /\ part = "settings" => S!AllowedWasGiven /\ S!OthersAreKept

(* A decision about the changes of a task touches the task's own lines       *)
(* (decide in workspace/changes.js).                                         *)
UndoTouchesTheTasksOnly == C!UndoTouchesTheTasksOnly

(* What Enter takes is what the screen shows as chosen: in the prompt with   *)
(* its menus and skills that are loaded among the keys, and in a menu with a *)
(* filter (terminal/select.js).                                              *)
EnterTakesWhatIsShown ==
  /\ part = "prompt" => E!ScreenIsCurrent /\ E!TakesTheHighlighted
  /\ part = "menu" => O!EnterTakesTheMarked
=============================================================================
