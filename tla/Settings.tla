------------------------------- MODULE Settings -------------------------------
(* The settings file that all processes of a user share (src/config/         *)
(* settings.js): the active provider with the model of each, the other       *)
(* parameters, and the commands that need no question any more. An update    *)
(* reads the document, changes it and writes it in place, without a lock;    *)
(* processes may come between, or die when the file is already emptied.      *)
(*                                                                           *)
(* Keys and addresses of providers go the way of models and are left out,    *)
(* the other parameters are one value.                                       *)
EXTENDS Integers, FiniteSets, Functions

CONSTANTS
  Processes,
  Workspace,     \* function from Processes: where one runs
  Providers,
  Models,        \* pairs of a provider and a name
  Commands,
  Values,        \* of the other parameters
  MaxUpdates,    \* bound
  None

VARIABLES
  file,          \* None, Torn or a document
  updates,       \* of each process: what it is about to do, and the document to write
  view,          \* what a process found allowed when it started
  begun,         \* bound
  \* history
  given,         \* what the user ever allowed, and where
  wanted,        \* what the user last said, since the file was last as it should be
  raced          \* whether two updates came together, or one was cut off

vars == <<file, updates, view, begun, given, wanted, raced>>

Torn == [torn |-> TRUE]
Global == "global"
ProviderOf(model) == model[1]   \* inferProviderFromModel
Default(provider) == CHOOSE model \in Models : ProviderOf(model) = provider
DefaultProvider == CHOOSE provider \in Providers : TRUE
Grants(scopes, commands) == {<<scope, command>> : scope \in scopes, command \in commands}

(* A document of now, one of an older version (its model among the           *)
(* parameters, its grants without a place), or none yet.                     *)
Empty == [active |-> None, models |-> <<>>, oldModel |-> None, value |-> None,
          approvals |-> {}, autoApprovals |-> {}, legacy |-> {}]
Old ==
  [active : {None}, models : {<<>>}, oldModel : {None} \cup Models, value : Values,
   approvals : {{}}, autoApprovals : {{}}, legacy : {Commands}]

Documents ==
  [active : {None} \cup Providers, models : {<<>>} \cup [Providers -> Models],
   oldModel : {None} \cup Models, value : {None} \cup Values,
   approvals : SUBSET Grants({Global} \cup Range(Workspace), Commands),
   autoApprovals : SUBSET ({Global} \cup Range(Workspace)), legacy : SUBSET Commands]

(* The document as it is understood (normalizeActiveProvider,                *)
(* normalizeSettingsProviders, normalizeShellStorage).                       *)
ActiveOf(doc) ==
  CASE doc.active # None -> doc.active
    [] doc.oldModel # None -> ProviderOf(doc.oldModel)
    [] OTHER -> DefaultProvider
ModelsOf(doc) ==
  [provider \in Providers |->
     CASE doc.oldModel # None /\ provider = ActiveOf(doc) -> doc.oldModel
       [] provider \in DOMAIN doc.models -> doc.models[provider]
       [] OTHER -> Default(provider)]
Understood(doc) ==
  [doc EXCEPT !.active = ActiveOf(doc), !.models = ModelsOf(doc), !.oldModel = None]
Read == IF file = None THEN Empty ELSE file

(* What a process in a workspace finds allowed (resolveShellPermissions):    *)
(* legacy grants are shown and never taken for grants.                       *)
Applies(scope, workspace) == scope = Global \/ scope = workspace
Resolved(doc, workspace) ==
  [commands |-> {grant[2] : grant \in {g \in doc.approvals : Applies(g[1], workspace)}},
   all |-> \E scope \in doc.autoApprovals : Applies(scope, workspace)]

(* The document after an update (mergeSettings and the mutations of          *)
(* updateShellPermissions).                                                  *)
Merged(doc, update) ==
  LET next == Understood(doc)
  IN  CASE update.is = "model" ->
             [next EXCEPT !.active = ProviderOf(update.model),
                          !.models[ProviderOf(update.model)] = update.model]
        [] update.is = "value" -> [next EXCEPT !.value = update.value]
        [] update.is = "approve" -> [next EXCEPT !.approvals = @ \cup {update.grant}]
        [] update.is = "approve all" -> [next EXCEPT !.autoApprovals = @ \cup {update.scope}]
        [] update.is = "reset" ->
             [next EXCEPT !.approvals = {}, !.autoApprovals = {}, !.legacy = {}]

-----------------------------------------------------------------------------
Idle == [step |-> "idle"]

Init ==
  /\ file \in {None} \cup Old
  /\ updates = [p \in Processes |-> Idle]
  /\ view = [p \in Processes |-> None] /\ begun = 0
  /\ given = {} /\ raced = FALSE
  /\ wanted = IF file = None THEN Understood(Empty) ELSE Understood(file)

(* A process starts with what the file says; a torn one ends it.             *)
Start(p) ==
  /\ view[p] = None /\ file # Torn
  /\ view' = [view EXCEPT ![p] = Resolved(Read, Workspace[p])]
  /\ UNCHANGED <<file, updates, begun, given, wanted, raced>>

(* What the user says: with a command of the shell, in a session, or as an   *)
(* answer. It is allowed in that process whether or not it can be kept.      *)
Says(p) ==
  LET here == {Workspace[p], Global}
  IN  [is : {"model"}, model : Models] \cup [is : {"value"}, value : Values]
        \cup [is : {"approve"}, grant : Grants(here, Commands)]
        \cup [is : {"approve all"}, scope : here] \cup [is : {"reset"}]
GivenBy(update) ==
  CASE update.is = "approve" -> {update.grant}
    [] update.is = "approve all" -> Grants({update.scope}, Commands)
    [] OTHER -> {}

Update(p) ==
  /\ view[p] # None /\ updates[p] = Idle /\ begun < MaxUpdates
  /\ \E update \in Says(p) :
       /\ updates' = [updates EXCEPT ![p] = [step |-> "reads", update |-> update]]
       /\ given' = given \cup GivenBy(update)
  /\ begun' = begun + 1
  /\ UNCHANGED <<file, view, wanted, raced>>

(* readSettingsFile: a torn file is an error, and nothing is written.        *)
ReadSettingsFile(p) ==
  /\ updates[p].step = "reads"
  /\ updates' = [updates EXCEPT ![p] =
       IF file = Torn THEN Idle
       ELSE [step |-> "truncates", update |-> updates[p].update,
             doc |-> Merged(Read, updates[p].update)]]
  /\ raced' = (raced \/ file = Torn \/ \E q \in Processes : updates[q].step \in {"truncates", "writes"})
  /\ UNCHANGED <<file, view, begun, given, wanted>>

(* writeSettingsFile: the file is emptied, then filled. Two that fill it at  *)
(* once may leave the longer's end behind the shorter.                       *)
Truncate(p) ==
  /\ updates[p].step = "truncates" /\ file' = Torn
  /\ updates' = [updates EXCEPT ![p].step = "writes"]
  /\ UNCHANGED <<view, begun, given, wanted, raced>>

WriteSettingsFile(p) ==
  /\ updates[p].step = "writes"
  /\ \/ file' = updates[p].doc
     \/ file # Torn /\ file' = Torn
  /\ updates' = [updates EXCEPT ![p] = Idle]
  /\ wanted' = Merged(wanted, updates[p].update)
  /\ UNCHANGED <<view, begun, given, raced>>

(* A process may end at any step, and another one start in its place.        *)
Die(p) ==
  /\ view[p] # None
  /\ view' = [view EXCEPT ![p] = None] /\ updates' = [updates EXCEPT ![p] = Idle]
  /\ raced' = (raced \/ updates[p].step = "writes")
  /\ UNCHANGED <<file, begun, given, wanted>>

Next ==
  \E p \in Processes :
    \/ Start(p) \/ Update(p) \/ ReadSettingsFile(p) \/ Truncate(p) \/ WriteSettingsFile(p) \/ Die(p)

Spec == Init /\ [][Next]_vars

-----------------------------------------------------------------------------
(* Whatever comes together or is cut off, a process starts with no more      *)
(* allowed than the user allowed, for its workspace or for all               *)
(* (resolveShellPermissions).                                                *)
AllowedWasGiven ==
  \A p \in Processes : view[p] # None =>
    \A command \in Commands :
      view[p].all \/ command \in view[p].commands =>
        \E scope \in {Workspace[p], Global} : <<scope, command>> \in given

(* Updates of one process after the other, or of several, keep all that the  *)
(* others said, from older versions too, unless two came together or one was *)
(* cut off (mergeSettings).                                                  *)
OthersAreKept ==
  ~raced /\ (\A p \in Processes : updates[p].step # "writes") =>
    /\ file # Torn
    /\ Understood(Read) = wanted
=============================================================================
