----------------------------- MODULE Permissions -----------------------------
(* What the user is asked before a call has its effect, and what an answer   *)
(* allows later (src/tools/runtime.js, approveFileWrite in tools/files.js,   *)
(* tools/shell.js). Calls of the main agent and of workers run beside each   *)
(* other; meanwhile plugins replace tools, directories are linked anew, the  *)
(* user answers or interrupts.                                               *)
(*                                                                           *)
(* A call edits a file, runs a command that needs approval, or uses the tool *)
(* of a plugin. Commands that are safe or blocked by their text, and the     *)
(* paths a task may not write to, are left out.                              *)
EXTENDS Integers, FiniteSets

CONSTANTS
  Slots,        \* calls at a time; one of them at most edits or runs a command
  Dirs, Commands,
  Tools,        \* registrations of the one plugin tool that is modelled
  Mutates, NeedsApproval,   \* subsets of Tools
  ForWorkers,   \* those that research workers may use
  MaxTasks, MaxCalls, MaxChanges,   \* bounds
  None

VARIABLES
  mode, granted,         \* permissionState.mode, fileWriteApprovedForTask
  approved, allCommands, \* approvedShellCommands, autoApproveAllShell
  mayWrite,              \* of the task's policy
  tasks, running, aborted,
  calls, made,
  place,                 \* the directory that the path of a call leads to
  tool, changes,         \* the registration under the tool's name
  said,                  \* history: what the user has allowed
  effect                 \* history: the effect of the last step, or None

state == <<mode, granted, approved, allCommands>>
task == <<mayWrite, tasks, running, aborted>>
world == <<place, tool, changes>>
vars == <<state, task, calls, made, world, said, effect>>

Modes == {"ask-once", "ask-every-edit", "workspace-write", "read-only"}
ReadOnly == mode = "read-only" \/ ~mayWrite

-----------------------------------------------------------------------------
(* policyViolation for the main agent, and what is more for a worker. A      *)
(* worker that implements may do what the main agent may.                    *)
Violates(kind) ==
  \/ kind \in {"edit", "command"} /\ ReadOnly
  \/ kind = "tool" /\ tool \in Mutates /\ ReadOnly
OutOfProfile(by, kind) ==
  \/ by = "research" /\ kind \in {"edit", "command"}
  \/ by = "verify" /\ kind = "edit"
  \/ by # "main" /\ kind = "tool" /\ tool \notin ForWorkers \ Mutates

Init ==
  /\ mode \in Modes /\ granted = FALSE /\ approved = {} /\ allCommands = FALSE
  /\ mayWrite = FALSE /\ tasks = 0 /\ running = FALSE /\ aborted = FALSE
  /\ calls = [s \in Slots |-> None] /\ made = 0
  /\ place \in Dirs /\ tool \in Tools /\ changes = 0
  /\ said = {} /\ effect = None

-----------------------------------------------------------------------------
(* Between tasks the user may set the mode; a task starts with its policy    *)
(* and without what was granted for the last one.                            *)
SetPermissionMode(to) ==
  /\ ~running /\ made < MaxCalls /\ to # mode
  /\ mode' = to /\ granted' = FALSE
  /\ said' = said \ {[to |-> "edit for good"]} /\ effect' = None
  /\ UNCHANGED <<approved, allCommands, task, calls, made, world>>

StartTask ==
  /\ ~running /\ tasks < MaxTasks
  /\ granted' = FALSE
  /\ mayWrite' \in BOOLEAN /\ tasks' = tasks + 1 /\ running' = TRUE /\ aborted' = FALSE
  /\ effect' = None
  /\ UNCHANGED <<mode, approved, allCommands, calls, made, world, said>>
EndTask ==
  /\ running /\ \A s \in Slots : calls[s] = None
  /\ running' = FALSE /\ effect' = None
  /\ UNCHANGED <<state, mayWrite, tasks, aborted, calls, made, world, said>>

Interrupt ==
  /\ running /\ ~aborted /\ aborted' = TRUE /\ effect' = None
  /\ UNCHANGED <<state, mayWrite, tasks, running, calls, made, world, said>>

Relink ==
  /\ changes < MaxChanges /\ changes' = changes + 1
  /\ place' \in Dirs \ {place} /\ effect' = None
  /\ UNCHANGED <<state, task, calls, made, tool, said>>
Register ==
  /\ changes < MaxChanges /\ changes' = changes + 1
  /\ tool' \in Tools \ {tool} /\ effect' = None
  /\ UNCHANGED <<state, task, calls, made, place, said>>

-----------------------------------------------------------------------------
(* A worker's call is held against its profile; what follows waits for the   *)
(* event that announces the call to be written.                              *)
Alone(kind) ==
  kind = "tool" \/ {s \in Slots : calls[s] # None /\ calls[s].kind # "tool"} = {}

Call(s) ==
  /\ running /\ calls[s] = None /\ made < MaxCalls /\ made' = made + 1
  /\ \E by \in {"main", "research", "verify"}, kind \in {"edit", "command", "tool"},
        of \in Commands :
       /\ Alone(kind) /\ ~OutOfProfile(by, kind) /\ ~Violates(kind)
       /\ calls' = [calls EXCEPT ![s] =
            [by |-> by, kind |-> kind, command |-> of, step |-> "announced",
             dir |-> None, tool |-> None]]
  /\ effect' = None
  /\ UNCHANGED <<state, task, world, said>>

Step(s, step) == calls' = [calls EXCEPT ![s].step = step]
End(s) == calls' = [calls EXCEPT ![s] = None]
Forget(s) == said' = {word \in said : word.to # s}
Refuse(s) == End(s) /\ Forget(s) /\ effect' = None /\ UNCHANGED state

(* executeTool: policy, the approval of an extension, dispatch.              *)
Enter(s) ==
  /\ calls[s] # None /\ calls[s].step = "announced"
  /\ \/ (aborted \/ Violates(calls[s].kind)) /\ Refuse(s)
     \/ /\ ~aborted /\ ~Violates(calls[s].kind)
        /\ calls' = [calls EXCEPT ![s].tool = tool,
             ![s].step = IF calls[s].kind = "tool" /\ tool \in NeedsApproval
                         THEN "asking" ELSE "entered"]
        /\ effect' = None /\ UNCHANGED <<state, said>>
  /\ UNCHANGED <<task, made, world>>

DispatchTool(s) ==
  /\ calls[s] # None /\ calls[s].kind = "tool" /\ calls[s].step = "entered"
  /\ IF aborted THEN Refuse(s)
     ELSE Step(s, "allowed") /\ effect' = None /\ UNCHANGED <<state, said>>
  /\ UNCHANGED <<task, made, world>>

(* approveFileWrite                                                          *)
AllowsEditByMode == mode = "workspace-write"   \* asked for every edit of a task
AllowsEdit == mode = "workspace-write" \/ (mode = "ask-once" /\ granted)
DispatchEdit(s) ==
  /\ calls[s] # None /\ calls[s].kind = "edit" /\ calls[s].step = "entered"
  /\ IF aborted \/ mode = "read-only" THEN Refuse(s)
     ELSE /\ Step(s, IF AllowsEdit THEN "allowed" ELSE "asking")
          /\ effect' = None /\ UNCHANGED <<state, said>>
  /\ UNCHANGED <<task, made, world>>

(* runShell up to the question: it names the directory the call would run in.*)
Stands(dir, command) == allCommands \/ <<dir, command>> \in approved
DispatchCommand(s) ==
  /\ calls[s] # None /\ calls[s].kind = "command" /\ calls[s].step = "entered"
  /\ IF aborted THEN Refuse(s)
     ELSE /\ calls' = [calls EXCEPT ![s].dir = place,
               ![s].step = IF Stands(place, calls[s].command) THEN "allowed" ELSE "asking"]
          /\ effect' = None /\ UNCHANGED <<state, said>>
  /\ UNCHANGED <<task, made, world>>

(* An interrupt ends the wait for an answer; one that is given is held       *)
(* against the policy that is then in force.                                 *)
StopAsking(s) ==
  /\ calls[s] # None /\ calls[s].step = "asking" /\ aborted
  /\ Refuse(s) /\ UNCHANGED <<task, made, world>>

Asked(s) ==
  /\ calls[s] # None /\ calls[s].step = "asking" /\ ~aborted
  /\ effect' = None /\ UNCHANGED <<task, made, world>>
Deny(s) == Asked(s) /\ Refuse(s)
Blocked(s) == Asked(s) /\ Violates(calls[s].kind) /\ Refuse(s)

Yes(s, dir, registration) == [to |-> s, dir |-> dir, tool |-> registration]
Says(s, words) == said' = said \cup words \cup {Yes(s, calls[s].dir, calls[s].tool)}

SameRegistration(s) == tool = calls[s].tool
ApproveTool(s) ==
  /\ Asked(s) /\ calls[s].kind = "tool" /\ ~Violates("tool")
  /\ IF SameRegistration(s)
     THEN /\ Says(s, {}) /\ UNCHANGED state
          /\ calls' = [calls EXCEPT ![s].step = "allowed", ![s].tool = tool]
     ELSE Refuse(s)

ApproveEdit(s) ==
  /\ Asked(s) /\ calls[s].kind = "edit" /\ ~Violates("edit") /\ Step(s, "allowed")
  /\ \/ /\ granted' = (granted \/ mode = "ask-once")
        /\ Says(s, IF mode = "ask-once" THEN {[to |-> "edit", task |-> tasks]} ELSE {})
        /\ UNCHANGED mode
     \/ /\ granted' = TRUE /\ mode' = "workspace-write"
        /\ Says(s, {[to |-> "edit for good"]})
  /\ UNCHANGED <<approved, allCommands>>

ApproveCommand(s) ==
  /\ Asked(s) /\ calls[s].kind = "command" /\ ~Violates("command")
  /\ \/ /\ Says(s, {}) /\ Step(s, "allowed") /\ UNCHANGED <<approved, allCommands>>
     \/ /\ approved' = approved \cup {<<calls[s].dir, calls[s].command>>}
        /\ Says(s, {[to |-> "run", dir |-> calls[s].dir, command |-> calls[s].command]})
        /\ Step(s, "keeping") /\ UNCHANGED allCommands
     \/ /\ allCommands' = TRUE
        /\ Says(s, {[to |-> "run all"]})
        /\ Step(s, "keeping") /\ UNCHANGED approved
  /\ UNCHANGED <<mode, granted>>

(* The approval is kept in the settings, which may fail.                     *)
Keep(s) ==
  /\ calls[s] # None /\ calls[s].step = "keeping"
  /\ \/ Refuse(s)
     \/ ~aborted /\ Step(s, "allowed") /\ effect' = None /\ UNCHANGED <<state, said>>
  /\ UNCHANGED <<task, made, world>>

(* A command runs where it was approved, or not at all.                      *)
SamePlace(s) == place = calls[s].dir
Ready(s) == calls[s] # None /\ calls[s].step = "allowed"
AnsweredFor(s) ==
  Yes(s, IF calls[s].kind = "command" THEN place ELSE None, calls[s].tool) \in said

Dispatch(s) ==
  /\ Ready(s)
  /\ \/ aborted /\ Refuse(s)
     \/ calls[s].kind = "command" /\ ~SamePlace(s) /\ Refuse(s)
     \/ /\ calls[s].kind = "command" => SamePlace(s)
        /\ effect' = [by |-> calls[s].by, kind |-> calls[s].kind, command |-> calls[s].command,
                      dir |-> place, tool |-> calls[s].tool, asked |-> AnsweredFor(s)]
        /\ End(s) /\ Forget(s) /\ UNCHANGED state
  /\ UNCHANGED <<task, made, world>>

Next ==
  \/ \E to \in Modes : SetPermissionMode(to)
  \/ StartTask \/ EndTask \/ Interrupt \/ Relink \/ Register
  \/ \E s \in Slots :
       \/ Call(s) \/ Enter(s) \/ DispatchTool(s) \/ DispatchEdit(s) \/ DispatchCommand(s)
       \/ StopAsking(s) \/ Deny(s) \/ Blocked(s)
       \/ ApproveTool(s) \/ ApproveEdit(s) \/ ApproveCommand(s) \/ Keep(s) \/ Dispatch(s)

Spec == Init /\ [][Next]_vars

-----------------------------------------------------------------------------
EditAllowed == [to |-> "edit", task |-> tasks] \in said \/ [to |-> "edit for good"] \in said
RunAllowed(dir, command) ==
  [to |-> "run", dir |-> dir, command |-> command] \in said \/ [to |-> "run all"] \in said

(* Nothing is done that the user has not allowed: an edit in this task or    *)
(* for good, a command in the directory it was asked for, the registration   *)
(* of a tool that was shown; and nothing in a task that only reads           *)
(* (executeTool, approveFileWrite, runShell).                                *)
EffectsWereAllowed ==
  effect # None =>
    CASE effect.kind = "edit" ->
           ~ReadOnly /\ (mode = "workspace-write" \/ EditAllowed \/ effect.asked)
      [] effect.kind = "command" ->
           ~ReadOnly /\ (RunAllowed(effect.dir, effect.command) \/ effect.asked)
      [] effect.kind = "tool" ->
           /\ effect.tool \in Mutates => ~ReadOnly
           /\ effect.tool \in NeedsApproval => effect.asked

(* The user is not asked again for what is allowed for the task or for good  *)
(* (approveFileWrite, ALWAYS_DECISION_HANDLERS).                             *)
NeverAskedAgain ==
  \A s \in Slots : calls[s] # None /\ calls[s].step = "asking" =>
    CASE calls[s].kind = "edit" -> ~EditAllowed
      [] calls[s].kind = "command" -> ~RunAllowed(calls[s].dir, calls[s].command)
      [] OTHER -> TRUE
=============================================================================
