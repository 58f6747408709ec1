----------------------------- MODULE Tools_proofs -----------------------------
(* Theorems about what a tool does for the user: every effect of a call was  *)
(* allowed by the user, what a process finds allowed when it starts was      *)
(* allowed, a call that changes files names what it changed and destroys     *)
(* nothing of others, and Enter takes what the screen shows as chosen.       *)
EXTENDS MCTools, WellFoundedInduction, TLAPS

-----------------------------------------------------------------------------
(* Permissions.                                                              *)

AskedCalls ==
  [by : {"main", "research", "verify"}, kind : {"edit", "command", "tool"}, command : Commands,
   step : {"announced", "entered", "asking", "keeping", "allowed"},
   dir : {None} \cup Dirs, tool : {None} \cup Registrations]

AskedTypes ==
  /\ asked \in [Slots -> {None} \cup AskedCalls]
  /\ tasks \in Nat /\ allowed \in P!Modes
  /\ place \in Dirs /\ tool \in Registrations
  /\ grantedForTask \in BOOLEAN /\ allCommands \in BOOLEAN /\ mayWrite \in BOOLEAN

(* Calls end with their task, and one of them at most is no plugin's.        *)
CallsInTasks == ~running => \A s \in Slots : asked[s] = None
OneAtATime ==
  \A s, t \in Slots :
    asked[s] # None /\ asked[t] # None /\ asked[s].kind # "tool" /\ asked[t].kind # "tool"
      => s = t

(* What is remembered as granted is what the user said, and the other way    *)
(* round.                                                                    *)
GrantsWereSaid ==
  /\ grantedForTask => P!EditAllowed
  /\ allCommands => [to |-> "run all"] \in said
  /\ \A dir \in Dirs, c \in Commands :
       <<dir, c>> \in approved => [to |-> "run", dir |-> dir, command |-> c] \in said
SaidIsGranted ==
  /\ \A word \in said : word.to = "edit" => word.task \in Nat /\ word.task <= tasks
  /\ running /\ [to |-> "edit", task |-> tasks] \in said =>
       grantedForTask /\ allowed \in {"ask-once", "workspace-write"}
  /\ [to |-> "edit for good"] \in said => allowed = "workspace-write"
  /\ [to |-> "run all"] \in said => allCommands
  /\ \A dir \in Dirs, c \in Commands :
       [to |-> "run", dir |-> dir, command |-> c] \in said => <<dir, c>> \in approved

(* What a call passed before it came where it is.                            *)
Fine(s, c) ==
  /\ c.kind \in {"edit", "command"} => ~P!ReadOnly
  /\ c.kind = "tool" /\ c.step # "announced" /\ c.tool \in Asking => ~P!ReadOnly
  /\ c.kind # "command" => c.dir = None
  /\ c.kind = "command" /\ c.step \notin {"announced", "entered"} => c.dir \in Dirs
  /\ c.kind = "tool" /\ c.step = "entered" => c.tool \notin Asking
  /\ c.step = "asking" /\ c.kind = "edit" => ~P!EditAllowed
  /\ c.step = "asking" /\ c.kind = "command" => ~P!RunAllowed(c.dir, c.command)
  /\ c.step = "keeping" => c.kind = "command" /\ P!RunAllowed(c.dir, c.command)
  /\ c.step = "allowed" =>
       \/ P!Yes(s, c.dir, c.tool) \in said
       \/ c.kind = "edit" /\ (allowed = "workspace-write" \/ P!EditAllowed)
       \/ c.kind = "command" /\ P!RunAllowed(c.dir, c.command)
       \/ c.kind = "tool" /\ c.tool \notin Asking
CallsAreFine == \A s \in Slots : asked[s] # None => Fine(s, asked[s])

PermissionInv ==
  /\ AskedTypes /\ CallsInTasks /\ OneAtATime /\ GrantsWereSaid /\ SaidIsGranted
  /\ CallsAreFine /\ P!EffectsWereAllowed

(* A call goes on, is answered or ends; nothing else changes.                *)
LEMMA GoesOn ==
  ASSUME PermissionInv, NEW s \in Slots, NEW c \in AskedCalls, asked[s] # None,
         c.kind = asked[s].kind, Fine(s, c), asked' = [asked EXCEPT ![s] = c], effect' = None,
         UNCHANGED <<allowed, grantedForTask, approved, allCommands, mayWrite, tasks, running,
                     place, tool, said>>
  PROVE  PermissionInv'
<1>1. AskedTypes' /\ CallsInTasks' /\ OneAtATime'
  BY DEF PermissionInv, AskedTypes, CallsInTasks, OneAtATime
<1>2. GrantsWereSaid' /\ SaidIsGranted' /\ P!EffectsWereAllowed'
  BY DEF PermissionInv, GrantsWereSaid, SaidIsGranted, P!EffectsWereAllowed, P!EditAllowed
<1>3. CallsAreFine'
  <2>1. \A t \in Slots : asked'[t] # None => Fine(t, asked'[t])
    BY DEF PermissionInv, AskedTypes, CallsAreFine
  <2> QED
    BY ZenonT(30), <2>1 DEF CallsAreFine, Fine, P!ReadOnly, P!EditAllowed, P!RunAllowed
<1> QED
  BY <1>1, <1>2, <1>3 DEF PermissionInv

LEMMA Leaves ==
  ASSUME PermissionInv, NEW s \in Slots, asked[s] # None, P!End(s), P!Forget(s),
         UNCHANGED <<P!state, mayWrite, tasks, running, place, tool>>, P!EffectsWereAllowed'
  PROVE  PermissionInv'
<1>1. \A word : word.to # s => (word \in said' <=> word \in said)
  BY DEF P!Forget
<1>2. P!EditAllowed' = P!EditAllowed
  BY <1>1, CallAssumption DEF P!EditAllowed
<1>3. \A dir, c : P!RunAllowed(dir, c)' = P!RunAllowed(dir, c)
  BY <1>1, CallAssumption DEF P!RunAllowed
<1>4. /\ UNCHANGED <<allowed, grantedForTask, approved, allCommands>>
      /\ asked' = [asked EXCEPT ![s] = None] /\ said' \subseteq said
  BY DEF P!End, P!Forget, P!state
<1>5. AskedTypes' /\ CallsInTasks' /\ OneAtATime'
  BY <1>4 DEF PermissionInv, AskedTypes, CallsInTasks, OneAtATime
<1>6. GrantsWereSaid' /\ SaidIsGranted'
  BY <1>1, <1>2, <1>4, CallAssumption DEF PermissionInv, GrantsWereSaid, SaidIsGranted
<1>7. CallsAreFine'
  <2>1. \A t \in Slots : asked'[t] # None => t # s /\ asked'[t] = asked[t] /\ Fine(t, asked[t])
    BY <1>4 DEF PermissionInv, AskedTypes, CallsAreFine
  <2>2. \A t, dir, u : t # s /\ P!Yes(t, dir, u) \in said => P!Yes(t, dir, u) \in said'
    BY <1>1 DEF P!Yes
  <2> QED
    BY <1>2, <1>3, <1>4, <2>1, <2>2 DEF CallsAreFine, Fine, P!ReadOnly
<1> QED
  BY <1>5, <1>6, <1>7 DEF PermissionInv

LEMMA IsRefused ==
  ASSUME PermissionInv, NEW s \in Slots, asked[s] # None, P!Refuse(s),
         UNCHANGED <<mayWrite, tasks, running, place, tool>>
  PROVE  PermissionInv'
<1>1. P!EffectsWereAllowed'
  BY DEF P!Refuse, P!EffectsWereAllowed
<1> QED
  BY <1>1, Leaves DEF P!Refuse

(* The user says yes: no other edit or command is under way.                 *)
LEMMA SaysMore ==
  ASSUME PermissionInv, NEW s \in Slots, NEW c \in AskedCalls, asked[s] # None,
         c.kind = asked[s].kind, c.kind # "tool", asked' = [asked EXCEPT ![s] = c],
         effect' = None, said \subseteq said', allowed' \in {allowed, "workspace-write"},
         grantedForTask' \in BOOLEAN, allCommands' \in BOOLEAN,
         UNCHANGED <<mayWrite, tasks, running, place, tool>>,
         Fine(s, c)', GrantsWereSaid', SaidIsGranted'
  PROVE  PermissionInv'
<1>1. AskedTypes' /\ CallsInTasks' /\ OneAtATime' /\ P!EffectsWereAllowed'
  BY DEF PermissionInv, AskedTypes, CallsInTasks, OneAtATime, P!EffectsWereAllowed, P!Modes
<1>2. CallsAreFine'
  <2>1. \A t \in Slots : asked'[t] # None /\ t # s =>
          asked'[t] = asked[t] /\ asked[t].kind = "tool" /\ Fine(t, asked[t])
    BY DEF PermissionInv, AskedTypes, CallsAreFine, OneAtATime, AskedCalls
  <2>2. \A t \in Slots : asked'[t] # None /\ t # s => Fine(t, asked[t])'
    BY <2>1 DEF Fine, P!ReadOnly
  <2> QED
    BY <2>2 DEF CallsAreFine, PermissionInv, AskedTypes
<1> QED
  BY <1>1, <1>2 DEF PermissionInv

LEMMA SetPermissionModePermits ==
  ASSUME PermissionInv, NEW to \in P!Modes, P!SetPermissionMode(to)
  PROVE  PermissionInv'
BY DEF P!SetPermissionMode, PermissionInv, AskedTypes, AskedCalls, CallsInTasks, OneAtATime, GrantsWereSaid,
  SaidIsGranted, CallsAreFine, P!EffectsWereAllowed, P!Modes, P!state, P!task, P!world,
  P!EditAllowed

LEMMA StartTaskPermits ==
  ASSUME PermissionInv, P!StartTask
  PROVE  PermissionInv'
<1>1. \A s \in Slots : asked'[s] = None
  BY DEF P!StartTask, PermissionInv, CallsInTasks
<1>2. [to |-> "edit", task |-> tasks'] \notin said'
  <2>1. PICK word : word = [to |-> "edit", task |-> tasks']
    OBVIOUS
  <2>2. word.to = "edit" /\ word.task = tasks + 1 /\ said' = said /\ tasks \in Nat
    BY <2>1 DEF P!StartTask, PermissionInv, AskedTypes
  <2>3. \A w \in said : w.to = "edit" => w.task <= tasks
    BY DEF PermissionInv, SaidIsGranted
  <2> QED
    BY <2>1, <2>2, <2>3
<1>3. /\ UNCHANGED <<asked, allowed, approved, allCommands, place, tool, said>> /\ effect' = None
      /\ ~grantedForTask' /\ grantedForTask' \in BOOLEAN /\ mayWrite' \in BOOLEAN
      /\ tasks' = tasks + 1 /\ tasks \in Nat
  BY DEF P!StartTask, P!world, PermissionInv, AskedTypes
<1>4. AskedTypes' /\ CallsInTasks' /\ OneAtATime' /\ CallsAreFine' /\ P!EffectsWereAllowed'
  BY <1>1, <1>3 DEF PermissionInv, AskedTypes, CallsInTasks, OneAtATime, CallsAreFine,
    P!EffectsWereAllowed
<1>5. GrantsWereSaid'
  BY <1>3 DEF PermissionInv, GrantsWereSaid
<1>6. SaidIsGranted'
  <2>1. ASSUME NEW word \in said', word.to = "edit"
        PROVE  word.task \in Nat /\ word.task <= tasks'
    <3>1. word.task \in Nat /\ word.task <= tasks
      BY <1>3, <2>1 DEF PermissionInv, SaidIsGranted
    <3> QED
      BY <1>3, <3>1
  <2> QED
    BY <1>2, <1>3, <2>1 DEF PermissionInv, SaidIsGranted
<1> QED
  BY <1>4, <1>5, <1>6 DEF PermissionInv

(* The world moves on and nothing that was asked or said changes.             *)
LEMMA NothingAsked ==
  ASSUME PermissionInv, place' \in Dirs, tool' \in Registrations, P!EffectsWereAllowed',
         UNCHANGED <<allowed, grantedForTask, approved, allCommands, mayWrite, tasks, running,
                     asked, said>>
  PROVE  PermissionInv'
<1>1. AskedTypes'
  BY DEF PermissionInv, AskedTypes
<1>2. CallsInTasks' /\ OneAtATime'
  BY DEF PermissionInv, CallsInTasks, OneAtATime
<1>3. GrantsWereSaid' /\ SaidIsGranted'
  BY DEF PermissionInv, GrantsWereSaid, SaidIsGranted, P!EditAllowed
<1>4. CallsAreFine'
  <2>1. ASSUME NEW s \in Slots, asked[s] # None
        PROVE  Fine(s, asked[s])'
    <3>1. Fine(s, asked[s])
      BY <2>1 DEF PermissionInv, CallsAreFine
    <3> QED
      BY <3>1 DEF Fine, P!ReadOnly, P!EditAllowed, P!RunAllowed, P!Yes
  <2> QED
    BY <2>1 DEF CallsAreFine
<1> QED
  BY <1>1, <1>2, <1>3, <1>4 DEF PermissionInv

LEMMA EndTaskPermits ==
  ASSUME PermissionInv, P!EndTask
  PROVE  PermissionInv'
BY DEF P!EndTask, PermissionInv, AskedTypes, CallsInTasks, OneAtATime, GrantsWereSaid,
  SaidIsGranted, CallsAreFine, Fine, P!ReadOnly, P!EditAllowed, P!RunAllowed,
  P!EffectsWereAllowed, P!state, P!world, P!task

LEMMA InterruptPermits ==
  ASSUME PermissionInv, P!Interrupt
  PROVE  PermissionInv'
<1>1. effect' = None /\ place' \in Dirs /\ tool' \in Registrations
  BY DEF P!Interrupt, P!world, PermissionInv, AskedTypes
<1>2. P!EffectsWereAllowed'
  BY <1>1 DEF P!EffectsWereAllowed
<1> QED
  BY <1>1, <1>2, NothingAsked DEF P!Interrupt, P!state, P!world, P!task

LEMMA RelinkPermits ==
  ASSUME PermissionInv, P!Relink
  PROVE  PermissionInv'
<1>1. effect' = None /\ place' \in Dirs /\ tool' \in Registrations
  BY DEF P!Relink, P!world, PermissionInv, AskedTypes
<1>2. P!EffectsWereAllowed'
  BY <1>1 DEF P!EffectsWereAllowed
<1> QED
  BY <1>1, <1>2, NothingAsked DEF P!Relink, P!state, P!world, P!task

LEMMA RegisterPermits ==
  ASSUME PermissionInv, P!Register
  PROVE  PermissionInv'
<1>1. effect' = None /\ place' \in Dirs /\ tool' \in Registrations
  BY DEF P!Register, P!world, PermissionInv, AskedTypes
<1>2. P!EffectsWereAllowed'
  BY <1>1 DEF P!EffectsWereAllowed
<1> QED
  BY <1>1, <1>2, NothingAsked DEF P!Register, P!state, P!world, P!task

LEMMA CallPermits ==
  ASSUME PermissionInv, NEW s \in Slots, P!Call(s)
  PROVE  PermissionInv'
<1>1. PICK by \in {"main", "research", "verify"}, kind \in {"edit", "command", "tool"},
           of \in Commands :
        /\ P!Alone(kind) /\ ~P!OutOfProfile(by, kind) /\ ~P!Violates(kind)
        /\ asked' = [asked EXCEPT ![s] = [by |-> by, kind |-> kind, command |-> of,
                                         step |-> "announced", dir |-> None, tool |-> None]]
  BY DEF P!Call
<1>2. PICK c \in AskedCalls :
        /\ c.kind = kind /\ c.step = "announced" /\ c.dir = None
        /\ asked' = [asked EXCEPT ![s] = c]
  BY <1>1 DEF AskedCalls
<1>3. /\ UNCHANGED <<allowed, grantedForTask, approved, allCommands, mayWrite, tasks, running,
                     place, tool, said>>
      /\ effect' = None /\ running /\ asked[s] = None
  BY DEF P!Call, P!state, P!task, P!world
<1>4. Fine(s, c)
  BY <1>1, <1>2 DEF Fine, P!Violates
<1>5. AskedTypes' /\ CallsInTasks' /\ P!EffectsWereAllowed'
  BY <1>2, <1>3 DEF PermissionInv, AskedTypes, CallsInTasks, P!EffectsWereAllowed
<1>6. OneAtATime'
  <2>1. kind # "tool" => \A t \in Slots : asked[t] # None => asked[t].kind = "tool"
    BY <1>1 DEF P!Alone
  <2> QED
    BY <1>2, <1>3, <2>1 DEF PermissionInv, AskedTypes, OneAtATime
<1>7. GrantsWereSaid' /\ SaidIsGranted'
  BY <1>3 DEF PermissionInv, GrantsWereSaid, SaidIsGranted, P!EditAllowed
<1>8. CallsAreFine'
  <2>1. \A t \in Slots : asked'[t] # None => Fine(t, asked'[t])
    BY <1>2, <1>4 DEF PermissionInv, AskedTypes, CallsAreFine
  <2>2. /\ P!ReadOnly' = P!ReadOnly /\ P!EditAllowed' = P!EditAllowed
        /\ \A d, k : P!RunAllowed(d, k)' = P!RunAllowed(d, k)
        /\ UNCHANGED <<allowed, said, mayWrite, running, place, tool>>
    BY <1>3 DEF P!ReadOnly, P!EditAllowed, P!RunAllowed
  <2>3. ASSUME NEW t \in Slots, asked'[t] # None PROVE Fine(t, asked[t])'
    BY <2>1, <2>2, <2>3 DEF Fine
  <2> QED
    BY <2>3 DEF CallsAreFine
<1> QED
  BY <1>5, <1>6, <1>7, <1>8 DEF PermissionInv

LEMMA EnterPermits ==
  ASSUME PermissionInv, NEW s \in Slots, P!Enter(s)
  PROVE  PermissionInv'
<1>1. asked[s] # None /\ asked[s] \in AskedCalls /\ Fine(s, asked[s])
  BY DEF P!Enter, P!Asked, PermissionInv, AskedTypes, CallsAreFine
<1>2. CASE P!Refuse(s)
  BY <1>1, <1>2, IsRefused DEF P!Enter, P!Asked, P!task, P!world
<1>3. CASE ~P!Refuse(s)
  <2>1. PICK c \in AskedCalls :
          /\ c.kind = asked[s].kind /\ c.command = asked[s].command
          /\ c.tool = tool /\ c.dir = asked[s].dir
          /\ c.step = (IF asked[s].kind = "tool" /\ tool \in Asking THEN "asking" ELSE "entered")
          /\ asked' = [asked EXCEPT ![s] = c]
    BY <1>1, <1>3 DEF P!Enter, P!Step, AskedCalls, PermissionInv, AskedTypes
  <2>2. /\ UNCHANGED <<allowed, grantedForTask, approved, allCommands, mayWrite, tasks, running,
                       place, tool, said>>
        /\ effect' = None
    BY <1>3 DEF P!Enter, P!state, P!task, P!world
  <2>3. Fine(s, c)
    <3>1. asked[s].step = "announced" /\ ~P!Violates(asked[s].kind)
      BY <1>3 DEF P!Enter
    <3> QED
      BY <1>1, <2>1, <3>1 DEF Fine, P!Violates
  <2> QED
    BY <1>1, <2>1, <2>2, <2>3, GoesOn
<1> QED
  BY <1>2, <1>3

LEMMA DispatchToolPermits ==
  ASSUME PermissionInv, NEW s \in Slots, P!DispatchTool(s)
  PROVE  PermissionInv'
<1>1. asked[s] # None /\ asked[s] \in AskedCalls /\ Fine(s, asked[s])
  BY DEF P!DispatchTool, P!Asked, PermissionInv, AskedTypes, CallsAreFine
<1>2. CASE P!Refuse(s)
  BY <1>1, <1>2, IsRefused DEF P!DispatchTool, P!Asked, P!task, P!world
<1>3. CASE ~P!Refuse(s)
  <2>1. PICK c \in AskedCalls :
          /\ c.kind = asked[s].kind /\ c.command = asked[s].command
          /\ c.tool = asked[s].tool /\ c.dir = asked[s].dir /\ c.step = "allowed"
          /\ asked' = [asked EXCEPT ![s] = c]
    BY <1>1, <1>3 DEF P!DispatchTool, P!Step, AskedCalls, PermissionInv, AskedTypes
  <2>2. /\ UNCHANGED <<allowed, grantedForTask, approved, allCommands, mayWrite, tasks, running,
                       place, tool, said>>
        /\ effect' = None
    BY <1>3 DEF P!DispatchTool, P!state, P!task, P!world
  <2>3. Fine(s, c)
    BY <1>1, <1>3, <2>1 DEF P!DispatchTool, Fine
  <2> QED
    BY <1>1, <2>1, <2>2, <2>3, GoesOn
<1> QED
  BY <1>2, <1>3

LEMMA DispatchEditPermits ==
  ASSUME PermissionInv, NEW s \in Slots, P!DispatchEdit(s)
  PROVE  PermissionInv'
<1>1. asked[s] # None /\ asked[s] \in AskedCalls /\ Fine(s, asked[s])
  BY DEF P!DispatchEdit, P!Asked, PermissionInv, AskedTypes, CallsAreFine
<1>2. CASE P!Refuse(s)
  BY <1>1, <1>2, IsRefused DEF P!DispatchEdit, P!Asked, P!task, P!world
<1>3. CASE ~P!Refuse(s)
  <2>1. PICK c \in AskedCalls :
          /\ c.kind = asked[s].kind /\ c.command = asked[s].command
          /\ c.tool = asked[s].tool /\ c.dir = asked[s].dir /\ c.step = (IF P!AllowsEdit THEN "allowed" ELSE "asking")
          /\ asked' = [asked EXCEPT ![s] = c]
    BY <1>1, <1>3 DEF P!DispatchEdit, P!Step, AskedCalls, PermissionInv, AskedTypes
  <2>2. /\ UNCHANGED <<allowed, grantedForTask, approved, allCommands, mayWrite, tasks, running,
                       place, tool, said>>
        /\ effect' = None
    BY <1>3 DEF P!DispatchEdit, P!state, P!task, P!world
  <2>3. Fine(s, c)
    <3>1. asked[s].kind = "edit" /\ running
      BY DEF P!DispatchEdit, PermissionInv, CallsInTasks
    <3>2. P!AllowsEdit => allowed = "workspace-write" \/ P!EditAllowed
      BY DEF P!AllowsEdit, PermissionInv, GrantsWereSaid
    <3>3. P!EditAllowed /\ allowed # "read-only" => P!AllowsEdit
      BY <3>1 DEF P!AllowsEdit, P!EditAllowed, PermissionInv, SaidIsGranted
    <3>4. allowed # "read-only"
      BY <1>3 DEF P!DispatchEdit
    <3> QED
      BY <1>1, <2>1, <3>1, <3>2, <3>3, <3>4 DEF Fine
  <2> QED
    BY <1>1, <2>1, <2>2, <2>3, GoesOn
<1> QED
  BY <1>2, <1>3

LEMMA DispatchCommandPermits ==
  ASSUME PermissionInv, NEW s \in Slots, P!DispatchCommand(s)
  PROVE  PermissionInv'
<1>1. asked[s] # None /\ asked[s] \in AskedCalls /\ Fine(s, asked[s])
  BY DEF P!DispatchCommand, P!Asked, PermissionInv, AskedTypes, CallsAreFine
<1>2. CASE P!Refuse(s)
  BY <1>1, <1>2, IsRefused DEF P!DispatchCommand, P!Asked, P!task, P!world
<1>3. CASE ~P!Refuse(s)
  <2>1. PICK c \in AskedCalls :
          /\ c.kind = asked[s].kind /\ c.command = asked[s].command
          /\ c.tool = asked[s].tool /\ c.dir = place /\ place \in Dirs
          /\ c.step = (IF P!Stands(place, c.command) THEN "allowed" ELSE "asking")
          /\ asked' = [asked EXCEPT ![s] = c]
    BY <1>1, <1>3 DEF P!DispatchCommand, P!Step, AskedCalls, PermissionInv, AskedTypes
  <2>2. /\ UNCHANGED <<allowed, grantedForTask, approved, allCommands, mayWrite, tasks, running,
                       place, tool, said>>
        /\ effect' = None
    BY <1>3 DEF P!DispatchCommand, P!state, P!task, P!world
  <2>3. Fine(s, c)
    <3>1. asked[s].kind = "command"
      BY DEF P!DispatchCommand
    <3>2. c.command \in Commands
      BY DEF AskedCalls
    <3>3. P!Stands(place, c.command) <=> P!RunAllowed(place, c.command)
      BY <2>1, <3>2 DEF P!Stands, P!RunAllowed, PermissionInv, GrantsWereSaid, SaidIsGranted
    <3> QED
      BY <1>1, <2>1, <3>1, <3>3 DEF Fine
  <2> QED
    BY <1>1, <2>1, <2>2, <2>3, GoesOn
<1> QED
  BY <1>2, <1>3

LEMMA StopAskingPermits ==
  ASSUME PermissionInv, NEW s \in Slots, P!StopAsking(s)
  PROVE  PermissionInv'
BY IsRefused DEF P!StopAsking, P!Asked, P!task, P!world

LEMMA DenyPermits ==
  ASSUME PermissionInv, NEW s \in Slots, P!Deny(s)
  PROVE  PermissionInv'
BY IsRefused DEF P!Deny, P!Asked, P!task, P!world

LEMMA BlockedPermits ==
  ASSUME PermissionInv, NEW s \in Slots, P!Blocked(s)
  PROVE  PermissionInv'
BY IsRefused DEF P!Blocked, P!Asked, P!task, P!world

LEMMA ApproveToolPermits ==
  ASSUME PermissionInv, NEW s \in Slots, P!ApproveTool(s)
  PROVE  PermissionInv'
<1>1. asked[s] # None /\ asked[s] \in AskedCalls /\ Fine(s, asked[s]) /\ effect' = None
      /\ UNCHANGED <<mayWrite, tasks, running, place, tool>>
  BY DEF P!ApproveTool, P!Asked, P!task, P!world, PermissionInv, AskedTypes, CallsAreFine
<1>2. CASE P!Refuse(s)
  BY <1>1, <1>2, IsRefused
<1>3. CASE ~P!Refuse(s)
  <2>1. PICK word : word = P!Yes(s, asked[s].dir, asked[s].tool) /\ said' = said \cup {word}
    BY <1>3 DEF P!ApproveTool, P!Says
  <2>2. UNCHANGED <<allowed, grantedForTask, approved, allCommands>>
    BY <1>3 DEF P!ApproveTool, P!state
  <2>3. PICK c \in AskedCalls :
          /\ c.kind = "tool" /\ asked[s].kind = "tool" /\ c.step = "allowed"
          /\ c.tool = asked[s].tool /\ c.dir = asked[s].dir
          /\ asked' = [asked EXCEPT ![s] = c]
    BY <1>1, <1>3 DEF P!ApproveTool, P!SameRegistration, AskedCalls, PermissionInv, AskedTypes
  <2>4. \A old : old.to \notin Slots => (old \in said' <=> old \in said)
    BY <2>1 DEF P!Yes
  <2>5. P!EditAllowed' = P!EditAllowed /\ \A dir, of : P!RunAllowed(dir, of)' = P!RunAllowed(dir, of)
    BY <1>1, <2>4, CallAssumption DEF P!EditAllowed, P!RunAllowed
  <2>6. AskedTypes' /\ CallsInTasks' /\ OneAtATime' /\ P!EffectsWereAllowed'
    BY <1>1, <2>2, <2>3 DEF PermissionInv, AskedTypes, CallsInTasks, OneAtATime,
      P!EffectsWereAllowed
  <2>7. GrantsWereSaid'
    BY <2>1, <2>2, <2>5 DEF PermissionInv, GrantsWereSaid
  <2>8. SaidIsGranted'
    BY <1>1, <2>2, <2>4, CallAssumption DEF PermissionInv, SaidIsGranted
  <2>9. ~P!Violates("tool") /\ tool = asked[s].tool
    BY <1>3 DEF P!ApproveTool, P!SameRegistration
  <2>10. CallsAreFine'
    <3>1. \A t \in Slots : asked'[t] # None /\ t # s => asked'[t] = asked[t] /\ Fine(t, asked[t])
      BY <2>3 DEF PermissionInv, AskedTypes, CallsAreFine
    <3>2. \A t \in Slots : asked'[t] # None /\ t # s => Fine(t, asked[t])'
      BY <1>1, <2>1, <2>2, <2>5, <3>1 DEF Fine, P!ReadOnly
    <3>3. Fine(s, asked[s])'
      BY <1>1, <2>1, <2>2, <2>3, <2>9 DEF Fine, P!ReadOnly, P!Violates, PermissionInv, AskedTypes
    <3> QED
      BY <3>2, <3>3 DEF CallsAreFine
  <2> QED
    BY <2>6, <2>7, <2>8, <2>10 DEF PermissionInv
<1> QED
  BY <1>2, <1>3

LEMMA ApproveEditPermits ==
  ASSUME PermissionInv, NEW s \in Slots, P!ApproveEdit(s)
  PROVE  PermissionInv'
<1>1. asked[s] # None /\ asked[s] \in AskedCalls /\ Fine(s, asked[s]) /\ effect' = None
      /\ UNCHANGED <<mayWrite, tasks, running, place, tool>>
  BY DEF P!ApproveEdit, P!Asked, P!task, P!world, PermissionInv, AskedTypes, CallsAreFine
<1>2. PICK c \in AskedCalls :
        /\ c.kind = "edit" /\ asked[s].kind = "edit" /\ c.step = "allowed"
        /\ c.tool = asked[s].tool /\ c.dir = asked[s].dir
        /\ asked' = [asked EXCEPT ![s] = c]
  BY <1>1 DEF P!ApproveEdit, P!Step, AskedCalls, PermissionInv, AskedTypes
<1>3. approved' = approved /\ allCommands' = allCommands /\ running /\ ~P!ReadOnly
  BY <1>1 DEF P!ApproveEdit, P!Violates, PermissionInv, CallsInTasks
<1>4. PICK edit, good, yes :
        /\ edit = [to |-> "edit", task |-> tasks] /\ good = [to |-> "edit for good"]
        /\ yes = P!Yes(s, asked[s].dir, asked[s].tool)
  OBVIOUS
<1>5. edit.to = "edit" /\ edit.task = tasks /\ good.to = "edit for good" /\ yes.to = s
  BY <1>4 DEF P!Yes
<1>6. \E words \in SUBSET {edit, good} :
        /\ said' = said \cup words \cup {yes}
        /\ edit \in words => grantedForTask' /\ allowed = "ask-once" /\ allowed' = allowed
        /\ good \in words => grantedForTask' /\ allowed' = "workspace-write"
        /\ good \notin words => allowed' = allowed
        /\ grantedForTask => grantedForTask'
        /\ grantedForTask' => grantedForTask \/ edit \in words \/ good \in words
        /\ grantedForTask' \in BOOLEAN
  <2>1. CASE allowed = "ask-once" /\ grantedForTask' = (grantedForTask \/ allowed = "ask-once")
             /\ allowed' = allowed /\ said' = said \cup {edit} \cup {yes}
    <3>1. edit # good /\ grantedForTask' /\ grantedForTask' \in BOOLEAN
      BY <1>5, <2>1
    <3> QED
      BY <2>1, <3>1
  <2>2. CASE allowed # "ask-once" /\ grantedForTask' = (grantedForTask \/ allowed = "ask-once")
             /\ allowed' = allowed /\ said' = said \cup {} \cup {yes}
    <3>1. (grantedForTask' <=> grantedForTask) /\ grantedForTask' \in BOOLEAN
      BY <2>2 DEF PermissionInv, AskedTypes
    <3>2. {} \in SUBSET {edit, good} /\ edit \notin {} /\ good \notin {}
      OBVIOUS
    <3> QED
      BY <2>2, <3>1, <3>2
  <2>3. CASE grantedForTask' = TRUE /\ allowed' = "workspace-write"
             /\ said' = said \cup {good} \cup {yes}
    <3>1. edit # good /\ grantedForTask' /\ grantedForTask' \in BOOLEAN
      BY <1>5, <2>3
    <3> QED
      BY <2>3, <3>1
  <2> QED
    BY <1>4, <2>1, <2>2, <2>3 DEF P!ApproveEdit, P!Says
<1>7. PICK words \in SUBSET {edit, good} :
        /\ said' = said \cup words \cup {yes}
        /\ edit \in words => grantedForTask' /\ allowed = "ask-once" /\ allowed' = allowed
        /\ good \in words => grantedForTask' /\ allowed' = "workspace-write"
        /\ good \notin words => allowed' = allowed
        /\ grantedForTask => grantedForTask'
        /\ grantedForTask' => grantedForTask \/ edit \in words \/ good \in words
        /\ grantedForTask' \in BOOLEAN
  BY <1>6
<1>8. \A old \in said' : old \in said \/ old = edit \/ old = good \/ old = yes
  BY <1>7
<1>9. tasks \in Nat /\ tasks' = tasks
  BY <1>1 DEF PermissionInv, AskedTypes
<1>10. Fine(s, c)'
  BY <1>1, <1>2, <1>3, <1>4, <1>7 DEF Fine, P!ReadOnly
<1>11. GrantsWereSaid'
  <2>1. grantedForTask' => P!EditAllowed'
    BY <1>4, <1>7, <1>9 DEF GrantsWereSaid, PermissionInv, P!EditAllowed
  <2> QED
    BY <1>3, <1>7, <2>1 DEF GrantsWereSaid, PermissionInv
<1>12. SaidIsGranted'
  <2>1. ASSUME NEW old \in said', old.to = "edit"
        PROVE  old.task \in Nat /\ old.task <= tasks
    <3>1. CASE old = edit
      <4>1. old.task = tasks
        BY <1>5, <3>1
      <4>2. tasks \in Nat /\ tasks <= tasks
        BY <1>9
      <4> QED
        BY <4>1, <4>2
    <3>2. CASE old \in said
      BY <2>1, <3>2 DEF PermissionInv, SaidIsGranted
    <3> QED
      BY <1>5, <1>8, <2>1, <3>1, <3>2, CallAssumption
  <2>2. ASSUME edit \in said'
        PROVE  grantedForTask' /\ allowed' \in {"ask-once", "workspace-write"}
    <3>1. CASE edit \in words
      BY <1>7, <3>1
    <3>2. CASE edit \in said
      <4>1. grantedForTask /\ allowed \in {"ask-once", "workspace-write"}
        BY <1>3, <1>4, <3>2 DEF PermissionInv, SaidIsGranted
      <4> QED
        BY <1>7, <4>1
    <3> QED
      BY <1>5, <1>7, <2>2, <3>1, <3>2, CallAssumption
  <2>3. ASSUME good \in said'
        PROVE  allowed' = "workspace-write"
    <3>1. CASE good \in words
      BY <1>7, <3>1
    <3>2. CASE good \in said
      <4>1. allowed = "workspace-write"
        BY <1>4, <3>2 DEF PermissionInv, SaidIsGranted
      <4> QED
        BY <1>7, <4>1
    <3> QED
      BY <1>5, <1>7, <2>3, <3>1, <3>2, CallAssumption
  <2>4. \A old \in said' : old.to \in {"run", "run all"} => old \in said
    BY <1>5, <1>8, CallAssumption
  <2>5. [to |-> "run all"] \in said' => allCommands'
    BY <1>3, <2>4 DEF PermissionInv, SaidIsGranted
  <2>6. \A dir \in Dirs, of \in Commands :
          [to |-> "run", dir |-> dir, command |-> of] \in said' => <<dir, of>> \in approved'
    BY <1>3, <2>4 DEF PermissionInv, SaidIsGranted
  <2> QED
    BY <1>4, <1>9, <2>1, <2>2, <2>3, <2>5, <2>6 DEF SaidIsGranted
<1>13. said \subseteq said' /\ allowed' \in {allowed, "workspace-write"}
       /\ allCommands' \in BOOLEAN
  BY <1>3, <1>7 DEF PermissionInv, AskedTypes
<1> QED
  BY <1>1, <1>2, <1>7, <1>10, <1>11, <1>12, <1>13, SaysMore

LEMMA ApproveCommandPermits ==
  ASSUME PermissionInv, NEW s \in Slots, P!ApproveCommand(s)
  PROVE  PermissionInv'
<1>1. asked[s] # None /\ asked[s] \in AskedCalls /\ Fine(s, asked[s]) /\ effect' = None
      /\ UNCHANGED <<mayWrite, tasks, running, place, tool>>
  BY DEF P!ApproveCommand, P!Asked, P!task, P!world, PermissionInv, AskedTypes, CallsAreFine
<1>2. PICK one, all, yes :
        /\ one = [to |-> "run", dir |-> asked[s].dir, command |-> asked[s].command]
        /\ all = [to |-> "run all"] /\ yes = P!Yes(s, asked[s].dir, asked[s].tool)
  OBVIOUS
<1>3. /\ one.to = "run" /\ one.dir = asked[s].dir /\ one.command = asked[s].command
      /\ all.to = "run all" /\ yes.to = s
  BY <1>2 DEF P!Yes
<1>4. allowed' = allowed /\ grantedForTask' = grantedForTask /\ running /\ ~P!ReadOnly
      /\ asked[s].kind = "command" /\ allCommands \in BOOLEAN /\ grantedForTask \in BOOLEAN
  BY <1>1 DEF P!ApproveCommand, P!Violates, PermissionInv, CallsInTasks, AskedTypes
<1>5. \E step \in {"allowed", "keeping"}, words \in SUBSET {one, all} :
        /\ P!Step(s, step) /\ said' = said \cup words \cup {yes}
        /\ step = "keeping" => one \in words \/ all \in words
        /\ one \in words => approved' = approved \cup {<<asked[s].dir, asked[s].command>>}
        /\ one \notin words => approved' = approved
        /\ all \in words => allCommands'
        /\ all \notin words => allCommands' = allCommands
        /\ allCommands' \in BOOLEAN
  <2>1. one # all
    BY <1>3
  <2>2. CASE P!Says(s, {}) /\ P!Step(s, "allowed") /\ UNCHANGED <<approved, allCommands>>
    <3>1. {} \in SUBSET {one, all} /\ one \notin {} /\ all \notin {} /\ "allowed" # "keeping"
      OBVIOUS
    <3>2. said' = said \cup {} \cup {yes} /\ P!Step(s, "allowed") /\ allCommands' = allCommands
          /\ (allCommands' \in BOOLEAN) /\ approved' = approved
      BY <1>2, <1>4, <2>2 DEF P!Says
    <3> QED
      BY <3>1, <3>2
  <2>3. CASE /\ approved' = approved \cup {<<asked[s].dir, asked[s].command>>}
             /\ P!Says(s, {one}) /\ P!Step(s, "keeping") /\ UNCHANGED allCommands
    <3>1. {one} \in SUBSET {one, all} /\ one \in {one} /\ all \notin {one}
      BY <2>1
    <3>2. said' = said \cup {one} \cup {yes} /\ P!Step(s, "keeping") /\ allCommands' = allCommands
          /\ (allCommands' \in BOOLEAN)
          /\ approved' = approved \cup {<<asked[s].dir, asked[s].command>>}
      BY <1>2, <1>4, <2>3 DEF P!Says
    <3> QED
      BY <3>1, <3>2
  <2>4. CASE allCommands' = TRUE /\ P!Says(s, {all}) /\ P!Step(s, "keeping") /\ UNCHANGED approved
    <3>1. allCommands' /\ allCommands' \in BOOLEAN
      BY <2>4
    <3> QED
      BY <1>2, <2>1, <2>4, <3>1 DEF P!Says
  <2> QED
    BY <1>2, <2>2, <2>3, <2>4 DEF P!ApproveCommand
<1>6. PICK step \in {"allowed", "keeping"}, words \in SUBSET {one, all} :
        /\ P!Step(s, step) /\ said' = said \cup words \cup {yes}
        /\ step = "keeping" => one \in words \/ all \in words
        /\ one \in words => approved' = approved \cup {<<asked[s].dir, asked[s].command>>}
        /\ one \notin words => approved' = approved
        /\ all \in words => allCommands'
        /\ all \notin words => allCommands' = allCommands
        /\ allCommands' \in BOOLEAN
  BY <1>5
<1>7. PICK c \in AskedCalls :
        /\ c.kind = "command" /\ c.step = step /\ c.tool = asked[s].tool /\ c.dir = asked[s].dir
        /\ c.command = asked[s].command /\ asked' = [asked EXCEPT ![s] = c]
  BY <1>1, <1>4, <1>6 DEF P!Step, AskedCalls, PermissionInv, AskedTypes
<1>8. \A old \in said' : old \in said \/ old = one \/ old = all \/ old = yes
  BY <1>6
<1>9. Fine(s, c)'
  <2>1. asked[s].dir \in Dirs /\ asked[s].step = "asking"
    BY <1>1, <1>4 DEF Fine, P!ApproveCommand, P!Asked
  <2>2. ~P!ReadOnly'
    BY <1>1, <1>4 DEF P!ReadOnly
  <2>3. step = "allowed" => P!Yes(s, c.dir, c.tool) \in said'
    BY <1>2, <1>6, <1>7
  <2>4. step = "keeping" => P!RunAllowed(c.dir, c.command)'
    BY <1>2, <1>6, <1>7 DEF P!RunAllowed
  <2> QED
    BY <1>6, <1>7, <2>1, <2>2, <2>3, <2>4 DEF Fine
<1>10. GrantsWereSaid'
  <2>1. grantedForTask' => P!EditAllowed'
    BY <1>1, <1>4, <1>6 DEF GrantsWereSaid, PermissionInv, P!EditAllowed
  <2>2. allCommands' => [to |-> "run all"] \in said'
    BY <1>2, <1>6 DEF GrantsWereSaid, PermissionInv
  <2>3. ASSUME NEW dir \in Dirs, NEW of \in Commands, <<dir, of>> \in approved'
        PROVE  [to |-> "run", dir |-> dir, command |-> of] \in said'
    <3>1. CASE <<dir, of>> \in approved
      BY <1>6, <3>1 DEF GrantsWereSaid, PermissionInv
    <3>2. CASE <<dir, of>> \notin approved
      <4>1. one \in words /\ <<dir, of>> = <<asked[s].dir, asked[s].command>>
        BY <1>6, <2>3, <3>2
      <4>2. one = [to |-> "run", dir |-> dir, command |-> of]
        BY <1>2, <4>1
      <4> QED
        BY <1>6, <4>1, <4>2
    <3> QED
      BY <3>1, <3>2
  <2> QED
    BY <2>1, <2>2, <2>3 DEF GrantsWereSaid
<1>11. SaidIsGranted'
  <2>1. \A old \in said' : old.to \in {"edit", "edit for good"} => old \in said
    BY <1>3, <1>8, CallAssumption
  <2>2. ASSUME all \in said'
        PROVE  allCommands'
    <3>1. CASE all \in words
      BY <1>6, <3>1
    <3>2. CASE all \in said
      <4>1. allCommands
        BY <1>2, <3>2 DEF PermissionInv, SaidIsGranted
      <4> QED
        BY <1>6, <4>1
    <3> QED
      BY <1>3, <1>6, <2>2, <3>1, <3>2, CallAssumption
  <2>3. ASSUME NEW dir \in Dirs, NEW of \in Commands,
               [to |-> "run", dir |-> dir, command |-> of] \in said'
        PROVE  <<dir, of>> \in approved'
    <3>1. PICK old \in said' : old = [to |-> "run", dir |-> dir, command |-> of]
      BY <2>3
    <3>2. old.to = "run" /\ old.dir = dir /\ old.command = of
      BY <3>1
    <3>3. CASE old \in said
      BY <1>6, <3>1, <3>3 DEF PermissionInv, SaidIsGranted
    <3>4. CASE old \notin said
      <4>1. old = one /\ old \in words
        BY <1>3, <1>6, <3>2, <3>4, CallAssumption
      <4> QED
        BY <1>3, <1>6, <3>2, <4>1
    <3> QED
      BY <3>3, <3>4
  <2>4. /\ \A word \in said' : word.to = "edit" => word.task \in Nat /\ word.task <= tasks'
        /\ running' /\ [to |-> "edit", task |-> tasks]' \in said' =>
             grantedForTask' /\ allowed' \in {"ask-once", "workspace-write"}
        /\ [to |-> "edit for good"] \in said' => allowed' = "workspace-write"
    BY <1>1, <1>4, <2>1 DEF PermissionInv, SaidIsGranted
  <2> QED
    BY <1>2, <2>2, <2>3, <2>4 DEF SaidIsGranted
<1> QED
  BY <1>1, <1>4, <1>6, <1>7, <1>9, <1>10, <1>11, SaysMore

LEMMA KeepPermits ==
  ASSUME PermissionInv, NEW s \in Slots, P!Keep(s)
  PROVE  PermissionInv'
<1>1. asked[s] # None /\ asked[s] \in AskedCalls /\ Fine(s, asked[s])
  BY DEF P!Keep, P!Asked, PermissionInv, AskedTypes, CallsAreFine
<1>2. CASE P!Refuse(s)
  BY <1>1, <1>2, IsRefused DEF P!Keep, P!Asked, P!task, P!world
<1>3. CASE ~P!Refuse(s)
  <2>1. PICK c \in AskedCalls :
          /\ c.kind = asked[s].kind /\ c.command = asked[s].command
          /\ c.tool = asked[s].tool /\ c.dir = asked[s].dir /\ c.step = "allowed"
          /\ asked' = [asked EXCEPT ![s] = c]
    BY <1>1, <1>3 DEF P!Keep, P!Step, AskedCalls, PermissionInv, AskedTypes
  <2>2. /\ UNCHANGED <<allowed, grantedForTask, approved, allCommands, mayWrite, tasks, running,
                       place, tool, said>>
        /\ effect' = None
    BY <1>3 DEF P!Keep, P!state, P!task, P!world
  <2>3. Fine(s, c)
    BY <1>1, <2>1 DEF P!Keep, Fine
  <2> QED
    BY <1>1, <2>1, <2>2, <2>3, GoesOn
<1> QED
  BY <1>2, <1>3

LEMMA DispatchPermits ==
  ASSUME PermissionInv, NEW s \in Slots, P!Dispatch(s)
  PROVE  PermissionInv'
<1>1. asked[s] # None /\ asked[s] \in AskedCalls /\ Fine(s, asked[s])
      /\ UNCHANGED <<mayWrite, tasks, running, place, tool>> /\ asked[s].step = "allowed"
  BY DEF P!Dispatch, P!Ready, P!task, P!world, PermissionInv, AskedTypes, CallsAreFine
<1>2. CASE P!Refuse(s)
  BY <1>1, <1>2, IsRefused
<1>3. CASE ~P!Refuse(s)
  <2>1. P!End(s) /\ P!Forget(s) /\ UNCHANGED P!state
    BY <1>3 DEF P!Dispatch
  <2>2. /\ effect'.kind = asked[s].kind /\ effect'.command = asked[s].command
        /\ effect'.dir = place /\ effect'.tool = asked[s].tool
        /\ asked[s].kind = "command" => place = asked[s].dir
        /\ effect'.asked = P!AnsweredFor(s)
    BY <1>3 DEF P!Dispatch, P!SamePlace
  <2>3. P!AnsweredFor(s) <=> P!Yes(s, asked[s].dir, asked[s].tool) \in said
    BY <1>1, <2>2 DEF P!AnsweredFor, Fine
  <2>4. \A word : word.to # s => (word \in said' <=> word \in said)
    BY <2>1 DEF P!Forget
  <2>5. P!EditAllowed' = P!EditAllowed
    BY <1>1, <2>4, CallAssumption DEF P!EditAllowed
  <2>7. asked[s].kind \in {"edit", "command", "tool"}
    BY <1>1 DEF AskedCalls
  <2>8. UNCHANGED <<allowed, mayWrite>>
    BY <1>1, <2>1 DEF P!state
  <2>9. P!ReadOnly' = P!ReadOnly
    BY <2>8 DEF P!ReadOnly
  <2>10. ASSUME asked[s].kind = "edit"
         PROVE  ~P!ReadOnly' /\ (allowed' = "workspace-write" \/ P!EditAllowed' \/ effect'.asked)
    BY <1>1, <2>2, <2>3, <2>5, <2>8, <2>9, <2>10 DEF Fine
  <2>11. ASSUME asked[s].kind = "command"
         PROVE  ~P!ReadOnly' /\ (P!RunAllowed(effect.dir, effect.command)' \/ effect'.asked)
    <3>1. P!RunAllowed(effect.dir, effect.command)' <=> P!RunAllowed(asked[s].dir, asked[s].command)
      BY <2>2, <2>4, <2>11, CallAssumption DEF P!RunAllowed
    <3> QED
      BY <1>1, <2>2, <2>3, <2>9, <2>11, <3>1 DEF Fine
  <2>12. ASSUME asked[s].kind = "tool"
         PROVE  /\ effect'.tool \in Asking => ~P!ReadOnly'
                /\ effect'.tool \in Asking => effect'.asked
    BY <1>1, <2>2, <2>3, <2>9, <2>12 DEF Fine
  <2>13. P!EffectsWereAllowed'
    BY <2>2, <2>7, <2>10, <2>11, <2>12 DEF P!EffectsWereAllowed
  <2> QED
    BY <1>1, <2>1, <2>13, Leaves
<1> QED
  BY <1>2, <1>3

LEMMA PermissionSteps ==
  ASSUME PermissionInv, P!Next
  PROVE  PermissionInv'
<1>1. ASSUME NEW to \in P!Modes, P!SetPermissionMode(to)
      PROVE  PermissionInv'
  BY <1>1, SetPermissionModePermits
<1>2. CASE P!StartTask
  BY <1>2, StartTaskPermits
<1>3. CASE P!EndTask
  BY <1>3, EndTaskPermits
<1>4. CASE P!Interrupt
  BY <1>4, InterruptPermits
<1>5. CASE P!Relink
  BY <1>5, RelinkPermits
<1>6. CASE P!Register
  BY <1>6, RegisterPermits
<1>7. ASSUME NEW s \in Slots,
             P!Call(s) \/ P!Enter(s) \/ P!DispatchTool(s) \/ P!DispatchEdit(s)
               \/ P!DispatchCommand(s)
      PROVE  PermissionInv'
  BY <1>7, CallPermits, EnterPermits, DispatchToolPermits, DispatchEditPermits,
    DispatchCommandPermits
<1>8. ASSUME NEW s \in Slots,
             P!StopAsking(s) \/ P!Deny(s) \/ P!Blocked(s) \/ P!Keep(s) \/ P!Dispatch(s)
      PROVE  PermissionInv'
  BY <1>8, StopAskingPermits, DenyPermits, BlockedPermits, KeepPermits, DispatchPermits
<1>9. ASSUME NEW s \in Slots, P!ApproveTool(s) \/ P!ApproveEdit(s) \/ P!ApproveCommand(s)
      PROVE  PermissionInv'
  BY <1>9, ApproveToolPermits, ApproveEditPermits, ApproveCommandPermits
<1> QED
  BY <1>1, <1>2, <1>3, <1>4, <1>5, <1>6, <1>7, <1>8, <1>9 DEF P!Next

LEMMA PermissionStutters ==
  ASSUME PermissionInv, UNCHANGED permissionVars
  PROVE  PermissionInv'
<1>1. P!EffectsWereAllowed'
  BY DEF permissionVars, PermissionInv, P!EffectsWereAllowed, P!ReadOnly, P!EditAllowed,
    P!RunAllowed
<1> QED
  BY <1>1, NothingAsked DEF permissionVars, PermissionInv, AskedTypes

LEMMA PermissionsBegin ==
  ASSUME P!Init
  PROVE  PermissionInv
<1>1. (grantedForTask \in BOOLEAN) /\ (allCommands \in BOOLEAN) /\ (mayWrite \in BOOLEAN)
      /\ ~grantedForTask /\ ~allCommands
  BY DEF P!Init
<1> QED
  BY <1>1 DEF P!Init, PermissionInv, AskedTypes, CallsInTasks, OneAtATime, GrantsWereSaid,
    SaidIsGranted, CallsAreFine, P!EffectsWereAllowed, P!Modes

LEMMA AskedOnce ==
  ASSUME PermissionInv
  PROVE  P!NeverAskedAgain
BY DEF PermissionInv, AskedTypes, AskedCalls, CallsAreFine, Fine, P!NeverAskedAgain

(* Every effect of a call was allowed by the user for its task, directory    *)
(* or registration, and nobody is asked again for what is allowed, however   *)
(* many calls run beside each other (tools/runtime.js, tools/shell.js).      *)
THEOREM PermissionsCorrect ==
  Spec => [](PermissionInv /\ P!EffectsWereAllowed /\ P!NeverAskedAgain)
<1>1. Init => PermissionInv
  BY PermissionsBegin DEF Init
<1>2. PermissionInv /\ [Next]_<<part, fileVars, permissionVars, changeVars, promptVars, menuVars,
                               settingVars>> => PermissionInv'
  BY PermissionSteps, PermissionStutters DEF Next
<1>3. PermissionInv => P!EffectsWereAllowed /\ P!NeverAskedAgain
  BY AskedOnce DEF PermissionInv
<1> QED
  BY <1>1, <1>2, <1>3, PTL DEF Spec

-----------------------------------------------------------------------------
(* Settings.                                                                 *)
Changing == {"truncates", "writes"}
Wishes ==
  [is : {"model"}, model : Models] \cup [is : {"value"}, value : Values]
    \cup [is : {"approve"}, grant : S!Grants({S!Global} \cup Users, Commands)]
    \cup [is : {"approve all"}, scope : {S!Global} \cup Users] \cup [is : {"reset"}]
Understood ==
  {doc \in S!Documents : /\ doc.active \in Providers /\ doc.models \in [Providers -> Models]
                         /\ doc.oldModel = None}

SettingTypes ==
  /\ settings \in {None, S!Torn} \cup S!Documents
  /\ updates \in [Users -> [step : {"idle"}] \cup [step : {"reads"}, update : Wishes]
                           \cup [step : Changing, update : Wishes, doc : S!Documents]]
  /\ view \in [Users -> {None} \cup [commands : SUBSET Commands, all : BOOLEAN]]
  /\ wanted \in Understood /\ together \in BOOLEAN

(* All that is written, or will be, was given; so what is found is, too.     *)
WasGiven(doc) == doc.approvals \cup S!Grants(doc.autoApprovals, Commands) \subseteq given
AllWasGiven ==
  /\ settings \in S!Documents => WasGiven(settings)
  /\ \A p \in Users : updates[p].step # "idle" => S!GivenBy(updates[p].update) \subseteq given
  /\ \A p \in Users : updates[p].step \in Changing => WasGiven(updates[p].doc)

(* While no two updates came together one process at most changes the file,  *)
(* and what it will write is what is wanted, as its user changes it.         *)
Undisturbed ==
  ~together =>
    /\ \A p, q \in Users :
         updates[p].step \in Changing /\ updates[q].step \in Changing => p = q
    /\ settings = S!Torn <=> \E p \in Users : updates[p].step = "writes"
    /\ \A p \in Users : updates[p].step \in Changing =>
         updates[p].doc = S!Merged(wanted, updates[p].update)
    /\ settings # S!Torn => S!Understood(S!Read) = wanted

SettingInv == SettingTypes /\ AllWasGiven /\ S!AllowedWasGiven /\ Undisturbed

LEMMA Choices ==
  /\ S!DefaultProvider \in Providers
  /\ \A provider \in Providers :
       S!Default(provider) \in Models /\ S!ProviderOf(S!Default(provider)) = provider
  /\ \A model \in Models : S!ProviderOf(model) \in Providers
BY SettingsAssumption DEF S!DefaultProvider, S!Default, S!ProviderOf

LEMMA EveryWorkspace == S!Range([u \in Users |-> u]) = Users
BY DEF S!Range

LEMMA UnderstoodTypes ==
  ASSUME NEW doc \in S!Documents
  PROVE  /\ S!Understood(doc) \in Understood
         /\ S!Understood(doc).approvals = doc.approvals
         /\ S!Understood(doc).autoApprovals = doc.autoApprovals
<1>1. S!ActiveOf(doc) \in Providers
  BY Choices DEF S!ActiveOf, S!Documents
<1>2. S!ModelsOf(doc) \in [Providers -> Models]
  BY <1>1, Choices, SettingsAssumption DEF S!ModelsOf, S!Documents
<1> QED
  BY <1>1, <1>2 DEF S!Understood, S!Documents, Understood

LEMMA UnderstoodTwice ==
  ASSUME NEW doc \in Understood
  PROVE  S!Understood(doc) = doc
<1>1. /\ doc \in S!Documents /\ doc.active \in Providers /\ doc.active # None
      /\ doc.models \in [Providers -> Models] /\ doc.oldModel = None
  BY SettingsAssumption DEF Understood
<1>2. S!ActiveOf(doc) = doc.active
  BY <1>1 DEF S!ActiveOf
<1>3. S!ModelsOf(doc) = doc.models
  BY <1>1 DEF S!ModelsOf
<1> QED
  BY <1>1, <1>2, <1>3 DEF S!Understood, S!Documents

LEMMA MergedTypes ==
  ASSUME NEW doc \in S!Documents, NEW update \in Wishes
  PROVE  /\ S!Merged(doc, update) \in Understood
         /\ WasGiven(doc) /\ S!GivenBy(update) \subseteq given => WasGiven(S!Merged(doc, update))
         /\ S!Merged(S!Understood(doc), update) = S!Merged(doc, update)
<1>1. PICK d \in Understood :
        d = S!Understood(doc) /\ d.approvals = doc.approvals /\ d.autoApprovals = doc.autoApprovals
  BY UnderstoodTypes
<1>2. S!Understood(d) = d
  BY UnderstoodTwice
<1>3. CASE update.is = "model"
  <2>1. update.model \in Models /\ S!ProviderOf(update.model) \in Providers
    BY <1>3, Choices DEF Wishes
  <2> QED
    BY <1>1, <1>2, <1>3, <2>1 DEF S!Merged, Understood, S!Documents, WasGiven
<1>4. CASE update.is = "value"
  <2>1. update.value \in Values
    BY <1>4 DEF Wishes
  <2> QED
    BY <1>1, <1>2, <1>4, <2>1 DEF S!Merged, Understood, S!Documents, WasGiven
<1>5. CASE update.is = "approve"
  <2>1. update.grant \in S!Grants({S!Global} \cup Users, Commands)
    BY <1>5 DEF Wishes
  <2> QED
    BY <1>1, <1>2, <1>5, <2>1, EveryWorkspace DEF S!Merged, Understood, S!Documents, WasGiven,
      S!GivenBy
<1>6. CASE update.is = "approve all"
  <2>1. update.scope \in {S!Global} \cup Users
    BY <1>6 DEF Wishes
  <2>2. \A scopes : S!Grants(scopes \cup {update.scope}, Commands)
                      = S!Grants(scopes, Commands) \cup S!Grants({update.scope}, Commands)
    BY DEF S!Grants
  <2>3. PICK e : e = [d EXCEPT !.autoApprovals = d.autoApprovals \cup {update.scope}]
    OBVIOUS
  <2>4. S!Merged(doc, update) = e /\ S!Merged(d, update) = e
    BY <1>1, <1>2, <1>6, <2>3 DEF S!Merged
  <2>5. d \in S!Documents
    BY DEF Understood
  <2>6. /\ e \in S!Documents /\ e.active = d.active /\ e.models = d.models
        /\ e.oldModel = d.oldModel /\ e.approvals = d.approvals
        /\ e.autoApprovals = d.autoApprovals \cup {update.scope}
    BY <2>1, <2>3, <2>5, EveryWorkspace DEF S!Documents
  <2>7. e \in Understood
    BY <2>6 DEF Understood
  <2>8. S!GivenBy(update) = S!Grants({update.scope}, Commands)
    BY <1>6 DEF S!GivenBy
  <2>9. S!Grants(e.autoApprovals, Commands)
          = S!Grants(doc.autoApprovals, Commands) \cup S!GivenBy(update)
    BY <1>1, <2>2, <2>6, <2>8
  <2> QED
    BY <1>1, <2>4, <2>6, <2>7, <2>9 DEF WasGiven
<1>7. CASE update.is = "reset"
  <2>1. S!Grants({}, Commands) = {}
    BY DEF S!Grants
  <2> QED
    BY <1>1, <1>2, <1>7, <2>1 DEF S!Merged, Understood, S!Documents, WasGiven
<1> QED
  BY <1>3, <1>4, <1>5, <1>6, <1>7 DEF Wishes

LEMMA ReadTypes ==
  ASSUME SettingInv, settings # S!Torn
  PROVE  S!Read \in S!Documents /\ WasGiven(S!Read)
<1>1. S!Empty \in S!Documents
  BY DEF S!Empty, S!Documents
<1>2. WasGiven(S!Empty)
  BY DEF WasGiven, S!Empty, S!Grants
<1> QED
  BY <1>1, <1>2 DEF SettingInv, SettingTypes, AllWasGiven, S!Read

LEMMA TornIsNoDocument == S!Torn \notin S!Documents
BY DEF S!Torn, S!Documents

LEMMA StartIsAllowed ==
  ASSUME SettingInv, NEW p \in Users, S!Start(p)
  PROVE  SettingInv'
<1>1. S!Read \in S!Documents /\ WasGiven(S!Read)
  BY ReadTypes DEF S!Start
<1>2. PICK v : /\ v = S!Resolved(S!Read, p) /\ view' = [view EXCEPT ![p] = v]
  BY DEF S!Start
<1>3. /\ v \in [commands : SUBSET Commands, all : BOOLEAN]
      /\ v.commands = {g[2] : g \in {h \in S!Read.approvals : S!Applies(h[1], p)}}
      /\ v.all <=> \E scope \in S!Read.autoApprovals : S!Applies(scope, p)
  <2>1. S!Read.approvals \subseteq S!Grants({S!Global} \cup Users, Commands)
    BY <1>1, EveryWorkspace DEF S!Documents
  <2>2. {g[2] : g \in {h \in S!Read.approvals : S!Applies(h[1], p)}} \subseteq Commands
    BY <2>1 DEF S!Grants
  <2>3. (\E scope \in S!Read.autoApprovals : S!Applies(scope, p)) \in BOOLEAN
    OBVIOUS
  <2> QED
    BY <1>2, <2>2, <2>3 DEF S!Resolved
<1>4. UNCHANGED <<settings, updates, begun, given, wanted, together>>
  BY DEF S!Start
<1>5. ASSUME NEW of \in Commands, v.all \/ of \in v.commands
      PROVE  \E scope \in {p, S!Global} : <<scope, of>> \in given
  <2>1. CASE v.all
    BY <1>1, <1>3, <2>1 DEF WasGiven, S!Grants, S!Applies
  <2>2. CASE of \in v.commands
    <3>1. PICK g \in S!Read.approvals : S!Applies(g[1], p) /\ g[2] = of
      BY <1>3, <2>2
    <3>2. g \in S!Grants({S!Global} \cup Users, Commands) /\ g \in given
      BY <1>1, EveryWorkspace DEF S!Documents, WasGiven
    <3>3. g = <<g[1], g[2]>>
      BY <3>2 DEF S!Grants
    <3> QED
      BY <3>1, <3>2, <3>3 DEF S!Applies
  <2> QED
    BY <1>5, <2>1, <2>2
<1>6. SettingTypes'
  BY <1>2, <1>3, <1>4 DEF SettingInv, SettingTypes
<1>7. S!AllowedWasGiven'
  BY <1>2, <1>4, <1>5 DEF SettingInv, SettingTypes, S!AllowedWasGiven
<1>8. AllWasGiven' /\ Undisturbed'
  BY <1>4 DEF SettingInv, AllWasGiven, WasGiven, Undisturbed, S!Read
<1> QED
  BY <1>6, <1>7, <1>8 DEF SettingInv

LEMMA UpdateIsAllowed ==
  ASSUME SettingInv, NEW p \in Users, S!Update(p)
  PROVE  SettingInv'
<1>1. PICK update \in S!Says(p) :
        /\ updates' = [updates EXCEPT ![p] = [step |-> "reads", update |-> update]]
        /\ given' = given \cup S!GivenBy(update)
  BY DEF S!Update
<1>2. update \in Wishes
  <2>1. S!Grants({p, S!Global}, Commands) \subseteq S!Grants({S!Global} \cup Users, Commands)
    BY DEF S!Grants
  <2>2. \/ update \in [is : {"model"}, model : Models]
        \/ update \in [is : {"value"}, value : Values]
        \/ update \in [is : {"approve"}, grant : S!Grants({p, S!Global}, Commands)]
        \/ update \in [is : {"approve all"}, scope : {p, S!Global}]
        \/ update \in [is : {"reset"}]
    BY <1>1 DEF S!Says
  <2>3. CASE update \in [is : {"approve"}, grant : S!Grants({p, S!Global}, Commands)]
    BY <2>1, <2>3 DEF Wishes
  <2> QED
    BY <2>2, <2>3 DEF Wishes
<1>3. PICK u : /\ u = [step |-> "reads", update |-> update] /\ u.step = "reads" /\ u.update = update
               /\ u \in [step : {"reads"}, update : Wishes] /\ updates' = [updates EXCEPT ![p] = u]
  BY <1>1, <1>2
<1>4. UNCHANGED <<settings, view, wanted, together>> /\ updates[p] = S!Idle
  BY DEF S!Update
<1>5. SettingTypes'
  BY <1>3, <1>4 DEF SettingInv, SettingTypes
<1>6. AllWasGiven'
  <2>1. settings' \in S!Documents => WasGiven(settings)'
    BY <1>1, <1>4 DEF SettingInv, AllWasGiven, WasGiven
  <2>2. \A q \in Users : updates'[q].step # "idle" => S!GivenBy(updates'[q].update) \subseteq given'
    BY <1>1, <1>3 DEF SettingInv, SettingTypes, AllWasGiven
  <2>3. ASSUME NEW q \in Users, updates'[q].step \in Changing
        PROVE  q # p /\ updates'[q] = updates[q]
    BY <1>3, <2>3 DEF SettingInv, SettingTypes, Changing
  <2>4. \A q \in Users : updates'[q].step \in Changing => WasGiven(updates[q].doc)'
    BY <1>1, <1>4, <2>3 DEF SettingInv, AllWasGiven, WasGiven
  <2> QED
    BY <2>1, <2>2, <2>3, <2>4 DEF AllWasGiven, WasGiven
<1>7. S!AllowedWasGiven'
  BY <1>1, <1>4 DEF SettingInv, S!AllowedWasGiven
<1>8. Undisturbed'
  <2>1. ASSUME NEW q \in Users
        PROVE  /\ updates'[q].step \in Changing <=> updates[q].step \in Changing
               /\ updates'[q].step = "writes" <=> updates[q].step = "writes"
               /\ updates'[q].step \in Changing => updates'[q] = updates[q]
    BY <1>3, <1>4 DEF SettingInv, SettingTypes, Changing, S!Idle
  <2> QED
    BY <1>4, <2>1 DEF SettingInv, Undisturbed, S!Read
<1> QED
  BY <1>5, <1>6, <1>7, <1>8 DEF SettingInv

LEMMA ReadSettingsFileIsAllowed ==
  ASSUME SettingInv, NEW p \in Users, S!ReadSettingsFile(p)
  PROVE  SettingInv'
<1>1. updates[p].step = "reads" /\ UNCHANGED <<settings, view, begun, given, wanted>>
  BY DEF S!ReadSettingsFile
<1>7. together' \in BOOLEAN
  BY DEF S!ReadSettingsFile
<1>8. ~together' => /\ ~together /\ settings # S!Torn
                    /\ \A q \in Users : updates[q].step \notin Changing
  BY DEF S!ReadSettingsFile, Changing
<1>2. updates[p].update \in Wishes /\ S!GivenBy(updates[p].update) \subseteq given
  BY <1>1 DEF SettingInv, SettingTypes, AllWasGiven, Changing
<1>3. S!AllowedWasGiven'
  BY <1>1 DEF SettingInv, S!AllowedWasGiven
<1>4. settings' \in S!Documents => WasGiven(settings)'
  BY <1>1 DEF SettingInv, AllWasGiven, WasGiven
<1>5. CASE settings = S!Torn
  <2> DEFINE u == S!Idle
  <2>0. u \in [step : {"idle"}] /\ u.step = "idle"
    BY DEF S!Idle
  <2>1. updates' = [updates EXCEPT ![p] = u]
    BY <1>5 DEF S!ReadSettingsFile
  <2> HIDE DEF u
  <2>2. SettingTypes'
    BY <1>1, <1>7, <2>0, <2>1 DEF SettingInv, SettingTypes
  <2>3. \A q \in Users : updates'[q].step # "idle" => q # p /\ updates'[q] = updates[q]
    BY <2>0, <2>1 DEF SettingInv, SettingTypes
  <2>4. AllWasGiven'
    BY <1>1, <1>4, <2>3 DEF SettingInv, AllWasGiven, WasGiven, Changing
  <2> QED
    BY <1>3, <1>5, <1>8, <2>2, <2>4 DEF SettingInv, Undisturbed
<1>6. CASE settings # S!Torn
  <2>1. PICK doc : doc = S!Merged(S!Read, updates[p].update)
    OBVIOUS
  <2>2. doc \in Understood /\ WasGiven(doc)
    BY <1>2, <1>6, <2>1, MergedTypes, ReadTypes
  <2>3. PICK u : /\ u = [step |-> "truncates", update |-> updates[p].update, doc |-> doc]
                 /\ u \in [step : Changing, update : Wishes, doc : S!Documents]
                 /\ u.step = "truncates" /\ u.update = updates[p].update /\ u.doc = doc
                 /\ updates' = [updates EXCEPT ![p] = u]
    BY <1>2, <1>6, <2>1, <2>2 DEF S!ReadSettingsFile, Understood, Changing
  <2>4. SettingTypes'
    BY <1>1, <1>7, <2>3 DEF SettingInv, SettingTypes
  <2>5. \A q \in Users : q # p => updates'[q] = updates[q]
    BY <2>3 DEF SettingInv, SettingTypes
  <2>6. updates'[p] = u
    BY <2>3 DEF SettingInv, SettingTypes
  <2>7. AllWasGiven'
    BY <1>1, <1>2, <1>4, <2>2, <2>3, <2>5, <2>6 DEF SettingInv, AllWasGiven, WasGiven
  <2>8. Undisturbed'
    <3>1. SUFFICES ASSUME ~together'
                   PROVE  Undisturbed'
      BY DEF Undisturbed
    <3>2. \A q \in Users : updates'[q].step \in Changing => q = p
      BY <1>8, <2>5, <3>1
    <3>3. settings' # S!Torn /\ \A q \in Users : updates'[q].step # "writes"
      BY <1>1, <1>8, <2>3, <2>5, <2>6, <3>1 DEF Changing
    <3>4. S!Understood(S!Read) = wanted /\ S!Read' = S!Read
      BY <1>1, <1>8, <3>1 DEF SettingInv, Undisturbed, S!Read
    <3>5. u.doc = S!Merged(wanted, u.update)
      BY <1>2, <1>6, <2>1, <2>3, <3>4, MergedTypes, ReadTypes
    <3> QED
      BY <1>1, <2>6, <3>2, <3>3, <3>4, <3>5 DEF Undisturbed
  <2> QED
    BY <1>3, <2>4, <2>7, <2>8 DEF SettingInv
<1> QED
  BY <1>5, <1>6

LEMMA TruncateIsAllowed ==
  ASSUME SettingInv, NEW p \in Users, S!Truncate(p)
  PROVE  SettingInv'
<1>1. updates[p] \in [step : Changing, update : Wishes, doc : S!Documents]
      /\ updates[p].step = "truncates"
  BY DEF S!Truncate, SettingInv, SettingTypes
<1>2. PICK u \in [step : Changing, update : Wishes, doc : S!Documents] :
        /\ u.step = "writes" /\ u.update = updates[p].update /\ u.doc = updates[p].doc
        /\ updates' = [updates EXCEPT ![p] = u]
  BY <1>1 DEF S!Truncate, Changing, SettingInv, SettingTypes
<1>3. UNCHANGED <<view, begun, given, wanted, together>> /\ settings' = S!Torn
  BY DEF S!Truncate
<1>4. \A q \in Users : q # p => updates'[q] = updates[q]
  BY <1>2 DEF SettingInv, SettingTypes
<1>5. updates'[p] = u
  BY <1>2 DEF SettingInv, SettingTypes
<1>6. SettingTypes'
  BY <1>2, <1>3 DEF SettingInv, SettingTypes
<1>7. AllWasGiven'
  BY <1>1, <1>2, <1>3, <1>4, <1>5, TornIsNoDocument DEF SettingInv, AllWasGiven, WasGiven,
    Changing
<1>8. S!AllowedWasGiven'
  BY <1>3 DEF SettingInv, S!AllowedWasGiven
<1>9. Undisturbed'
  <2>1. \A q \in Users : updates'[q].step \in Changing <=> updates[q].step \in Changing
    BY <1>1, <1>2, <1>4, <1>5 DEF Changing
  <2>2. \A q \in Users : /\ updates'[q].doc = updates[q].doc
                         /\ updates'[q].update = updates[q].update
    BY <1>2, <1>4, <1>5
  <2> QED
    BY <1>2, <1>3, <1>5, <2>1, <2>2 DEF SettingInv, Undisturbed
<1> QED
  BY <1>6, <1>7, <1>8, <1>9 DEF SettingInv

LEMMA WriteSettingsFileIsAllowed ==
  ASSUME SettingInv, NEW p \in Users, S!WriteSettingsFile(p)
  PROVE  SettingInv'
<1>1. updates[p] \in [step : Changing, update : Wishes, doc : S!Documents]
      /\ updates[p].step = "writes" /\ updates[p].step \in Changing
  BY DEF S!WriteSettingsFile, SettingInv, SettingTypes, Changing
<1>2. PICK u \in [step : {"idle"}] : u.step = "idle" /\ updates' = [updates EXCEPT ![p] = u]
  BY DEF S!WriteSettingsFile, S!Idle
<1>3. UNCHANGED <<view, begun, given, together>> /\ wanted' = S!Merged(wanted, updates[p].update)
      /\ \/ settings' = updates[p].doc
         \/ settings # S!Torn /\ settings' = S!Torn
  BY DEF S!WriteSettingsFile
<1>4. wanted' \in Understood
  BY <1>1, <1>3, MergedTypes DEF SettingInv, SettingTypes, Understood
<1>5. settings' \in S!Documents => WasGiven(settings)'
  BY <1>1, <1>3, TornIsNoDocument DEF SettingInv, AllWasGiven, WasGiven
<1>6. \A q \in Users : updates'[q].step # "idle" => q # p /\ updates'[q] = updates[q]
  BY <1>2 DEF SettingInv, SettingTypes
<1>7. SettingTypes'
  BY <1>1, <1>2, <1>3, <1>4 DEF SettingInv, SettingTypes
<1>8. AllWasGiven'
  BY <1>3, <1>5, <1>6 DEF SettingInv, AllWasGiven, WasGiven, Changing
<1>9. S!AllowedWasGiven'
  BY <1>3 DEF SettingInv, S!AllowedWasGiven
<1>10. Undisturbed'
  <2>1. SUFFICES ASSUME ~together
                 PROVE  Undisturbed'
    BY <1>3 DEF Undisturbed
  <2>2. settings = S!Torn /\ settings' = updates[p].doc
    BY <1>1, <1>3, <2>1 DEF SettingInv, Undisturbed
  <2>3. settings' = wanted' /\ settings' # S!Torn /\ settings' # None
    <3>1. settings' = wanted'
      BY <1>1, <1>3, <2>1, <2>2 DEF SettingInv, Undisturbed
    <3> QED
      BY <1>1, <2>2, <3>1, TornIsNoDocument, SettingsAssumption
  <2>4. \A q \in Users : updates[q].step \in Changing => q = p
    BY <1>1, <2>1 DEF SettingInv, Undisturbed
  <2>5. \A q \in Users : updates'[q].step \notin Changing
    BY <1>6, <2>4 DEF Changing
  <2>6. S!Read' = wanted' /\ S!Understood(S!Read)' = wanted'
    BY <1>4, <2>3, UnderstoodTwice DEF S!Read
  <2> QED
    BY <2>3, <2>5, <2>6 DEF Undisturbed, Changing
<1> QED
  BY <1>7, <1>8, <1>9, <1>10 DEF SettingInv

LEMMA DieIsAllowed ==
  ASSUME SettingInv, NEW p \in Users, S!Die(p)
  PROVE  SettingInv'
<1>1. PICK u \in [step : {"idle"}] : u.step = "idle" /\ updates' = [updates EXCEPT ![p] = u]
  BY DEF S!Die, S!Idle
<1>2. UNCHANGED <<settings, begun, given, wanted>> /\ view' = [view EXCEPT ![p] = None]
      /\ together' \in BOOLEAN /\ (~together' => ~together /\ updates[p].step # "writes")
  BY DEF S!Die
<1>3. \A q \in Users : updates'[q].step # "idle" => q # p /\ updates'[q] = updates[q]
  BY <1>1 DEF SettingInv, SettingTypes
<1>4. SettingTypes'
  BY <1>1, <1>2 DEF SettingInv, SettingTypes
<1>5. AllWasGiven'
  BY <1>2, <1>3 DEF SettingInv, AllWasGiven, WasGiven, Changing
<1>6. S!AllowedWasGiven'
  BY <1>2 DEF SettingInv, SettingTypes, S!AllowedWasGiven
<1>7. Undisturbed'
  <2>1. SUFFICES ASSUME ~together'
                 PROVE  Undisturbed'
    BY DEF Undisturbed
  <2>2. \A q \in Users : updates'[q].step = "writes" <=> updates[q].step = "writes"
    <3>1. ASSUME NEW q \in Users, q # p
          PROVE  updates'[q] = updates[q]
      BY <1>1, <3>1 DEF SettingInv, SettingTypes
    <3>2. updates'[p].step = "idle"
      BY <1>1 DEF SettingInv, SettingTypes
    <3> QED
      BY <1>2, <2>1, <3>1, <3>2
  <2>3. S!Read' = S!Read
    BY <1>2 DEF S!Read
  <2> QED
    BY <1>2, <1>3, <2>1, <2>2, <2>3 DEF SettingInv, Undisturbed, Changing
<1> QED
  BY <1>4, <1>5, <1>6, <1>7 DEF SettingInv

LEMMA SettingsBegin ==
  ASSUME S!Init
  PROVE  SettingInv
<1>1. PICK u \in [step : {"idle"}] : u.step = "idle" /\ updates = [p \in Users |-> u]
  BY DEF S!Init, S!Idle
<1>2. /\ view = [p \in Users |-> None] /\ given = {} /\ ~together /\ together \in BOOLEAN
      /\ settings \in {None} \cup S!Old
      /\ wanted = IF settings = None THEN S!Understood(S!Empty) ELSE S!Understood(settings)
  BY DEF S!Init
<1>3. S!Empty \in S!Documents
  BY DEF S!Empty, S!Documents
<1>4. ASSUME NEW doc \in S!Old
      PROVE  doc \in S!Documents /\ WasGiven(doc)
  <2>1. doc.approvals = {} /\ doc.autoApprovals = {} /\ doc \in S!Documents
    BY DEF S!Old, S!Documents
  <2>2. S!Grants({}, Commands) = {}
    BY DEF S!Grants
  <2> QED
    BY <2>1, <2>2 DEF WasGiven
<1>5. wanted \in Understood
  BY <1>2, <1>3, <1>4, UnderstoodTypes
<1>6. SettingTypes
  BY <1>1, <1>2, <1>4, <1>5 DEF SettingTypes
<1>7. AllWasGiven
  BY <1>1, <1>2, <1>4, SettingsAssumption DEF AllWasGiven, Changing
<1>8. S!AllowedWasGiven
  BY <1>2 DEF S!AllowedWasGiven
<1>9. Undisturbed
  <2>1. settings # S!Torn
    BY <1>2, <1>4, TornIsNoDocument, SettingsAssumption
  <2>2. S!Understood(S!Read) = wanted
    BY <1>2 DEF S!Read
  <2> QED
    BY <1>1, <2>1, <2>2 DEF Undisturbed, Changing
<1> QED
  BY <1>6, <1>7, <1>8, <1>9 DEF SettingInv

LEMMA SettingSteps ==
  ASSUME SettingInv, S!Next
  PROVE  SettingInv'
BY StartIsAllowed, UpdateIsAllowed, ReadSettingsFileIsAllowed, TruncateIsAllowed,
  WriteSettingsFileIsAllowed, DieIsAllowed DEF S!Next

LEMMA SettingStutters ==
  ASSUME SettingInv, UNCHANGED settingVars
  PROVE  SettingInv'
BY DEF settingVars, SettingInv, SettingTypes, AllWasGiven, WasGiven, S!AllowedWasGiven,
  Undisturbed, S!Read

LEMMA OthersKept ==
  ASSUME SettingInv
  PROVE  S!OthersAreKept
BY DEF SettingInv, Undisturbed, S!OthersAreKept

(* Calls and settings together: what is done, and what a process finds       *)
(* allowed when it starts, the user allowed; and updates that do not come    *)
(* together keep what was said (tools/runtime.js, config/settings.js).       *)
THEOREM AllowedCorrect == Spec => []OnlyWhatIsAllowed
<1>1. Init => SettingInv
  BY SettingsBegin DEF Init
<1>2. SettingInv /\ [Next]_<<part, fileVars, permissionVars, changeVars, promptVars, menuVars,
                            settingVars>> => SettingInv'
  BY SettingSteps, SettingStutters DEF Next
<1>3. (P!EffectsWereAllowed /\ P!NeverAskedAgain) /\ SettingInv => OnlyWhatIsAllowed
  BY OthersKept DEF SettingInv, OnlyWhatIsAllowed
<1> QED
  BY <1>1, <1>2, <1>3, PermissionsCorrect, PTL DEF Spec

-----------------------------------------------------------------------------
(* Tools that change files.                                                  *)
FileWishes == [action : {"update", "create", "move", "write"}, path : Paths, from : Paths \cup {None}]
Plans == [action : {"update", "create", "move"}, path : Paths, from : Paths \cup {None},
          original : F!Contents \cup {None}, content : F!Contents, ino : F!Inodes \cup {None}]
Held == F!Stored \cup {None}

Forward == {"checks", "compares", "mutates", "settles"}
Undoing == {"undoes", "restores"}

(* The plans that are carried out and not taken back.                        *)
Applied == CASE phase = "settles" -> next [] phase \in Undoing -> undo [] OTHER -> next - 1

OfOneFile(c) == c.tool # "set" => Len(c.files) = 1 /\ c.files[1].action # "move"
Wished(w) == IF w.action = "move" THEN w.from \in Paths ELSE w.from = None
Called(c) ==
  /\ c.files \in Seq(FileWishes) /\ Len(c.files) > 0 /\ OfOneFile(c)
  /\ \A i \in 1 .. Len(c.files) : Wished(c.files[i])

FileTypes ==
  /\ files \in [Paths -> Held] /\ started \in [Paths -> Held] /\ known \in [Paths -> Held]
  /\ edits \in Nat /\ calls \in Nat /\ raced \subseteq edited
  /\ phase \in {"idle", "asks", "replans"} \cup Forward \cup Undoing
  /\ plans \in Seq(Plans)
  /\ phase # "idle" => Called(call) /\ Len(call.files) = Len(plans)

(* What a plan found before the call changed any file.                       *)
Grounded(fs, q) ==
  /\ q.action = "update" => fs[q.path] # None /\ fs[q.path].content = q.original
  /\ q.action = "move" => /\ q.from \in Paths /\ fs[q.from] # None
                          /\ fs[q.from].content = q.original /\ q.content = q.original
  /\ q.action # "move" => q.from = None
Apart(list) ==
  \A i, j \in 1 .. Len(list) : i # j => F!Touches(list[i]) \cap F!Touches(list[j]) = {}
Paired(q) == q.action = "move" => (q.path \in edited <=> q.from \in edited)

Places ==
  /\ next \in 1 .. Len(plans)
  /\ phase \in Forward => written = next - 1 /\ ~failed /\ ~uncertain
  /\ phase \in Undoing => /\ written \in 0 .. Len(plans) /\ undo \in 0 .. written
                          /\ uncertain => written < Len(plans)
                          /\ phase = "restores" => undo > 0
  /\ call.tool # "set" => Len(plans) = 1 /\ plans[1].action # "move" /\ phase \in Forward

Starting ==
  /\ next = 1 /\ written = 0 /\ ~failed /\ ~uncertain
  /\ \A i \in 1 .. Len(plans) : plans[i].action # "move" => plans[i].from = None
  /\ \A x \in Paths \ edited : files[x] = started[x]

(* A plan that is carried out, as far as others left its files alone.        *)
Left(q) ==
  /\ q.action = "update" /\ q.path \notin edited =>
       files[q.path] = [content |-> q.content, ino |-> started[q.path].ino]
  /\ q.action = "create" /\ q.path \notin edited => started[q.path] = None
  /\ q.action = "move" /\ q.path \notin edited =>
       /\ started[q.path] = None /\ files[q.path] = started[q.from] /\ files[q.from] = None

MayDiffer(i) ==
  \/ i <= Applied
  \/ phase \in Undoing /\ failed /\ i <= written
  \/ phase \in Undoing /\ uncertain /\ i = written + 1

FilesTell ==
  \A x \in Paths \ edited :
    files[x] = started[x] \/ \E i \in 1 .. Len(plans) : MayDiffer(i) /\ x \in F!Touches(plans[i])

(* What the call knows of a file it changed, or will change.                 *)
Learnt(q) ==
  /\ known[q.path] # None /\ known[q.path].content = q.content
  /\ q.action # "update" => q.ino # None /\ known[q.path].ino = q.ino
Carried == IF phase \in Undoing THEN written ELSE Applied

(* Between the comparison and the change.                                    *)
Compared ==
  /\ phase = "mutates" =>
       LET q == plans[next]
           src == F!Sources(q)
       IN  /\ q.ino \in F!Inodes
           /\ q.action # "create" /\ src \notin raced =>
                files[src] # None /\ files[src].content = q.original /\ files[src].ino = q.ino
  /\ phase = "restores" =>
       LET q == plans[undo] IN
       q.path \notin raced =>
         files[q.path] # None /\ files[q.path].content = q.content /\ files[q.path].ino = q.ino

Carrying ==
  /\ Apart(plans) /\ Places /\ FilesTell /\ Compared
  /\ \A i \in 1 .. Len(plans) : Grounded(started, plans[i]) /\ Paired(plans[i])
  /\ \A i \in 1 .. Len(plans) : i <= Applied => Left(plans[i])
  /\ \A i \in 1 .. Len(plans) : i <= Carried => Learnt(plans[i])
  /\ phase \in Forward =>
       \A i \in 1 .. Len(plans) : i > Applied =>
         \A x \in F!Touches(plans[i]) : known[x] = started[x]

FileInv ==
  /\ FileTypes
  /\ phase = "idle" => \A x \in Paths \ (edited \cup report) : files[x] = started[x]
  /\ phase \in {"asks", "replans"} => Starting
  /\ phase \in Forward \cup Undoing => Carrying

(* A plan is made from the files as they are.                                *)
Fits(q, w, fs) ==
  /\ q \in Plans /\ q.path = w.path /\ q.from = w.from /\ q.ino = None
  /\ q.action = "move" <=> w.action = "move"
  /\ Grounded(fs, q)

LEMMA PlanFits ==
  ASSUME files \in [Paths -> Held], NEW w \in FileWishes, Wished(w), NEW kind,
         F!PlanFile(kind, w) # None
  PROVE  Fits(F!PlanFile(kind, w), w, files)
<1>1. /\ w.path \in Paths /\ w.from \in Paths \cup {None}
      /\ w.action \in {"update", "create", "move", "write"}
  BY DEF FileWishes
<1>2. \A x \in Paths : F!Content(x) # None => files[x] # None /\ F!Content(x) = files[x].content
                                              /\ F!Content(x) \in F!Contents
  BY DEF F!Content, Held, F!Stored
<1>3. "new" \in F!Contents /\ "merged" \in F!Contents
  BY DEF F!Contents
<1>4. CASE w.action = "update"
  <2>1. F!PlanFile(kind, w) = F!PlanUpdate(w)
    BY <1>4 DEF F!PlanFile
  <2>2. F!Content(w.path) # None /\ F!Patched(F!Content(w.path)) # None
        /\ F!PlanFile(kind, w) = F!Plan(w, "update", F!Content(w.path), F!Patched(F!Content(w.path)))
    BY <2>1 DEF F!PlanUpdate
  <2>3. F!Patched(F!Content(w.path)) \in F!Contents
    BY <1>3, <2>2 DEF F!Patched
  <2>4. F!PlanFile(kind, w) =
          [action |-> "update", path |-> w.path, from |-> w.from, original |-> F!Content(w.path),
           content |-> F!Patched(F!Content(w.path)), ino |-> None]
    BY <2>2 DEF F!Plan
  <2> QED
    BY <1>1, <1>2, <1>4, <2>2, <2>3, <2>4 DEF Fits, Plans, Grounded, Wished
<1>5. CASE w.action = "create"
  <2>1. F!PlanFile(kind, w) =
          [action |-> "create", path |-> w.path, from |-> w.from, original |-> None,
           content |-> "new", ino |-> None]
    BY <1>5 DEF F!PlanFile, F!PlanCreate, F!Plan
  <2> QED
    BY <1>1, <1>3, <1>5, <2>1 DEF Fits, Plans, Grounded, Wished
<1>6. CASE w.action = "move"
  <2>1. F!Content(w.from) # None
        /\ F!PlanFile(kind, w) =
             [action |-> "move", path |-> w.path, from |-> w.from, original |-> F!Content(w.from),
              content |-> F!Content(w.from), ino |-> None]
    BY <1>6 DEF F!PlanFile, F!PlanMove, F!Plan
  <2>2. w.from \in Paths
    BY <1>6 DEF Wished
  <2>3. /\ files[w.from] # None /\ F!Content(w.from) = files[w.from].content
        /\ F!Content(w.from) \in F!Contents
    BY <1>2, <2>1, <2>2
  <2> QED
    BY <1>1, <1>6, <2>1, <2>2, <2>3 DEF Fits, Plans, Grounded
<1>7. CASE w.action = "write"
  <2>1. F!PlanFile(kind, w) = F!PlanWrite(kind, w)
    BY <1>7 DEF F!PlanFile
  <2>2. PICK held : held = F!Content(w.path)
    OBVIOUS
  <2>3. F!PlanFile(kind, w) =
          [action |-> IF held = None THEN "create" ELSE "update", path |-> w.path, from |-> w.from,
           original |-> held, content |-> "new", ino |-> None]
    BY <2>1, <2>2 DEF F!PlanWrite, F!Plan
  <2>4. held = None \/ (files[w.path] # None /\ held = files[w.path].content /\ held \in F!Contents)
    BY <1>1, <1>2, <2>2
  <2>5. w.from = None
    BY <1>7 DEF Wished
  <2>6. CASE held = None
    BY <1>1, <1>3, <1>7, <2>3, <2>5, <2>6 DEF Fits, Plans, Grounded
  <2>7. CASE held # None
    BY <1>1, <1>3, <1>7, <2>3, <2>4, <2>5, <2>7 DEF Fits, Plans, Grounded
  <2> QED
    BY <2>6, <2>7
<1> QED
  BY <1>1, <1>4, <1>5, <1>6, <1>7

(* The plans of a call, one for each file it names.                          *)
FitAll(qs, list, fs) ==
  /\ qs \in Seq(Plans) /\ Len(qs) = Len(list) /\ Apart(qs)
  /\ \A i \in 1 .. Len(qs) : Fits(qs[i], list[i], fs)

LEMMA SetFits ==
  ASSUME files \in [Paths -> Held], NEW c, Called(c), F!PlanSet(c.tool, c.files) # None
  PROVE  FitAll(F!PlanSet(c.tool, c.files), c.files, files)
<1>1. PICK list, kind : list = c.files /\ kind = c.tool
  OBVIOUS
<1>2. /\ list \in Seq(FileWishes) /\ DOMAIN list = 1 .. Len(list) /\ Len(list) \in Nat
      /\ \A i \in 1 .. Len(list) : list[i] \in FileWishes /\ Wished(list[i])
  BY <1>1 DEF Called
<1>3. PICK qs : qs = [i \in DOMAIN list |-> F!PlanFile(kind, list[i])]
  OBVIOUS
<1>4. /\ F!PlanSet(kind, list) = qs /\ ~F!Repeated(list)
      /\ \A i \in DOMAIN list : F!PlanFile(kind, list[i]) # None
  <2>1. F!PlanSet(kind, list) =
          IF F!Repeated(list) \/ \E i \in DOMAIN list : qs[i] = None THEN None ELSE qs
    BY <1>3 DEF F!PlanSet
  <2>2. F!PlanSet(kind, list) # None
    BY <1>1
  <2>3. ~F!Repeated(list) /\ F!PlanSet(kind, list) = qs /\ \A i \in DOMAIN list : qs[i] # None
    BY <2>1, <2>2
  <2> QED
    BY <1>3, <2>3
<1>5. \A i \in 1 .. Len(list) : Fits(qs[i], list[i], files)
  BY <1>2, <1>3, <1>4, PlanFits
<1>6. qs \in Seq(Plans) /\ Len(qs) = Len(list)
  BY <1>2, <1>3, <1>5 DEF Fits
<1>7. Apart(qs)
  <2>1. \A i \in 1 .. Len(list) : F!Touches(qs[i]) = F!Touches(list[i])
    BY <1>5 DEF F!Touches, Fits
  <2>2. \A i, j \in 1 .. Len(list) : i # j => F!Touches(list[i]) \cap F!Touches(list[j]) = {}
    BY <1>2, <1>4 DEF F!Repeated
  <2> QED
    BY <1>6, <2>1, <2>2 DEF Apart
<1> QED
  BY <1>1, <1>4, <1>5, <1>6, <1>7 DEF FitAll

(* What a file's plan touches, and what no other plan does.                  *)
LEMMA Touched ==
  ASSUME FileTypes, NEW i \in 1 .. Len(plans), Grounded(started, plans[i])
  PROVE  /\ plans[i] \in Plans /\ plans[i].path \in Paths
         /\ plans[i].path \in F!Touches(plans[i]) /\ F!Sources(plans[i]) \in F!Touches(plans[i])
         /\ F!Sources(plans[i]) \in Paths
         /\ plans[i].action = "move" => F!Sources(plans[i]) = plans[i].from
         /\ plans[i].action # "move" => F!Sources(plans[i]) = plans[i].path
         /\ F!Touches(plans[i]) = {plans[i].path, F!Sources(plans[i])}
         /\ \A j \in 1 .. Len(plans) :
              Apart(plans) /\ i # j => \A x \in F!Touches(plans[i]) : x \notin F!Touches(plans[j])
<1>1. PICK q : q = plans[i]
  OBVIOUS
<1>2. q \in Plans
  BY <1>1 DEF FileTypes
<1>3. q.path \in Paths /\ q.from \in Paths \cup {None} /\ (q.action # "move" => q.from = None)
      /\ (q.action = "move" => q.from \in Paths)
  BY <1>1, <1>2 DEF Plans, Grounded
<1>4. /\ q.path \in F!Touches(q) /\ F!Sources(q) \in F!Touches(q) /\ F!Sources(q) \in Paths
      /\ (q.action = "move" => F!Sources(q) = q.from)
      /\ (q.action # "move" => F!Sources(q) = q.path)
      /\ F!Touches(q) = {q.path, F!Sources(q)}
  BY <1>3, FileAssumption DEF F!Touches, F!Sources
<1>5. ASSUME NEW j \in 1 .. Len(plans), Apart(plans), i # j
      PROVE  \A x \in F!Touches(q) : x \notin F!Touches(plans[j])
  BY <1>1, <1>5 DEF Apart
<1> QED
  BY <1>1, <1>2, <1>3, <1>4, <1>5

(* Steps at which a call has not changed anything yet.                       *)
LEMMA Idles ==
  ASSUME FileTypes', phase' \in {"idle", "asks", "replans"},
         \A x \in Paths \ (edited' \cup report') : files'[x] = started'[x],
         phase' # "idle" => Starting'
  PROVE  FileInv'
BY DEF FileInv, Forward, Undoing

LEMMA StartHolds ==
  ASSUME FileInv, NEW c, Called(c), F!Start(c)
  PROVE  FileInv'
<1>1. /\ call' = c /\ calls' = calls + 1 /\ started' = files /\ known' = files
      /\ edited' = {} /\ raced' = {} /\ UNCHANGED <<files, edits>>
  BY DEF F!Start
<1>2. PICK qs : qs = F!PlanSet(c.tool, c.files)
  OBVIOUS
<1>3. files \in [Paths -> Held] /\ edits \in Nat /\ calls \in Nat
  BY DEF FileInv, FileTypes
<1>4. CASE phase' = "idle" /\ plans' = <<>>
  <2>1. FileTypes'
    BY <1>1, <1>3, <1>4 DEF FileTypes
  <2> QED
    BY <1>1, <1>4, <2>1, Idles
<1>5. CASE phase' = "asks" /\ plans' = qs /\ qs # None
  <2>1. FitAll(qs, c.files, files)
    BY <1>2, <1>3, <1>5, SetFits
  <2>2. FileTypes'
    BY <1>1, <1>3, <1>5, <2>1 DEF FileTypes, FitAll
  <2>3. next' = 1 /\ written' = 0 /\ ~failed' /\ ~uncertain'
    BY DEF F!Start
  <2>4. Starting'
    BY <1>1, <1>5, <2>1, <2>3 DEF Starting, FitAll, Fits, Grounded
  <2> QED
    BY <1>1, <1>5, <2>2, <2>4, Idles
<1>6. \/ phase' = "idle" /\ plans' = <<>>
      \/ phase' = "asks" /\ plans' = qs /\ qs # None
  <2>1. IF aborted \/ qs = None \/ mode = "read-only"
        THEN phase' = "idle" /\ plans' = <<>>
        ELSE phase' = "asks" /\ plans' = qs
    BY <1>2 DEF F!Start, F!Return
  <2> QED
    BY <2>1
<1> QED
  BY <1>4, <1>5, <1>6

LEMMA CallsStart ==
  ASSUME FileInv,
         \/ \E p \in Paths : \/ F!EditFile(p) \/ F!ApplyStructuredPatch(p) \/ F!ApplyJsonPatch(p)
                              \/ F!WriteWorkspaceFile(p)
         \/ \E list \in F!Lists : F!ApplyStructuredPatchSet(list)
  PROVE  FileInv'
<1>1. ASSUME NEW p \in Paths, NEW kind \in {"patch", "write", "expect"},
             NEW action \in {"update", "write"}
      PROVE  Called([tool |-> kind, files |-> F!One(action, p)])
  <2>1. PICK w : w = F!Entry(action, p, None)
    OBVIOUS
  <2>2. w \in FileWishes /\ Wished(w) /\ w.action # "move"
    BY <2>1 DEF F!Entry, FileWishes, Wished
  <2>3. F!One(action, p) = <<w>>
    BY <2>1 DEF F!One
  <2>4. <<w>> \in Seq(FileWishes) /\ Len(<<w>>) = 1 /\ <<w>>[1] = w
    BY <2>2
  <2> QED
    BY <2>2, <2>3, <2>4 DEF Called, OfOneFile
<1>2. ASSUME NEW list \in F!Lists
      PROVE  Called([tool |-> "set", files |-> list])
  <2>1. PICK n \in 1 .. MaxEntries : list \in [1 .. n -> F!Entries]
    BY DEF F!Lists
  <2>2. n \in Nat
    BY FileAssumption
  <2>3. ASSUME NEW w \in F!Entries
        PROVE  w \in FileWishes /\ Wished(w)
    <3>1. CASE \E p \in Paths : w = F!Entry("update", p, None)
      BY <3>1 DEF F!Entry, FileWishes, Wished
    <3>2. CASE \E p \in Paths : w = F!Entry("create", p, None)
      BY <3>2 DEF F!Entry, FileWishes, Wished
    <3>3. CASE \E pair \in {pq \in Paths \X Paths : pq[1] # pq[2]} : w = F!Entry("move", pair[1], pair[2])
      <4>1. PICK pair \in Paths \X Paths : w = F!Entry("move", pair[1], pair[2])
        BY <3>3
      <4>2. pair[1] \in Paths /\ pair[2] \in Paths
        BY <4>1
      <4> QED
        BY <4>1, <4>2 DEF F!Entry, FileWishes, Wished
    <3> QED
      BY <3>1, <3>2, <3>3 DEF F!Entries
  <2>4. list \in Seq(FileWishes) /\ Len(list) = n /\ \A i \in 1 .. n : Wished(list[i])
    BY <2>1, <2>2, <2>3
  <2> QED
    BY <2>4 DEF Called, OfOneFile
<1> QED
  BY <1>1, <1>2, StartHolds DEF F!EditFile, F!ApplyStructuredPatch, F!ApplyJsonPatch,
     F!WriteWorkspaceFile, F!ApplyStructuredPatchSet

LEMMA AskHolds ==
  ASSUME FileInv, F!Ask
  PROVE  FileInv'
<1>1. /\ phase = "asks" /\ phase' \in {"replans", "idle"} /\ (phase' = "idle" => report' = {})
      /\ UNCHANGED <<files, edits, call, calls, plans, started, known, edited, raced, next, written,
                     failed, uncertain>>
  BY DEF F!Ask, F!Return, F!history, F!progress
<1>2. FileTypes'
  BY <1>1 DEF FileInv, FileTypes
<1>3. Starting'
  BY <1>1 DEF FileInv, Starting
<1> QED
  BY <1>1, <1>2, <1>3, Idles DEF Starting

LEMMA ReplanHolds ==
  ASSUME FileInv, F!Replan
  PROVE  FileInv'
<1>1. /\ phase = "replans" /\ started' = files /\ known' = files /\ edited' = {} /\ raced' = {}
      /\ UNCHANGED <<files, edits, call, calls, next, written, undo, uncertain, failed>>
  BY DEF F!Replan, F!progress
<1>2. FileTypes /\ Starting /\ files \in [Paths -> Held] /\ Called(call)
      /\ Len(call.files) = Len(plans)
  BY <1>1 DEF FileInv, FileTypes
<1>3. CASE F!Fresh = None
  <2>1. phase' = "idle" /\ report' = {} /\ plans' = plans
    BY <1>3 DEF F!Replan, F!Return
  <2>2. FileTypes'
    BY <1>1, <1>2, <2>1 DEF FileTypes
  <2> QED
    BY <1>1, <2>1, <2>2, Idles
<1>4. CASE F!Fresh # None
  <2>1. phase' = "checks" /\ plans' = F!Fresh
    BY <1>4 DEF F!Replan
  <2>2. PICK qs : qs = F!Fresh
    OBVIOUS
  <2>3. /\ qs \in Seq(Plans) /\ Len(qs) = Len(call.files) /\ Apart(qs)
        /\ (\A i \in 1 .. Len(qs) : Grounded(files, qs[i]))
        /\ (call.tool # "set" => qs[1].action # "move")
    <3>1. CASE call.tool = "write" /\ plans[1].action = "create"
      <4>1. qs = plans /\ Len(plans) = 1 /\ plans \in Seq(Plans)
        BY <1>2, <2>2, <3>1 DEF F!Fresh, Called, OfOneFile, FileTypes
      <4>2. Grounded(files, plans[1])
        BY <1>2, <3>1, <4>1 DEF Grounded, Starting
      <4> QED
        BY <1>2, <3>1, <4>1, <4>2 DEF Apart
    <3>2. CASE ~(call.tool = "write" /\ plans[1].action = "create")
      <4>1. qs \in {None, F!PlanSet(call.tool, call.files)}
        BY <2>2, <3>2 DEF F!Fresh
      <4>2. F!PlanSet(call.tool, call.files) # None /\ qs = F!PlanSet(call.tool, call.files)
        BY <1>4, <2>2, <4>1
      <4>3. FitAll(qs, call.files, files)
        BY <1>2, <4>2, SetFits
      <4>4. /\ qs \in Seq(Plans) /\ Len(qs) = Len(call.files) /\ Apart(qs)
            /\ (\A i \in 1 .. Len(qs) : Grounded(files, qs[i]))
            /\ \A i \in 1 .. Len(qs) : qs[i].action = "move" <=> call.files[i].action = "move"
        BY <4>3 DEF FitAll, Fits
      <4>5. call.tool # "set" => qs[1].action # "move"
        BY <1>2, <4>4 DEF Called, OfOneFile
      <4> QED
        BY <4>4, <4>5
    <3> QED
      BY <3>1, <3>2
  <2>4. FileTypes'
    BY <1>1, <1>2, <2>1, <2>2, <2>3 DEF FileTypes, Forward
  <2>5. Applied' = 0 /\ Carried' = 0
    BY <1>1, <1>2, <2>1 DEF Applied, Carried, Undoing, Starting
  <2>6. Places'
    BY <1>1, <1>2, <2>1, <2>2, <2>3 DEF Places, Called, OfOneFile, Starting, Forward, Undoing
  <2>7. FilesTell' /\ Compared'
    BY <1>1, <2>1 DEF FilesTell, Compared
  <2>8. \A i \in 1 .. Len(qs) : Grounded(files, qs[i]) /\ Paired(qs[i])'
    BY <1>1, <2>3 DEF Paired
  <2>9. Carrying'
    BY <1>1, <2>1, <2>2, <2>3, <2>5, <2>6, <2>7, <2>8 DEF Carrying, Paired
  <2> QED
    BY <2>1, <2>4, <2>9 DEF FileInv, Forward, Undoing
<1> QED
  BY <1>3, <1>4

(* A change that fails, having touched at most the files of its plan.        *)
LEMMA FailsHolds ==
  ASSUME FileInv, phase \in {"checks", "compares", "mutates"}, NEW unsure \in BOOLEAN, F!Fails(unsure),
         UNCHANGED <<edits, call, calls, started, known, edited>>, raced' \subseteq raced,
         files' \in [Paths -> Held],
         \A x \in Paths : files'[x] = files[x] \/ (unsure /\ x \in F!Touches(plans[next]))
  PROVE  FileInv'
<1>1. FileTypes /\ Carrying /\ phase \in Forward /\ phase \notin Undoing
  BY DEF FileInv, Forward, Undoing
<1>2. /\ next \in 1 .. Len(plans) /\ Len(plans) \in Nat /\ written = next - 1 /\ ~failed /\ ~uncertain
      /\ Applied = next - 1 /\ Carried = next - 1
      /\ \A i \in 1 .. Len(plans) : MayDiffer(i) <=> i <= next - 1
  BY <1>1 DEF Carrying, Places, Applied, Carried, Undoing, MayDiffer, FileTypes
<1>3. uncertain' = unsure /\ UNCHANGED <<plans, next, written, failed>>
  BY DEF F!Fails
<1>4. Grounded(started, plans[next]) /\ plans[next].path \in F!Touches(plans[next])
  BY <1>1, <1>2, Touched DEF Carrying
<1>5. CASE call.tool = "set"
  <2>1. phase' = "undoes" /\ undo' = written
    BY <1>5 DEF F!Fails
  <2>2. FileTypes'
    BY <1>1, <1>3, <2>1 DEF FileTypes, Undoing
  <2>3. Applied' = next - 1 /\ Carried' = next - 1
    BY <1>2, <1>3, <2>1 DEF Applied, Carried, Undoing
  <2>4. Places'
    BY <1>1, <1>2, <1>3, <1>5, <2>1 DEF Places, Forward, Undoing
  <2>5. FilesTell'
    <3>1. ASSUME NEW x \in Paths \ edited
          PROVE  files'[x] = started[x]
                 \/ \E i \in 1 .. Len(plans) : MayDiffer(i)' /\ x \in F!Touches(plans[i])
      <4>1. CASE files'[x] = files[x]
        <5>1. files[x] = started[x]
              \/ \E i \in 1 .. Len(plans) : i <= next - 1 /\ x \in F!Touches(plans[i])
          BY <1>1, <1>2 DEF Carrying, FilesTell
        <5> QED
          BY <2>3, <4>1, <5>1 DEF MayDiffer
      <4>2. CASE unsure /\ x \in F!Touches(plans[next])
        <5>1. PICK n \in 1 .. Len(plans) : n = next
          BY <1>2
        <5>2. MayDiffer(n)'
          BY <1>2, <1>3, <2>1, <4>2, <5>1 DEF MayDiffer, Undoing
        <5> QED
          BY <4>2, <5>1, <5>2
      <4> QED
        BY <4>1, <4>2
    <3> QED
      BY <1>3, <3>1 DEF FilesTell
  <2>6. ASSUME NEW i \in 1 .. Len(plans), i <= next - 1
        PROVE  Left(plans[i])'
    <3>1. Left(plans[i]) /\ Grounded(started, plans[i])
      BY <1>1, <1>2, <2>6 DEF Carrying
    <3>2. \A x \in F!Touches(plans[i]) : x \notin F!Touches(plans[next])
      <4>1. i # next /\ Apart(plans)
        BY <1>1, <1>2, <2>6 DEF Carrying
      <4> QED
        BY <1>2, <4>1 DEF Apart
    <3>3. /\ plans[i].path \in Paths /\ plans[i].path \in F!Touches(plans[i])
          /\ (plans[i].action = "move" =>
               plans[i].from \in Paths /\ plans[i].from \in F!Touches(plans[i]))
      BY <1>1, <3>1, Touched DEF Grounded
    <3>4. /\ files'[plans[i].path] = files[plans[i].path]
          /\ (plans[i].action = "move" => files'[plans[i].from] = files[plans[i].from])
      BY <3>2, <3>3
    <3> QED
      BY <1>3, <3>1, <3>4 DEF Left
  <2>7. Compared'
    BY <2>1 DEF Compared
  <2>8. \A i \in 1 .. Len(plans) : Grounded(started, plans[i]) /\ Paired(plans[i])'
    BY <1>1, <1>3 DEF Carrying, Paired
  <2>9. \A i \in 1 .. Len(plans) : i <= next - 1 => Learnt(plans[i])'
    BY <1>1, <1>2, <1>3 DEF Carrying, Learnt
  <2>10. Carrying'
    BY <1>1, <1>3, <2>1, <2>3, <2>4, <2>5, <2>6, <2>7, <2>8, <2>9
       DEF Carrying, Forward, Left, Learnt, Paired
  <2> QED
    BY <2>1, <2>2, <2>10 DEF FileInv, Forward, Undoing
<1>6. CASE call.tool # "set"
  <2>1. phase' = "idle" /\ report' = IF unsure THEN {plans[next].path} ELSE {}
    BY <1>6 DEF F!Fails, F!Return, F!plan
  <2>2. FileTypes'
    BY <1>1, <1>3, <2>1 DEF FileTypes
  <2>3. Len(plans) = 1 /\ next = 1 /\ plans[next].action # "move"
    BY <1>1, <1>2, <1>6 DEF Carrying, Places
  <2>4. F!Touches(plans[next]) = {plans[next].path}
    BY <1>1, <1>2, <1>4, <2>3, Touched
  <2>5. ASSUME NEW x \in Paths \ (edited \cup report')
        PROVE  files'[x] = started[x]
    <3>1. files'[x] = files[x]
      BY <2>1, <2>4, <2>5
    <3>2. files[x] = started[x]
      BY <1>1, <1>2, <2>3 DEF Carrying, FilesTell
    <3> QED
      BY <3>1, <3>2
  <2> QED
    BY <2>1, <2>2, <2>5, Idles
<1> QED
  BY <1>5, <1>6

(* Only the inode of a plan is set while it is carried out.                  *)
SamePlan(q, r) ==
  /\ q \in Plans
  /\ q.action = r.action /\ q.path = r.path /\ q.from = r.from
  /\ q.original = r.original /\ q.content = r.content

LEMMA InoIsSet ==
  ASSUME FileTypes, NEW n \in 1 .. Len(plans), NEW x \in F!Inodes \cup {None},
         plans' = [plans EXCEPT ![n].ino = x]
  PROVE  /\ plans' \in Seq(Plans) /\ Len(plans') = Len(plans)
         /\ \A i \in 1 .. Len(plans) : SamePlan(plans'[i], plans[i])
         /\ \A i \in 1 .. Len(plans) : i # n => plans'[i] = plans[i]
         /\ plans'[n].ino = x
<1>1. PICK q : q = [plans[n] EXCEPT !.ino = x]
  OBVIOUS
<1>2. plans \in Seq(Plans) /\ DOMAIN plans = 1 .. Len(plans) /\ plans[n] \in Plans
  BY DEF FileTypes
<1>3. SamePlan(q, plans[n]) /\ q.ino = x
  BY <1>1, <1>2 DEF Plans, SamePlan
<1>4. plans' = [plans EXCEPT ![n] = q]
  BY <1>1
<1>5. plans' \in Seq(Plans) /\ Len(plans') = Len(plans) /\ plans'[n] = q
      /\ \A i \in 1 .. Len(plans) : i # n => plans'[i] = plans[i]
  <2>1. q \in Plans
    BY <1>3 DEF SamePlan
  <2> QED
    BY <1>2, <1>4, <2>1
<1>6. ASSUME NEW i \in 1 .. Len(plans), i # n
      PROVE  SamePlan(plans'[i], plans[i])
  BY <1>2, <1>5, <1>6 DEF SamePlan
<1> QED
  BY <1>3, <1>5, <1>6

(* The call moves on without a change to a file.                             *)
LEMMA Proceeds ==
  ASSUME FileInv, phase \in Forward \cup Undoing, phase' \in Forward \cup Undoing,
         UNCHANGED <<files, edits, call, calls, started, known, edited>>, raced' \subseteq raced,
         plans' \in Seq(Plans), Len(plans') = Len(plans),
         \A i \in 1 .. Len(plans) : SamePlan(plans'[i], plans[i]),
         Places', Compared', Applied' <= Applied, Carried' = Carried,
         phase' \in Forward => phase \in Forward /\ Applied' = Applied,
         \A i \in 1 .. Len(plans) : i <= Carried /\ Learnt(plans[i]) => Learnt(plans'[i]),
         \A i \in 1 .. Len(plans) : MayDiffer(i) => MayDiffer(i)'
  PROVE  FileInv'
<1>1. FileTypes /\ Carrying
  BY DEF FileInv
<1>2. FileTypes'
  BY <1>1 DEF FileTypes, Forward, Undoing
<1>3. \A i \in 1 .. Len(plans) : F!Touches(plans'[i]) = F!Touches(plans[i])
  BY DEF SamePlan, F!Touches
<1>4. Apart(plans')
  BY <1>1, <1>3 DEF Carrying, Apart
<1>5. FilesTell'
  BY <1>1, <1>3 DEF Carrying, FilesTell
<1>6. \A i \in 1 .. Len(plans) : Grounded(started, plans'[i]) /\ Paired(plans'[i])
  BY <1>1 DEF Carrying, Grounded, Paired, SamePlan
<1>7. \A i \in 1 .. Len(plans) : i <= Applied' => Left(plans'[i])
  <2>1. ASSUME NEW i \in 1 .. Len(plans), i <= Applied'
        PROVE  Left(plans'[i])
    <3>1. i <= Applied
      <4>1. Applied \in Int /\ Applied' \in Int
        BY <1>1 DEF Carrying, Places, Applied, Forward, Undoing, FileTypes
      <4> QED
        BY <2>1, <4>1
    <3>2. Left(plans[i])
      BY <1>1, <3>1 DEF Carrying
    <3> QED
      BY <3>2 DEF Left, SamePlan
  <2> QED
    BY <2>1
<1>8. \A i \in 1 .. Len(plans) : i <= Carried => Learnt(plans'[i])
  BY <1>1 DEF Carrying
<1>9. phase' \in Forward =>
        \A i \in 1 .. Len(plans) : i > Applied =>
          \A x \in F!Touches(plans'[i]) : known[x] = started[x]
  BY <1>1, <1>3 DEF Carrying
<1>10. \A i \in 1 .. Len(plans') :
         /\ Grounded(started', plans'[i]) /\ Paired(plans[i])'
         /\ (i <= Applied' => Left(plans[i])') /\ (i <= Carried' => Learnt(plans[i])')
  BY <1>6, <1>7, <1>8 DEF Paired, Left, Learnt
<1>11. Carrying'
  BY <1>4, <1>5, <1>9, <1>10 DEF Carrying
<1> QED
  BY <1>2, <1>11 DEF FileInv, Forward, Undoing

LEMMA CheckHolds ==
  ASSUME FileInv, F!Check
  PROVE  FileInv'
<1>1. phase = "checks" /\ UNCHANGED <<files, edits, call, calls, started, known, edited, raced>>
  BY DEF F!Check, F!history
<1>2. FileTypes /\ Carrying
  BY <1>1 DEF FileInv, Forward
<1>3. CASE F!Fails(FALSE)
  BY <1>1, <1>2, <1>3, FailsHolds DEF FileTypes
<1>4. CASE F!Goes("compares")
  <2>1. phase' = "compares" /\ UNCHANGED <<plans, next, written, undo, uncertain, failed>>
    BY <1>4 DEF F!Goes, F!progress
  <2>2. \A i \in 1 .. Len(plans) : SamePlan(plans'[i], plans[i])
    BY <1>2, <2>1 DEF FileTypes, SamePlan
  <2>3. Places' /\ Compared' /\ Applied' = Applied /\ Carried' = Carried
    BY <1>1, <1>2, <2>1 DEF Carrying, Places, Compared, Applied, Carried, Forward, Undoing
  <2>4. \A i \in 1 .. Len(plans) : MayDiffer(i) => MayDiffer(i)'
    BY <1>1, <2>1, <2>3 DEF MayDiffer, Undoing
  <2>5. Applied \in Int
    BY <1>1, <1>2 DEF Carrying, Places, Applied, Undoing, FileTypes
  <2> QED
    BY <1>1, <1>2, <2>1, <2>2, <2>3, <2>4, <2>5, Proceeds DEF FileTypes, Forward, Undoing
<1> QED
  BY <1>3, <1>4 DEF F!Check

LEMMA CompareHolds ==
  ASSUME FileInv, F!Compare
  PROVE  FileInv'
<1>1. phase = "compares" /\ raced' = {}
      /\ UNCHANGED <<files, edits, call, calls, started, known, edited>>
  BY DEF F!Compare
<1>2. FileTypes /\ Carrying /\ next \in 1 .. Len(plans)
  BY <1>1 DEF FileInv, Forward, Carrying, Places
<1>3. CASE F!Fails(FALSE)
  BY <1>1, <1>2, <1>3, FailsHolds DEF FileTypes
<1>4. CASE ~F!Fails(FALSE)
  <2>1. PICK q : q = plans[next]
    OBVIOUS
  <2>2. PICK x : x = IF q.action = "create" THEN <<"call", None, calls, next>>
                     ELSE files[F!Sources(q)].ino
    OBVIOUS
  <2>3. /\ q.action # "create" => F!Holds(F!Sources(q), q.original, None)
        /\ phase' = "mutates" /\ plans' = [plans EXCEPT ![next].ino = x]
        /\ UNCHANGED <<next, written, undo, uncertain, failed>>
    BY <1>4, <2>1, <2>2 DEF F!Compare, F!progress, F!plan
  <2>4. F!Sources(q) \in Paths
    BY <1>2, <2>1, Touched DEF Carrying
  <2>5. q.action # "create" => /\ files[F!Sources(q)] # None
                               /\ files[F!Sources(q)].content = q.original
                               /\ files[F!Sources(q)].ino = x /\ x \in F!Inodes
    <3>1. files[F!Sources(q)] \in Held
      BY <1>2, <2>4 DEF FileTypes
    <3> QED
      BY <2>2, <2>3, <3>1 DEF F!Holds, Held, F!Stored
  <2>6. x \in F!Inodes
    <3>1. next \in Nat /\ calls \in Nat
      BY <1>2 DEF FileTypes
    <3>2. q.action = "create" => x \in F!Inodes
      BY <2>2, <3>1 DEF F!Inodes
    <3> QED
      BY <2>5, <3>2
  <2>7. /\ plans' \in Seq(Plans) /\ Len(plans') = Len(plans)
        /\ (\A i \in 1 .. Len(plans) : SamePlan(plans'[i], plans[i]))
        /\ (\A i \in 1 .. Len(plans) : i # next => plans'[i] = plans[i])
        /\ plans'[next].ino = x
    BY <1>2, <2>3, <2>6, InoIsSet
  <2>8. Places' /\ Applied' = Applied /\ Carried' = Carried /\ Applied = next - 1 /\ Carried = next - 1
    <3>1. SamePlan(plans'[1], plans[1])
      BY <1>2, <2>7 DEF FileTypes
    <3> QED
      BY <1>1, <1>2, <2>3, <2>7, <3>1
         DEF Carrying, Places, Applied, Carried, Forward, Undoing, SamePlan
  <2>9. Compared'
    <3>1. F!Sources(plans'[next]) = F!Sources(q) /\ plans'[next].action = q.action
          /\ plans'[next].original = q.original
      BY <1>2, <2>1, <2>7 DEF SamePlan, F!Sources
    <3> QED
      BY <1>1, <2>3, <2>5, <2>6, <2>7, <3>1 DEF Compared
  <2>10. \A i \in 1 .. Len(plans) : MayDiffer(i) => MayDiffer(i)'
    BY <1>1, <2>3, <2>8 DEF MayDiffer, Undoing
  <2>11. \A i \in 1 .. Len(plans) : i <= Carried /\ Learnt(plans[i]) => Learnt(plans'[i])
    BY <1>2, <2>7, <2>8 DEF FileTypes
  <2> QED
    BY <1>1, <1>2, <2>3, <2>7, <2>8, <2>9, <2>10, <2>11, Proceeds DEF FileTypes, Forward, Undoing
<1> QED
  BY <1>3, <1>4

(* What the helper does to the files, in whole or in part, and where.        *)
LEMMA WriteStays ==
  ASSUME files \in [Paths -> Held], NEW x \in Paths, NEW y \in F!Contents, NEW ino,
         F!Writes(x, y, ino)
  PROVE  /\ files' \in [Paths -> Held]
         /\ \A z \in Paths : z # x => files'[z] = files[z]
         /\ files[x] # None /\ files[x].ino = ino => files'[x] = [content |-> y, ino |-> ino]
         /\ ~(files[x] # None /\ files[x].ino = ino) => files' = files
<1>1. CASE files[x] # None /\ files[x].ino = ino
  <2>1. files[x] \in F!Stored
    BY <1>1 DEF Held
  <2>2. PICK f : f = [files[x] EXCEPT !.content = y]
    OBVIOUS
  <2>3. f = [content |-> y, ino |-> ino] /\ f \in Held
    BY <1>1, <2>1, <2>2 DEF F!Stored, Held
  <2>4. files' = [files EXCEPT ![x] = f]
    BY <1>1, <2>2 DEF F!Writes
  <2> QED
    BY <1>1, <2>3, <2>4
<1>2. CASE ~(files[x] # None /\ files[x].ino = ino)
  BY <1>2 DEF F!Writes
<1> QED
  BY <1>1, <1>2

LEMMA StaysLocal ==
  ASSUME files \in [Paths -> Held], NEW q \in Plans, F!Sources(q) \in Paths, q.ino \in F!Inodes,
         F!Breaks(q)
  PROVE  /\ files' \in [Paths -> Held]
         /\ \A z \in Paths : z \notin {q.path, F!Sources(q)} => files'[z] = files[z]
<1>1. q.path \in Paths /\ q.content \in F!Contents /\ "part" \in F!Contents
      /\ q.action \in {"update", "create", "move"}
  BY DEF Plans, F!Contents
<1>2. CASE q.action = "update"
  <2>1. \E y \in F!Contents : F!Writes(q.path, y, q.ino)
    BY <1>1, <1>2 DEF F!Breaks, F!Succeeds
  <2> QED
    BY <1>1, <2>1, WriteStays
<1>3. CASE q.action = "create"
  <2>1. PICK y \in F!Contents : F!Creates(q.path, y, q.ino)
    BY <1>1, <1>3 DEF F!Breaks, F!Succeeds
  <2>2. PICK f : f = [content |-> y, ino |-> q.ino]
    OBVIOUS
  <2>3. f \in Held
    BY <2>2 DEF Held, F!Stored
  <2>4. files' = [files EXCEPT ![q.path] = f]
    BY <2>1, <2>2 DEF F!Creates
  <2> QED
    BY <1>1, <2>3, <2>4
<1>4. CASE q.action = "move"
  <2>1. F!Sources(q) = q.from /\ q.from \in Paths
    BY <1>4 DEF F!Sources
  <2>2. F!Renames(q.from, q.path) \/ F!Links(q.from, q.path)
    BY <1>4 DEF F!Breaks, F!Succeeds
  <2>3. PICK f : f = files[q.from]
    OBVIOUS
  <2>4. f \in Held /\ None \in Held
    BY <2>1, <2>3 DEF Held
  <2>5. \/ files' = [files EXCEPT ![q.from] = None, ![q.path] = f]
        \/ files' = [files EXCEPT ![q.path] = f]
    BY <2>2, <2>3 DEF F!Renames, F!Links
  <2> QED
    BY <1>1, <2>1, <2>4, <2>5
<1> QED
  BY <1>1, <1>2, <1>3, <1>4

(* A change that the helper made as it was planned.                          *)
LEMMA SucceedHolds ==
  ASSUME FileInv, phase = "mutates", F!Succeeds(plans[next]),
         known' = [F!Learns(plans[next].path, plans[next].content, plans[next].ino) EXCEPT
                     ![F!Sources(plans[next])] = IF plans[next].action = "move" THEN None ELSE @],
         F!Goes("settles"),
         UNCHANGED <<edits, call, calls, started, edited, raced>>
  PROVE  FileInv'
<1>1. FileTypes /\ Carrying /\ phase \in Forward /\ phase \notin Undoing
  BY DEF FileInv, Forward, Undoing
<1>2. phase' = "settles" /\ UNCHANGED <<plans, next, written, undo, uncertain, failed, report>>
  BY DEF F!Goes, F!progress
<1>3. PICK q : q = plans[next]
  OBVIOUS
<1>4. PICK n : n = next
  OBVIOUS
<1>5. /\ n \in 1 .. Len(plans) /\ Len(plans) \in Nat /\ Applied = n - 1 /\ Carried = n - 1
      /\ \A i \in 1 .. Len(plans) : MayDiffer(i) <=> i <= n - 1
  BY <1>1, <1>4 DEF Carrying, Places, Applied, Carried, Forward, Undoing, MayDiffer, FileTypes
<1>6. /\ q \in Plans /\ q.path \in Paths /\ F!Sources(q) \in Paths
      /\ F!Touches(q) = {q.path, F!Sources(q)}
      /\ (q.action = "move" => F!Sources(q) = q.from)
      /\ (q.action # "move" => F!Sources(q) = q.path)
      /\ \A j \in 1 .. Len(plans) : n # j => \A x \in F!Touches(q) : x \notin F!Touches(plans[j])
  BY <1>1, <1>3, <1>4, <1>5, Touched DEF Carrying
<1>7. /\ Grounded(started, q) /\ Paired(q) /\ q.ino \in F!Inodes /\ None \notin F!Inodes
      /\ (q.action # "create" /\ F!Sources(q) \notin raced =>
             files[F!Sources(q)].content = q.original /\ files[F!Sources(q)].ino = q.ino)
  BY <1>1, <1>3, <1>4, <1>5, FileAssumption DEF Carrying, Compared
<1>8. /\ files' \in [Paths -> Held]
      /\ \A z \in Paths : z \notin F!Touches(q) => files'[z] = files[z]
  BY <1>1, <1>3, <1>6, <1>7, StaysLocal DEF FileTypes, F!Breaks
<1>9. q.action = "move" => F!Renames(q.from, q.path) /\ q.from # q.path
  BY <1>3 DEF F!Succeeds, F!Renames
<1>10. /\ known' \in [Paths -> Held]
       /\ \A z \in Paths : z \notin F!Touches(q) => known'[z] = known[z]
       /\ known'[q.path] = [content |-> q.content, ino |-> q.ino]
       /\ (q.action = "move" => known'[q.from] = None)
  <2>1. PICK f : f = [content |-> q.content, ino |-> q.ino]
    OBVIOUS
  <2>2. f \in Held /\ None \in Held
    BY <1>6, <1>7, <2>1 DEF Held, F!Stored, Plans
  <2>3. known' = [[known EXCEPT ![q.path] = f] EXCEPT
                    ![F!Sources(q)] = IF q.action = "move" THEN None ELSE @]
    BY <1>3, <2>1 DEF F!Learns
  <2>4. known \in [Paths -> Held]
    BY <1>1 DEF FileTypes
  <2>5. CASE q.action = "move"
    <3>1. known' = [[known EXCEPT ![q.path] = f] EXCEPT ![q.from] = None]
      BY <1>6, <2>3, <2>5
    <3>2. q.path \in Paths /\ q.from \in Paths /\ q.path # q.from /\ F!Touches(q) = {q.path, q.from}
      BY <1>6, <1>9, <2>5
    <3>3. known' = [z \in Paths |-> IF z = q.from THEN None ELSE IF z = q.path THEN f ELSE known[z]]
      BY <2>4, <3>1, <3>2
    <3>4. known' \in [Paths -> Held]
      <4>1. \A z \in Paths :
              (IF z = q.from THEN None ELSE IF z = q.path THEN f ELSE known[z]) \in Held
        BY <2>2, <2>4
      <4> QED
        BY <3>3, <4>1
    <3> QED
      BY <2>1, <3>2, <3>3, <3>4
  <2>6. CASE q.action # "move"
    <3>1. known' = [known EXCEPT ![q.path] = f]
      BY <1>6, <2>3, <2>4, <2>6
    <3> QED
      BY ZenonT(30), <1>6, <2>1, <2>2, <2>4, <2>6, <3>1
  <2> QED
    BY <2>5, <2>6
<1>11. \A x \in F!Touches(q) \ edited : files[x] = started[x]
  <2>1. ASSUME NEW x \in F!Touches(q), x \notin edited
        PROVE  files[x] = started[x]
    <3>1. x \in Paths
      BY <1>6
    <3>2. files[x] = started[x] \/ \E i \in 1 .. Len(plans) : i <= n - 1 /\ x \in F!Touches(plans[i])
      BY <1>1, <1>5, <2>1, <3>1 DEF Carrying, FilesTell
    <3> QED
      BY <1>5, <1>6, <3>2
  <2> QED
    BY <2>1
<1>12. FileTypes'
  BY <1>1, <1>2, <1>8, <1>10 DEF FileTypes, Forward
<1>13. Applied' = n /\ Carried' = n
  BY <1>2, <1>4 DEF Applied, Carried, Undoing
<1>14. Places' /\ Compared'
  BY <1>1, <1>2 DEF Carrying, Places, Compared, Forward, Undoing
<1>15. FilesTell'
  <2>1. ASSUME NEW x \in Paths \ edited
        PROVE  files'[x] = started[x] \/ \E i \in 1 .. Len(plans) : i <= n /\ x \in F!Touches(plans[i])
    <3>1. CASE x \in F!Touches(q)
      BY <1>3, <1>4, <1>5, <3>1
    <3>2. CASE x \notin F!Touches(q)
      <4>1. files'[x] = files[x]
        BY <1>8, <3>2
      <4>2. files[x] = started[x] \/ \E i \in 1 .. Len(plans) : i <= n - 1 /\ x \in F!Touches(plans[i])
        BY <1>1, <1>5 DEF Carrying, FilesTell
      <4> QED
        BY <1>5, <4>1, <4>2
    <3> QED
      BY <3>1, <3>2
  <2>2. \A i \in 1 .. Len(plans) : i <= n => MayDiffer(i)'
    BY <1>13 DEF MayDiffer
  <2> QED
    BY <1>2, <2>1, <2>2 DEF FilesTell
<1>16. Left(q)'
  <2>1. CASE q.action = "update"
    <3>1. ASSUME q.path \notin edited
          PROVE  files'[q.path] = [content |-> q.content, ino |-> started[q.path].ino]
      <4>1. files[q.path] # None /\ files[q.path].ino = q.ino /\ files[q.path] = started[q.path]
        <5>1. q.path \notin raced
          BY <1>1, <3>1 DEF FileTypes
        <5> QED
          BY <1>6, <1>7, <1>11, <2>1, <3>1, <5>1 DEF Grounded
      <4>2. F!Writes(q.path, q.content, q.ino)
        BY <1>3, <2>1 DEF F!Succeeds
      <4>3. q.content \in F!Contents
        BY <1>6 DEF Plans
      <4>4. files'[q.path] = [content |-> q.content, ino |-> q.ino]
        BY <1>1, <1>6, <4>1, <4>2, <4>3, WriteStays DEF FileTypes
      <4> QED
        BY <4>1, <4>4
    <3> QED
      BY <1>2, <2>1, <3>1 DEF Left
  <2>2. CASE q.action = "create"
    <3>1. files[q.path] = None
      BY <1>3, <2>2 DEF F!Succeeds, F!Creates
    <3>2. q.path \notin edited => started[q.path] = None
      BY <1>6, <1>11, <3>1
    <3> QED
      BY <1>2, <2>2, <3>2 DEF Left
  <2>3. CASE q.action = "move"
    <3>1. files[q.path] = None /\ files' = [files EXCEPT ![q.from] = None, ![q.path] = files[q.from]]
      BY <1>9, <2>3 DEF F!Renames
    <3>2. files'[q.from] = None /\ files'[q.path] = files[q.from]
      BY <1>1, <1>6, <1>9, <2>3, <3>1 DEF FileTypes
    <3>3. q.path \notin edited => started[q.path] = None /\ files[q.from] = started[q.from]
      BY <1>6, <1>7, <1>11, <2>3, <3>1 DEF Paired
    <3> QED
      BY <1>2, <2>3, <3>2, <3>3 DEF Left
  <2> QED
    BY <1>6, <2>1, <2>2, <2>3 DEF Plans
<1>17. known'[q.path] # None /\ known'[q.path].content = q.content /\ known'[q.path].ino = q.ino
       /\ q.ino # None
  <2>1. [content |-> q.content, ino |-> q.ino] \in F!Stored
    BY <1>6, <1>7 DEF Plans, F!Stored
  <2>2. [content |-> q.content, ino |-> q.ino] # None
    BY <2>1, FileAssumption
  <2> QED
    BY <1>7, <1>10, <2>2
<1>18. ASSUME NEW i \in 1 .. Len(plans), i < n
       PROVE  Left(plans[i])' /\ Learnt(plans[i])'
  <2>1. PICK r : r = plans[i]
    OBVIOUS
  <2>2. Left(r) /\ Learnt(r) /\ Grounded(started, r)
    BY <1>1, <1>5, <1>18, <2>1 DEF Carrying
  <2>3. /\ r.path \in Paths /\ r.path \notin F!Touches(q)
        /\ (r.action = "move" => r.from \in Paths /\ r.from \notin F!Touches(q))
    <3>1. /\ r.path \in Paths /\ r.path \in F!Touches(r)
          /\ (r.action = "move" => r.from \in Paths /\ r.from \in F!Touches(r))
      BY <1>1, <2>1, <2>2, Touched DEF Grounded
    <3> QED
      BY <1>5, <1>6, <1>18, <2>1, <3>1
  <2>4. /\ files'[r.path] = files[r.path] /\ known'[r.path] = known[r.path]
        /\ (r.action = "move" => files'[r.from] = files[r.from])
    BY <1>8, <1>10, <2>3
  <2> QED
    BY <1>2, <2>1, <2>2, <2>4 DEF Left, Learnt
<1>19. ASSUME NEW i \in 1 .. Len(plans), i > n
       PROVE  \A x \in F!Touches(plans[i]) : known'[x] = started[x]
  <2>1. \A x \in F!Touches(plans[i]) : known[x] = started[x]
    BY <1>1, <1>5, <1>19 DEF Carrying
  <2>2. \A x \in F!Touches(plans[i]) : x \in Paths /\ x \notin F!Touches(q)
    <3>1. Grounded(started, plans[i])
      BY <1>1 DEF Carrying
    <3>2. \A x \in F!Touches(plans[i]) : x \in Paths
      <4>1. F!Touches(plans[i]) = {plans[i].path, F!Sources(plans[i])}
            /\ plans[i].path \in Paths /\ F!Sources(plans[i]) \in Paths
        BY <1>1, <1>19, <3>1, Touched
      <4> QED
        BY <4>1
    <3>3. i # n
      BY <1>5, <1>19
    <3>4. \A x \in F!Touches(q) : x \notin F!Touches(plans[i])
      BY <1>6, <3>3
    <3> QED
      BY <3>2, <3>4
  <2>3. ASSUME NEW x \in F!Touches(plans[i])
        PROVE  known'[x] = known[x]
    <3>1. x \in Paths /\ x \notin F!Touches(q)
      BY <2>2
    <3>2. \A z \in Paths : z \notin F!Touches(q) => known'[z] = known[z]
      BY <1>10
    <3> QED
      BY <3>1, <3>2
  <2> QED
    BY <2>1, <2>3
<1>20. \A i \in 1 .. Len(plans) : Grounded(started, plans[i]) /\ Paired(plans[i])'
  BY <1>1, <1>2 DEF Carrying, Paired
<1>21. \A i \in 1 .. Len(plans) : i <= n => Left(plans[i])' /\ Learnt(plans[i])'
  <2>1. ASSUME NEW i \in 1 .. Len(plans), i <= n
        PROVE  Left(plans[i])' /\ Learnt(plans[i])'
    <3>1. CASE i = n
      <4>1. plans[i] = q /\ plans' = plans
        BY <1>2, <1>3, <1>4, <3>1
      <4> QED
        BY <1>16, <1>17, <4>1 DEF Left, Learnt
    <3>2. CASE i < n
      BY <1>18, <3>2
    <3> QED
      BY <1>5, <2>1, <3>1, <3>2
  <2> QED
    BY <2>1
<1>22. /\ \A i \in 1 .. Len(plans') : Grounded(started', plans'[i]) /\ Paired(plans[i])'
       /\ \A i \in 1 .. Len(plans') : i <= Applied' => Left(plans[i])'
       /\ \A i \in 1 .. Len(plans') : i <= Carried' => Learnt(plans[i])'
  BY <1>2, <1>13, <1>20, <1>21 DEF Left, Learnt, Paired
<1>23. \A i \in 1 .. Len(plans') : i > Applied' => \A x \in F!Touches(plans'[i]) : known'[x] = started'[x]
  BY <1>2, <1>13, <1>19
<1>24. Apart(plans')
  BY <1>1, <1>2 DEF Carrying
<1>25. Carrying'
  BY <1>14, <1>15, <1>22, <1>23, <1>24 DEF Carrying
<1> QED
  BY <1>2, <1>12, <1>25 DEF FileInv, Forward, Undoing

LEMMA MutateHolds ==
  ASSUME FileInv, F!Mutate
  PROVE  FileInv'
<1>1. phase = "mutates" /\ UNCHANGED <<edits, call, calls, started, edited, raced>>
  BY DEF F!Mutate
<1>2. FileTypes /\ Carrying /\ next \in 1 .. Len(plans)
  BY <1>1 DEF FileInv, Forward, Carrying, Places
<1>3. PICK q : q = plans[next]
  OBVIOUS
<1>4. CASE \E unsure \in BOOLEAN : F!Fails(unsure) /\ UNCHANGED <<files, known>>
  <2>1. PICK unsure \in BOOLEAN : F!Fails(unsure) /\ UNCHANGED <<files, known>>
    BY <1>4
  <2> QED
    BY <1>1, <1>2, <2>1, FailsHolds DEF FileTypes
<1>5. CASE F!Breaks(q) /\ F!Fails(TRUE) /\ UNCHANGED known
  <2>1. /\ q \in Plans /\ F!Sources(q) \in Paths /\ q.ino \in F!Inodes
        /\ F!Touches(q) = {q.path, F!Sources(q)}
    BY <1>1, <1>2, <1>3, Touched DEF Carrying, Compared
  <2>2. /\ files' \in [Paths -> Held]
        /\ \A x \in Paths : files'[x] = files[x] \/ x \in F!Touches(q)
    BY <1>2, <1>5, <2>1, StaysLocal DEF FileTypes
  <2> QED
    BY <1>1, <1>2, <1>3, <1>5, <2>2, FailsHolds
<1>6. CASE /\ F!Succeeds(q) /\ F!Goes("settles")
           /\ known' = [F!Learns(q.path, q.content, q.ino) EXCEPT
                          ![F!Sources(q)] = IF q.action = "move" THEN None ELSE @]
  BY <1>1, <1>3, <1>6, SucceedHolds
<1> QED
  BY <1>1, <1>3, <1>4, <1>5, <1>6 DEF F!Mutate, F!plan

(* The call returns and names what it changed.                               *)
LEMMA SettleHolds ==
  ASSUME FileInv, F!Settle
  PROVE  FileInv'
<1>1. /\ phase = "settles" /\ written' = next
      /\ UNCHANGED <<files, edits, call, calls, plans, uncertain, failed, started, known, edited, raced>>
  BY DEF F!Settle, F!history
<1>2. FileTypes /\ Carrying /\ next \in 1 .. Len(plans) /\ Len(plans) \in Nat /\ ~failed /\ ~uncertain
      /\ Applied = next /\ Carried = next
  BY <1>1 DEF FileInv, Forward, Carrying, Places, FileTypes, Applied, Carried, Undoing
<1>3. \A i \in 1 .. Len(plans) : SamePlan(plans'[i], plans[i])
  BY <1>1, <1>2 DEF FileTypes, SamePlan
<1>4. CASE call.tool = "set" /\ aborted /\ phase' = "undoes" /\ undo' = written' /\ UNCHANGED next
  <2>1. Applied' = next /\ Carried' = next
    BY <1>1, <1>4 DEF Applied, Carried, Undoing
  <2>2. Places' /\ Compared'
    BY <1>1, <1>2, <1>4 DEF Places, Compared, Forward, Undoing
  <2>3. \A i \in 1 .. Len(plans) : MayDiffer(i) => MayDiffer(i)'
    BY <1>1, <1>2, <2>1 DEF MayDiffer, Undoing
  <2> QED
    BY <1>1, <1>2, <1>3, <1>4, <2>1, <2>2, <2>3, Proceeds DEF FileTypes, Forward, Undoing
<1>5. CASE next = Len(plans) /\ F!Return("ok", F!Named(plans))
  <2>1. phase' = "idle" /\ report' = F!Named(plans)
    BY <1>5 DEF F!Return
  <2>2. FileTypes'
    BY <1>1, <1>2, <2>1 DEF FileTypes
  <2>3. ASSUME NEW x \in Paths \ (edited \cup report')
        PROVE  files[x] = started[x]
    <3>1. files[x] = started[x] \/ \E i \in 1 .. Len(plans) : x \in F!Touches(plans[i])
      BY <1>2 DEF Carrying, FilesTell
    <3>2. \A i \in 1 .. Len(plans) : x \notin F!Touches(plans[i])
      <4>1. DOMAIN plans = 1 .. Len(plans)
        BY <1>2 DEF FileTypes
      <4> QED
        BY <2>1, <2>3, <4>1 DEF F!Named
    <3> QED
      BY <3>1, <3>2
  <2> QED
    BY <1>1, <2>1, <2>2, <2>3, Idles
<1>6. CASE next # Len(plans) /\ phase' = "checks" /\ next' = next + 1 /\ UNCHANGED undo
  <2>1. Applied' = next /\ Carried' = next
    BY <1>2, <1>6 DEF Applied, Carried, Undoing
  <2>2. Places' /\ Compared'
    BY <1>1, <1>2, <1>6 DEF Carrying, Places, Compared, Forward, Undoing
  <2>3. \A i \in 1 .. Len(plans) : MayDiffer(i) => MayDiffer(i)'
    BY <1>1, <1>2, <2>1 DEF MayDiffer, Undoing
  <2> QED
    BY <1>1, <1>2, <1>3, <1>6, <2>1, <2>2, <2>3, Proceeds DEF FileTypes, Forward, Undoing
<1>7. \/ call.tool = "set" /\ aborted /\ phase' = "undoes" /\ undo' = written' /\ UNCHANGED next
      \/ next = Len(plans) /\ F!Return("ok", F!Named(plans))
      \/ next # Len(plans) /\ phase' = "checks" /\ next' = next + 1 /\ UNCHANGED undo
  <2>1. CASE call.tool = "set" /\ aborted
    BY <2>1 DEF F!Settle
  <2>2. CASE ~(call.tool = "set" /\ aborted) /\ next = Len(plans)
    BY <2>2 DEF F!Settle
  <2>3. CASE ~(call.tool = "set" /\ aborted) /\ next # Len(plans)
    BY <2>3 DEF F!Settle
  <2> QED
    BY <2>1, <2>2, <2>3
<1> QED
  BY <1>4, <1>5, <1>6, <1>7

(* What was written is compared before it is taken back.                     *)
LEMMA UndoCompareHolds ==
  ASSUME FileInv, F!UndoCompare
  PROVE  FileInv'
<1>1. /\ phase = "undoes" /\ undo > 0 /\ raced' = {} /\ phase \in Undoing /\ phase \notin Forward
      /\ UNCHANGED <<files, edits, call, calls, next, written, uncertain, started, known, edited>>
  BY DEF F!UndoCompare, Undoing, Forward
<1>2. /\ FileTypes /\ Carrying /\ Places /\ undo \in 1 .. Len(plans) /\ Len(plans) \in Nat
      /\ undo <= written /\ written \in 0 .. Len(plans)
      /\ Applied = undo /\ Carried = written
  <2>1. FileTypes /\ Carrying
    BY <1>1 DEF FileInv
  <2>2. Places /\ Len(plans) \in Nat
    BY <2>1 DEF Carrying, FileTypes
  <2>3. written \in 0 .. Len(plans) /\ undo \in 0 .. written
    BY <1>1, <2>2 DEF Places
  <2> QED
    BY <1>1, <2>1, <2>2, <2>3 DEF Applied, Carried, Undoing
<1>3. PICK q : q = plans[undo]
  OBVIOUS
<1>4. CASE /\ F!UndoHolds(q) /\ phase' = "restores" /\ UNCHANGED <<undo, failed>>
           /\ plans' = [plans EXCEPT ![undo].ino = files[q.path].ino]
  <2>1. PICK x : x = files[q.path].ino
    OBVIOUS
  <2>2. q \in Plans /\ q.path \in Paths
    BY <1>2, <1>3, Touched DEF Carrying
  <2>3. /\ files[q.path] # None /\ files[q.path].content = q.content
        /\ (q.action # "update" => q.ino \in {None, x})
    BY <1>4, <2>1 DEF F!UndoHolds, F!Holds
  <2>4. x \in F!Inodes
    <3>1. files[q.path] \in Held
      BY <1>2, <2>2 DEF FileTypes
    <3> QED
      BY <2>1, <2>3, <3>1 DEF Held, F!Stored
  <2>5. /\ plans' \in Seq(Plans) /\ Len(plans') = Len(plans)
        /\ (\A i \in 1 .. Len(plans) : SamePlan(plans'[i], plans[i]))
        /\ (\A i \in 1 .. Len(plans) : i # undo => plans'[i] = plans[i])
        /\ plans'[undo].ino = x
    BY <1>2, <1>4, <2>1, <2>4, InoIsSet
  <2>6. SamePlan(plans'[undo], q)
    BY <1>2, <1>3, <2>5
  <2>7. Places' /\ Applied' = undo /\ Carried' = written
    <3>1. call.tool = "set"
      BY <1>1, <1>2 DEF Places
    <3> QED
      BY <1>1, <1>2, <1>4, <2>5, <3>1 DEF Places, Applied, Carried, Forward, Undoing
  <2>8. Compared'
    BY <1>1, <1>4, <2>1, <2>3, <2>5, <2>6 DEF Compared, SamePlan
  <2>9. \A i \in 1 .. Len(plans) : i <= Carried /\ Learnt(plans[i]) => Learnt(plans'[i])
    <3>1. ASSUME Learnt(q)
          PROVE  Learnt(plans'[undo])
      <4>1. q.action # "update" => q.ino = x /\ x # None
        BY <2>3, <2>4, <3>1 DEF Learnt
      <4> QED
        BY <2>5, <2>6, <3>1, <4>1 DEF Learnt, SamePlan
    <3> QED
      BY <1>3, <2>5, <3>1
  <2>10. \A i \in 1 .. Len(plans) : MayDiffer(i) => MayDiffer(i)'
    BY <1>1, <1>2, <1>4, <2>7 DEF MayDiffer, Undoing
  <2>11. phase' \in Undoing /\ phase' \notin Forward
    BY <1>4 DEF Undoing, Forward
  <2> QED
    BY <1>1, <1>2, <2>5, <2>7, <2>8, <2>9, <2>10, <2>11, Proceeds
<1>5. CASE F!Misses /\ UNCHANGED plans
  <2>1. phase' = "undoes" /\ failed' = TRUE /\ undo' = undo - 1
    BY <1>5 DEF F!Misses
  <2>2. Applied' = undo - 1 /\ Carried' = written
    BY <1>1, <2>1 DEF Applied, Carried, Undoing
  <2>3. Places' /\ Compared'
    BY <1>1, <1>2, <1>5, <2>1 DEF Places, Compared, Forward, Undoing
  <2>4. \A i \in 1 .. Len(plans) : SamePlan(plans'[i], plans[i])
    BY <1>2, <1>5 DEF FileTypes, SamePlan
  <2>5. \A i \in 1 .. Len(plans) : MayDiffer(i) => MayDiffer(i)'
    BY <1>1, <1>2, <2>1, <2>2 DEF MayDiffer, Undoing
  <2>6. phase' \in Undoing /\ phase' \notin Forward /\ plans \in Seq(Plans) /\ undo - 1 <= undo
    BY <1>2, <2>1 DEF Undoing, Forward, FileTypes
  <2> QED
    BY <1>1, <1>2, <1>5, <2>2, <2>3, <2>4, <2>5, <2>6, Proceeds
<1> QED
  BY <1>3, <1>4, <1>5 DEF F!UndoCompare, F!taken

LEMMA RestoreStays ==
  ASSUME files \in [Paths -> Held], NEW q \in Plans, F!Sources(q) \in Paths,
         q.action = "update" => q.original \in F!Contents,
         F!RestoreBreaks(q)
  PROVE  /\ files' \in [Paths -> Held]
         /\ \A z \in Paths : z \notin {q.path, F!Sources(q)} => files'[z] = files[z]
<1>1. q.path \in Paths /\ "part" \in F!Contents /\ q.action \in {"update", "create", "move"}
  BY DEF Plans, F!Contents
<1>2. CASE q.action = "update"
  <2>1. \E y \in F!Contents : F!Writes(q.path, y, q.ino)
    BY <1>1, <1>2 DEF F!RestoreBreaks, F!Restores
  <2> QED
    BY <1>1, <2>1, WriteStays
<1>3. CASE q.action = "create"
  <2>1. files' = files \/ files' = [files EXCEPT ![q.path] = None]
    BY <1>3 DEF F!RestoreBreaks, F!Restores, F!Unlinks
  <2> QED
    BY <1>1, <2>1 DEF Held
<1>4. CASE q.action = "move"
  <2>1. F!Sources(q) = q.from /\ q.from \in Paths
    BY <1>4 DEF F!Sources
  <2>2. F!Renames(q.path, q.from) \/ F!Links(q.path, q.from)
    BY <1>4 DEF F!RestoreBreaks, F!Restores
  <2>3. PICK f : f = files[q.path]
    OBVIOUS
  <2>4. f \in Held /\ None \in Held
    BY <1>1, <2>3 DEF Held
  <2>5. \/ files' = [files EXCEPT ![q.path] = None, ![q.from] = f]
        \/ files' = [files EXCEPT ![q.from] = f]
    BY <2>2, <2>3 DEF F!Renames, F!Links
  <2> QED
    BY <1>1, <2>1, <2>4, <2>5
<1> QED
  BY <1>1, <1>2, <1>3, <1>4

(* A file that is taken back is as it was, if others left it alone.          *)
LEMMA RestoreHolds ==
  ASSUME FileInv, F!Restore
  PROVE  FileInv'
<1>1. /\ phase = "restores" /\ phase' = "undoes" /\ undo' = undo - 1
      /\ UNCHANGED <<edits, call, calls, plans, next, written, uncertain, started, known, edited, raced>>
  BY DEF F!Restore, F!Misses, F!history
<1>2. /\ FileTypes /\ Carrying /\ Places /\ undo \in 1 .. Len(plans) /\ Len(plans) \in Nat
      /\ undo <= written /\ written \in 0 .. Len(plans)
      /\ Applied = undo /\ Carried = written
  <2>1. FileTypes /\ Carrying
    BY <1>1 DEF FileInv, Undoing
  <2>2. Places /\ Len(plans) \in Nat
    BY <2>1 DEF Carrying, FileTypes
  <2>3. written \in 0 .. Len(plans) /\ undo \in 0 .. written /\ undo > 0
    BY <1>1, <2>2 DEF Places, Undoing
  <2> QED
    BY <1>1, <2>1, <2>2, <2>3 DEF Applied, Carried, Undoing
<1>3. PICK q : q = plans[undo]
  OBVIOUS
<1>4. PICK u : u = undo
  OBVIOUS
<1>5. /\ q \in Plans /\ q.path \in Paths /\ F!Sources(q) \in Paths
      /\ F!Touches(q) = {q.path, F!Sources(q)}
      /\ (q.action = "move" => F!Sources(q) = q.from)
      /\ (q.action # "move" => F!Sources(q) = q.path)
      /\ \A j \in 1 .. Len(plans) : u # j => \A x \in F!Touches(q) : x \notin F!Touches(plans[j])
  BY <1>2, <1>3, <1>4, Touched DEF Carrying
<1>6. /\ Grounded(started, q) /\ Paired(q) /\ Left(q)
      /\ (q.path \notin raced => files[q.path] # None /\ files[q.path].ino = q.ino)
  <2>1. undo <= Applied
    BY <1>2
  <2> QED
    BY <1>1, <1>2, <1>3, <2>1 DEF Carrying, Compared
<1>7. (F!Restores(q) /\ failed' = failed) \/ failed'
  BY <1>3 DEF F!Restore, F!Misses, F!taken
<1>8. F!RestoreBreaks(q) \/ UNCHANGED files
  BY <1>3 DEF F!Restore, F!RestoreBreaks, F!taken
<1>9. /\ files' \in [Paths -> Held]
      /\ \A z \in Paths : z \notin F!Touches(q) => files'[z] = files[z]
  <2>1. q.action = "update" => q.original \in F!Contents
    <3>1. started[q.path] \in Held
      BY <1>2, <1>5 DEF FileTypes
    <3> QED
      BY <1>6, <3>1 DEF Grounded, Held, F!Stored
  <2>2. files \in [Paths -> Held]
    BY <1>2 DEF FileTypes
  <2> QED
    BY <1>5, <1>8, <2>1, <2>2, RestoreStays
<1>10. FileTypes'
  BY <1>1, <1>2, <1>9 DEF FileTypes, Undoing
<1>11. Applied' = u - 1 /\ Carried' = written
  BY <1>1, <1>4 DEF Applied, Carried, Undoing
<1>12. Places' /\ Compared'
  <2>1. call.tool = "set"
    BY <1>1, <1>2 DEF Places, Forward
  <2> QED
    BY <1>1, <1>2, <2>1 DEF Places, Compared, Forward, Undoing
<1>13. ASSUME F!Restores(q), NEW x \in F!Touches(q), x \notin edited
       PROVE  files'[x] = started[x]
  <2>1. CASE q.action = "update"
    <3>1. x = q.path /\ x \notin raced
      BY <1>2, <1>5, <1>13, <2>1 DEF FileTypes
    <3>2. /\ files[q.path] # None /\ files[q.path].ino = q.ino
          /\ files[q.path] = [content |-> q.content, ino |-> started[q.path].ino]
      BY <1>6, <1>13, <2>1, <3>1 DEF Left
    <3>3. started[q.path].ino = q.ino /\ started[q.path].content = q.original /\ started[q.path] \in F!Stored
      <4>1. started[q.path] \in Held
        BY <1>2, <1>5 DEF FileTypes
      <4> QED
        BY <1>6, <2>1, <3>2, <4>1 DEF Grounded, Held
    <3>4. started[q.path] = [content |-> q.original, ino |-> q.ino] /\ q.original \in F!Contents
      BY <3>3 DEF F!Stored
    <3>5. F!Writes(q.path, q.original, q.ino)
      BY <1>13, <2>1 DEF F!Restores
    <3>6. files'[q.path] = [content |-> q.original, ino |-> q.ino]
      BY <1>2, <1>5, <3>2, <3>4, <3>5, WriteStays DEF FileTypes
    <3> QED
      BY <3>1, <3>4, <3>6
  <2>2. CASE q.action = "create"
    <3>1. files' = [files EXCEPT ![q.path] = None]
      BY <1>13, <2>2 DEF F!Restores, F!Unlinks
    <3> QED
      BY <1>2, <1>5, <1>6, <1>13, <2>2, <3>1 DEF Left, FileTypes
  <2>3. CASE q.action = "move"
    <3>1. files[q.path] # None /\ files[q.from] = None
          /\ files' = [files EXCEPT ![q.path] = None, ![q.from] = files[q.path]]
      BY <1>13, <2>3 DEF F!Restores, F!Renames
    <3>2. files'[q.path] = None /\ files'[q.from] = files[q.path]
      BY <1>2, <1>5, <2>3, <3>1 DEF FileTypes
    <3>3. started[q.path] = None /\ files[q.path] = started[q.from]
      BY <1>5, <1>6, <1>13, <2>3 DEF Left, Paired
    <3> QED
      BY <1>5, <1>13, <2>3, <3>2, <3>3
  <2> QED
    BY <1>5, <2>1, <2>2, <2>3 DEF Plans
<1>14. FilesTell'
  <2>1. ASSUME NEW x \in Paths \ edited
        PROVE  files'[x] = started[x]
               \/ \E i \in 1 .. Len(plans) : MayDiffer(i)' /\ x \in F!Touches(plans[i])
    <3>1. CASE x \in F!Touches(q)
      <4>1. CASE failed'
        <5>1. MayDiffer(u)'
          BY <1>1, <1>2, <1>4, <4>1 DEF MayDiffer, Undoing
        <5> QED
          BY <1>2, <1>3, <1>4, <3>1, <5>1
      <4>2. CASE F!Restores(q)
        BY <1>13, <2>1, <3>1, <4>2
      <4> QED
        BY <1>7, <4>1, <4>2
    <3>2. CASE x \notin F!Touches(q)
      <4>1. files'[x] = files[x]
        BY <1>9, <3>2
      <4>2. files[x] = started[x]
            \/ \E i \in 1 .. Len(plans) : MayDiffer(i) /\ x \in F!Touches(plans[i])
        BY <1>2 DEF Carrying, FilesTell
      <4>3. ASSUME NEW i \in 1 .. Len(plans), MayDiffer(i), x \in F!Touches(plans[i])
            PROVE  MayDiffer(i)'
        <5>1. i # u
          BY <1>3, <1>4, <3>2, <4>3
        <5>2. failed => failed'
          BY <1>7
        <5> QED
          BY <1>1, <1>2, <1>4, <1>11, <4>3, <5>1, <5>2 DEF MayDiffer, Undoing
      <4> QED
        BY <4>1, <4>2, <4>3
    <3> QED
      BY <3>1, <3>2
  <2> QED
    BY <1>1, <2>1 DEF FilesTell
<1>15. ASSUME NEW i \in 1 .. Len(plans), i <= u - 1
       PROVE  Left(plans[i])'
  <2>1. PICK r : r = plans[i]
    OBVIOUS
  <2>2. Left(r) /\ Grounded(started, r)
    <3>1. i <= Applied
      BY <1>2, <1>4, <1>15
    <3> QED
      BY <1>2, <2>1, <3>1 DEF Carrying
  <2>3. /\ r.path \in Paths /\ r.path \notin F!Touches(q)
        /\ (r.action = "move" => r.from \in Paths /\ r.from \notin F!Touches(q))
    <3>1. /\ r.path \in Paths /\ r.path \in F!Touches(r)
          /\ (r.action = "move" => r.from \in Paths /\ r.from \in F!Touches(r))
      BY <1>2, <2>1, <2>2, Touched DEF Grounded
    <3>2. u # i
      BY <1>2, <1>4, <1>15
    <3> QED
      BY <1>5, <2>1, <3>1, <3>2
  <2>4. /\ files'[r.path] = files[r.path]
        /\ (r.action = "move" => files'[r.from] = files[r.from])
    BY <1>9, <2>3
  <2> QED
    BY <1>1, <2>1, <2>2, <2>4 DEF Left
<1>16. \A i \in 1 .. Len(plans) :
         Grounded(started, plans[i]) /\ Paired(plans[i])' /\ (i <= written => Learnt(plans[i])')
  BY <1>1, <1>2 DEF Carrying, Paired, Learnt
<1>17. Carrying'
  BY <1>1, <1>2, <1>11, <1>12, <1>14, <1>15, <1>16 DEF Carrying, Left, Learnt, Paired, Forward
<1> QED
  BY <1>1, <1>10, <1>17 DEF FileInv, Forward, Undoing

(* What may not be as it was is named.                                       *)
LEMMA RolledBackHolds ==
  ASSUME FileInv, F!RolledBack
  PROVE  FileInv'
<1>1. /\ phase = "undoes" /\ undo = 0 /\ phase' = "idle"
      /\ UNCHANGED <<files, edits, call, calls, plans, next, written, uncertain, failed, started,
                     known, edited, raced>>
  BY DEF F!RolledBack, F!Return, F!progress, F!history
<1>2. FileTypes /\ Carrying /\ Places /\ Applied = 0
  BY <1>1 DEF FileInv, Undoing, Carrying, Applied
<1>3. written \in Nat /\ written <= Len(plans) /\ (uncertain => written < Len(plans)) /\ Len(plans) \in Nat
      /\ plans \in Seq(Plans)
  BY <1>1, <1>2 DEF Places, Undoing, FileTypes
<1>4. FileTypes'
  BY <1>1, <1>2 DEF FileTypes
<1>5. ASSUME NEW x \in Paths \ (edited \cup report')
      PROVE  files[x] = started[x]
  <2>1. SUFFICES ASSUME NEW i \in 1 .. Len(plans), MayDiffer(i), x \in F!Touches(plans[i])
                 PROVE  FALSE
    BY <1>2 DEF Carrying, FilesTell
  <2>2. (failed /\ i <= written) \/ (uncertain /\ i = written + 1)
    BY <1>2, <2>1 DEF MayDiffer
  <2>3. PICK n : n = IF uncertain THEN written + 1 ELSE written
    OBVIOUS
  <2>4. n \in Nat /\ n <= Len(plans) /\ i <= n
    BY <1>3, <2>2, <2>3
  <2>5. PICK list : list = SubSeq(plans, 1, n)
    OBVIOUS
  <2>6. i \in DOMAIN list /\ list[i] = plans[i]
    BY <1>3, <2>4, <2>5
  <2>7. report' = F!Named(list)
    BY <2>2, <2>3, <2>5 DEF F!RolledBack, F!Return, F!Unsure
  <2>8. x \in F!Named(list)
    BY <2>1, <2>6 DEF F!Named
  <2> QED
    BY <1>5, <2>7, <2>8
<1> QED
  BY <1>1, <1>4, <1>5, Idles

(* What others do to a file is told of both files of a move.                 *)
LEMMA EditHolds ==
  ASSUME FileInv, NEW p \in Paths, F!Edit(p)
  PROVE  FileInv'
<1>1. /\ edits' = edits + 1 /\ edited' = edited \cup F!Beside(p) /\ raced' = raced \cup {p}
      /\ UNCHANGED <<call, calls, phase, plans, next, written, undo, uncertain, failed, report,
                     started, known>>
  BY DEF F!Edit, F!progress
<1>2. FileTypes
  BY DEF FileInv
<1>3. files' \in [Paths -> Held] /\ \A x \in Paths : x # p => files'[x] = files[x]
  <2>1. CASE F!Unlinks(p)
    <3>1. files' = [files EXCEPT ![p] = None] /\ None \in Held
      BY <2>1 DEF F!Unlinks, Held
    <3> QED
      BY <1>2, <3>1 DEF FileTypes
  <2>2. CASE ~F!Unlinks(p)
    <3>1. PICK content \in {"old", "new", "edited"}, ino \in {None, <<"edit", None, edits, 0>>} :
            /\ files[p] = None => ino # None
            /\ files' = [files EXCEPT ![p] = [content |-> content,
                           ino |-> IF ino = None THEN files[p].ino ELSE ino]]
      BY <2>2 DEF F!Edit
    <3>2. PICK f : f = [content |-> content, ino |-> IF ino = None THEN files[p].ino ELSE ino]
      OBVIOUS
    <3>3. <<"edit", None, edits, 0>> \in F!Inodes /\ None \notin F!Inodes /\ content \in F!Contents
      BY <1>2, FileAssumption DEF F!Inodes, F!Contents, FileTypes
    <3>4. ino = None => files[p].ino \in F!Inodes
      <4>1. files[p] \in Held
        BY <1>2 DEF FileTypes
      <4> QED
        BY <3>1, <4>1 DEF Held, F!Stored
    <3>5. f \in Held
      BY <3>2, <3>3, <3>4 DEF Held, F!Stored
    <3>6. files' = [files EXCEPT ![p] = f]
      BY <3>1, <3>2
    <3> QED
      BY <1>2, <3>5, <3>6 DEF FileTypes
  <2> QED
    BY <2>1, <2>2
<1>4. p \in edited' /\ edited \subseteq edited' /\ raced' \subseteq edited'
  BY <1>1, <1>2 DEF FileTypes, F!Beside
<1>5. FileTypes'
  BY <1>1, <1>2, <1>3, <1>4 DEF FileTypes
<1>6. CASE phase \in {"idle", "asks", "replans"}
  <2>1. ASSUME NEW x \in Paths \ (edited' \cup report'), phase' = "idle"
        PROVE  files'[x] = started'[x]
    BY <1>1, <1>3, <1>4, <2>1 DEF FileInv
  <2>2. phase' # "idle" => Starting'
    BY <1>1, <1>3, <1>4, <1>6 DEF FileInv, Starting
  <2> QED
    BY <1>1, <1>5, <1>6, <2>1, <2>2 DEF FileInv, Forward, Undoing
<1>7. CASE phase \in Forward \cup Undoing
  <2>1. Carrying
    BY <1>7 DEF FileInv
  <2>2. UNCHANGED <<Applied, Carried>> /\ Places' /\ Apart(plans')
    BY <1>1, <2>1 DEF Carrying, Places, Applied, Carried, Forward, Undoing
  <2>3. FilesTell'
    <3>1. \A i \in 1 .. Len(plans) : MayDiffer(i)' <=> MayDiffer(i)
      BY <1>1, <2>2 DEF MayDiffer
    <3> QED
      BY <1>1, <1>3, <1>4, <2>1, <3>1 DEF Carrying, FilesTell
  <2>4. Compared'
    <3>1. phase = "mutates" => next \in 1 .. Len(plans) /\ F!Sources(plans[next]) \in Paths
      BY <1>2, <2>1, Touched DEF Carrying, Places
    <3>2. phase = "restores" => plans[undo].path \in Paths
      <4>1. phase = "restores" => undo \in 1 .. Len(plans)
        BY <1>2, <2>1 DEF Carrying, Places, Undoing, FileTypes
      <4> QED
        BY <1>2, <2>1, <4>1, Touched DEF Carrying
    <3> QED
      BY <1>1, <1>3, <2>1, <3>1, <3>2 DEF Carrying, Compared
  <2>5. ASSUME NEW i \in 1 .. Len(plans)
        PROVE  Paired(plans[i])' /\ (Left(plans[i]) => Left(plans[i])')
    <3>1. PICK q : q = plans[i]
      OBVIOUS
    <3>2. Grounded(started, q) /\ Paired(q)
      BY <2>1, <3>1 DEF Carrying
    <3>3. /\ q.path \in Paths /\ q.path \in F!Touches(q)
          /\ (q.action = "move" => q.from \in Paths /\ q.from \in F!Touches(q))
      BY <1>2, <3>1, <3>2, Touched DEF Grounded
    <3>4. ASSUME NEW x \in F!Touches(q), x \in F!Beside(p)
          PROVE  F!Touches(q) \subseteq F!Beside(p)
      <4>1. DOMAIN plans = 1 .. Len(plans)
        BY <1>2 DEF FileTypes
      <4>2. CASE p \in F!Touches(q)
        BY <3>1, <4>1, <4>2 DEF F!Beside
      <4>3. CASE p \notin F!Touches(q)
        <5>1. PICK j \in 1 .. Len(plans) : p \in F!Touches(plans[j]) /\ x \in F!Touches(plans[j])
          BY <3>4, <4>1, <4>3 DEF F!Beside
        <5>2. i # j
          BY <3>1, <4>3, <5>1
        <5> QED
          BY <2>1, <3>1, <3>4, <5>1, <5>2 DEF Carrying, Apart
      <4> QED
        BY <4>2, <4>3
    <3>5. q.action = "move" => (q.path \in edited' <=> q.from \in edited')
      BY <1>1, <3>2, <3>3, <3>4 DEF Paired
    <3>6. q.path \notin edited' => files'[q.path] = files[q.path]
                                   /\ (q.action = "move" => files'[q.from] = files[q.from])
      BY <1>3, <1>4, <3>3, <3>5
    <3> QED
      BY <1>1, <1>4, <3>1, <3>5, <3>6 DEF Paired, Left
  <2>6. Carrying'
    BY <1>1, <2>1, <2>2, <2>3, <2>4, <2>5 DEF Carrying, Learnt, Left, Paired
  <2> QED
    BY <1>1, <1>5, <1>7, <2>6 DEF FileInv, Forward, Undoing
<1> QED
  BY <1>2, <1>6, <1>7 DEF FileTypes

LEMMA FilesRest ==
  ASSUME FileInv,
         UNCHANGED <<files, edits, call, calls, phase, plans, next, written, undo, uncertain, failed,
                     report, started, known, edited, raced>>
  PROVE  FileInv'
<1>1. FileTypes' /\ UNCHANGED <<Applied, Carried>> /\ Starting' = Starting
  BY DEF FileInv, FileTypes, Applied, Carried, Starting
<1>2. Carrying => Carrying'
  <2>1. Carrying => Places' /\ Compared' /\ FilesTell'
    BY <1>1 DEF Carrying, Places, Compared, FilesTell, MayDiffer
  <2> QED
    BY <1>1, <2>1 DEF Carrying, Paired, Left, Learnt
<1> QED
  BY <1>1, <1>2 DEF FileInv

LEMMA FilesBegin == F!Init => FileInv
<1> SUFFICES ASSUME F!Init PROVE FileInv
  OBVIOUS
<1>1. ASSUME NEW p \in Paths
      PROVE  F!OldFile(p) \in Held
  BY <1>1 DEF F!OldFile, Held, F!Stored, F!Inodes, F!Contents
<1>2. PICK present \in SUBSET Paths :
        files = [p \in Paths |-> IF p \in present THEN F!OldFile(p) ELSE None]
  BY DEF F!Init
<1>3. files \in [Paths -> Held]
  BY <1>1, <1>2 DEF Held
<1> QED
  BY <1>3 DEF F!Init, FileInv, FileTypes, Forward, Undoing

LEMMA FileSteps ==
  ASSUME FileInv, F!Next
  PROVE  FileInv'
<1>1. CASE F!Abort
  BY <1>1, FilesRest DEF F!Abort, F!progress, F!history
<1>2. CASE \E p \in Paths : F!Edit(p)
  BY <1>2, EditHolds
<1> QED
  BY <1>1, <1>2, CallsStart, AskHolds, ReplanHolds, CheckHolds, CompareHolds, MutateHolds, SettleHolds,
     UndoCompareHolds, RestoreHolds, RolledBackHolds DEF F!Next

LEMMA FileStutters ==
  ASSUME FileInv, UNCHANGED fileVars
  PROVE  FileInv'
BY FilesRest DEF fileVars

(* A change destroys what the call itself read or wrote.                     *)
Spared(p) ==
  \/ files'[p] = files[p] \/ p \in raced
  \/ files[p] = None
  \/ /\ known[p] # None /\ files[p].content = known[p].content
     /\ \/ phase = "mutates" \/ files'[p] # None
        \/ files[p].ino = known[p].ino

LEMMA MutateSpares ==
  ASSUME FileInv, F!Mutate, NEW p \in Paths
  PROVE  Spared(p)
<1>1. SUFFICES ASSUME files'[p] # files[p], p \notin raced, files[p] # None
               PROVE  known[p] # None /\ files[p].content = known[p].content /\ phase = "mutates"
  BY DEF Spared
<1>2. phase = "mutates"
  BY DEF F!Mutate
<1>3. FileTypes /\ Carrying
  BY <1>2 DEF FileInv, Forward
<1>4. PICK n : n = next
  OBVIOUS
<1>5. n \in 1 .. Len(plans) /\ n > Applied /\ Len(plans) \in Nat
  BY <1>2, <1>3, <1>4 DEF Carrying, Places, Applied, Undoing, FileTypes
<1>6. PICK q : q = plans[n]
  OBVIOUS
<1>7. /\ q \in Plans /\ q.path \in Paths /\ F!Sources(q) \in Paths
      /\ q.path \in F!Touches(q) /\ F!Sources(q) \in F!Touches(q)
      /\ (q.action = "move" => F!Sources(q) = q.from)
      /\ (q.action # "move" => F!Sources(q) = q.path)
  BY <1>3, <1>5, <1>6, Touched DEF Carrying
<1>8. /\ Grounded(started, q) /\ q.ino \in F!Inodes
      /\ (q.action # "create" /\ F!Sources(q) \notin raced => files[F!Sources(q)].content = q.original)
      /\ \A x \in F!Touches(q) : known[x] = started[x]
  BY <1>2, <1>3, <1>4, <1>5, <1>6 DEF Carrying, Compared, Forward
<1>9. F!Breaks(q)
  BY <1>1, <1>4, <1>6 DEF F!Mutate, F!plan, F!Breaks
<1>10. CASE p = F!Sources(q) /\ q.action # "create"
  BY <1>1, <1>2, <1>7, <1>8, <1>10 DEF Grounded, Plans
<1>11. CASE ~(p = F!Sources(q) /\ q.action # "create")
  <2>1. p \in {q.path, F!Sources(q)}
    BY <1>1, <1>3, <1>7, <1>8, <1>9, StaysLocal DEF FileTypes
  <2>2. q.action # "update" /\ p = q.path
    BY <1>7, <1>11, <2>1
  <2>3. files[q.path] = None
    BY <1>7, <1>9, <2>2 DEF F!Breaks, F!Succeeds, F!Creates, F!Renames, F!Links, Plans
  <2> QED
    BY <1>1, <2>2, <2>3
<1> QED
  BY <1>10, <1>11

LEMMA RestoreSpares ==
  ASSUME FileInv, F!Restore, NEW p \in Paths
  PROVE  Spared(p)
<1>1. SUFFICES ASSUME files'[p] # files[p], p \notin raced, files[p] # None
               PROVE  /\ known[p] # None /\ files[p].content = known[p].content
                      /\ files'[p] # None \/ files[p].ino = known[p].ino
  BY DEF Spared
<1>2. phase = "restores"
  BY DEF F!Restore
<1>3. FileTypes /\ Carrying
  BY <1>2 DEF FileInv, Undoing
<1>4. PICK n : n = undo
  OBVIOUS
<1>5. n \in 1 .. Len(plans) /\ n <= Carried
  BY <1>2, <1>3, <1>4 DEF Carrying, Places, Carried, Undoing, FileTypes
<1>6. PICK q : q = plans[n]
  OBVIOUS
<1>7. /\ q \in Plans /\ q.path \in Paths /\ F!Sources(q) \in Paths
      /\ (q.action = "move" => F!Sources(q) = q.from)
      /\ (q.action # "move" => F!Sources(q) = q.path)
  BY <1>3, <1>5, <1>6, Touched DEF Carrying
<1>8. /\ Grounded(started, q) /\ Learnt(q)
      /\ (q.path \notin raced => files[q.path].content = q.content /\ files[q.path].ino = q.ino)
  BY <1>2, <1>3, <1>4, <1>5, <1>6 DEF Carrying, Compared
<1>9. F!RestoreBreaks(q)
  BY <1>1, <1>4, <1>6 DEF F!Restore, F!taken, F!RestoreBreaks
<1>10. CASE p # q.path
  <2>1. p \in {q.path, F!Sources(q)}
    <3>1. q.action = "update" => q.original \in F!Contents
      <4>1. started[q.path] \in Held
        BY <1>3, <1>7 DEF FileTypes
      <4> QED
        BY <1>8, <4>1 DEF Grounded, Held, F!Stored
    <3> QED
      BY <1>1, <1>3, <1>7, <1>9, <3>1, RestoreStays DEF FileTypes
  <2>2. q.action = "move" /\ p = q.from
    BY <1>7, <1>10, <2>1
  <2>3. files[q.from] = None
    BY <1>9, <2>2 DEF F!RestoreBreaks, F!Restores, F!Renames, F!Links
  <2> QED
    BY <1>1, <2>2, <2>3
<1>11. CASE p = q.path
  <2>1. known[p] # None /\ files[p].content = known[p].content
    BY <1>1, <1>8, <1>11 DEF Learnt
  <2>2. CASE q.action = "update"
    <3>1. q.original \in F!Contents
      <4>1. started[q.path] \in Held
        BY <1>3, <1>7 DEF FileTypes
      <4> QED
        BY <1>8, <2>2, <4>1 DEF Grounded, Held, F!Stored
    <3>2. PICK y \in F!Contents : F!Writes(q.path, y, q.ino)
      BY <1>9, <2>2, <3>1 DEF F!RestoreBreaks, F!Restores, F!Contents
    <3>3. files'[p] = [content |-> y, ino |-> q.ino] \/ files' = files
      BY <1>3, <1>7, <1>11, <3>2, WriteStays DEF FileTypes
    <3>4. [content |-> y, ino |-> q.ino] # None
      <4>1. q.ino \in F!Inodes
        <5>1. files[p] \in Held
          BY <1>3 DEF FileTypes
        <5> QED
          BY <1>1, <1>8, <1>11, <5>1 DEF Held, F!Stored
      <4>2. [content |-> y, ino |-> q.ino] \in F!Stored
        BY <3>2, <4>1 DEF F!Stored
      <4> QED
        BY <4>2, FileAssumption
    <3> QED
      BY <1>1, <2>1, <3>3, <3>4
  <2>3. CASE q.action # "update"
    BY <1>1, <1>8, <1>11, <2>1, <2>3 DEF Learnt
  <2> QED
    BY <2>1, <2>2, <2>3
<1> QED
  BY <1>10, <1>11

LEMMA NothingIsLost ==
  ASSUME FileInv, [F!Next]_(F!vars), phase \in {"mutates", "restores"}, UNCHANGED edits, NEW p \in Paths
  PROVE  Spared(p)
<1>1. CASE UNCHANGED files
  BY <1>1 DEF Spared
<1>2. CASE ~UNCHANGED files
  <2>1. \A x \in Paths : ~F!Edit(x)
    <3>1. edits \in Nat
      BY DEF FileInv, FileTypes
    <3> QED
      BY <3>1 DEF F!Edit
  <2>2. F!Mutate \/ F!Restore
    BY <1>2, <2>1 DEF F!Next, F!vars, F!EditFile, F!ApplyStructuredPatch, F!ApplyJsonPatch,
       F!WriteWorkspaceFile, F!ApplyStructuredPatchSet, F!Start, F!Ask, F!Replan, F!Check, F!Compare,
       F!Settle, F!UndoCompare, F!RolledBack, F!Abort
  <2> QED
    BY <2>2, MutateSpares, RestoreSpares
<1> QED
  BY <1>1, <1>2

(* However many files a set names and others change in the meantime, a call  *)
(* leaves every file as it was or names it, and what others wrote before a   *)
(* comparison survives the change that rests on it (applyPatchSet in         *)
(* tools/files.js).                                                          *)
THEOREM PatchesCorrect == Spec => PatchesAreHonest
<1>1. Init => FileInv
  BY FilesBegin DEF Init
<1>2. FileInv /\ [Next]_<<part, fileVars, permissionVars, changeVars, promptVars, menuVars,
                         settingVars>> => FileInv'
  BY FileSteps, FileStutters DEF Next
<1>3. FileInv => F!TellsWhatChanged
  BY DEF FileInv, F!TellsWhatChanged
<1>4. FileInv /\ [Next]_<<part, fileVars, permissionVars, changeVars, promptVars, menuVars,
                         settingVars>> =>
        [(phase \in {"mutates", "restores"} /\ UNCHANGED edits) =>
           \A p \in Paths :
             \/ files'[p] = files[p] \/ p \in raced
             \/ files[p] = None
             \/ /\ known[p] # None /\ files[p].content = known[p].content
                /\ \/ phase = "mutates" \/ files'[p] # None
                   \/ files[p].ino = known[p].ino]_(F!vars)
  <2>1. SUFFICES ASSUME FileInv, [F!Next]_(F!vars), phase \in {"mutates", "restores"},
                        UNCHANGED edits, NEW p \in Paths
                 PROVE  Spared(p)
    <3>1. UNCHANGED fileVars => UNCHANGED F!vars
      BY DEF fileVars, F!vars, F!permission, F!progress, F!history
    <3> QED
      BY <3>1 DEF Next, Spared
  <2> QED
    BY <2>1, NothingIsLost
<1> QED
  BY <1>1, <1>2, <1>3, <1>4, PTL DEF Spec, PatchesAreHonest, F!OthersKept

-----------------------------------------------------------------------------
(* The prompt and the menu.                                                  *)

(* The items at some places of a list, one after the other.                  *)
Kept(items, places, f) ==
  f = [i \in 0 .. Len(items) |->
         IF i = 0 THEN <<>>
         ELSE IF i \in places THEN Append(f[i - 1], items[i]) ELSE f[i - 1]]

LEMMA SetInduction ==
  ASSUME NEW All, 0 \in All, \A n \in Nat : n \in All => n + 1 \in All
  PROVE  Nat \subseteq All
<1> SUFFICES ASSUME Nat \ All # {} PROVE FALSE
  OBVIOUS
<1>1. PICK n \in Nat \ All : \A m \in Nat \ All : ~(<<m, n>> \in OpToRel(<, Nat))
  BY WFMin, NatLessThanWellFounded
<1>2. \A m \in Nat \ All : ~(m < n)
  BY <1>1 DEF OpToRel
<1>3. n - 1 \in Nat /\ n - 1 \in All
  BY <1>2
<1> QED
  BY <1>3

LEMMA SomeKept ==
  ASSUME NEW items, Len(items) \in Nat, NEW places
  PROVE  \E f : Kept(items, places, f)
<1> DEFINE Step(some, n) == IF n \in places THEN Append(some, items[n]) ELSE some
           Chain(f, k) ==
             /\ f = [n \in 0 .. k |-> f[n]] /\ f[0] = <<>>
             /\ \A n \in 1 .. k : f[n] = Step(f[n - 1], n)
           Reached == {k \in Nat : \E f : Chain(f, k)}
<1>1. 0 \in Reached
  <2>1. Chain([n \in 0 .. 0 |-> <<>>], 0)
    OBVIOUS
  <2> QED  BY <2>1
<1>2. ASSUME NEW k \in Nat, k \in Reached PROVE k + 1 \in Reached
  <2>1. PICK f : Chain(f, k)
    BY <1>2
  <2> DEFINE g == [n \in 0 .. k + 1 |-> IF n = k + 1 THEN Step(f[k], k + 1) ELSE f[n]]
  <2> HIDE DEF Step
  <2>2. g[0] = <<>>
    BY <2>1
  <2>3. ASSUME NEW n \in 1 .. k + 1 PROVE g[n] = Step(g[n - 1], n)
    <3>1. CASE n = k + 1
      BY <3>1
    <3>2. CASE n # k + 1
      <4>1. n \in 1 .. k /\ g[n] = f[n] /\ g[n - 1] = f[n - 1]
        BY <3>2
      <4> QED  BY <2>1, <4>1
    <3> QED  BY <3>1, <3>2
  <2>4. g = [n \in 0 .. k + 1 |-> g[n]]
    OBVIOUS
  <2>5. Chain(g, k + 1)
    BY <2>2, <2>3, <2>4
  <2> HIDE DEF g, Chain
  <2> QED  BY <2>5
<1>3. Len(items) \in Reached
  <2> HIDE DEF Reached
  <2>1. Nat \subseteq Reached
    BY <1>1, <1>2, SetInduction
  <2> QED  BY <2>1
<1>4. PICK f : Chain(f, Len(items))
  BY <1>3
<1>5. ASSUME NEW i \in 0 .. Len(items)
      PROVE  f[i] = IF i = 0 THEN <<>>
                    ELSE IF i \in places THEN Append(f[i - 1], items[i]) ELSE f[i - 1]
  BY <1>4
<1>6. Kept(items, places, f)
  BY <1>4, <1>5 DEF Kept
<1> QED  BY <1>6

LEMMA KeptItems ==
  ASSUME NEW All, NEW items \in Seq(All), NEW places, NEW f, NEW n \in 0 .. Len(items),
         Kept(items, places, f)
  PROVE  /\ f[n] \in Seq(All)
         /\ 1 .. n \subseteq places => Len(f[n]) = n
<1> DEFINE Good == {k \in Nat : k <= Len(items) =>
                      /\ f[k] \in Seq(All)
                      /\ 1 .. k \subseteq places => Len(f[k]) = k}
<1>1. 0 \in Good
  <2>1. f[0] = <<>>
    BY DEF Kept
  <2>2. f[0] \in Seq(All) /\ Len(f[0]) = 0
    BY <2>1
  <2> QED  BY <2>2
<1>2. ASSUME NEW k \in Nat, k \in Good PROVE k + 1 \in Good
  <2> SUFFICES ASSUME k + 1 <= Len(items)
               PROVE  /\ f[k + 1] \in Seq(All)
                      /\ 1 .. k + 1 \subseteq places => Len(f[k + 1]) = k + 1
    OBVIOUS
  <2>1. /\ f[k] \in Seq(All) /\ k + 1 \in 1 .. Len(items) /\ items[k + 1] \in All
        /\ 1 .. k \subseteq places => Len(f[k]) = k
    BY <1>2
  <2>2. f[k + 1] = IF k + 1 \in places THEN Append(f[k], items[k + 1]) ELSE f[k]
    <3>1. k + 1 \in 0 .. Len(items) /\ k + 1 # 0 /\ (k + 1) - 1 = k
      BY <2>1
    <3> HIDE DEF Good
    <3> QED  BY <3>1 DEF Kept
  <2>3. CASE k + 1 \in places
    BY <2>1, <2>2, <2>3
  <2>4. CASE k + 1 \notin places
    BY <2>1, <2>2, <2>4
  <2> QED  BY <2>3, <2>4
<1>3. n \in Good
  <2> HIDE DEF Good
  <2> QED  BY <1>1, <1>2, SetInduction
<1> QED  BY <1>3

(* The options of the menu that match.                                       *)
LEMMA FilteredIs ==
  ASSUME NEW query
  PROVE  /\ O!Filtered(query) \in Seq(Seq(STRING))
         /\ query = <<>> => Len(O!Filtered(query)) = Len(Options)
<1> DEFINE N == 0 .. Len(Options)
           places == {i \in 1 .. Len(Options) : O!Includes(Options[i], query)}
           Rec(g) == g = [i \in N |->
                            IF i = 0 THEN <<>>
                            ELSE IF O!Includes(Options[i], query) THEN Append(g[i - 1], Options[i])
                            ELSE g[i - 1]]
           matching == CHOOSE g : Rec(g)
<1>0. Options \in Seq(Seq(STRING)) /\ Len(Options) \in Nat
  BY MenuAssumption
<1>1. PICK f : Kept(Options, places, f)
  <2> HIDE DEF places
  <2> QED  BY <1>0, SomeKept
<1>2. Rec(f)
  <2>1. \A i \in N : i # 0 => (i \in places <=> O!Includes(Options[i], query))
    BY <1>0
  <2> HIDE DEF places
  <2> QED  BY <1>1, <2>1 DEF Kept
<1>3. Rec(matching)
  BY <1>2
<1>4. O!Filtered(query) = matching[Len(Options)]
  BY DEF O!Filtered
<1>5. PICK here : here = places
  OBVIOUS
<1>6. PICK g : g = matching
  OBVIOUS
<1>7. /\ g[Len(Options)] \in Seq(Seq(STRING))
      /\ 1 .. Len(Options) \subseteq here => Len(g[Len(Options)]) = Len(Options)
  <2>1. \A i \in N : i # 0 => (i \in here <=> O!Includes(Options[i], query))
    BY <1>0, <1>5
  <2>2. Kept(Options, here, g)
    <3> HIDE DEF matching, places
    <3> QED  BY <1>3, <1>6, <2>1 DEF Kept
  <2>0. PICK All : All = Seq(STRING)
    OBVIOUS
  <2>3. Options \in Seq(All) /\ Len(Options) \in 0 .. Len(Options)
    BY <1>0, <2>0
  <2> HIDE DEF matching, places, N
  <2>4. /\ g[Len(Options)] \in Seq(All)
        /\ 1 .. Len(Options) \subseteq here => Len(g[Len(Options)]) = Len(Options)
    BY <2>2, <2>3, KeptItems
  <2> QED  BY <2>0, <2>4
<1>8. ASSUME query = <<>>, NEW i \in 1 .. Len(Options) PROVE O!Includes(Options[i], query)
  <2>1. Options[i] \in Seq(STRING) /\ Len(Options[i]) \in Nat
    BY <1>0
  <2>2. SubSeq(Options[i], 0 + 1, 0 + Len(query)) = query
    BY <1>8, <2>1
  <2>3. 0 \in 0 .. Len(Options[i]) - Len(query)
    BY <1>8, <2>1
  <2> QED  BY <2>2, <2>3 DEF O!Includes
<1> QED
  <2> HIDE DEF matching
  <2> QED  BY <1>4, <1>5, <1>6, <1>7, <1>8

MenuInv ==
  O!Open => /\ choice \in Nat /\ choice = O!Clamp(choice, O!Filtered(filter))
            /\ frame = O!Frame(filter, choice)

(* The option that is chosen is one of those that match, however the choice  *)
(* came about.                                                               *)
LEMMA Clamped ==
  ASSUME NEW All, NEW visible \in Seq(All), NEW index \in Int
  PROVE  /\ O!Clamp(index, visible) \in Nat
         /\ O!Clamp(O!Clamp(index, visible), visible) = O!Clamp(index, visible)
         /\ visible # <<>> => O!Clamp(index, visible) < Len(visible)
         /\ index \in 0 .. Len(visible) - 1 => O!Clamp(index, visible) = index
<1> DEFINE most == Len(visible) - 1
<1>1. most \in Int /\ most >= -1 /\ (visible # <<>> => most >= 0)
  OBVIOUS
<1>2. ASSUME NEW a \in Int PROVE O!Clamp(a, visible) = IF a < 0 \/ most < 0 THEN 0
                                                        ELSE IF a <= most THEN a ELSE most
  <2> HIDE DEF most
  <2>1. O!Min({a, most}) = IF a <= most THEN a ELSE most
    BY <1>1, <1>2 DEF O!Min
  <2>2. O!Max({0, O!Min({a, most})}) = IF a < 0 \/ most < 0 THEN 0
                                       ELSE IF a <= most THEN a ELSE most
    BY <1>1, <1>2, <2>1 DEF O!Max
  <2> QED  BY <2>2 DEF O!Clamp, most
<1>3. O!Clamp(index, visible) \in Int
  BY <1>1, <1>2
<1> HIDE DEF most
<1>4. O!Clamp(O!Clamp(index, visible), visible) = O!Clamp(index, visible)
  BY <1>1, <1>2, <1>3
<1>5. O!Clamp(index, visible) = IF index < 0 \/ most < 0 THEN 0
                                ELSE IF index <= most THEN index ELSE most
  BY <1>2
<1>6. Len(visible) - 1 = most
  BY DEF most
<1>7. /\ O!Clamp(index, visible) \in Nat
      /\ visible # <<>> => O!Clamp(index, visible) <= most
      /\ index \in 0 .. most => O!Clamp(index, visible) = index
  BY <1>1, <1>5
<1>8. Len(visible) = most + 1
  BY DEF most
<1> QED  BY <1>1, <1>4, <1>6, <1>7, <1>8

LEMMA MenuRendered ==
  ASSUME NEW query, NEW index \in Int, O!Render(query, index)
  PROVE  MenuInv'
<1>1. O!Filtered(query) \in Seq(Seq(STRING))
  BY FilteredIs
<1>2. /\ filter' = query /\ choice' = O!Clamp(index, O!Filtered(query))
      /\ frame' = O!Frame(query, index)
  BY DEF O!Render
<1>3. /\ choice' \in Nat /\ choice' = O!Clamp(choice', O!Filtered(filter'))
  BY <1>1, <1>2, Clamped
<1>4. O!Frame(filter', choice') = O!Frame(query, index)
  BY <1>2, <1>3 DEF O!Frame
<1> QED
  BY <1>2, <1>3, <1>4 DEF MenuInv

LEMMA MenuBegins == O!Init => MenuInv
<1> SUFFICES ASSUME O!Init PROVE MenuInv
  OBVIOUS
<1>1. O!Filtered(<<>>) \in Seq(Seq(STRING)) /\ Len(O!Filtered(<<>>)) = Len(Options)
  BY FilteredIs
<1>2. choice \in 0 .. Len(Options) - 1 /\ Len(Options) \in Nat
  BY MenuAssumption DEF O!Init
<1>3. choice = O!Clamp(choice, O!Filtered(<<>>))
  BY <1>1, <1>2, Clamped
<1> QED
  BY <1>2, <1>3 DEF O!Init, MenuInv

LEMMA MenuGoesOn ==
  ASSUME MenuInv, [O!Next]_menuVars
  PROVE  MenuInv'
<1>1. CASE UNCHANGED menuVars
  BY <1>1 DEF menuVars, MenuInv, O!Open
<1>2. CASE O!Next
  <2>0. O!Open
    BY <1>2 DEF O!Next, O!Up, O!Down, O!Type, O!Backspace, O!Enter, O!Cancel, O!Close
  <2>1. choice \in Nat /\ O!Filtered(filter) \in Seq(Seq(STRING)) /\ Len(O!Filtered(filter)) \in Nat
    BY <2>0, FilteredIs DEF MenuInv
  <2>2. ASSUME O!Up PROVE MenuInv'
    <3>1. (IF choice = 0 THEN Len(O!Filtered(filter)) - 1 ELSE choice - 1) \in Int
      BY <2>1
    <3> QED  BY <2>2, <3>1, MenuRendered DEF O!Up
  <2>3. ASSUME O!Down PROVE MenuInv'
    <3>1. (IF choice = Len(O!Filtered(filter)) - 1 THEN 0 ELSE choice + 1) \in Int
      BY <2>1
    <3> QED  BY <2>3, <3>1, MenuRendered DEF O!Down
  <2>4. ASSUME NEW key \in FilterKeys, O!Type(key) PROVE MenuInv'
    BY <2>4, MenuRendered DEF O!Type
  <2>5. ASSUME O!Backspace PROVE MenuInv'
    BY <2>5, MenuRendered DEF O!Backspace
  <2>6. ASSUME NEW value, O!Close(value) PROVE MenuInv'
    BY <2>6 DEF O!Close, MenuInv, O!Open
  <2>7. ASSUME O!Enter PROVE MenuInv'
    BY <2>1, <2>6, <2>7, MenuRendered DEF O!Enter
  <2> QED
    BY <1>2, <2>2, <2>3, <2>4, <2>5, <2>6, <2>7 DEF O!Next, O!Cancel
<1> QED  BY <1>1, <1>2

(* The window holds the choice, whatever its size.                           *)
LEMMA MarkedIsTaken == MenuInv => O!EnterTakesTheMarked
<1> SUFFICES ASSUME MenuInv, O!Open, O!Filtered(filter) # <<>>
             PROVE  /\ frame.marked \in DOMAIN frame.items
                    /\ frame.items[frame.marked] = O!Filtered(filter)[choice + 1]
  BY DEF O!EnterTakesTheMarked
<1> DEFINE visible == O!Filtered(filter)
           total == Len(visible)
           start == O!WindowStart(total, choice)
           stop == O!Min({start + Rows, total})
<1>1. visible \in Seq(Seq(STRING)) /\ total \in Nat
  BY FilteredIs
<1>2. choice \in Nat /\ choice < total /\ choice = O!Clamp(choice, visible)
  BY <1>1, Clamped DEF MenuInv
<1>3. frame = [items |-> SubSeq(visible, start + 1, stop), marked |-> choice - start + 1]
  BY <1>2 DEF MenuInv, O!Frame
<1>4. Rows \in Nat /\ Rows > 0
  BY MenuAssumption
<1> HIDE DEF visible
<1>5. PICK half \in Nat : half = Rows \div 2 /\ half < Rows
  BY <1>4
<1>6. start \in Nat /\ start <= choice /\ choice < start + Rows
  <2>1. O!Max({0, total - Rows}) = IF total <= Rows THEN 0 ELSE total - Rows
    BY <1>1, <1>4 DEF O!Max
  <2>2. O!Max({0, choice - half}) = IF choice <= half THEN 0 ELSE choice - half
    BY <1>2, <1>5 DEF O!Max
  <2> DEFINE last == IF total <= Rows THEN 0 ELSE total - Rows
             middle == IF choice <= half THEN 0 ELSE choice - half
  <2>3. last \in Nat /\ middle \in Nat
    BY <1>1, <1>2, <1>4, <1>5
  <2>4. start = O!Min({last, middle})
    BY <1>5, <2>1, <2>2 DEF O!WindowStart
  <2>5. start = IF last <= middle THEN last ELSE middle
    <3> HIDE DEF last, middle, start
    <3> QED  BY <2>3, <2>4 DEF O!Min
  <2> HIDE DEF start
  <2> QED  BY <1>1, <1>2, <1>4, <1>5, <2>5
<1> HIDE DEF start
<1>7. stop = IF start + Rows <= total THEN start + Rows ELSE total
  BY <1>1, <1>4, <1>6 DEF O!Min
<1> HIDE DEF stop
<1>8. /\ SubSeq(visible, start + 1, stop) = [i \in 1 .. stop - start |-> visible[i + start]]
      /\ DOMAIN SubSeq(visible, start + 1, stop) = 1 .. stop - start
  BY <1>1, <1>2, <1>4, <1>6, <1>7
<1>9. choice - start + 1 \in 1 .. stop - start /\ (choice - start + 1) + start = choice + 1
  BY <1>1, <1>2, <1>4, <1>6, <1>7
<1> QED
  BY <1>3, <1>8, <1>9 DEF visible

(* The menus of the prompt: two options each, of which some match.           *)
LEMMA OfTwo ==
  ASSUME NEW a, NEW b, NEW query
  PROVE  E!Matching(<<a, b>>, query) =
           IF E!Includes(a.search, query)
           THEN IF E!Includes(b.search, query) THEN <<a, b>> ELSE <<a>>
           ELSE IF E!Includes(b.search, query) THEN <<b>> ELSE <<>>
<1>0. PICK two : two = <<a, b>>
  OBVIOUS
<1> DEFINE Rec(g) == g = [i \in 0 .. Len(two) |->
                            IF i = 0 THEN <<>>
                            ELSE IF E!Includes(two[i].search, query) THEN Append(g[i - 1], two[i])
                            ELSE g[i - 1]]
           matching == CHOOSE g : Rec(g)
<1>1. Len(two) = 2 /\ two[1] = a /\ two[2] = b
  BY <1>0
<1>2. PICK places : places = {i \in 1 .. 2 : E!Includes(two[i].search, query)}
  OBVIOUS
<1>3. PICK f : Kept(two, places, f)
  BY <1>1, SomeKept
<1>4. Rec(f)
  <2>1. \A i \in 0 .. Len(two) : i # 0 => (i \in places <=> E!Includes(two[i].search, query))
    BY <1>1, <1>2
  <2> QED  BY <1>3, <2>1 DEF Kept
<1>5. Rec(matching)
  BY <1>4
<1>6. E!Matching(two, query) = matching[2]
  BY <1>1 DEF E!Matching
<1>7. PICK g : g = matching
  OBVIOUS
<1>8. /\ g[0] = <<>>
      /\ g[1] = IF E!Includes(a.search, query) THEN Append(g[0], a) ELSE g[0]
      /\ g[2] = IF E!Includes(b.search, query) THEN Append(g[1], b) ELSE g[1]
  <2> HIDE DEF matching
  <2>1. g = [i \in 0 .. 2 |-> IF i = 0 THEN <<>>
                              ELSE IF E!Includes(two[i].search, query) THEN Append(g[i - 1], two[i])
                              ELSE g[i - 1]]
    BY <1>1, <1>5, <1>7
  <2> HIDE DEF matching, Rec
  <2>2. 0 \in 0 .. 2
    OBVIOUS
  <2>3. g[0] = <<>>
    BY <2>1, <2>2
  <2>4. ASSUME NEW i \in 1 .. 2
        PROVE  g[i] = IF E!Includes(two[i].search, query) THEN Append(g[i - 1], two[i])
                      ELSE g[i - 1]
    <3>1. i \in 0 .. 2 /\ i # 0
      OBVIOUS
    <3>2. g[i] = IF i = 0 THEN <<>>
                 ELSE IF E!Includes(two[i].search, query) THEN Append(g[i - 1], two[i])
                 ELSE g[i - 1]
      BY <2>1, <3>1, Zenon
    <3> QED  BY <3>1, <3>2, Zenon
  <2>5. 1 \in 1 .. 2 /\ 2 \in 1 .. 2 /\ 1 - 1 = 0 /\ 2 - 1 = 1
    OBVIOUS
  <2>6. g[1] = IF E!Includes(a.search, query) THEN Append(g[0], a) ELSE g[0]
    BY <1>1, <2>4, <2>5
  <2>7. g[2] = IF E!Includes(b.search, query) THEN Append(g[1], b) ELSE g[1]
    BY <1>1, <2>4, <2>5
  <2> QED  BY <2>3, <2>6, <2>7
<1>9. E!Matching(<<a, b>>, query) = g[2]
  BY <1>0, <1>6, <1>7
<1> QED
  BY <1>8, <1>9

SlashX == E!Option(<<"x">>, <<"/", "x">>, <<>>)
SlashY == E!Option(<<"y">>, <<"/", "y">>, <<>>)

LEMMA VisibleIs ==
  ASSUME NEW text, NEW at, NEW menu, menu = E!ActiveMenu(text, at)
  PROVE  /\ Len(menu.visible) \in Nat
         /\ menu.visible # <<>> => Len(menu.visible) > 0
         /\ menu.type = "/" => menu.visible = E!Matching(E!SlashOptions, Tail(text))
<1>1. ASSUME NEW a, NEW b, NEW query, NEW visible, visible = E!Matching(<<a, b>>, query)
      PROVE  Len(visible) \in Nat /\ (visible # <<>> => Len(visible) > 0)
  BY <1>1, OfTwo
<1>2. \/ \E query : menu = [type |-> "@", start |-> menu.start, visible |-> E!Matching(E!PathOptions, query)]
      \/ \E query : menu = [type |-> "$", start |-> menu.start, visible |-> E!Matching(E!SkillOptions, query)]
      \/ menu = [type |-> "/", start |-> 0, visible |-> E!Matching(E!SlashOptions, Tail(text))]
      \/ menu = [type |-> "none", start |-> 0, visible |-> <<>>]
  BY DEF E!ActiveMenu, E!NoMenu
<1>3. CASE \E query : menu = [type |-> "@", start |-> menu.start, visible |-> E!Matching(E!PathOptions, query)]
  <2>1. PICK query : menu = [type |-> "@", start |-> menu.start, visible |-> E!Matching(E!PathOptions, query)]
    BY <1>3
  <2>2. menu.visible = E!Matching(E!PathOptions, query) /\ menu.type = "@"
    BY <2>1
  <2> QED  BY <1>1, <2>2 DEF E!PathOptions
<1>4. CASE \E query : menu = [type |-> "$", start |-> menu.start, visible |-> E!Matching(E!SkillOptions, query)]
  <2>1. PICK query : menu = [type |-> "$", start |-> menu.start, visible |-> E!Matching(E!SkillOptions, query)]
    BY <1>4
  <2>2. menu.visible = E!Matching(E!SkillOptions, query) /\ menu.type = "$"
    BY <2>1
  <2> QED  BY <1>1, <2>2 DEF E!SkillOptions
<1>5. CASE menu = [type |-> "/", start |-> 0, visible |-> E!Matching(E!SlashOptions, Tail(text))]
  <2>1. menu.visible = E!Matching(E!SlashOptions, Tail(text)) /\ menu.type = "/"
    BY <1>5
  <2> QED  BY <1>1, <2>1 DEF E!SlashOptions
<1>6. CASE menu = [type |-> "none", start |-> 0, visible |-> <<>>]
  BY <1>6
<1> QED
  BY <1>2, <1>3, <1>4, <1>5, <1>6

PromptInv == selected \in Nat /\ E!ScreenIsCurrent

LEMMA SelectionClamped ==
  ASSUME NEW visible, Len(visible) \in Nat, NEW index \in Nat
  PROVE  /\ E!Clamp(index, visible) \in Nat
         /\ E!Clamp(E!Clamp(index, visible), visible) = E!Clamp(index, visible)
         /\ Len(visible) > 0 => E!Clamp(index, visible) < Len(visible)
<1>1. E!Max({0, Len(visible) - 1}) = IF Len(visible) = 0 THEN 0 ELSE Len(visible) - 1
  BY DEF E!Max
<1> QED
  BY <1>1 DEF E!Clamp

LEMMA PromptRendered ==
  ASSUME NEW text, NEW at, NEW index \in Nat, E!Render(text, at, index)
  PROVE  PromptInv'
<1>1. PICK menu : menu = E!ActiveMenu(text, at)
  OBVIOUS
<1>2. Len(menu.visible) \in Nat
  BY <1>1, VisibleIs
<1>3. PICK visible : visible = menu.visible
  OBVIOUS
<1>4. /\ buffer' = text /\ cursor' = at /\ selected' = E!Clamp(index, visible)
      /\ shown' = E!Frame(text, at, index)
  BY <1>1, <1>3 DEF E!Render
<1>5. selected' \in Nat /\ selected' = E!Clamp(selected', visible)
  BY <1>2, <1>3, <1>4, SelectionClamped
<1>6. E!Frame(buffer', cursor', selected') = E!Frame(text, at, index)
  BY <1>1, <1>3, <1>4, <1>5 DEF E!Frame
<1>7. E!Menu'.visible = visible
  BY <1>1, <1>3, <1>4 DEF E!Menu
<1> QED
  BY <1>4, <1>5, <1>6, <1>7 DEF PromptInv, E!ScreenIsCurrent

LEMMA PromptBegins == E!Init => PromptInv
<1> SUFFICES ASSUME E!Init PROVE PromptInv
  OBVIOUS
<1>1. PICK menu : menu = E!ActiveMenu(<<>>, 0)
  OBVIOUS
<1>2. menu = [type |-> "none", start |-> 0, visible |-> <<>>]
  BY <1>1 DEF E!ActiveMenu, E!TriggerStart, E!NoMenu, E!Max
<1>3. E!Clamp(0, menu.visible) = 0
  BY <1>2 DEF E!Clamp, E!Max
<1> QED
  BY <1>1, <1>3 DEF E!Init, PromptInv, E!ScreenIsCurrent, E!Menu

LEMMA PromptGoesOn ==
  ASSUME PromptInv, [E!Next]_promptVars
  PROVE  PromptInv'
<1>0. selected \in Nat
  BY DEF PromptInv
<1>1. CASE UNCHANGED promptVars
  BY <1>1 DEF promptVars, PromptInv, E!ScreenIsCurrent, E!Reading, E!Menu
<1>2. ASSUME shown' = None, selected' = selected PROVE PromptInv'
  BY <1>0, <1>2 DEF PromptInv, E!ScreenIsCurrent
<1>3. ASSUME NEW text, NEW at, E!Edit(text, at) PROVE PromptInv'
  BY <1>3, PromptRendered DEF E!Edit
<1>4. ASSUME NEW text, NEW start, E!PutIn(text, start) PROVE PromptInv'
  BY <1>4, PromptRendered DEF E!PutIn
<1>5. ASSUME NEW text, E!Apply(text) PROVE PromptInv'
  BY <1>2, <1>4, <1>5 DEF E!Apply
<1>6. ASSUME E!ChooseUp \/ E!ChooseDown PROVE PromptInv'
  <2>1. PICK menu : menu = E!Menu /\ menu.visible # <<>>
    BY <1>6 DEF E!ChooseUp, E!ChooseDown
  <2>2. Len(menu.visible) \in Nat /\ Len(menu.visible) > 0
    BY <2>1, VisibleIs DEF E!Menu
  <2>3. PICK index \in Nat : E!Choose(index)
    <3>1. CASE E!ChooseUp
      BY <1>0, <2>1, <2>2, <3>1 DEF E!ChooseUp
    <3>2. CASE E!ChooseDown
      BY <1>0, <2>1, <2>2, <3>2 DEF E!ChooseDown
    <3> QED  BY <1>6, <3>1, <3>2
  <2> QED  BY <2>3, PromptRendered DEF E!Choose
<1>7. ASSUME NEW index, E!Recall(index) PROVE PromptInv'
  BY <1>7, PromptRendered DEF E!Recall
<1>8. ASSUME NEW at, E!Move(at) PROVE PromptInv'
  BY <1>0, <1>8, PromptRendered DEF E!Move
<1>9. ASSUME NEW text, E!Submit(text) PROVE PromptInv'
  BY <1>2, <1>9 DEF E!Submit
<1>10. ASSUME E!TabCompletes PROVE PromptInv'
  BY <1>5, <1>10, PromptRendered DEF E!TabCompletes
<1>11. ASSUME NEW ending, E!Leave(ending) PROVE PromptInv'
  BY <1>2, <1>11 DEF E!Leave
<1>12. CASE E!Next
  <2>1. ASSUME \/ E!ChooseUp \/ E!ChooseDown \/ E!RecallUp \/ E!RecallDown
               \/ E!Left \/ E!Right \/ E!Home \/ E!End
        PROVE  PromptInv'
    BY <1>6, <1>7, <1>8, <2>1 DEF E!RecallUp, E!RecallDown, E!Left, E!Right, E!Home, E!End
  <2>2. ASSUME (\E char \in Keys : E!Type(char)) \/ E!Backspace \/ E!Delete \/ E!Escape
        PROVE  PromptInv'
    BY <1>3, <2>2 DEF E!Type, E!Backspace, E!Delete, E!Escape
  <2>3. ASSUME \/ E!TabCompletes \/ E!SpaceFinalizes \/ E!Return
               \/ \E load \in loads : E!Loaded(load)
        PROVE  PromptInv'
    <3>1. CASE E!SpaceFinalizes \/ E!Return
      BY <1>5, <1>9, <3>1 DEF E!SpaceFinalizes, E!Return
    <3>2. CASE \E load \in loads : E!Loaded(load)
      BY <1>4, <3>2 DEF E!Loaded
    <3> QED  BY <1>10, <2>3, <3>1, <3>2
  <2>4. ASSUME E!ControlC \/ E!Abort PROVE PromptInv'
    BY <1>11, <2>4 DEF E!ControlC, E!Abort
  <2> QED  BY <1>12, <2>1, <2>2, <2>3, <2>4 DEF E!Next
<1> QED  BY <1>1, <1>12

(* A command that is typed in full is the only one that matches, so that the *)
(* one Return prefers is the one that is highlighted.                        *)
LEMMA ExactIsChosen ==
  ASSUME NEW visible, visible = E!Matching(E!SlashOptions, Tail(buffer)),
         NEW i \in DOMAIN visible, visible[i].insert = buffer
  PROVE  Len(visible) = 1 /\ DOMAIN visible = {1}
<1>0. /\ E!SlashOptions = <<SlashX, SlashY>>
      /\ SlashX.search = <<"x">> /\ SlashX.insert = <<"/", "x">>
      /\ SlashY.search = <<"y">> /\ SlashY.insert = <<"/", "y">>
  BY DEF E!SlashOptions, SlashX, SlashY, E!Option
<1>1. visible = IF E!Includes(<<"x">>, Tail(buffer))
                THEN IF E!Includes(<<"y">>, Tail(buffer)) THEN <<SlashX, SlashY>> ELSE <<SlashX>>
                ELSE IF E!Includes(<<"y">>, Tail(buffer)) THEN <<SlashY>> ELSE <<>>
  BY <1>0, OfTwo
<1>2. visible[i] = SlashX \/ visible[i] = SlashY
  BY <1>1
<1>3. buffer = <<"/", "x">> \/ buffer = <<"/", "y">>
  BY <1>0, <1>2
<1>4. Tail(buffer) = <<"x">> \/ Tail(buffer) = <<"y">>
  <2>1. ASSUME NEW a, NEW b PROVE Tail(<<a, b>>) = <<b>>
    OBVIOUS
  <2> QED  BY <1>3, <2>1
<1>5. ASSUME NEW a, NEW b, E!Includes(<<a>>, <<b>>) PROVE a = b
  <2>1. PICK k \in 0 .. Len(<<a>>) - Len(<<b>>) : SubSeq(<<a>>, k + 1, k + Len(<<b>>)) = <<b>>
    BY <1>5 DEF E!Includes
  <2>2. k = 0 /\ SubSeq(<<a>>, 1, 1) = <<b>>
    BY <2>1
  <2>3. SubSeq(<<a>>, 1, 1)[1] = a
    OBVIOUS
  <2>4. <<b>>[1] = b
    OBVIOUS
  <2> QED  BY <2>2, <2>3, <2>4
<1>6. ~(E!Includes(<<"x">>, Tail(buffer)) /\ E!Includes(<<"y">>, Tail(buffer)))
  <2>1. CASE Tail(buffer) = <<"x">>
    <3>1. ~E!Includes(<<"y">>, <<"x">>)
      BY <1>5
    <3> QED  BY <2>1, <3>1
  <2>2. CASE Tail(buffer) = <<"y">>
    <3>1. ~E!Includes(<<"x">>, <<"y">>)
      BY <1>5
    <3> QED  BY <2>2, <3>1
  <2> QED  BY <1>4, <2>1, <2>2
<1>7. visible = <<SlashX>> \/ visible = <<SlashY>>
  BY <1>1, <1>6
<1> QED  BY <1>7

LEMMA HighlightedIsTaken == PromptInv => E!TakesTheHighlighted
<1> SUFFICES ASSUME PromptInv, E!Reading, shown # None, E!Menu.visible # <<>>
             PROVE  shown.highlighted = IF E!Menu.type = "/" THEN E!Exact ELSE E!Chosen
  BY DEF E!TakesTheHighlighted
<1>1. PICK menu : menu = E!Menu
  OBVIOUS
<1>2. PICK visible : visible = menu.visible
  OBVIOUS
<1>3. /\ visible # <<>> /\ Len(visible) \in Nat /\ Len(visible) > 0
      /\ menu.type = "/" => visible = E!Matching(E!SlashOptions, Tail(buffer))
  BY <1>1, <1>2, VisibleIs DEF E!Menu
<1>4. /\ selected \in Nat /\ selected = E!Clamp(selected, visible)
      /\ shown = E!Frame(buffer, cursor, selected)
  BY <1>1, <1>2 DEF PromptInv, E!ScreenIsCurrent
<1>5. selected < Len(visible)
  BY <1>3, <1>4, SelectionClamped
<1>6. shown.highlighted = visible[selected + 1]
  BY <1>1, <1>2, <1>3, <1>4 DEF E!Frame, E!Highlighted, E!Menu
<1>7. E!Chosen = visible[selected + 1]
  BY <1>1, <1>2, <1>5 DEF E!Chosen
<1>8. ASSUME menu.type = "/" PROVE E!Exact = visible[selected + 1]
  <2>1. PICK same : same = {i \in DOMAIN visible : visible[i].insert = buffer}
    OBVIOUS
  <2>2. E!Exact = IF same = {} THEN E!Chosen ELSE visible[E!Min(same)]
    BY <1>1, <1>2, <2>1 DEF E!Exact
  <2>3. ASSUME same # {} PROVE visible[E!Min(same)] = visible[selected + 1]
    <3>1. Len(visible) = 1 /\ DOMAIN visible = {1}
      BY <1>3, <1>8, <2>1, <2>3, ExactIsChosen
    <3>2. same = {1} /\ selected = 0
      BY <1>4, <1>5, <2>1, <2>3, <3>1
    <3>3. E!Min({1}) = 1
      BY DEF E!Min
    <3> QED  BY <3>2, <3>3
  <2> QED  BY <1>7, <2>2, <2>3
<1> QED
  BY <1>1, <1>6, <1>7, <1>8

(* What Enter takes is what the screen shows as chosen, however many options *)
(* there are and rows to show them, and whatever was typed, recalled or      *)
(* loaded before (readPromptLine and selectOption in terminal/select.js).    *)
THEOREM EnterCorrect == Spec => []EnterTakesWhatIsShown
<1>1. Init => MenuInv /\ PromptInv
  BY MenuBegins, PromptBegins DEF Init
<1>2. (MenuInv /\ PromptInv)
        /\ [Next]_<<part, fileVars, permissionVars, changeVars, promptVars, menuVars, settingVars>>
      => (MenuInv /\ PromptInv)'
  <2> SUFFICES ASSUME MenuInv, PromptInv,
                      [Next]_<<part, fileVars, permissionVars, changeVars, promptVars, menuVars,
                               settingVars>>
               PROVE  (MenuInv /\ PromptInv)'
    OBVIOUS
  <2>1. [O!Next]_menuVars /\ [E!Next]_promptVars
    BY DEF Next
  <2> QED  BY <2>1, MenuGoesOn, PromptGoesOn
<1>3. MenuInv /\ PromptInv => EnterTakesWhatIsShown
  BY MarkedIsTaken, HighlightedIsTaken DEF EnterTakesWhatIsShown, PromptInv
<1> QED
  BY <1>1, <1>2, <1>3, PTL DEF Spec
=============================================================================
