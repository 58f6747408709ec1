------------------------------ MODULE FileTools ------------------------------
(* The tools that change files (src/tools/files.js): edit_file, apply_patch  *)
(* and apply_json_patch as a call that updates one file, write_file, and     *)
(* apply_patch_set, which updates, creates and moves files and takes back    *)
(* what it wrote when a later file fails. Each change is made by a native    *)
(* helper (src/tools/secureFs.c). Others (an editor, a command, another      *)
(* agent) change the files at any time, and the task may be interrupted.     *)
(*                                                                           *)
(* A file is its content and its inode. The read cache is left out: a read   *)
(* compares it with a hash of the file.                                      *)
EXTENDS Integers, Sequences, FiniteSets

CONSTANTS
  Paths,
  MaxEntries,   \* bound: files of a patch set
  MaxCalls,     \* bound: calls
  MaxEdits,     \* bound: changes made by others
  Mode,         \* the permission mode a task starts in
  None

VARIABLES
  files,     \* of each path: its content and inode, or None
  edits,     \* changes made by others
  mode, granted, aborted,   \* the permission state and the signal
  call, calls,   \* the call that runs, and how many were made
  phase, plans, next, written, undo, uncertain, failed,   \* of that call
  result, report,   \* its outcome, and the paths it names as changed
  started, known, edited, raced   \* history of a call: the files before it changed any,
     \* what it read or wrote last, what others changed since (both names of a
     \* file that is moved), and what they changed since a comparison

permission == <<mode, granted>>
progress == <<next, written, undo, uncertain, failed>>
history == <<started, known, edited, raced>>
vars == <<files, edits, permission, aborted, call, calls, phase, plans, progress,
          result, report, history>>

-----------------------------------------------------------------------------
(* Data: a patch fits the old content and one of those an editor leaves.     *)

Contents == {"old", "new", "edited", "merged", "part"}
Patched(content) == CASE content = "old" -> "new"
                      [] content = "edited" -> "merged"
                      [] OTHER -> None

(* A file in the workspace. An inode is named by what made it: a path for    *)
(* those of the start, a number for those of others, the call and the entry  *)
(* for those of a call.                                                      *)
Inodes == {"start", "edit", "call"} \X (Paths \cup {None}) \X Nat \X Nat
Stored == [content : Contents, ino : Inodes]

Entry(action, path, from) == [action |-> action, path |-> path, from |-> from]
Entries == {Entry("update", p, None) : p \in Paths} \cup
           {Entry("create", p, None) : p \in Paths} \cup
           {Entry("move", pair[1], pair[2]) :
              pair \in {pq \in Paths \X Paths : pq[1] # pq[2]}}
Touches(entry) == {entry.path, entry.from} \ {None}

Lists == UNION {[1 .. n -> Entries] : n \in 1 .. MaxEntries}

Sources(entry) == IF entry.action = "move" THEN entry.from ELSE entry.path

-----------------------------------------------------------------------------
(* A plan: for each file what it reads, what it will hold, and the inode the *)
(* change opens or makes. None if a file is missing, is in the way, or does  *)
(* not match. A whole file is written over what it holds, over what the      *)
(* caller expects it to hold, or as a new file.                              *)

Content(path) == IF files[path] = None THEN None ELSE files[path].content

Plan(entry, action, original, content) ==
  [action |-> action, path |-> entry.path, from |-> entry.from,
   original |-> original, content |-> content, ino |-> None]

PlanUpdate(entry) ==
  LET held == Content(entry.path)
  IN  IF held = None \/ Patched(held) = None THEN None
      ELSE Plan(entry, "update", held, Patched(held))
PlanCreate(entry) ==
  IF files[entry.path] # None THEN None ELSE Plan(entry, "create", None, "new")
PlanMove(entry) ==
  LET held == Content(entry.from)
  IN  IF held = None \/ files[entry.path] # None THEN None
      ELSE Plan(entry, "move", held, held)
Mismatch(tool, held) == tool = "expect" /\ held # "old"
PlanWrite(tool, entry) ==
  LET held == Content(entry.path)
  IN  IF Mismatch(tool, held) THEN None
      ELSE Plan(entry, IF held = None THEN "create" ELSE "update", held, "new")

PlanFile(tool, entry) ==
  CASE entry.action = "update" -> PlanUpdate(entry)
    [] entry.action = "create" -> PlanCreate(entry)
    [] entry.action = "move" -> PlanMove(entry)
    [] entry.action = "write" -> PlanWrite(tool, entry)

(* No path twice in a set, as a file or as the source of a move.             *)
Repeated(list) ==
  \E i, j \in DOMAIN list : i # j /\ Touches(list[i]) \cap Touches(list[j]) # {}

PlanSet(tool, list) ==
  LET planned == [i \in DOMAIN list |-> PlanFile(tool, list[i])]
  IN  IF Repeated(list) \/ \E i \in DOMAIN list : planned[i] = None THEN None
      ELSE planned

-----------------------------------------------------------------------------
(* Of the paths, each holds an old file or none.                             *)
OldFile(p) == [content |-> "old", ino |-> <<"start", p, 0, 0>>]

Init ==
  /\ \E present \in SUBSET Paths :
       files = [p \in Paths |-> IF p \in present THEN OldFile(p) ELSE None]
  /\ edits = 0
  /\ mode = Mode /\ granted = FALSE /\ aborted = FALSE
  /\ call = None /\ calls = 0
  /\ phase = "idle" /\ plans = <<>>
  /\ next = 1 /\ written = 0 /\ undo = 0 /\ uncertain = FALSE /\ failed = FALSE
  /\ result = None /\ report = {}
  /\ started = files /\ known = files /\ edited = {} /\ raced = {}

Return(outcome, paths) ==
  /\ phase' = "idle"
  /\ result' = outcome
  /\ report' = paths

Named(list) == UNION {Touches(list[i]) : i \in DOMAIN list}

Start(c) ==
  /\ phase = "idle" /\ calls < MaxCalls
  /\ call' = c
  /\ calls' = calls + 1
  /\ next' = 1 /\ written' = 0 /\ undo' = 0 /\ uncertain' = FALSE /\ failed' = FALSE
  /\ LET planned == PlanSet(c.tool, c.files)
     IN  IF aborted \/ planned = None \/ mode = "read-only"
         THEN Return("refused", {}) /\ plans' = <<>>
         ELSE phase' = "asks" /\ plans' = planned /\ result' = None /\ report' = {}
  /\ started' = files /\ known' = files /\ edited' = {} /\ raced' = {}
  /\ UNCHANGED <<files, edits, permission, aborted>>

One(action, p) == <<Entry(action, p, None)>>
EditFile(p) == Start([tool |-> "patch", files |-> One("update", p)])
ApplyStructuredPatch(p) == Start([tool |-> "patch", files |-> One("update", p)])
ApplyJsonPatch(p) == Start([tool |-> "patch", files |-> One("update", p)])
WriteWorkspaceFile(p) ==
  \E tool \in {"write", "expect"} : Start([tool |-> tool, files |-> One("write", p)])
ApplyStructuredPatchSet(list) == Start([tool |-> "set", files |-> list])

(* The user is asked unless the mode, or an answer given before, decides.    *)
Approved == mode = "workspace-write" \/ (mode = "ask-once" /\ granted)

Ask ==
  /\ phase = "asks"
  /\ \/ /\ Approved /\ ~aborted
        /\ phase' = "replans"
        /\ UNCHANGED <<permission, result, report>>
     \/ /\ ~Approved /\ ~aborted
        /\ \E answer \in {"approve", "always"} :
             /\ mode' = IF answer = "always" THEN "workspace-write" ELSE mode
             /\ granted' = (granted \/ answer = "always" \/ mode = "ask-once")
        /\ phase' = "replans"
        /\ UNCHANGED <<result, report>>
     \/ /\ aborted \/ ~Approved
        /\ Return("refused", {})
        /\ UNCHANGED permission
  /\ UNCHANGED <<files, edits, aborted, call, calls, plans, progress, history>>

(* The plan is made again from the files as they are now. A new file is      *)
(* written as planned; one overwritten without an expectation must not have  *)
(* changed since the first plan.                                             *)
Fresh ==
  LET planned == PlanSet(call.tool, call.files)
  IN  CASE call.tool = "write" /\ plans[1].action = "create" -> plans
        [] /\ call.tool = "write" /\ plans[1].action # "create"
          /\ planned[1].original # plans[1].original -> None
        [] OTHER -> planned

Replan ==
  /\ phase = "replans"
  /\ IF Fresh = None
     THEN Return("refused", {}) /\ UNCHANGED plans
     ELSE phase' = "checks" /\ plans' = Fresh /\ UNCHANGED <<result, report>>
  /\ started' = files /\ known' = files /\ edited' = {} /\ raced' = {}
  /\ UNCHANGED <<files, edits, permission, aborted, call, calls, progress>>

-----------------------------------------------------------------------------
(* One file after the other. A call on one file that fails returns; a set    *)
(* turns to taking back what it wrote.                                       *)

plan == plans[next]

Fails(unsure) ==
  /\ uncertain' = unsure
  /\ IF call.tool = "set"
     THEN phase' = "undoes" /\ undo' = written /\ UNCHANGED <<result, report>>
     ELSE Return("failed", IF unsure THEN {plan.path} ELSE {}) /\ UNCHANGED undo
  /\ UNCHANGED <<plans, next, written, failed>>

Goes(step) ==
  /\ phase' = step
  /\ UNCHANGED <<plans, progress, result, report>>

(* The tool reads the file again, unless it creates it.                      *)
StillCurrent(p) == p.action = "create" \/ Content(Sources(p)) = p.original

Check ==
  /\ phase = "checks"
  /\ IF aborted \/ (call.tool = "set" /\ ~StillCurrent(plan))
     THEN Fails(FALSE) ELSE Goes("compares")
  /\ UNCHANGED <<files, edits, permission, aborted, call, calls, history>>

(* The helper compares what it opened, a file with one name, and changes it. *)
(* Others may come in between. It opens a new file only to fill it.          *)
Names(ino) == {p \in Paths : files[p] # None /\ files[p].ino = ino}
HoldsAny(path, content, ino) == files[path] # None
Holds(path, content, ino) ==
  /\ files[path] # None
  /\ files[path].content = content
  /\ ino \in {None, files[path].ino}
  /\ Cardinality(Names(files[path].ino)) = 1

Compare ==
  /\ phase = "compares"
  /\ raced' = {}
  /\ \/ /\ ~aborted
        /\ plan.action # "create" => Holds(Sources(plan), plan.original, None)
        /\ phase' = "mutates"
        /\ plans' = [plans EXCEPT ![next].ino =
                       IF plan.action = "create" THEN <<"call", None, calls, next>>
                       ELSE files[Sources(plan)].ino]
        /\ UNCHANGED <<progress, result, report>>
     \/ Fails(FALSE)
  /\ UNCHANGED <<files, edits, permission, aborted, call, calls, started, known, edited>>

(* What the helper does to the files: an open file is written, under its     *)
(* name or under none any more; a name is linked unless it is taken, and the *)
(* other one is removed.                                                     *)
Writes(path, content, ino) ==
  files' = IF files[path] # None /\ files[path].ino = ino
           THEN [files EXCEPT ![path].content = content] ELSE files
Creates(path, content, ino) ==
  /\ files[path] = None
  /\ files' = [files EXCEPT ![path] = [content |-> content, ino |-> ino]]
Renames(from, to) ==
  /\ files[from] # None /\ files[to] = None
  /\ files' = [files EXCEPT ![from] = None, ![to] = files[from]]
Links(from, to) ==
  /\ files[from] # None /\ files[to] = None
  /\ files' = [files EXCEPT ![to] = files[from]]
Unlinks(path) == files' = [files EXCEPT ![path] = None]

Succeeds(p) ==
  CASE p.action = "update" -> Writes(p.path, p.content, p.ino)
    [] p.action = "create" -> Creates(p.path, p.content, p.ino)
    [] p.action = "move" -> Renames(p.from, p.path)
Breaks(p) ==
  \/ Succeeds(p)
  \/ CASE p.action = "update" -> Writes(p.path, "part", p.ino)
       [] p.action = "create" -> Creates(p.path, "part", p.ino)
       [] p.action = "move" -> Links(p.from, p.path)

Learns(path, content, ino) == [known EXCEPT ![path] = [content |-> content, ino |-> ino]]

Mutate ==
  /\ phase = "mutates"
  /\ \/ /\ Succeeds(plan)
        /\ known' = [Learns(plan.path, plan.content, plan.ino) EXCEPT
                       ![Sources(plan)] = IF plan.action = "move" THEN None ELSE @]
        /\ Goes("settles")
     \/ Breaks(plan) /\ Fails(TRUE) /\ UNCHANGED known
     \/ \E unsure \in BOOLEAN : Fails(unsure) /\ UNCHANGED <<files, known>>
  /\ UNCHANGED <<edits, permission, aborted, call, calls, started, edited, raced>>

(* What is written counts before the signal is looked at again.              *)
Settle ==
  /\ phase = "settles"
  /\ written' = next
  /\ CASE call.tool = "set" /\ aborted ->
            phase' = "undoes" /\ undo' = written' /\ UNCHANGED <<next, result, report>>
       [] ~(call.tool = "set" /\ aborted) /\ next = Len(plans) ->
            Return("ok", Named(plans)) /\ UNCHANGED <<next, undo>>
       [] OTHER ->
            phase' = "checks" /\ next' = next + 1 /\ UNCHANGED <<undo, result, report>>
  /\ UNCHANGED <<files, edits, permission, aborted, call, calls, plans, uncertain,
                 failed, history>>

-----------------------------------------------------------------------------
(* Taking back, the last file first, whatever the signal says. A file that   *)
(* was created or moved must be the one the call produced.                   *)

taken == plans[undo]

Misses ==
  /\ failed' = TRUE
  /\ undo' = undo - 1
  /\ phase' = "undoes"

UndoHolds(p) ==
  Holds(p.path, p.content, IF p.action = "update" THEN None ELSE p.ino)

UndoCompare ==
  /\ phase = "undoes" /\ undo > 0
  /\ raced' = {}
  /\ \/ /\ UndoHolds(taken)
        /\ phase' = "restores"
        /\ plans' = [plans EXCEPT ![undo].ino = files[taken.path].ino]
        /\ UNCHANGED <<undo, failed>>
     \/ Misses /\ UNCHANGED plans
  /\ UNCHANGED <<files, edits, permission, aborted, call, calls, next, written,
                 uncertain, result, report, started, known, edited>>

Restores(p) ==
  CASE p.action = "update" -> Writes(p.path, p.original, p.ino)
    [] p.action = "create" -> Unlinks(p.path)
    [] p.action = "move" -> Renames(p.path, p.from)
RestoreBreaks(p) ==
  \/ Restores(p)
  \/ CASE p.action = "update" -> Writes(p.path, "part", p.ino)
       [] p.action = "create" -> UNCHANGED files
       [] p.action = "move" -> Links(p.path, p.from)

Restore ==
  /\ phase = "restores"
  /\ \/ /\ Restores(taken)
        /\ phase' = "undoes" /\ undo' = undo - 1
        /\ UNCHANGED failed
     \/ (RestoreBreaks(taken) \/ UNCHANGED files) /\ Misses
  /\ UNCHANGED <<edits, permission, aborted, call, calls, plans, next, written,
                 uncertain, result, report, history>>

Unsure(list, n) == Named(SubSeq(list, 1, IF uncertain THEN n + 1 ELSE n))

RolledBack ==
  /\ phase = "undoes" /\ undo = 0
  /\ IF failed \/ uncertain
     THEN Return("rollback failed", Unsure(plans, written))
     ELSE Return("rolled back", {})
  /\ UNCHANGED <<files, edits, permission, aborted, call, calls, plans, progress,
                 history>>

-----------------------------------------------------------------------------
(* Others write a file in place, replace it, create one or remove one.       *)
Beside(p) == {p} \cup 
  UNION {Touches(plans[i]) : i \in {j \in DOMAIN plans : p \in Touches(plans[j])}}

Edit(p) ==
  /\ edits < MaxEdits
  /\ edits' = edits + 1
  /\ \/ \E content \in {"old", "new", "edited"}, ino \in {None, <<"edit", None, edits, 0>>} :
          /\ files[p] = None => ino # None
          /\ files' = [files EXCEPT ![p] = [content |-> content,
                         ino |-> IF ino = None THEN files[p].ino ELSE ino]]
     \/ files[p] # None /\ Unlinks(p)
  /\ edited' = edited \cup Beside(p)
  /\ raced' = raced \cup {p}
  /\ UNCHANGED <<permission, aborted, call, calls, phase, plans, progress, result,
                 report, started, known>>

Abort ==
  /\ ~aborted
  /\ aborted' = TRUE
  /\ UNCHANGED <<files, edits, permission, call, calls, phase, plans, progress, result,
                 report, history>>

Next ==
  \/ \E p \in Paths : \/ EditFile(p) \/ ApplyStructuredPatch(p) \/ ApplyJsonPatch(p)
                       \/ WriteWorkspaceFile(p)
  \/ \E list \in Lists : ApplyStructuredPatchSet(list)
  \/ Ask \/ Replan
  \/ Check \/ Compare \/ Mutate \/ Settle
  \/ UndoCompare \/ Restore \/ RolledBack
  \/ \E p \in Paths : Edit(p)
  \/ Abort

Spec == Init /\ [][Next]_vars

-----------------------------------------------------------------------------
(* When a call has ended, each file is as it was before the call changed     *)
(* anything, unless the call names it or others changed it: a set that says  *)
(* it was rolled back left no trace, one that was cut off names all it may   *)
(* have left.                                                                *)
TellsWhatChanged ==
  phase = "idle" =>
    \A p \in Paths \ (edited \cup report) : files[p] = started[p]

(* What others wrote is lost to a call only if they write it between the     *)
(* comparison and the change the helper makes; a file taken back or moved    *)
(* back is the very one the call made.                                       *)
OthersKept ==
  [][(phase \in {"mutates", "restores"} /\ UNCHANGED edits) =>
       \A p \in Paths :
         \/ files'[p] = files[p] \/ p \in raced
         \/ files[p] = None
         \/ /\ known[p] # None /\ files[p].content = known[p].content
            /\ \/ phase = "mutates" \/ files'[p] # None
               \/ files[p].ino = known[p].ino]_vars
=============================================================================
