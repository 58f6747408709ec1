------------------------------ MODULE ChangeSet ------------------------------
(* What a task has changed in a file, and the decisions to accept or undo it *)
(* as a whole or hunk by hunk (createChangeSet in src/workspace/changes.js). *)
(* The task, the user's editor and a command `changes` run beside each       *)
(* other; the command may die at any step, its lock then being free again.   *)
(*                                                                           *)
(* A file is the text in it, or None. Every line of the task and of the file *)
(* as it was is another character, so that a set of characters tells which   *)
(* lines a text has; the user types UserChar anywhere. Modes, binary files,  *)
(* links and the limits of a snapshot are left out.                          *)
EXTENDS Hunks

CONSTANTS
  Original,     \* the file as the task finds it
  TaskTexts,    \* what the task may write
  UserChar,
  MaxEdits, MaxDecisions,   \* bounds
  Whole         \* no hunk is named

VARIABLES
  disk,
  before, after,   \* as saved: what is not in question, and what the task made of it
  sampled,         \* the sample of a capture that waits for the lock, or None
  command,         \* the decision that runs, or None
  edits, decisions,
  agreed,          \* history: the lines of the file and what was accepted since
  raced            \* history: the file changed since the command last compared it

saved == <<before, after>>
vars == <<disk, saved, sampled, command, edits, decisions, agreed, raced>>

-----------------------------------------------------------------------------
Text(entry) == IF entry = None THEN <<>> ELSE entry
LinesOf(entry) == Range(Text(entry)) \ {UserChar, Newline}
Typed(entry) == Cardinality({i \in DOMAIN Text(entry) : Text(entry)[i] = UserChar})

Pick(hunks, chosen) ==
  IF chosen = Whole THEN hunks
  ELSE LET order == SetToSortSeq(chosen, <) IN [k \in DOMAIN order |-> hunks[order[k]]]
Picked == Pick(LineHunks(Text(before), Text(after)), command.chosen)

-----------------------------------------------------------------------------
Init ==
  /\ disk = Original /\ before = Original /\ after = Original
  /\ sampled = None /\ command = None
  /\ edits = 0 /\ decisions = 0
  /\ agreed = LinesOf(Original) /\ raced = FALSE

Changes(text) == disk' = text /\ edits' = edits + 1 /\ raced' = TRUE

TaskWrites ==
  /\ edits < MaxEdits
  /\ \E text \in TaskTexts : text # disk /\ Changes(text)
  /\ UNCHANGED <<saved, sampled, command, decisions, agreed>>

UserTypes ==
  /\ edits < MaxEdits /\ disk # None
  /\ \E i \in 0 .. Len(disk) : Changes(InsertAt(disk, i + 1, UserChar))
  /\ UNCHANGED <<saved, sampled, command, decisions, agreed>>

(* A capture samples the files first and waits for the lock with that.       *)
Sample ==
  /\ sampled = None /\ sampled' = [text |-> disk]
  /\ UNCHANGED <<disk, saved, command, edits, decisions, agreed, raced>>
Capture ==
  /\ sampled # None /\ command = None
  /\ after' = sampled.text /\ sampled' = None
  /\ UNCHANGED <<disk, before, command, edits, decisions, agreed, raced>>

(* The command loads what is saved and reads the file.                       *)
Selections == {Whole} \cup (SUBSET DOMAIN LineHunks(Text(before), Text(after)) \ {{}})
Decide ==
  /\ command = None /\ decisions < MaxDecisions /\ before # after
  /\ \E action \in {"accept", "undo"}, chosen \in Selections :
       command' = [action |-> action, chosen |-> chosen, phase |-> "reading",
                   current |-> None, target |-> None, before |-> before, after |-> after]
  /\ decisions' = decisions + 1
  /\ UNCHANGED <<disk, saved, sampled, edits, agreed, raced>>

GoTo(phase, changes) ==
  command' = changes @@ [command EXCEPT !.phase = phase]

(* Undone: the file as it was if it is as the task left it, else the hunks   *)
(* are looked for in what it is now.                                         *)
Target ==
  IF command.chosen = Whole /\ disk = after THEN [text |-> Text(before)]
  ELSE [text |-> ApplyHunks(Text(disk), Picked, TRUE)]

Accepted == ApplyHunks(Text(before), Picked, FALSE)

Conflict ==
  \/ command.action = "accept" /\ disk # after
  \/ command.action = "accept" /\ command.chosen # Whole /\ Accepted = None
  \/ command.action = "undo" /\ Target.text = None

Read ==
  /\ command # None /\ command.phase = "reading"
  /\ \/ Conflict /\ GoTo("saving", <<>>)
     \/ /\ ~Conflict /\ command.action = "accept"
        /\ GoTo("saving", [before |-> IF command.chosen = Whole THEN after ELSE Accepted])
     \/ /\ ~Conflict /\ command.action = "undo"
        /\ GoTo("comparing", [current |-> disk, target |-> Target.text])
  /\ raced' = FALSE
  /\ UNCHANGED <<disk, saved, sampled, edits, decisions, agreed>>

SameAnyhow == TRUE   \* what was read is taken for what is there
SameAsRead == disk = command.current

(* Compared once more right before the file is written.                      *)
Compare ==
  /\ command # None /\ command.phase = "comparing"
  /\ IF SameAsRead THEN GoTo("writing", <<>>) ELSE GoTo("saving", <<>>)
  /\ raced' = FALSE
  /\ UNCHANGED <<disk, saved, sampled, edits, decisions, agreed>>

Undone ==
  IF command.chosen = Whole THEN before ELSE ApplyHunks(Text(after), Picked, TRUE)
Write ==
  /\ command # None /\ command.phase = "writing"
  /\ disk' = IF before = None /\ command.chosen = Whole /\ command.target = <<>>
             THEN None ELSE command.target
  /\ IF Undone = None /\ command.chosen # Whole THEN GoTo("saving", <<>>)
                                              ELSE GoTo("saving", [after |-> Undone])
  /\ UNCHANGED <<saved, sampled, edits, decisions, agreed, raced>>

(* The decisions are kept, whatever came of them.                            *)
AgreedNow ==
  LET gone == UNION {LinesOf(Picked[k].before.text) : k \in DOMAIN Picked}
      new == UNION {LinesOf(Picked[k].after.text) : k \in DOMAIN Picked}
  IN  IF command.before = before THEN agreed ELSE (agreed \ gone) \cup new
Save ==
  /\ command # None /\ command.phase = "saving"
  /\ before' = command.before /\ after' = command.after /\ command' = None
  /\ agreed' = AgreedNow
  /\ UNCHANGED <<disk, sampled, edits, decisions, raced>>

(* The process of the command dies.                                          *)
Die ==
  /\ command # None /\ command' = None
  /\ UNCHANGED <<disk, saved, sampled, edits, decisions, agreed, raced>>

Next ==
  \/ TaskWrites \/ UserTypes \/ Sample \/ Capture
  \/ Decide \/ Read \/ Compare \/ Write \/ Save \/ Die

Spec == Init /\ [][Next]_vars

-----------------------------------------------------------------------------
Writes ==
  /\ command # None /\ command.phase = "writing" /\ ~raced
  /\ command' # None /\ command'.phase = "saving"

(* An undo takes away nothing of what the user typed, but what a capture     *)
(* took for the task's; and a whole one brings back the lines that were      *)
(* there or were accepted since and takes away the task's others and no line *)
(* written after the capture, whatever decisions, captures and deaths came   *)
(* before (decide).                                                          *)
UndoTouchesTheTasksOnly ==
  [][Writes =>
       /\ Typed(disk') >= Typed(disk) - Typed(after)
       /\ command.chosen = Whole =>
            LinesOf(disk') = (LinesOf(disk) \ (LinesOf(after) \ agreed))
                               \cup (agreed \ LinesOf(after))]_vars

(* A drift that overlaps what is undone is a conflict (README.md:456): a     *)
(* line of a hunk that the user typed into is not found.  The code does not  *)
(* keep this; no run checks it.                                              *)
OverlapIsConflict ==
  [][Writes =>
       \A k \in DOMAIN Picked :
         \A line \in Range(Lines(Picked[k].after.text)) : line \in Range(Lines(Text(disk)))]_vars
=============================================================================
