---------------------------- MODULE DuplicateGuard ----------------------------
(* The memory of one agent's calls (src/harness/processController.js), as    *)
(* runOne of src/agent/loop.js uses it: what was observed, what is pinned    *)
(* for the summary of a compaction, which calls are answered from memory or  *)
(* refused, and when the agent is nudged.                                    *)
(*                                                                           *)
(* Other agents of the task change the workspace at the same time. A change  *)
(* has an effect first and is numbered by the shared ledger when its call    *)
(* returns. `clock` counts the effects; a result carries the count it was    *)
(* taken at, so that it shows every change up to it.                         *)
EXTENDS Integers, Sequences, FiniteSets, SequencesExt

CONSTANTS
  Files,
  Tools,        \* the tools the agent calls
  Window,       \* duplicateWindow
  MaxFailures,  \* maxIdenticalFailures
  Streak,       \* thrashInspectionStreak
  Cooldown,     \* thrashNudgeCooldownSteps
  MaxPeriod,    \* maxPeriod of detectOscillation
  MaxCalls,     \* bound: calls of the agent, and effects before the last one
  MaxClock,     \* bound: changes after which the others change nothing
  None

VARIABLES
  clock, known,   \* effects so far; the last numbered one of each file
  revision,       \* of the ledger
  foreign,        \* a change by another agent that is not numbered yet
  step, pc,       \* the agent's loop
  now,            \* its call and the result of it
  seenRevision,   \* workspaceRevision of the controller
  observations, history, lastMutation,
  pinned, listed, searched,       \* workingSet: the files, and what the oldest
                                  \* listing and search kept there show
  lastNudge,
  own             \* history: the agent's last successful change of each file

ledger == <<clock, known, revision, foreign>>
memory == <<seenRevision, observations, history, lastMutation>>
workingSet == <<pinned, listed, searched>>
vars == <<ledger, step, pc, now, memory, workingSet, lastNudge, own>>

(* Two reads of a whole file with different limits, a read of some lines.    *)
Reads == [tool : {"read"}, file : Files, range : {"whole", "wide", "part"}]
Edits == [tool : {"edit"}, file : Files, range : {None}]
Rest == [tool : {"list", "search", "shell", "agent"}, file : {None}, range : {None}]
Calls == {c \in Reads \cup Edits \cup Rest : c.tool \in Tools}

Idempotent == {"read", "list", "search"}
Mutating == {"edit", "shell"}
Progressing == {"edit", "shell", "agent"}

Touched(c) == CASE c.tool = "edit"  -> {c.file}
                [] c.tool = "shell" -> Files
                [] OTHER            -> {}
Shown(c) == IF c.tool = "read" THEN {c.file} ELSE Files

Init ==
  /\ clock = 0 /\ known = [f \in Files |-> 0] /\ revision = 0 /\ foreign = {}
  /\ step = 1 /\ pc = "idle" /\ now = None
  /\ seenRevision = 0 /\ observations = <<>> /\ history = <<>>
  /\ lastMutation = 0
  /\ pinned = <<>> /\ listed = None /\ searched = None
  /\ lastNudge = 0
  /\ own = [f \in Files |-> 0]

-----------------------------------------------------------------------------
(* What a call finds in memory.                                              *)

Fresh(obs, c) == c \in DOMAIN obs /\ obs[c].step >= lastMutation

(* Whole captures of the file that are still current.                        *)
Captures(obs, c) ==
  {d \in DOMAIN obs \cap Reads :
     d.file = c.file /\ d.range # "part" /\ obs[d].ok /\ obs[d].full
       /\ Fresh(obs, d)}

Latest(obs, calls) ==
  CHOOSE d \in calls : \A e \in calls : obs[e].step <= obs[d].step

Recent(h, n) == SubSeq(h, IF Len(h) > n THEN Len(h) - n + 1 ELSE 1, Len(h))

Repeats(c) ==
  Cardinality({i \in DOMAIN Recent(history, Window) :
     LET item == Recent(history, Window)[i]
     IN  item.call = c /\ item.step >= lastMutation})

(* An agent call has a lane of its own, so nothing in memory is its. What is *)
(* not fresh is answered by another read of the whole file at most.          *)
Allow == [how |-> "allow"]
Remembers(obs, c) ==
  CASE obs[c].ok /\ c.tool \in Idempotent \cup {"shell"} /\ Repeats(c) >= 1 ->
         [how |-> "serve", from |-> obs[c]]
    [] ~obs[c].ok /\ Repeats(c) >= MaxFailures -> [how |-> "refuse", from |-> obs[c]]
    [] OTHER -> Allow
Decision(obs, c) ==
  CASE c.tool = "agent" -> Allow
    [] c.tool # "agent" /\ Fresh(obs, c) -> Remembers(obs, c)
    [] OTHER ->
         IF c.tool = "read" /\ Captures(obs, c) # {}
         THEN [how |-> "serve", from |-> obs[Latest(obs, Captures(obs, c))]] ELSE Allow

(* A revision the controller has not seen empties its memory.                *)
Unsynchronized == observations
Synchronized == IF seenRevision = revision THEN observations ELSE <<>>

(* The answer from memory: the contents are those of the earlier result.     *)
Served(c, decision) ==
  [call |-> c, ok |-> decision.how = "serve", seen |-> decision.from.seen,
   full |-> decision.from.full, reused |-> TRUE]

Bounded == Len(history) + clock < MaxCalls

Begin(c) ==
  /\ pc = "idle"
  /\ Bounded
  /\ LET obs == Synchronized
         decision == Decision(obs, c)
         same == seenRevision = revision
     IN  /\ observations' = obs
         /\ pinned' = IF same THEN pinned ELSE <<>>
         /\ listed' = IF same THEN listed ELSE None
         /\ searched' = IF same THEN searched ELSE None
         /\ IF decision.how = "allow"
            THEN pc' = "runs" /\ now' = [call |-> c]
            ELSE pc' = "record" /\ now' = Served(c, decision)
  /\ seenRevision' = revision
  /\ UNCHANGED <<ledger, step, history, lastMutation, lastNudge, own>>

(* The tool acts. A command is numbered whether it succeeds or not.          *)
Execute ==
  /\ pc = "runs"
  /\ pc' = "record"
  /\ \E ok \in BOOLEAN, full \in BOOLEAN :
       LET c == now.call
           changes == Touched(c) # {} /\ (ok \/ c.tool = "shell")
           tick == IF changes THEN clock + 1 ELSE clock
       IN  /\ full => ok /\ c.tool = "read" /\ c.range # "part"
           /\ c.tool = "read" /\ c.range = "wide" /\ ok => full
           /\ now' = [call |-> c, ok |-> ok, seen |-> tick, full |-> full,
                      reused |-> FALSE]
           /\ clock' = tick
           /\ revision' = IF changes THEN revision + 1 ELSE revision
           /\ known' = [f \in Files |-> IF changes /\ f \in Touched(c)
                                        THEN tick ELSE known[f]]
           /\ own' = [f \in Files |-> IF changes /\ ok /\ f \in Touched(c)
                                      THEN tick ELSE own[f]]
  /\ UNCHANGED <<foreign, step, memory, workingSet, lastNudge>>

-----------------------------------------------------------------------------
(* What is remembered of a result.                                           *)

KeepsFirst == now.reused /\ now.call \in DOMAIN observations

Observed == [step |-> step, ok |-> now.ok, seen |-> now.seen, full |-> now.full]

With(function, key, value) ==
  [k \in DOMAIN function \cup {key} |-> IF k = key THEN value ELSE function[k]]

Without(function, keys) == [k \in DOMAIN function \ keys |-> function[k]]

(* A partial read does not replace a whole one.                              *)
Pinned ==
  LET c == now.call IN
  IF c.tool # "read" \/ ~now.ok \/ (~now.full /\ c.file \in DOMAIN pinned
                                    /\ pinned[c.file].full)
  THEN pinned
  ELSE With(pinned, c.file, [seen |-> now.seen, full |-> now.full])

Oldest(kept, tool) ==
  IF now.call.tool = tool /\ now.ok /\ ~now.reused /\ kept = None
  THEN now.seen ELSE kept

(* Does the result tell of a change this agent made?                         *)
Mutates == now.call.tool \in Mutating /\ now.ok /\ ~now.reused

Pruned(files) == Without(files, Touched(now.call))

Record ==
  /\ pc = "record"
  /\ pc' = "idle" /\ now' = None
  /\ history' = Append(history, [call |-> now.call, step |-> step, ok |-> now.ok,
                                 reused |-> now.reused])
  /\ observations' = IF KeepsFirst THEN observations
                     ELSE With(observations, now.call, Observed)
  /\ pinned' = IF Mutates THEN Pruned(Pinned) ELSE Pinned
  /\ listed' = IF Mutates THEN None ELSE Oldest(listed, "list")
  /\ searched' = Oldest(searched, "search")
  /\ lastMutation' = IF Mutates THEN step ELSE lastMutation
  /\ UNCHANGED <<ledger, step, seenRevision, lastNudge, own>>

-----------------------------------------------------------------------------
(* The end of a step: is the agent told that it goes in circles?             *)

Progress(item) == item.call.tool \in Progressing /\ item.ok /\ ~item.reused

(* A block of different calls that was made twice, without progress.         *)
Oscillates(h, periods) ==
  \E p \in periods :
    /\ Len(h) >= 2 * p
    /\ LET w == Recent(h, 2 * p) IN
         /\ \A i \in DOMAIN w : ~Progress(w[i])
         /\ \E i, j \in 1 .. p : w[i].call # w[j].call
         /\ \A i \in 1 .. p : w[i].call = w[i + p].call

Inspects(item) == item.call.tool \in Idempotent \/ item.reused

(* The longest run of inspections at the end is at least n calls long.       *)
InspectsOnly(h, n) ==
  Len(h) >= n /\ \A i \in Len(h) - n + 1 .. Len(h) : Inspects(h[i])

Nudges ==
  /\ step - lastNudge > Cooldown
  /\ Oscillates(history, 2 .. MaxPeriod) \/ InspectsOnly(history, Streak)

EndStep ==
  /\ pc = "idle"
  /\ history # <<>> /\ history[Len(history)].step = step
  /\ lastNudge' = IF Nudges THEN step ELSE lastNudge
  /\ step' = step + 1
  /\ UNCHANGED <<ledger, pc, now, memory, workingSet, own>>

-----------------------------------------------------------------------------
(* Another agent changes a file; its call returns and the ledger numbers it. *)

Change(f) ==
  /\ foreign = {} /\ clock < MaxClock /\ Bounded
  /\ clock' = clock + 1
  /\ foreign' = {<<f, clock + 1>>}
  /\ UNCHANGED <<known, revision, step, pc, now, memory, workingSet, lastNudge,
                 own>>

Number ==
  /\ \E change \in foreign :
       known' = [known EXCEPT ![change[1]] = IF @ > change[2] THEN @ ELSE change[2]]
  /\ foreign' = {}
  /\ revision' = revision + 1
  /\ UNCHANGED <<clock, step, pc, now, memory, workingSet, lastNudge, own>>

Next ==
  \/ \E c \in Calls : Begin(c)
  \/ Execute \/ Record \/ EndStep
  \/ \E f \in Files : Change(f)
  \/ Number

Spec == Init /\ [][Next]_vars

-----------------------------------------------------------------------------
(* An answer from memory shows every change of what it shows that the ledger *)
(* knew of when the call was made, whoever made the change. The memory is    *)
(* keyed by the agent's own steps, which say nothing of the others; the      *)
(* revision of the ledger is what empties it (synchronizeWorkspaceRevision). *)
MemoryIsCurrent ==
  [][pc = "idle" /\ pc' = "record" =>
       \A f \in Shown(now'.call) : now'.seen >= known[f]]_vars

(* What a compaction would hand to the model as the contents of files and    *)
(* directories is never older than the agent's own last successful change of *)
(* them, though no call may come between the change and the compaction       *)
(* (invalidateAfterMutation).                                                *)
PinnedAfterOwnChange ==
  pc = "idle" => /\ \A f \in DOMAIN pinned : pinned[f].seen >= own[f]
                 /\ listed # None => \A f \in Files : listed >= own[f]

(* The agent is told that it goes in circles only after at least four calls  *)
(* none of which made progress: a loop of edits and test runs is not one     *)
(* (detectOscillation, inspectionStreak).                                    *)
NudgedWithoutProgress ==
  [][lastNudge' # lastNudge =>
       \A i \in Len(history) - 3 .. Len(history) : ~Progress(history[i])]_vars
=============================================================================
