----------------------------- MODULE RunJournal -----------------------------
(* The journal of a run: events are numbered, folded into a projection and   *)
(* appended to a file one behind the other (src/harness/events.js,           *)
(* src/harness/runProjection.js); a checkpoint keeps the projection, and a   *)
(* run that continues folds what the file has beyond it (src/agent/          *)
(* taskRunner.js). Writes fail, processes die, lines are damaged or gone.    *)
(*                                                                           *)
(* Events are those of attempts at the model and snapshots of the usage so   *)
(* far; all others are like an attempt that never ends. Usage is a number.   *)
EXTENDS Integers, Sequences, FiniteSets

CONSTANTS
  MaxEvents,  \* bound: events emitted
  MaxRuns,    \* bound: runs of the task, the first one included
  MaxDamage,  \* bound: lines lost
  None

VARIABLES
  running, runs,           \* is a run on; runs begun
  sequence, projection,    \* of the run: its last number, its projection
  queue, persisted,        \* events to be written; the durable watermark
  gap, missing,            \* what the journal lacks: a write, a history
  usage,                   \* what the run counts
  journal, lost,           \* the file; lines of it that were lost
  saved,                   \* checkpoint
  emitted, spent, refused  \* history: events, the real usage, was an event
                           \* or a journal refused?

run == <<sequence, projection, queue, persisted, gap, missing, usage>>
disk == <<journal, lost, saved>>
history == <<emitted, spent, refused>>
vars == <<running, runs, run, disk, history>>

(* index: the identities of the events folded, with their numbers.           *)
Empty == [watermark |-> 0, index |-> {}, attempts |-> {}, ended |-> {},
          usage |-> 0, source |-> "attempts", measured |-> 0]

Init ==
  /\ running = TRUE /\ runs = 1
  /\ sequence = 0 /\ projection = Empty /\ queue = <<>> /\ persisted = 0
  /\ gap = FALSE /\ missing = FALSE /\ usage = 0
  /\ journal = <<>> /\ lost = 0 /\ saved = None
  /\ emitted = 0 /\ spent = 0 /\ refused = {}

-----------------------------------------------------------------------------
(* The projection.                                                           *)

Acceptable(state, event) ==
  CASE event.kind = "snapshot" -> state.source = "snapshot" => event.usage >= state.usage
    [] event.kind = "start"    -> event.attempt \notin state.attempts
    [] event.kind = "end"      -> event.attempt \in state.attempts \ state.ended

(* Snapshots have the last word on the usage: attempts of workers and of     *)
(* earlier runs are in them.                                                 *)
Apply(state, event) ==
  CASE event.kind = "snapshot" -> [state EXCEPT !.usage = event.usage, !.source = "snapshot"]
    [] event.kind = "start" -> [state EXCEPT !.attempts = @ \cup {event.attempt}]
    [] event.kind = "end" ->
         LET measured == state.measured + event.usage
         IN  [state EXCEPT !.ended = @ \cup {event.attempt}, !.measured = measured,
                           !.usage = IF state.source = "snapshot" THEN @ ELSE measured]

Rejected == [watermark |-> -1]

(* An event that was folded already is skipped.                              *)
Fold(state, event) ==
  IF state = Rejected THEN Rejected
  ELSE IF <<event.id, event.sequence>> \in state.index THEN state
  ELSE IF event.sequence = state.watermark + 1 /\ Acceptable(state, event)
  THEN [Apply(state, event) EXCEPT !.watermark = event.sequence,
                                   !.index = @ \cup {<<event.id, event.sequence>>}]
  ELSE Rejected

FoldRun(state, events) ==
  LET folded[i \in 0 .. Len(events)] ==
        IF i = 0 THEN state ELSE Fold(folded[i - 1], events[i])
  IN  folded[Len(events)]

-----------------------------------------------------------------------------
(* A run emits and writes.                                                   *)

Event(kind, attempt, tokens) ==
  [kind |-> kind, attempt |-> attempt, usage |-> tokens,
   id |-> emitted + 1, sequence |-> sequence + 1]

Accept(event) ==
  LET folded == Fold(projection, event)
  IN  IF folded = Rejected
      THEN /\ gap' = TRUE
           /\ refused' = refused \cup {event.kind}
           /\ UNCHANGED <<sequence, projection, queue>>
      ELSE /\ projection' = folded
           /\ sequence' = event.sequence
           /\ queue' = Append(queue, event)
           /\ UNCHANGED <<gap, refused>>

Emit(event) ==
  /\ running /\ emitted < MaxEvents
  /\ emitted' = emitted + 1
  /\ Accept(event)
  /\ UNCHANGED <<running, runs, persisted, missing, disk>>

StartAttempt ==
  /\ Emit(Event("start", emitted + 1, 0))
  /\ UNCHANGED <<usage, spent>>

EndAttempt ==
  \E attempt \in projection.attempts \ projection.ended, tokens \in 0 .. 1 :
    /\ Emit(Event("end", attempt, tokens))
    /\ usage' = usage + tokens
    /\ spent' = spent + tokens

TakeSnapshot ==
  /\ Emit(Event("snapshot", None, usage))
  /\ UNCHANGED <<usage, spent>>

(* A failed write may have reached the file.                                 *)
Persist ==
  /\ running /\ queue # <<>>
  /\ queue' = Tail(queue)
  /\ \/ /\ journal' = Append(journal, Head(queue))
        /\ persisted' = IF ~gap /\ persisted = Head(queue).sequence - 1
                        THEN Head(queue).sequence ELSE persisted
        /\ UNCHANGED gap
     \/ /\ journal' \in {journal, Append(journal, Head(queue))}
        /\ gap' = TRUE
        /\ UNCHANGED persisted
  /\ UNCHANGED <<running, runs, sequence, projection, missing, usage, lost, saved, history>>

(* A checkpoint follows a snapshot and waits for the queue.                  *)
SaveCheckpoint ==
  /\ running /\ queue = <<>>
  /\ projection.source = "snapshot"
  /\ saved' = [sequence |-> sequence, projection |-> projection, gap |-> gap, usage |-> usage]
  /\ UNCHANGED <<running, runs, run, journal, lost, history>>

Die ==
  /\ running
  /\ running' = FALSE
  /\ sequence' = 0 /\ projection' = Empty /\ queue' = <<>> /\ persisted' = 0
  /\ gap' = FALSE /\ missing' = FALSE /\ usage' = 0
  /\ UNCHANGED <<runs, disk, history>>

Damage ==
  /\ ~running /\ lost < MaxDamage
  /\ \E i \in DOMAIN journal :
       journal' = SubSeq(journal, 1, i - 1) \o SubSeq(journal, i + 1, Len(journal))
  /\ lost' = lost + 1
  /\ UNCHANGED <<running, runs, run, saved, history>>

-----------------------------------------------------------------------------
(* A run continues from a checkpoint.                                        *)

Physical == {journal[i].sequence : i \in DOMAIN journal}
LastPhysical == IF Physical = {} THEN 0 ELSE CHOOSE n \in Physical : \A k \in Physical : k <= n
Contiguous ==
  CHOOSE n \in 0 .. Len(journal) : 1 .. n \subseteq Physical /\ n + 1 \notin Physical

LargerUsage(recorded) ==
  IF recorded.source = "snapshot" /\ recorded.usage > saved.usage
  THEN recorded.usage ELSE saved.usage

Resume ==
  /\ ~running /\ saved # None /\ runs < MaxRuns
  /\ runs' = runs + 1
  /\ LET reconciled == FoldRun(saved.projection, journal)
     IN  IF reconciled = Rejected
         THEN /\ refused' = refused \cup {"journal"}
              /\ UNCHANGED <<running, run>>
         ELSE /\ running' = TRUE
              /\ projection' = reconciled
              /\ sequence' = reconciled.watermark
              /\ persisted' = Contiguous
              /\ missing' = (Contiguous # reconciled.watermark)
              /\ gap' = saved.gap
              /\ usage' = LargerUsage(reconciled)
              /\ UNCHANGED <<queue, refused>>
  /\ UNCHANGED <<disk, emitted, spent>>

Next ==
  \/ StartAttempt \/ EndAttempt \/ TakeSnapshot \/ Persist
  \/ SaveCheckpoint \/ Die \/ Damage \/ Resume

Spec == Init /\ [][Next]_vars

-----------------------------------------------------------------------------
JournalComplete == running /\ ~gap /\ ~missing /\ persisted = sequence

(* A journal that is said to be complete is: the events from the first on,   *)
(* in order and once each, and folding them gives the projection, whatever   *)
(* writes failed and processes died before (status, reconcileRunJournal).    *)
CompleteIsRebuildable ==
  JournalComplete =>
    /\ [i \in DOMAIN journal |-> journal[i].sequence] = [i \in 1 .. sequence |-> i]
    /\ FoldRun(Empty, journal) = projection

(* The usage a task counts is never more than it spent, although it is       *)
(* recorded as differences, snapshots and in checkpoints, and never less     *)
(* than a snapshot said that the journal or the checkpoint has: a later      *)
(* snapshot would be refused (apply, runTaskInner).                          *)
UsageCountedOnce ==
  /\ running => usage <= spent
  /\ refused \subseteq {"journal"}

=============================================================================
