----------------------------- MODULE MCSession -----------------------------
(* What is kept for a session, from task to task and from process to         *)
(* process: seven parts that are checked side by side, in each behaviour the *)
(* one that Init picks.                                                      *)
EXTENDS SessionHistory, TLC

CONSTANTS
  Parts,      \* those that are checked
  Processes, SegmentSize,     \* of the files of a task
  MaxRecords, MaxContexts,
  Stores, Private, Secrets,   \* of the outputs of tools
  MaxBytes, Retention, MaxSaves, MaxTime,
  Kinds, Texts,               \* of the memory of a project
  MaxItems, MaxShown, MaxMoments, MaxEnded,
  MaxConversations, MaxAsked, \* bounds: conversations of the loop, turns asked in them
  MaxTasks,                   \* bound: tasks whose outcome is told
  MaxEvents, MaxRuns, MaxDamage   \* bounds of the journal

ASSUME FilesAssumption ==
  /\ SegmentSize \in Nat \ {0}
  /\ None \notin [run : Nat, context : Nat, records : Nat]
  /\ None \notin [run : Nat, pid : Processes]
ASSUME OutputsAssumption ==
  /\ {MaxBytes, Retention, MaxSaves, MaxTime} \subseteq Nat
  /\ None \notin Stores /\ "disk" \notin Stores
ASSUME ConversationsAssumption ==
  /\ MaxConversations \in Nat /\ MaxAsked \in Nat
  /\ \A known \in SUBSET (1 .. MaxAsked) : known # None
ASSUME OutcomeAssumption == None \notin Nat /\ None # "completed"

ASSUME MemoryAssumption == {MaxItems, MaxShown, MaxMoments, MaxEnded} \subseteq Nat

VARIABLES
  part,
  \* files of a task
  owner, checkpoint, segments, marker, contexts, phase, task, cursor, doomed, untouched,
  \* outcome of a task
  private, pc, run, tasks, status, outcome, plugins, jobs, claimed, outputs, resumable,
  ends, record, noticed, snapshot, aborted, timedOut,
  \* journal of its runs
  running, runs, sequence, projection, queue, persisted, gap, missing, usage, journal,
  lost, saved, emitted, spent, refused,
  \* outputs of tools
  now, lock, records, registered, disposed, storing, progress, saves, shown,
  \* conversations
  ephemeral, sessions, turns, stored, markers, checkpoints, owners, doing, active, menu,
  chosen, gone, home,
  \* memory of a project
  document, time, ended

F == INSTANCE SessionFiles WITH Careful <- TRUE
O == INSTANCE TaskOutcome WITH owner <- claimed, checkpoint <- resumable
J == INSTANCE RunJournal
T == INSTANCE ToolOutputs WITH
  saving <- storing, phase <- progress, Owner <- [s \in Stores |-> s]
C == INSTANCE Conversations WITH
  Processes <- Procs, owner <- owners, phase <- doing,
  MaxSessions <- MaxConversations, MaxTurns <- MaxAsked
M == INSTANCE ProjectMemory WITH
  now <- time, MaxTime <- MaxMoments

SessionInit ==
  /\ part \in Parts
  /\ Init /\ F!Init /\ O!Init /\ J!Init /\ T!Init /\ C!Init /\ M!Init
  /\ private => part = "outcome"
  /\ ephemeral => part = "conversations"
  /\ (\E kind \in Kinds : document[kind] # <<>>) => part = "memory"

filesVars == <<owner, checkpoint, segments, marker, contexts, phase, task, cursor, doomed,
               untouched>>
outcomeVars == <<private, pc, run, tasks, status, outcome, plugins, jobs, claimed, outputs,
                 resumable, ends, record, noticed, snapshot, aborted, timedOut>>
journalVars == <<running, runs, sequence, projection, queue, persisted, gap, missing, usage,
                 journal, lost, saved, emitted, spent, refused>>
outputsVars == <<now, lock, records, registered, disposed, storing, progress, saves, shown>>
conversationsVars == <<ephemeral, sessions, turns, stored, markers, checkpoints, owners,
                       doing, active, menu, chosen, gone, home>>
memoryVars == <<document, time, ended>>

SessionNext ==
  /\ UNCHANGED part
  /\ IF part = "history" THEN Next ELSE UNCHANGED vars
  /\ IF part = "files" THEN F!Next ELSE UNCHANGED filesVars
  /\ IF part = "outcome" THEN O!Next ELSE UNCHANGED outcomeVars
  /\ IF part = "journal" THEN J!Next ELSE UNCHANGED journalVars
  /\ IF part = "outputs" THEN T!Next ELSE UNCHANGED outputsVars
  /\ IF part = "conversations" THEN C!Next ELSE UNCHANGED conversationsVars
  /\ IF part = "memory" THEN M!Next ELSE UNCHANGED memoryVars

SessionSpec ==
  SessionInit /\ [][SessionNext]_<<part, vars, filesVars, outcomeVars, journalVars,
                                   outputsVars, conversationsVars, memoryVars>>

Alike == Permutations(Processes)

-----------------------------------------------------------------------------
(* What processes with stale copies save in one session keeps its turns: a   *)
(* turn has one number, a saved turn stays or was trimmed for room, nothing  *)
(* that was trimmed or deleted returns; and what the user demanded is told,  *)
(* if the file always has room for more than the live turns (save,           *)
(* mergeSession and compactSession of session/store.js).                     *)
TurnsKept ==
  /\ OneNumberPerTurn /\ SavedTurnsKept /\ TrimmedForGood /\ DeletedForGood /\ ArtifactsKept
  /\ (\A room \in Rooms : room > Recent) => DemandsKept

(* One process at a time runs the session's task, and what it writes as a    *)
(* checkpoint can be read back (claimTaskOwner, archiveRunState).            *)
OneTaskAtATime == []F!OneTask /\ F!ReferencesSealed

(* A task is told, recorded and left behind as it ended, whatever failed     *)
(* while it was set up, ended and cleaned up (agent/taskRunner.js).          *)
ToldAsItIs == O!ToldAsItIs

(* A journal that is said to be complete gives back the run, and the usage   *)
(* it counts is what was spent, over failed writes, lost lines and           *)
(* processes that died (harness/events.js, harness/runProjection.js).        *)
JournalIsTheRun == J!CompleteIsRebuildable /\ J!UsageCountedOnce

(* An output a task was told to read later can be read, whole, until it      *)
(* expires, whatever other tasks save (storage/toolOutputs.js).              *)
ReferencesStayReadable == T!TypeOK /\ T!ReferencesStayReadable

(* A deleted conversation does not come back, and a turn stands in the       *)
(* conversation it was asked in (cli.js, session/store.js).                  *)
DeletedIsGone == C!DeletedIsGone

(* What is remembered of a project is found under the identity a user was    *)
(* shown until it is removed, and the latest of it is told (projectMemory.js).*)
MemoryIsKept == [](M!OneItemPerId /\ M!TheLatestIsTold) /\ M!FoundUntilRemoved
=============================================================================
