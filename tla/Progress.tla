------------------------------- MODULE Progress -------------------------------
(* When a task counts as stalled: so many steps in a row whose calls only    *)
(* repeat what they were answered before (the end of a step in               *)
(* src/agent/loop.js, src/harness/workspaceFingerprint.js). Files change by  *)
(* the calls of the task alone; a job in the background is not looked at.    *)
EXTENDS Integers, Sequences, FiniteSetsExt

CONSTANTS Files, Commands, Statuses,
          Limit,       \* steps in a row (4)
          MaxBatch,    \* bounds: calls of a step, changes of files
          MaxChanges,
          None

VARIABLES content,   \* file -> what stands in it
          visible,   \* the latest change of a file Git shows or the task names
          revision,  \* file changes in the effects of the run
          ledger,    \* call -> what is known of its last run
          batch,     \* the calls of this step, with their outcomes
          streak, stopped,
          told,      \* what the model was ever answered: <<call, outcome>>
          news,      \* this step changed a visible file or was answered something new
          quiet      \* steps in a row without news
vars == <<content, visible, revision, ledger, batch, streak, stopped, told, news, quiet>>

Read(file) == <<"read_file", file>>
Write(file) == <<"write_file", file>>
Run(command) == <<"run_shell", command>>
Calls == {Read(file) : file \in Files} \cup {Write(file) : file \in Files}
           \cup {Run(command) : command \in Commands}

Init ==
  /\ content = [file \in Files |-> 0] /\ visible = 0 /\ revision = 0
  /\ ledger = [call \in Calls |-> None] /\ batch = <<>> /\ streak = 0 /\ stopped = FALSE
  /\ told = {} /\ news = FALSE /\ quiet = 0

-----------------------------------------------------------------------------
(* The calls of a step, one after the other.                                 *)
Answered(call, outcome, reused) ==
  /\ ~stopped /\ Len(batch) < MaxBatch
  /\ batch' = Append(batch, [call |-> call, outcome |-> outcome, reused |-> reused])
  /\ told' = told \cup {<<call, outcome>>}
  /\ news' = (news \/ told' # told \/ visible' # visible)
  /\ UNCHANGED <<ledger, streak, stopped, quiet>>
Unchanged == UNCHANGED <<content, visible>>
Changes(file) ==
  /\ visible < MaxChanges /\ visible' = visible + 1
  /\ content' = [content EXCEPT ![file] = 1 - @]

ReadFile(file) ==
  /\ Unchanged /\ Answered(Read(file), content[file], FALSE) /\ UNCHANGED revision
ReadAgain(file) ==  \* ALREADY_AVAILABLE, see DuplicateGuard
  /\ <<Read(file), content[file]>> \in told
  /\ Unchanged /\ Answered(Read(file), content[file], TRUE) /\ UNCHANGED revision
WriteFile(file) ==
  /\ Changes(file) /\ revision' = revision + 1
  /\ Answered(Write(file), "written", FALSE)
(* Whatever a command writes is no file change among the effects.            *)
RunCommand(command, status) ==
  /\ Unchanged \/ \E file \in Files : Changes(file)
  /\ Answered(Run(command), status, FALSE) /\ UNCHANGED revision

-----------------------------------------------------------------------------
(* The end of a step: each call against the last that was the same, of this  *)
(* step or of an earlier one. The workspace is measured after all of them,   *)
(* for each command anew, and may be too large or out of reach.              *)
Unknown == -1
Measured == {visible, Unknown}
Entry(i, measured) ==
  [revision |-> revision, outcome |-> batch[i].outcome, fingerprint |-> measured[i]]
SameIfMeasured(prior, entry) == prior.fingerprint = entry.fingerprint
SameWorkspace(prior, entry) ==
  /\ prior.fingerprint # Unknown /\ entry.fingerprint # Unknown
  /\ prior.fingerprint = entry.fingerprint

Repeats(prior, entry, tool) ==
  IF prior = None THEN FALSE
  ELSE /\ prior.revision = entry.revision /\ prior.outcome = entry.outcome
       /\ tool = "run_shell" => SameWorkspace(prior, entry)

Runs(call) == {i \in 1 .. Len(batch) : ~batch[i].reused /\ batch[i].call = call}
Latest(call, runs, measured) ==
  IF runs = {} THEN ledger[call] ELSE Entry(Max(runs), measured)
Prior(i, measured) ==
  Latest(batch[i].call, {j \in Runs(batch[i].call) : j < i}, measured)
Judge(i, measured) ==
  batch[i].reused \/ Repeats(Prior(i, measured), Entry(i, measured), batch[i].call[1])

EndStep(measured) ==
  /\ batch # <<>> /\ batch' = <<>>
  /\ ledger' = [call \in Calls |-> Latest(call, Runs(call), measured)]
  /\ streak' = IF \A i \in 1 .. Len(batch) : Judge(i, measured) THEN streak + 1 ELSE 0
  /\ stopped' = (streak' >= Limit)
  /\ quiet' = IF news THEN 0 ELSE IF quiet < Limit THEN quiet + 1 ELSE quiet
  /\ news' = FALSE
  /\ UNCHANGED <<content, visible, revision, told>>

(* /continue: a new run, which has its messages and effects but no ledger.   *)
Continue ==
  /\ stopped /\ stopped' = FALSE /\ streak' = 0
  /\ ledger' = [call \in Calls |-> None]
  /\ UNCHANGED <<content, visible, revision, batch, told, news, quiet>>

Next ==
  \/ \E file \in Files : ReadFile(file) \/ ReadAgain(file) \/ WriteFile(file)
  \/ \E command \in Commands, status \in Statuses : RunCommand(command, status)
  \/ \E measured \in [1 .. Len(batch) -> Measured] : EndStep(measured)
  \/ Continue

Spec == Init /\ [][Next]_vars

-----------------------------------------------------------------------------
(* A task is stopped as stalled only when in all those steps no file of the  *)
(* workspace changed, by a tool or behind a command's back, and no answer    *)
(* was new (README.md:323; repeatsEarlierObservation).                       *)
StalledMeansQuiet == stopped => quiet >= Limit
=============================================================================
