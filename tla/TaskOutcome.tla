---------------------------- MODULE TaskOutcome ----------------------------
(* How a task is set up, ended, cleaned up and reported (runTask and         *)
(* runTaskInner of src/agent/taskRunner.js around the agent's run, which is  *)
(* TaskRun's): each wait of it may fail, and what it holds by then is to be  *)
(* given back: plugins, a private directory of jobs, the session, outputs.   *)
(*                                                                           *)
(* The tasks of a process run one behind the other. Each has a run of its    *)
(* own, or continues that of the checkpoint.                                 *)
EXTENDS Integers, Sequences

CONSTANTS
  MaxTasks,  \* bound: tasks begun
  None

VARIABLES
  private,                 \* are results and jobs kept from the disk (privacyMode)?
  pc, run, tasks,          \* the wait a task is in, its run, tasks begun
  status,                  \* workflow status of the agent's result
  outcome,                 \* what runTask returns: status and reason
  plugins, jobs, owner,    \* held: plugin scope, private directory, session
  outputs,                 \* the run whose outputs are kept
  checkpoint,              \* the run of the checkpoint
  ends, record,            \* run-end events of the task, its last record
  noticed,                 \* is a record that was not saved reported?
  snapshot,                \* does the error carry the state of the run?
  aborted, timedOut        \* the user's interrupt, the task's deadline

held == <<plugins, jobs, owner, outputs>>
told == <<outcome, ends, record, noticed>>
stops == <<aborted, timedOut>>
vars == <<private, pc, run, tasks, status, held, checkpoint, told, snapshot, stops>>

Init ==
  /\ private \in BOOLEAN
  /\ pc = "idle" /\ run = 0 /\ tasks = 0
  /\ status = None /\ outcome = None
  /\ plugins = "none" /\ jobs = "none" /\ owner = None
  /\ outputs = None /\ checkpoint = None
  /\ ends = <<>> /\ record = None /\ noticed = FALSE
  /\ snapshot = FALSE
  /\ aborted = FALSE /\ timedOut = FALSE

-----------------------------------------------------------------------------
(* Setting up. What throws before runTaskInner watches goes to runTask.      *)

Begin ==
  /\ pc = "idle" /\ tasks < MaxTasks
  /\ tasks' = tasks + 1
  /\ run' \in {tasks + 1, IF checkpoint = None THEN tasks + 1 ELSE checkpoint}
  /\ pc' = "setup"
  /\ status' = None /\ outcome' = None
  /\ plugins' = "none" /\ jobs' = "none"
  /\ ends' = <<>> /\ record' = None /\ noticed' = FALSE /\ snapshot' = FALSE
  /\ aborted' = FALSE /\ timedOut' = FALSE
  /\ UNCHANGED <<owner, outputs, checkpoint>>

Setup ==
  /\ pc = "setup"
  /\ \/ /\ jobs' = IF private THEN "kept" ELSE "none"
        /\ \/ plugins' \in {"none", "live"} /\ pc' = "prepare"
           \/ plugins' = "live" /\ pc' = "outer"
     \/ UNCHANGED <<jobs, plugins>> /\ pc' = "outer"
  /\ UNCHANGED <<run, tasks, status, owner, outputs, checkpoint, told, snapshot, stops>>

(* The outputs of another run are given up for those of this one.            *)
Prepare ==
  /\ pc = "prepare"
  /\ \/ UNCHANGED outputs /\ pc' = "outer"
     \/ outputs' = run /\ pc' \in {"claim", "outer"}
  /\ UNCHANGED <<run, tasks, status, plugins, jobs, owner, checkpoint, told, snapshot,
                 stops>>

Claim ==
  /\ pc = "claim"
  /\ \/ owner \in {None, run} /\ owner' = run /\ pc' = "start"
     \/ UNCHANGED owner /\ pc' = "catch"
  /\ UNCHANGED <<run, tasks, status, plugins, jobs, outputs, checkpoint, told, snapshot,
                 stops>>

Start ==
  /\ pc = "start"
  /\ pc' \in {"agent", "catch"}
  /\ UNCHANGED <<run, tasks, status, held, checkpoint, told, snapshot, stops>>

(* The agent saves checkpoints of its own. An error of a run comes with its  *)
(* state unless that could not be taken.                                     *)
Agent ==
  /\ pc = "agent"
  /\ checkpoint' \in {checkpoint, run}
  /\ \/ /\ status' \in {"completed", "failed"} /\ pc' = "dispose"
        /\ UNCHANGED snapshot
     \/ /\ snapshot' \in BOOLEAN /\ pc' = "catch"
        /\ UNCHANGED status
  /\ UNCHANGED <<run, tasks, held, told, stops>>

-----------------------------------------------------------------------------
(* The end of a run that returned.                                           *)

(* Plugins are disposed of once; asking again gives the same answer.         *)
Disposed == IF plugins = "live" THEN {"released", "broken"} ELSE {plugins}

Regardless(result, scope) == result
AfterCleanup(result, scope) == IF scope = "broken" THEN "failed" ELSE result

Dispose ==
  /\ pc = "dispose"
  /\ plugins' \in Disposed
  /\ status' = AfterCleanup(status, plugins')
  /\ pc' = "capture"
  /\ UNCHANGED <<run, tasks, jobs, owner, outputs, checkpoint, told, snapshot, stops>>

(* The changes of the task are captured and the end of its run is emitted.   *)
Capture ==
  /\ pc = "capture"
  /\ \/ /\ ends' = Append(ends, status)
        /\ pc' = IF status = "completed" THEN "record" ELSE "save"
     \/ UNCHANGED ends /\ pc' = "catch"
  /\ UNCHANGED <<run, tasks, status, held, checkpoint, outcome, record, noticed, snapshot,
                 stops>>

Save ==
  /\ pc = "save"
  /\ \/ checkpoint' \in {checkpoint, run} /\ pc' = "record" /\ UNCHANGED snapshot
     \/ UNCHANGED checkpoint /\ snapshot' = TRUE /\ pc' = "catch"
  /\ UNCHANGED <<run, tasks, status, held, told, stops>>

(* A record that does not fit is reported; any other failure is the task's.  *)
Record ==
  /\ pc = "record"
  /\ \/ record' = status /\ UNCHANGED noticed /\ pc' \in {"remember", "catch"}
     \/ UNCHANGED record /\ noticed' = TRUE /\ pc' = "remember"
     \/ UNCHANGED <<record, noticed>> /\ pc' = "catch"
  /\ UNCHANGED <<run, tasks, status, held, checkpoint, outcome, ends, snapshot, stops>>

(* Memory and artifacts; a turn that cannot be saved is only reported.       *)
Remember ==
  /\ pc = "remember"
  /\ pc' \in {IF status = "completed" THEN "clear" ELSE "return", "catch"}
  /\ UNCHANGED <<run, tasks, status, held, checkpoint, told, snapshot, stops>>

Without(held_) == IF held_ = run THEN None ELSE held_

(* The session is released whether or not the checkpoint could be removed.   *)
Clear ==
  /\ pc = "clear"
  /\ owner' = Without(owner)
  /\ \/ checkpoint' = None /\ pc' = "return"
     \/ UNCHANGED checkpoint /\ pc' = "catch"
  /\ UNCHANGED <<run, tasks, status, plugins, jobs, outputs, told, snapshot, stops>>

Return ==
  /\ pc = "return"
  /\ outcome' = [status |-> status, reason |-> "run"]
  /\ pc' = "release"
  /\ UNCHANGED <<run, tasks, status, held, checkpoint, ends, record, noticed, snapshot,
                 stops>>

-----------------------------------------------------------------------------
(* The end of one that threw (the catch of runTaskInner), and of both.       *)

FailedAs == IF timedOut THEN "timed-out" ELSE IF aborted THEN "interrupted" ELSE "failed"

(* Plugins that were not released make any outcome a failure.                *)
Cleaned(result, scope) ==
  IF scope = "broken" THEN [status |-> "failed", reason |-> "plugins"] ELSE result

Failure(scope) == Cleaned([status |-> FailedAs, reason |-> "error"], scope)

(* Its checkpoint is saved when there is a state to save, its record when    *)
(* that is possible; neither fails the catch.                                *)
Catch ==
  /\ pc = "catch"
  /\ plugins' \in Disposed
  /\ outcome' = Failure(plugins')
  /\ ends' = Append(ends, outcome'.status)
  /\ checkpoint' \in {checkpoint, IF snapshot THEN run ELSE checkpoint}
  /\ record' \in {record, outcome'.status}
  /\ noticed' \in {noticed, TRUE}
  /\ pc' = "release"
  /\ UNCHANGED <<run, tasks, status, jobs, owner, outputs, snapshot, stops>>

(* The flush of the writer throws when its claim did, or the release does;   *)
(* the outcome there was is lost.                                            *)
Release ==
  /\ pc = "release"
  /\ \/ owner' = Without(owner) /\ pc' = "cleanup" /\ UNCHANGED outcome
     \/ UNCHANGED owner /\ outcome' = None /\ pc' = "outer"
  /\ UNCHANGED <<run, tasks, status, plugins, jobs, outputs, checkpoint, ends, record,
                 noticed, snapshot, stops>>

(* The catch of runTask: its record is for the owner of the session only.    *)
Outer ==
  /\ pc = "outer"
  /\ plugins' \in Disposed
  /\ outcome' = Failure(plugins')
  /\ \/ /\ owner \in {None, run}
        /\ record' = outcome'.status /\ UNCHANGED noticed
     \/ UNCHANGED record /\ noticed' = TRUE
  /\ pc' = "cleanup"
  /\ UNCHANGED <<run, tasks, status, jobs, owner, outputs, checkpoint, ends, snapshot,
                 stops>>

(* Jobs that could not be stopped keep their directory.                      *)
Cleanup ==
  /\ pc = "cleanup"
  /\ \/ jobs' = "none" /\ outcome' = Cleaned(outcome, plugins)
     \/ /\ jobs = "kept" /\ UNCHANGED jobs
        /\ outcome' = [status |-> "failed", reason |-> "jobs"]
  /\ pc' = "outputs"
  /\ UNCHANGED <<run, tasks, status, plugins, owner, outputs, checkpoint, ends, record,
                 noticed, snapshot, stops>>

Continuable == outcome.status # "completed" /\ checkpoint = outputs
Stopped == outcome.status \in {"interrupted", "timed-out"}

(* Private outputs are gone with the process: they are kept while a          *)
(* checkpoint refers to them. One that cannot be read does not.              *)
GiveUpOutputs ==
  /\ pc = "outputs"
  /\ outputs' = IF private /\ ~Continuable /\ ~Stopped THEN None ELSE outputs
  /\ pc' = "idle"
  /\ UNCHANGED <<run, tasks, status, plugins, jobs, owner, checkpoint, told, snapshot,
                 stops>>

-----------------------------------------------------------------------------
Interrupt ==
  /\ pc # "idle" /\ ~aborted
  /\ aborted' = TRUE
  /\ timedOut' \in BOOLEAN
  /\ UNCHANGED <<pc, run, tasks, status, held, checkpoint, told, snapshot>>

Next ==
  /\ \/ Begin \/ Setup \/ Prepare \/ Claim \/ Start \/ Agent \/ Dispose \/ Capture
     \/ Save \/ Record \/ Remember \/ Clear \/ Return \/ Catch \/ Release \/ Outer
     \/ Cleanup \/ GiveUpOutputs \/ Interrupt
  /\ UNCHANGED private

Spec == Init /\ [][Next]_vars

-----------------------------------------------------------------------------
Returned == pc = "idle" /\ outcome # None

(* Whatever failed on the way: a task that is told completed ended its run   *)
(* so, gave back its plugins, jobs and session, left no checkpoint, and its  *)
(* record says so or is reported missing. Plugins that were not released     *)
(* are told and never recorded as completed, jobs that still run are told,   *)
(* no scope is forgotten, and what the run has read stays while a checkpoint *)
(* continues it (runTask, applyPluginCleanup).                               *)
ToldAsItIs ==
  Returned =>
    /\ outcome.status = "completed" =>
         /\ ends = <<"completed">> /\ (record = "completed" \/ noticed)
         /\ owner # run /\ checkpoint = None
    /\ plugins = "broken" => outcome.status = "failed" /\ record # "completed"
    /\ jobs = "kept" => outcome.status = "failed"
    /\ plugins # "live"
    /\ ends # <<>> /\ checkpoint = run /\ outcome.status # "completed"
         => outputs = run
=============================================================================
