---------------------------- MODULE Verification ----------------------------
(***************************************************************************)
(* From what the tools did to whether a task may end as completed: the     *)
(* effect ledger all agents of a task share (harness/effects.js), the main *)
(* agent's verification state (verification/state.js), the checkpoint a    *)
(* stopped task resumes from (harness/checkpoints.js) and the final gate   *)
(* (harness/finalValidation.js, acceptance.js).                            *)
(* `clock` and `lastChange` are history: the code's own clock is the       *)
(* ledger's revision, and the question is whether that is good enough.     *)
(***************************************************************************)
EXTENDS Integers, Sequences, FiniteSets, FiniteSetsExt

CONSTANTS
  Checks,       \* the commands isVerificationCommand recognises
  Contracts,    \* the sets of checks a task's contract may require
  Other,        \* any other command
  Main,         \* the main agent
  Workers,      \* `agent` calls; a worker stands for its call
  Writers,      \* the workers in implement or verify mode
  JobCommands,  \* the commands start_job is used for
  MaxClock,     \* bound: effects of the task
  MaxMalformed, \* bound: run_shell calls whose arguments are no JSON
  MaxExternal,  \* bound: changes of the workspace by somebody else
  MaxJobs,      \* bound: background jobs
  MaxResumes,   \* bound: resumptions
  MaxRepairs    \* MAX_REPAIR_ATTEMPTS

ASSUME VerificationAssumption ==
  /\ IsFiniteSet(Checks) /\ Contracts \subseteq SUBSET Checks
  /\ Other \notin Checks /\ JobCommands \subseteq Checks \cup {Other}
  /\ Main \notin Workers /\ Writers \subseteq Workers /\ IsFiniteSet(Workers)
  /\ {MaxClock, MaxMalformed, MaxExternal, MaxJobs, MaxResumes, MaxRepairs}
       \subseteq Nat

VARIABLES
  required,     \* the checks this task's contract requires
  ledger,       \* the shared revision (effects.revision())
  verification, \* the main agent's verification state
  edited,       \* agentState.filesEdited is not empty
  effects,      \* effects of a worker's run, in its call's result
  phase,        \* "think", "serial", "parallel" or the outcome of the task
  attempt,      \* finalValidationAttempt
  worker,       \* a worker's turn: "none", "queued", "running" or "over"
  returned,     \* results of worker calls not yet recorded, in their order
  drift,        \* whose changes to files already read a read would discover
  jobs,         \* background jobs: the command and when it started
  observed,     \* jobs whose end has been reported (observedJobs)
  checkpoint,   \* the stored checkpoint
  clock,        \* history: effects so far
  lastChange,   \* history: the last effect that changed the workspace
  malformed, external, resumes  \* counters of the bounds

agents  == <<phase, attempt, worker, returned>>
world   == <<drift, jobs, observed>>
history == <<clock, lastChange>>
bounds  == <<malformed, external, resumes>>
vars == <<required, ledger, verification, edited, effects, agents, world, checkpoint,
          history, bounds>>

Outcomes == {"completed", "unverified", "failed"}
Commands == Checks \cup {Other}
NoRun == [ran |-> FALSE, ok |-> FALSE, validated |-> 0, began |-> 0]

-----------------------------------------------------------------------------
(***************************************************************************)
(* advanceVerificationState, one effect at a time.  `evidence` keeps the   *)
(* latest run of each check, which is all that latestEvidence looks at.    *)
(***************************************************************************)
HasEvidence(ev) == \E c \in Checks : ev[c].ran
AnyFailed(ev) == \E c \in Checks : ev[c].ran /\ ~ev[c].ok
AnyCurrent(ev, revision) ==
  \E c \in Checks : ev[c].ran /\ ev[c].ok /\ ev[c].validated = revision

Change(revision, isEdit) ==
  [kind |-> "change", revision |-> revision, isEdit |-> isEdit]
IsEdit(e) == e.kind = "change" /\ e.isEdit
Command(revision, command, ok, began) ==
  [kind |-> "command", revision |-> revision, command |-> command,
   ok |-> ok, began |-> began]

StatusAfterCommand(v) ==
  IF AnyFailed(v.evidence) THEN "failed"
  ELSE IF AnyCurrent(v.evidence, v.validationRevision)
       THEN IF v.hadFailure THEN "failed-then-passed" ELSE "passed"
       ELSE IF HasEvidence(v.evidence) THEN "pending" ELSE "not-run"

StatusAfterChange(v) ==
  IF AnyFailed(v.evidence) THEN "fixed-pending-rerun"
  ELSE IF HasEvidence(v.evidence) THEN "pending" ELSE "not-run"

ValidationRevisionOfEdits(v, e) ==
  IF e.kind = "change" THEN e.revision ELSE v.validationRevision
ValidationRevision(v, e) ==
  IF e.kind = "change" \/ e.command = Other THEN e.revision
  ELSE v.validationRevision

Evidence(v, e) ==
  IF e.kind = "command" /\ e.command \in Checks
  THEN [v.evidence EXCEPT ![e.command] =
          [ran |-> TRUE, ok |-> e.ok, began |-> e.began,
           validated |-> ValidationRevision(v, e)]]
  ELSE v.evidence

FailedCheck(e) == e.kind = "command" /\ e.command \in Checks /\ ~e.ok

Advance(v, e) ==
  LET next == [v EXCEPT
        !.workspaceRevision = Max({@, e.revision}),
        !.validationRevision = ValidationRevision(v, e),
        !.evidence = Evidence(v, e),
        !.hadFailure = @ \/ FailedCheck(e)]
  IN  [next EXCEPT !.status = IF e.kind = "change" THEN StatusAfterChange(next)
                                                   ELSE StatusAfterCommand(next)]

Observe(v, events) ==
  LET after[n \in 0 .. Len(events)] ==
        IF n = 0 THEN v ELSE Advance(after[n - 1], events[n])
  IN  after[Len(events)]

(* verificationIsFresh *)
CheckFresh(v, c) ==
  v.evidence[c].ran /\ v.evidence[c].ok
    /\ v.evidence[c].validated = v.validationRevision
Fresh(v) ==
  /\ ~AnyFailed(v.evidence)
  /\ IF required # {} THEN \A c \in required : CheckFresh(v, c)
     ELSE /\ v.status \in {"passed", "failed-then-passed"}
          /\ AnyCurrent(v.evidence, v.validationRevision)

-----------------------------------------------------------------------------
(***************************************************************************)
(* The ledger gives an executed call the next revision.  The main agent    *)
(* observes it at once; a worker's effects reach it with the call's result.*)
(***************************************************************************)
Acting(a) ==
  IF a = Main THEN phase = "serial" ELSE phase = "parallel" /\ worker[a] = "running"

NextRevision == ledger + 1

Executed(a, e, changes) ==
  /\ clock < MaxClock
  /\ ledger' = NextRevision /\ clock' = clock + 1
  /\ lastChange' = IF changes THEN clock' ELSE lastChange
  /\ IF a = Main
     THEN /\ verification' = Advance(verification, e)
          /\ edited' = (edited \/ IsEdit(e))
          /\ UNCHANGED effects
     ELSE /\ effects' = [effects EXCEPT ![a] = Append(@, e)]
          /\ UNCHANGED <<verification, edited>>
  /\ UNCHANGED <<agents, checkpoint, bounds>>

(* A file tool: an edit, or a failure that may have changed files.         *)
Edit(a) ==
  /\ Acting(a) /\ a \in Writers \cup {Main}
  /\ \E sure \in BOOLEAN : Executed(a, Change(NextRevision, sure), TRUE)
  /\ drift' = drift \cup {"own"}
  /\ UNCHANGED <<jobs, observed>>

RunCommand(a) ==
  /\ Acting(a) /\ a \in Writers \cup {Main}
  /\ \E c \in Commands, ok \in BOOLEAN :
       Executed(a, Command(NextRevision, c, ok, clock + 1), c = Other)
  /\ UNCHANGED world

(* read_file compares the content with what it last read of the file.  The *)
(* ledger does not enter its own edits there, so they are reported too.    *)
ReadChangedFile(a) ==
  /\ Acting(a) /\ drift # {}
  /\ Executed(a, Change(NextRevision, FALSE), "external" \in drift)
  /\ drift' = {} /\ UNCHANGED <<jobs, observed>>

StartJob(a) ==
  /\ Acting(a) /\ a \in Writers \cup {Main} /\ Cardinality(jobs) < MaxJobs
  /\ \E c \in JobCommands :
       jobs' = jobs \cup {[command |-> c, began |-> clock + 1]}
  /\ Executed(a, Change(NextRevision, FALSE), TRUE)
  /\ UNCHANGED <<drift, observed>>

(* The first job_status that finds the job ended records it as run_shell.  *)
PollJob(a) ==
  /\ Acting(a) /\ a \in Writers \cup {Main}
  /\ \E j \in jobs \ observed, ok \in BOOLEAN :
       /\ observed' = observed \cup {j}
       /\ Executed(a, Command(NextRevision, j.command, ok, j.began),
                   j.command = Other)
  /\ UNCHANGED <<drift, jobs>>

(* run_shell with arguments that are no JSON is refused by the loop: no    *)
(* effects come with the result, and observeTool makes one up.             *)
Malformed ==
  /\ phase = "serial" /\ malformed < MaxMalformed
  /\ verification' = Advance(verification,
       Command(verification.workspaceRevision + 1, Other, FALSE, clock))
  /\ malformed' = malformed + 1
  /\ UNCHANGED <<ledger, edited, effects, agents, world, checkpoint, history,
                 external, resumes>>

ExternalChange ==
  /\ external < MaxExternal
  /\ external' = external + 1 /\ drift' = drift \cup {"external"}
  /\ UNCHANGED <<ledger, verification, edited, effects, agents, jobs, observed,
                 checkpoint, history, malformed, resumes>>

-----------------------------------------------------------------------------
(***************************************************************************)
(* A step of the main agent: the model's reply, its serial calls, then its *)
(* worker calls in parallel, then the checkpoint.                          *)
(***************************************************************************)
CallTools ==
  /\ phase = "think" /\ clock < MaxClock
  /\ phase' = "serial"
  /\ UNCHANGED <<ledger, verification, edited, effects, attempt, worker,
                 returned, world, checkpoint, history, bounds>>

Dispatch ==
  /\ phase = "serial"
  /\ \E called \in SUBSET {w \in Workers : worker[w] = "none"} :
       worker' = [w \in Workers |-> IF w \in called THEN "queued" ELSE worker[w]]
  /\ phase' = "parallel"
  /\ UNCHANGED <<ledger, verification, edited, effects, attempt, returned,
                 world, checkpoint, history, bounds>>

(* runWorkerTurn: research runs at once, the writers one after another.    *)
Begin(w) ==
  /\ worker[w] = "queued"
  /\ w \in Writers => \A x \in Writers : worker[x] # "running"
  /\ worker' = [worker EXCEPT ![w] = "running"]
  /\ UNCHANGED <<ledger, verification, edited, effects, phase, attempt,
                 returned, world, checkpoint, history, bounds>>

Return(w) ==
  /\ worker[w] = "running"
  /\ worker' = [worker EXCEPT ![w] = "over"]
  /\ returned' = Append(returned, w)
  /\ UNCHANGED <<ledger, verification, edited, effects, phase, attempt, world,
                 checkpoint, history, bounds>>

(* The record step of runOne, under recordMutex, in the order of return.   *)
Record ==
  /\ returned # <<>>
  /\ LET w == Head(returned) IN
       /\ verification' = Observe(verification, effects[w])
       /\ edited' = (edited \/ \E i \in DOMAIN effects[w] : IsEdit(effects[w][i]))
       /\ effects' = [effects EXCEPT ![w] = <<>>]
  /\ returned' = Tail(returned)
  /\ UNCHANGED <<ledger, phase, attempt, worker, world, checkpoint, history,
                 bounds>>

RunState == [revision |-> ledger, verification |-> verification, edited |-> edited]

(* onCheckpoint; without storage left the previous one stays.              *)
EndStep ==
  /\ phase = "parallel" /\ returned = <<>>
  /\ \A w \in Workers : worker[w] \in {"none", "over"}
  /\ phase' = "think"
  /\ checkpoint' \in {checkpoint, RunState}
  /\ UNCHANGED <<ledger, verification, edited, effects, attempt, worker,
                 returned, world, history, bounds>>

(***************************************************************************)
(* The reply is a final answer.  `errors` of validateTaskFinal that depend *)
(* on verification: a required check that is missing, failed or stale, any *)
(* check whose latest run failed, and edits without fresh evidence unless  *)
(* the answer explains why nothing was run.                                *)
(***************************************************************************)
ContractMet ==
  /\ \A c \in required : CheckFresh(verification, c)
  /\ ~AnyFailed(verification.evidence)
AcceptableIfPassing(explained) == ~AnyFailed(verification.evidence)
Acceptable(explained) == ContractMet /\ (edited => Fresh(verification) \/ explained)

MayRepair == attempt < MaxRepairs

(* `told`: the answer passes the tests that are not about verification.    *)
Answer ==
  /\ phase = "think"
  /\ \E explained, told \in BOOLEAN :
       LET accepted == told /\ Acceptable(explained) IN
       \/ /\ accepted
          /\ phase' = IF edited /\ ~Fresh(verification)
                      THEN "unverified" ELSE "completed"
          /\ UNCHANGED attempt
       \/ /\ ~accepted /\ MayRepair
          /\ attempt' = attempt + 1 /\ UNCHANGED phase
       \/ /\ ~accepted /\ ~MayRepair
          /\ phase' = "failed" /\ UNCHANGED attempt
  /\ UNCHANGED <<ledger, verification, edited, effects, worker, returned,
                 world, checkpoint, history, bounds>>

-----------------------------------------------------------------------------
(***************************************************************************)
(* The process dies, or the task is interrupted and its state saved; then  *)
(* prepareCheckpointResume and createVerificationStateMachine.  Jobs live  *)
(* on in their own processes, the memory of reported ones does not.        *)
(***************************************************************************)
NewLedger(saved) == saved.revision + 1

Resumed(v, revision) ==
  IF HasEvidence(v.evidence)
  THEN [v EXCEPT !.workspaceRevision = revision, !.status = "pending",
                 !.validationRevision = Max({@, revision})]
  ELSE [v EXCEPT !.workspaceRevision = revision, !.status = "not-run"]

Resume ==
  /\ phase \notin {"completed", "unverified"} /\ resumes < MaxResumes
  /\ \E saved \in {checkpoint, RunState} :
       /\ checkpoint' = saved
       /\ ledger' = NewLedger(saved)
       /\ verification' = Resumed(saved.verification, NewLedger(saved))
       /\ edited' = saved.edited
  /\ resumes' = resumes + 1
  /\ clock' = clock + 1 /\ lastChange' = clock + 1
  /\ phase' = "think" /\ attempt' = 0 /\ returned' = <<>>
  /\ worker' = [w \in Workers |-> "none"]
  /\ effects' = [w \in Workers |-> <<>>]
  /\ drift' = {} /\ observed' = {}
  /\ UNCHANGED <<jobs, malformed, external>>

Empty == [status |-> "not-run", workspaceRevision |-> 0, validationRevision |-> 0,
          evidence |-> [c \in Checks |-> NoRun], hadFailure |-> FALSE]

Init ==
  /\ required \in Contracts
  /\ ledger = 0 /\ verification = Empty /\ edited = FALSE
  /\ effects = [w \in Workers |-> <<>>]
  /\ phase = "think" /\ attempt = 0 /\ returned = <<>>
  /\ worker = [w \in Workers |-> "none"]
  /\ drift = {} /\ jobs = {} /\ observed = {}
  /\ checkpoint = [revision |-> 0, verification |-> Empty, edited |-> FALSE]
  /\ clock = 0 /\ lastChange = 0
  /\ malformed = 0 /\ external = 0 /\ resumes = 0

Execute(a) ==
  Edit(a) \/ RunCommand(a) \/ ReadChangedFile(a) \/ StartJob(a) \/ PollJob(a)

Next ==
  \/ \E a \in Workers \cup {Main} : Execute(a)
  \/ Malformed \/ ExternalChange
  \/ CallTools \/ Dispatch \/ Record \/ EndStep \/ Answer \/ Resume
  \/ \E w \in Workers : Begin(w) \/ Return(w)

Spec == Init /\ [][Next /\ UNCHANGED required]_vars

-----------------------------------------------------------------------------
(* Every variable keeps its type. *)
Verdicts == {"not-run", "pending", "failed", "fixed-pending-rerun", "passed",
             "failed-then-passed"}
Effect == [kind : {"change"}, revision : Nat, isEdit : BOOLEAN]
  \cup [kind : {"command"}, revision : Nat, command : Commands, ok : BOOLEAN,
        began : Nat]
Run == [ran : BOOLEAN, ok : BOOLEAN, validated : Nat, began : Nat]
VState == [status : Verdicts, workspaceRevision : Nat, validationRevision : Nat,
           evidence : [Checks -> Run], hadFailure : BOOLEAN]
Saved == [revision : Nat, verification : VState, edited : BOOLEAN]

TypeOK ==
  /\ required \in Contracts /\ ledger \in Nat /\ verification \in VState /\ edited \in BOOLEAN
  /\ effects \in [Workers -> Seq(Effect)]
  /\ phase \in {"think", "serial", "parallel"} \cup Outcomes
  /\ attempt \in 0..MaxRepairs
  /\ worker \in [Workers -> {"none", "queued", "running", "over"}]
  /\ returned \in Seq(Workers)
  /\ drift \subseteq {"own", "external"}
  /\ jobs \subseteq [command : Commands, began : Nat] /\ observed \subseteq jobs
  /\ checkpoint \in Saved
  /\ clock \in Nat /\ lastChange \in 0..clock
  /\ malformed \in 0..MaxMalformed /\ external \in 0..MaxExternal
  /\ resumes \in 0..MaxResumes

(* The runs the verdict rests on began after the last change of the        *)
(* workspace that anybody working on the task knows of.                    *)
Covered(c) == verification.evidence[c].began >= lastChange
CoveredVerdict ==
  IF required # {} THEN \A c \in required : Covered(c)
  ELSE \E c \in Checks : verification.evidence[c].ok /\ Covered(c)

(* When no call is under way, evidence that counts as fresh is fresh: an   *)
(* edit, a command or an uncertain outcome, the main agent's or a          *)
(* worker's, before or after a resumption, makes earlier runs stale        *)
(* (verificationIsFresh).                                                  *)
FreshCoversChanges ==
  /\ TypeOK
  /\ phase = "think" /\ Fresh(verification) => CoveredVerdict

(* A task whose contract requires checks, or that edited files, ends as    *)
(* completed only on such evidence and with no check failing               *)
(* (validateTaskFinal, evaluateTaskAcceptance).                            *)
CompletedIsVerified ==
  phase = "completed" /\ (edited \/ required # {}) =>
    CoveredVerdict /\ ~AnyFailed(verification.evidence)
=============================================================================
