-------------------------------- MODULE Jobs --------------------------------
(* A command run by the execution backend (src/execution/backend.js): the    *)
(* caller that starts it and waits for it, or leaves it in the background,   *)
(* the detached supervisor that owns its processes (worker.js,               *)
(* processTree.js), and another caller that stops it or disposes of it. They *)
(* share the files of the job only: its record and a request to stop.        *)
(* The supervisor may crash at any step; its commands then go on without it. *)
(*                                                                           *)
(* The processes of the command are the one that was spawned and those it    *)
(* left in its group; one that leaves the group is not seen by anyone. Time  *)
(* is left out: a deadline or a heartbeat that is too old is a step.         *)
CONSTANTS
  Lingers,   \* may a process survive SIGKILL, waiting for a device?
  Crashes,   \* may the supervisor crash?
  None

VARIABLES
  record, stopFile,     \* the files: the job's record, the request to stop
  supervisor, cause, closed, unspawned, cleanup, catching,   \* the supervisor and what
                        \* it remembers
  leader, others, code, \* the processes of the command, and the exit code
  aborted,              \* the signal of the caller
  caller, background, answer,   \* the caller: where it is, whether it waits, its result
  second                \* the other caller

files == <<record, stopFile>>
memory == <<cause, closed, unspawned, cleanup, catching>>
group == <<leader, others, code>>
first == <<aborted, caller, background, answer>>
vars == <<files, supervisor, memory, group, first, second>>

Terminal == {"exited", "stopped", "timed_out", "failed", "cleanup_unconfirmed"}
Status == IF record = None THEN "removed" ELSE record.status
GroupExists == leader = "runs" \/ others

Init ==
  /\ record = None /\ stopFile = FALSE
  /\ supervisor = "none" /\ cause = None /\ closed = FALSE /\ unspawned = FALSE
  /\ cleanup = None /\ catching = FALSE
  /\ leader = "none" /\ others = FALSE /\ code = None
  /\ aborted = FALSE
  /\ caller = "idle" /\ background \in BOOLEAN /\ answer = None
  /\ second = "idle"

-----------------------------------------------------------------------------
(* The caller.                                                               *)

Answers(result) ==
  /\ caller' = "returned"
  /\ answer' = result

(* The record is written first, then what the supervisor is to run; the      *)
(* signal is looked at before and after.                                     *)
StartJob ==
  /\ caller = "idle"
  /\ IF aborted THEN Answers("aborted") /\ UNCHANGED record
     ELSE /\ record' = [status |-> "starting", exit |-> None, confirmed |-> FALSE]
          /\ caller' = "spawns" /\ UNCHANGED answer
  /\ UNCHANGED <<stopFile, supervisor, memory, group, aborted, background, second>>

SpawnSupervisor ==
  /\ caller = "spawns"
  /\ \/ /\ aborted
        /\ Answers("aborted") /\ record' = None
        /\ UNCHANGED supervisor
     \/ /\ ~aborted
        /\ \/ supervisor' = "boots" /\ caller' = "starts" /\ UNCHANGED answer
           \/ Answers("error") /\ UNCHANGED supervisor
        /\ UNCHANGED record
  /\ UNCHANGED <<stopFile, memory, group, aborted, background, second>>

(* A heartbeat is too old when the supervisor is gone, or is busy ending the *)
(* command; a job that is only starting has none.                            *)
Silent == supervisor \in {"gone", "terminates", "kills", "confirms", "settles"}
ExpiredOnceStopping == Status = "stopping" /\ Silent
Expired == Status \in {"running", "stopping"} /\ Silent

Started ==
  /\ caller = "starts"
  /\ \/ aborted /\ caller' = "stops starting" /\ UNCHANGED answer
     \/ /\ ~aborted /\ Status \notin {"starting", "removed"}
        /\ IF background THEN Answers("started") ELSE caller' = "waits" /\ UNCHANGED answer
     \/ Status = "removed" /\ Answers("error")
     \/ Status = "starting" /\ Answers("start timeout")
  /\ UNCHANGED <<files, supervisor, memory, group, aborted, background, second>>

(* What a caller is told of a job that ended or whose supervisor is silent.  *)
Ended == Status \in Terminal \cup {"removed"}
Result ==
  CASE Status = "removed" -> "error"
    [] Status = "exited" /\ record.exit = 0 -> "ok"
    [] Status \in Terminal \ {"cleanup_unconfirmed"} /\ ~(Status = "exited" /\ record.exit = 0)
         -> "ended"
    [] OTHER -> "unconfirmed"

(* run waits for the end, and stops the job once the signal comes.           *)
Wait ==
  /\ caller = "waits"
  /\ \/ (Ended \/ Expired) /\ Answers(Result)
     \/ aborted /\ ~Ended /\ caller' = "stops" /\ UNCHANGED answer
  /\ UNCHANGED <<files, supervisor, memory, group, aborted, background, second>>

(* stopJob: nothing to do for a job that ended; else a request, and an       *)
(* answer of the supervisor or a deadline. One that was stopped while it     *)
(* started goes back to waiting, and is stopped again, if it did not end.    *)
Stop ==
  /\ caller \in {"stops", "stops starting"}
  /\ IF Ended THEN Answers(Result) /\ UNCHANGED stopFile
     ELSE /\ stopFile' = TRUE
          /\ caller' = IF caller = "stops" THEN "polls" ELSE "polls starting"
          /\ UNCHANGED answer
  /\ UNCHANGED <<record, supervisor, memory, group, aborted, background, second>>

Poll ==
  /\ caller \in {"polls", "polls starting"}
  /\ \/ Ended /\ Answers(Result)
     \/ /\ ~Ended
        /\ IF caller = "polls" \/ background THEN Answers("unconfirmed")
           ELSE caller' = "waits" /\ UNCHANGED answer
  /\ UNCHANGED <<files, supervisor, memory, group, aborted, background, second>>

Abort ==
  /\ ~aborted /\ caller # "returned"
  /\ aborted' = TRUE
  /\ UNCHANGED <<files, supervisor, memory, group, caller, background, answer, second>>

-----------------------------------------------------------------------------
(* The other caller, of this or of another process, stops the job to dispose *)
(* of it; its files are removed if it ended and nothing of it is left.       *)

Removable == Status \in Terminal /\ record.confirmed

Dispose ==
  /\ second = "idle" /\ record # None /\ caller # "spawns"
  /\ IF Ended THEN second' = "disposes" /\ UNCHANGED stopFile
     ELSE stopFile' = TRUE /\ second' = "polls"
  /\ UNCHANGED <<record, supervisor, memory, group, first>>

DisposePoll ==
  /\ second = "polls"
  /\ second' = "disposes"
  /\ UNCHANGED <<files, supervisor, memory, group, first>>

RemoveState ==
  /\ second = "disposes"
  /\ second' = "done"
  /\ record' = IF Removable THEN None ELSE record
  /\ UNCHANGED <<stopFile, supervisor, memory, group, first>>

-----------------------------------------------------------------------------
(* The supervisor spawns the command, announces it, and watches.             *)

Goes(phase) == supervisor' = phase
Saves(status, exit, confirmed) ==
  record' = [status |-> status, exit |-> exit, confirmed |-> confirmed]

(* A record that cannot be written turns to ending the command; the second   *)
(* time it is given up.                                                      *)
SaveFails ==
  /\ UNCHANGED record
  /\ catching' = TRUE
  /\ Goes(CASE catching -> "gone" [] ~catching /\ leader = "none" -> "records"
            [] OTHER -> "terminates")

Launch ==
  /\ supervisor = "boots"
  /\ \/ leader' = "runs" /\ UNCHANGED <<closed, unspawned>>
     \/ closed' = TRUE /\ unspawned' = TRUE /\ UNCHANGED leader
  /\ Goes("announces")
  /\ UNCHANGED <<files, cause, cleanup, catching, others, code, first, second>>

Announce ==
  /\ supervisor = "announces"
  /\ \/ Saves("running", None, FALSE) /\ Goes("watches") /\ UNCHANGED catching
     \/ SaveFails
  /\ UNCHANGED <<stopFile, cause, closed, unspawned, cleanup, group, first, second>>

Timeouts == IF background THEN {} ELSE {"timeout"}
Causes == Timeouts \cup (IF stopFile THEN {"cancelled"} ELSE {})

(* Until the command ends: a timeout, which run always has, or a request. It *)
(* writes the record from time to time.                                      *)
Watch ==
  /\ supervisor = "watches"
  /\ \/ closed /\ Goes("leaves") /\ UNCHANGED <<record, catching, cause>>
     \/ ~closed /\ cause' \in Causes /\ Goes("leaves") /\ UNCHANGED <<record, catching>>
     \/ ~closed /\ SaveFails /\ UNCHANGED cause
  /\ UNCHANGED <<stopFile, closed, unspawned, cleanup, group, first, second>>

Close ==
  /\ leader = "exited" /\ ~closed /\ supervisor \notin {"none", "gone"}
  /\ closed' = TRUE
  /\ UNCHANGED <<files, supervisor, cause, unspawned, cleanup, catching, group, first, second>>

(* What the command leaves behind is ended too.                              *)
MustTerminateIfAsked == leader # "none" /\ cause # None
MustTerminate == leader # "none" /\ (cause # None \/ GroupExists)

Leave ==
  /\ supervisor = "leaves"
  /\ \/ /\ MustTerminate
        /\ \/ Saves("stopping", None, FALSE) /\ Goes("terminates") /\ UNCHANGED catching
           \/ SaveFails
        /\ UNCHANGED cleanup
     \/ /\ ~MustTerminate
        /\ cleanup' = TRUE
        /\ Goes("settles")
        /\ UNCHANGED <<record, catching>>
  /\ UNCHANGED <<stopFile, cause, closed, unspawned, group, first, second>>

(* SIGTERM, a grace, SIGKILL, a grace. Processes end by themselves, too.     *)
Cleaned(confirmed) ==
  /\ cleanup' = confirmed
  /\ Goes(IF catching THEN "records" ELSE "settles")

Terminate ==
  /\ supervisor = "terminates"
  /\ IF GroupExists THEN Goes("kills") /\ UNCHANGED cleanup ELSE Cleaned(TRUE)
  /\ UNCHANGED <<files, cause, closed, unspawned, catching, group, first, second>>

Kill ==
  /\ supervisor = "kills"
  /\ \/ leader' = "exited" /\ others' = FALSE
     \/ Lingers /\ UNCHANGED <<leader, others>>
  /\ Goes("confirms")
  /\ UNCHANGED <<files, memory, code, first, second>>

Confirm ==
  /\ supervisor = "confirms"
  /\ Cleaned(~GroupExists)
  /\ UNCHANGED <<files, cause, closed, unspawned, catching, group, first, second>>

(* The exit of the command is waited for, but not for ever.                  *)
FinalStatus ==
  CASE ~(cleanup /\ closed) -> "cleanup_unconfirmed"
    [] cleanup /\ closed /\ unspawned -> "failed"
    [] cleanup /\ closed /\ ~unspawned /\ cause = "timeout" -> "timed_out"
    [] cleanup /\ closed /\ ~unspawned /\ cause = "cancelled" -> "stopped"
    [] OTHER -> "exited"

Settle ==
  /\ supervisor = "settles"
  /\ \/ /\ Saves(FinalStatus, IF closed THEN code ELSE None, cleanup /\ closed)
        /\ Goes("gone") /\ UNCHANGED catching
     \/ SaveFails
  /\ UNCHANGED <<stopFile, cause, closed, unspawned, cleanup, group, first, second>>

(* After a failure the command is ended as far as possible.                  *)
RecordFailure ==
  /\ supervisor = "records"
  /\ \/ Saves(IF cleanup = FALSE THEN "cleanup_unconfirmed" ELSE "failed",
              IF closed THEN code ELSE None, cleanup # FALSE)
     \/ UNCHANGED record
  /\ Goes("gone")
  /\ UNCHANGED <<stopFile, memory, group, first, second>>

Crash ==
  /\ Crashes /\ supervisor \notin {"none", "gone"}
  /\ Goes("gone")
  /\ UNCHANGED <<files, memory, group, first, second>>

-----------------------------------------------------------------------------
(* The command forks, and its processes end.                                 *)
Fork ==
  /\ leader = "runs" /\ ~others
  /\ others' = TRUE
  /\ UNCHANGED <<files, supervisor, memory, leader, code, first, second>>

Exit ==
  /\ \/ leader = "runs" /\ leader' = "exited" /\ code' \in {0, 1} /\ UNCHANGED others
     \/ others /\ others' = FALSE /\ UNCHANGED <<leader, code>>
  /\ UNCHANGED <<files, supervisor, memory, first, second>>

CallerStep == StartJob \/ SpawnSupervisor \/ Started \/ Wait \/ Stop \/ Poll
SupervisorStep ==
  \/ Launch \/ Announce \/ Watch \/ Close \/ Leave \/ Terminate \/ Kill \/ Confirm
  \/ Settle \/ RecordFailure

Next ==
  \/ CallerStep \/ Abort
  \/ Dispose \/ DisposePoll \/ RemoveState
  \/ SupervisorStep \/ Crash
  \/ Fork \/ Exit

(* Whoever runs goes on: a caller polls until its deadline, a supervisor     *)
(* until the end of its command, and the deadline of a command comes.        *)
Spec == Init /\ [][Next]_vars /\ WF_vars(CallerStep) /\ WF_vars(SupervisorStep)

-----------------------------------------------------------------------------
MayLaunch == supervisor \in {"boots"} \/ caller = "spawns"

(* When the record says that all was cleaned up, when it was removed for     *)
(* that reason, and when the caller is told that the command ended or never  *)
(* began, then none of its processes runs and none will.                     *)
GoneWhenSaid ==
  \/ record # None /\ record.confirmed
  \/ second = "done" /\ record = None
  \/ answer \in {"ok", "ended", "aborted"}
  => ~GroupExists /\ ~MayLaunch

=============================================================================
