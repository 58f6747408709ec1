---------------------------- MODULE SessionFiles ----------------------------
(* The files of one session that belong to its task: the owner, the          *)
(* checkpoint and the sealed segments of transcripts it refers to            *)
(* (src/session/store.js, src/storage/transcriptArchive.js), beside the      *)
(* retention sweep (src/storage/governance.js) and the deletion of the       *)
(* session by other processes.                                               *)
(*                                                                           *)
(* A process lives once: after a crash another one, with another number,     *)
(* takes its place. The transcript of a context is the number of its         *)
(* records; every SegmentSize of them make a segment, the rest is kept in    *)
(* the checkpoint itself.                                                    *)
EXTENDS Integers, FiniteSets

CONSTANTS
  Processes,
  SegmentSize,  \* records in a segment
  MaxRecords,   \* bound: records of a context
  MaxContexts,  \* bound: contexts started
  Careful,      \* does nobody resume a task that runs elsewhere, use a deleted
                \* session or delete one that is used?
  None

VARIABLES
  owner, checkpoint, segments, marker,  \* files
  contexts,  \* contexts started so far, each the first of a run
  phase, task,   \* of each process
  cursor,    \* the segments each process sealed of its context
  doomed,    \* the files a sweep or a deletion in each process will remove
  untouched  \* history: was nothing removed while the process saves?

files == <<owner, checkpoint, segments, marker>>
vars == <<files, contexts, phase, task, cursor, doomed, untouched>>

Init ==
  /\ owner = None /\ checkpoint = None /\ segments = {} /\ marker = FALSE
  /\ contexts = 0
  /\ phase = [p \in Processes |-> "idle"]
  /\ task = [p \in Processes |-> None]
  /\ cursor = [p \in Processes |-> 0]
  /\ doomed = [p \in Processes |-> {}]
  /\ untouched = [p \in Processes |-> TRUE]

Checkpoint == <<"checkpoint", 0, 0>>
Owner == <<"owner", 0, 0>>

Alive(p) == phase[p] # "dead"
Owned == owner # None /\ Alive(owner.pid)

-----------------------------------------------------------------------------
(* Segments.                                                                 *)

Segments(context, from, records) ==
  {<<"segment", context, i>> : i \in from + 1 .. records \div SegmentSize}
Complete(saved, present) == Segments(saved.context, 0, saved.records) \subseteq present

(* A segment that went missing is sealed again from the transcript in        *)
(* memory; one that is there is not written.                                 *)
SealedNew(p) == segments \cup Segments(task[p].context, cursor[p], task[p].records)
Sealed(p) ==
  LET known == Segments(task[p].context, 0, cursor[p] * SegmentSize)
  IN  IF known \subseteq segments THEN SealedNew(p)
      ELSE segments \cup Segments(task[p].context, 0, task[p].records)

-----------------------------------------------------------------------------
(* A task: begun or resumed, claimed, saved step by step, ended.             *)

MayUse == Careful => ~marker /\ \A q \in Processes : phase[q] # "deletes"

Begin(p) ==
  /\ phase[p] = "idle" /\ MayUse
  /\ contexts < MaxContexts
  /\ contexts' = contexts + 1
  /\ task' = [task EXCEPT ![p] = [run |-> contexts + 1, context |-> contexts + 1,
                                  records |-> 0]]
  /\ cursor' = [cursor EXCEPT ![p] = 0]
  /\ phase' = [phase EXCEPT ![p] = "claim"]
  /\ UNCHANGED <<files, doomed, untouched>>

RunsElsewhere(run) ==
  \E q \in Processes : Alive(q) /\ task[q] # None /\ task[q].run = run

(* If any of its segments is missing the transcript is given up as a whole:  *)
(* the task goes on as a new context.                                        *)
Resume(p) ==
  /\ phase[p] = "idle" /\ MayUse
  /\ checkpoint # None
  /\ Careful => ~RunsElsewhere(checkpoint.run)
  /\ IF Complete(checkpoint, segments)
     THEN /\ task' = [task EXCEPT ![p] = checkpoint]
          /\ cursor' = [cursor EXCEPT ![p] = checkpoint.records \div SegmentSize]
          /\ UNCHANGED contexts
     ELSE /\ contexts < MaxContexts
          /\ contexts' = contexts + 1
          /\ task' = [task EXCEPT ![p] = [run |-> checkpoint.run, records |-> 0,
                                          context |-> contexts + 1]]
          /\ cursor' = [cursor EXCEPT ![p] = 0]
  /\ phase' = [phase EXCEPT ![p] = "claim"]
  /\ UNCHANGED <<files, doomed, untouched>>

(* Only the live owner of another run keeps a run out.                       *)
Conflict(run) == Owned /\ owner.run # run

Claim(p) ==
  /\ phase[p] = "claim"
  /\ IF Conflict(task[p].run)
     THEN /\ phase' = [phase EXCEPT ![p] = "releases"]
          /\ UNCHANGED owner
     ELSE /\ phase' = [phase EXCEPT ![p] = "runs"]
          /\ owner' = [run |-> task[p].run, pid |-> p]
  /\ UNCHANGED <<checkpoint, segments, marker, contexts, task, cursor, doomed,
                 untouched>>

Work(p) ==
  /\ phase[p] = "runs" /\ task[p].records < MaxRecords
  /\ task' = [task EXCEPT ![p].records = @ + 1]
  /\ UNCHANGED <<files, contexts, phase, cursor, doomed, untouched>>

(* A save asks for the owner, seals, and writes; a conflict fails it.        *)
Seal(p) ==
  /\ phase[p] = "runs"
  /\ ~Conflict(task[p].run)
  /\ segments' = Sealed(p)
  /\ cursor' = [cursor EXCEPT ![p] = task[p].records \div SegmentSize]
  /\ phase' = [phase EXCEPT ![p] = "saves"]
  /\ UNCHANGED <<owner, checkpoint, marker, contexts, task, doomed, untouched>>

Write(p) ==
  /\ phase[p] = "saves"
  /\ checkpoint' = task[p]
  /\ phase' = [phase EXCEPT ![p] = "runs"]
  /\ untouched' = [untouched EXCEPT ![p] = TRUE]
  /\ UNCHANGED <<owner, segments, marker, contexts, task, cursor, doomed>>

(* A completed task removes its checkpoint, any other one leaves it.         *)
End(p) ==
  /\ phase[p] = "runs"
  /\ \/ checkpoint' = IF Conflict(task[p].run) THEN checkpoint ELSE None
     \/ UNCHANGED checkpoint
  /\ phase' = [phase EXCEPT ![p] = "releases"]
  /\ UNCHANGED <<owner, segments, marker, contexts, task, cursor, doomed, untouched>>

Released(p) == IF owner # None /\ owner.run = task[p].run THEN None ELSE owner

(* A task that was kept out releases too.                                    *)
Release(p) ==
  /\ phase[p] = "releases"
  /\ owner' = Released(p)
  /\ phase' = [phase EXCEPT ![p] = "idle"]
  /\ task' = [task EXCEPT ![p] = None]
  /\ cursor' = [cursor EXCEPT ![p] = 0]
  /\ UNCHANGED <<checkpoint, segments, marker, contexts, doomed, untouched>>

Crash(p) ==
  /\ Alive(p)
  /\ phase' = [phase EXCEPT ![p] = "dead"]
  /\ task' = [task EXCEPT ![p] = None]
  /\ cursor' = [cursor EXCEPT ![p] = 0]
  /\ doomed' = [doomed EXCEPT ![p] = {}]
  /\ untouched' = [untouched EXCEPT ![p] = TRUE]
  /\ UNCHANGED <<files, contexts>>

-----------------------------------------------------------------------------
(* Removal by others.                                                        *)

(* A sweep lists the files, any of which may be old or too many, and then    *)
(* spares the sessions that have a live owner.                               *)
Sweep(p) ==
  /\ phase[p] = "idle"
  /\ phase' = [phase EXCEPT ![p] = "lists"]
  /\ doomed' = [doomed EXCEPT ![p] = segments \cup (IF checkpoint = None THEN {}
                                                   ELSE {Checkpoint})]
  /\ UNCHANGED <<files, contexts, task, cursor, untouched>>

Spared(p) == IF Owned THEN {} ELSE doomed[p]

Spare(p) ==
  /\ phase[p] = "lists"
  /\ phase' = [phase EXCEPT ![p] = "sweeps"]
  /\ \E old \in SUBSET Spared(p) : doomed' = [doomed EXCEPT ![p] = old]
  /\ UNCHANGED <<files, contexts, task, cursor, untouched>>

(* The deletion makes sure that no task owns the session, and marks it.      *)
Delete(p) ==
  /\ phase[p] = "idle" /\ ~Owned /\ ~marker
  /\ Careful => \A q \in Processes : task[q] = None
  /\ marker' = TRUE
  /\ phase' = [phase EXCEPT ![p] = "deletes"]
  /\ doomed' = [doomed EXCEPT ![p] = segments \cup {Checkpoint, Owner}]
  /\ UNCHANGED <<owner, checkpoint, segments, contexts, task, cursor, untouched>>

Remove(p) ==
  /\ phase[p] \in {"sweeps", "deletes"}
  /\ \E file \in doomed[p] :
       /\ checkpoint' = IF file = Checkpoint THEN None ELSE checkpoint
       /\ owner' = IF file = Owner THEN None ELSE owner
       /\ segments' = segments \ {file}
       /\ doomed' = [doomed EXCEPT ![p] = @ \ {file}]
  /\ untouched' = [q \in Processes |-> phase[q] # "saves"]
  /\ UNCHANGED <<marker, contexts, phase, task, cursor>>

Removed(p) ==
  /\ phase[p] \in {"sweeps", "deletes"} /\ doomed[p] = {}
  /\ phase' = [phase EXCEPT ![p] = "idle"]
  /\ UNCHANGED <<files, contexts, task, cursor, doomed, untouched>>

Next ==
  \E p \in Processes :
    \/ Begin(p) \/ Resume(p) \/ Claim(p) \/ Work(p) \/ Seal(p) \/ Write(p)
    \/ End(p) \/ Release(p) \/ Crash(p)
    \/ Sweep(p) \/ Spare(p) \/ Delete(p) \/ Remove(p) \/ Removed(p)

Spec == Init /\ [][Next]_vars

-----------------------------------------------------------------------------
Running == {p \in Processes : phase[p] \in {"runs", "saves"}}

(* Two processes never run and save the session's task at once, whichever    *)
(* crashed before and whoever took over.                                     *)
OneTask == Cardinality(Running) <= 1

(* A checkpoint refers to segments that are there when it is written, unless *)
(* a sweep or a deletion removed some while it was being written: those a    *)
(* sweep took before are sealed again (project, present, reopen).            *)
ReferencesSealed ==
  [][\A p \in Processes : phase[p] = "saves" /\ phase'[p] = "runs" /\ untouched[p]
       => Complete(checkpoint', segments)]_vars
=============================================================================
