---------------------------- MODULE Session_proofs ----------------------------
(* What is proved of what is kept for a session. The parts of MCSession do   *)
(* not share a variable: each is proved of its own.                          *)
EXTENDS MCSession, FiniteSetTheorems, SequenceTheorems, WellFoundedInduction, TLAPS

-----------------------------------------------------------------------------
(* The files of a task. A task that runs is the owner of the session, as     *)
(* long as no two have the same run and whoever deletes finds nobody who     *)
(* uses it; while it saves, nothing but a removal takes what it has sealed.  *)
Tasks == [run : 1 .. contexts, context : 1 .. contexts, records : Nat]
Segment == {"segment"} \X Nat \X Int
Busy == {"claim", "runs", "saves", "releases"}

FilesTypes ==
  /\ contexts \in Nat
  /\ owner \in {None} \cup [run : Nat, pid : Processes]
  /\ checkpoint \in {None} \cup Tasks
  /\ segments \in SUBSET Segment
  /\ DOMAIN phase = Processes /\ task \in [Processes -> {None} \cup Tasks]
  /\ cursor \in [Processes -> Nat]
  /\ DOMAIN doomed = Processes /\ DOMAIN untouched = Processes

RunsAreApart ==
  /\ \A p \in Processes : phase[p] \in Busy <=> task[p] # None
  /\ \A p, q \in Processes :
       task[p] # None /\ task[q] # None /\ task[p].run = task[q].run => p = q

RunnerOwns ==
  /\ \A p \in Processes :
       phase[p] \in {"runs", "saves"} => owner = [run |-> task[p].run, pid |-> p]
  /\ \A p \in Processes : F!Owner \in doomed[p] => phase[p] = "deletes"
  /\ \A p \in Processes :
       phase[p] = "deletes" => \A q \in Processes : task[q] = None

SealedIsThere ==
  \A p \in Processes :
    phase[p] = "saves" /\ untouched[p] => F!Complete(task[p], segments)

FilesInv == FilesTypes /\ RunsAreApart /\ RunnerOwns /\ SealedIsThere

LEMMA FilesInit == SessionInit => FilesInv
<1> SUFFICES ASSUME SessionInit PROVE FilesInv
  OBVIOUS
<1>1. FilesTypes
  BY DEF SessionInit, F!Init, FilesTypes
<1>2. RunsAreApart /\ RunnerOwns /\ SealedIsThere
  BY DEF SessionInit, F!Init, RunsAreApart, RunnerOwns, SealedIsThere, Busy
<1> QED BY <1>1, <1>2 DEF FilesInv

LEMMA WholeSegments ==
  /\ \A n \in Nat : n \div SegmentSize \in Nat
  /\ \A n \in Nat : (n * SegmentSize) \div SegmentSize = n
BY FilesAssumption

LEMMA SegmentsAreSegments ==
  \A context, from, to \in Nat :
    F!Segments(context, from, to) \in SUBSET Segment
BY WholeSegments DEF F!Segments, Segment

(* Whatever was sealed and is there, and the rest: all there is to seal.     *)
LEMMA SealedIsAll ==
  ASSUME FilesInv, NEW p \in Processes, task[p] # None
  PROVE  /\ F!Sealed(p) \in SUBSET Segment
         /\ segments \subseteq F!Sealed(p)
         /\ F!Complete(task[p], F!Sealed(p))
<1>1. PICK its \in Tasks, sealed \in Nat : its = task[p] /\ sealed = cursor[p]
  BY DEF FilesInv, FilesTypes
<1>2. its.context \in Nat /\ its.records \in Nat /\ sealed * SegmentSize \in Nat
  BY FilesAssumption DEF Tasks, FilesInv, FilesTypes
<1>3. F!Sealed(p) =
        IF F!Segments(its.context, 0, sealed * SegmentSize) \subseteq segments
        THEN segments \cup F!Segments(its.context, sealed, its.records)
        ELSE segments \cup F!Segments(its.context, 0, its.records)
  BY <1>1 DEF F!Sealed, F!SealedNew
<1>4. F!Segments(its.context, 0, its.records) \subseteq
        F!Segments(its.context, 0, sealed * SegmentSize)
          \cup F!Segments(its.context, sealed, its.records)
  <2>1. (sealed * SegmentSize) \div SegmentSize = sealed
    BY WholeSegments
  <2>2. its.records \div SegmentSize \in Nat
    BY <1>2, WholeSegments
  <2> QED BY <2>1, <2>2 DEF F!Segments
<1>5. /\ F!Segments(its.context, sealed, its.records) \in SUBSET Segment
      /\ F!Segments(its.context, 0, its.records) \in SUBSET Segment
  BY <1>2, SegmentsAreSegments
<1> QED BY <1>1, <1>3, <1>4, <1>5 DEF F!Complete, FilesInv, FilesTypes

LEMMA BeginFiles == ASSUME FilesInv, NEW p \in Processes, F!Begin(p) PROVE FilesInv'
<1> USE FilesAssumption DEF Tasks, Segment, Busy
<1>1. FilesTypes'
  BY DEF FilesInv, FilesTypes, RunsAreApart, F!Begin, F!MayUse, F!files
<1>2. RunsAreApart'
  BY DEF FilesInv, FilesTypes, RunsAreApart, F!Begin, F!MayUse, F!files
<1>3. RunnerOwns'
  BY DEF FilesInv, FilesTypes, RunsAreApart, RunnerOwns, F!Begin, F!MayUse,
         F!files
<1>4. SealedIsThere'
  BY DEF FilesInv, FilesTypes, RunsAreApart, SealedIsThere, F!Complete,
         F!Segments, F!Begin, F!MayUse, F!files
<1> QED BY <1>1, <1>2, <1>3, <1>4 DEF FilesInv

LEMMA ResumeFiles == ASSUME FilesInv, NEW p \in Processes, F!Resume(p) PROVE FilesInv'
<1> USE FilesAssumption DEF Tasks, Segment, Busy
<1>1. FilesTypes'
  BY WholeSegments
  DEF FilesInv, FilesTypes, RunsAreApart, F!Resume, F!MayUse,
         F!RunsElsewhere, F!Alive, F!files
<1>2. RunsAreApart'
  BY DEF FilesInv, FilesTypes, RunsAreApart, F!Resume, F!MayUse,
         F!RunsElsewhere, F!Alive, F!files
<1>3. RunnerOwns'
  BY DEF FilesInv, FilesTypes, RunsAreApart, RunnerOwns, F!Resume, F!MayUse,
         F!RunsElsewhere, F!Alive, F!files
<1>4. SealedIsThere'
  BY DEF FilesInv, FilesTypes, RunsAreApart, SealedIsThere, F!Complete,
         F!Segments, F!Resume, F!MayUse, F!RunsElsewhere, F!Alive, F!files
<1> QED BY <1>1, <1>2, <1>3, <1>4 DEF FilesInv

LEMMA ClaimFiles == ASSUME FilesInv, NEW p \in Processes, F!Claim(p) PROVE FilesInv'
<1> USE FilesAssumption DEF Tasks, Segment, Busy
<1>1. FilesTypes'
  BY DEF FilesInv, FilesTypes, RunsAreApart, F!Claim, F!Conflict, F!Owned,
         F!Alive, F!files
<1>2. RunsAreApart'
  BY DEF FilesInv, FilesTypes, RunsAreApart, F!Claim, F!Conflict, F!Owned,
         F!Alive, F!files
<1>3. RunnerOwns'
  BY DEF FilesInv, FilesTypes, RunsAreApart, RunnerOwns, F!Claim, F!Conflict,
         F!Owned, F!Alive, F!files
<1>4. SealedIsThere'
  BY DEF FilesInv, FilesTypes, RunsAreApart, SealedIsThere, F!Complete,
         F!Segments, F!Claim, F!Conflict, F!Owned, F!Alive, F!files
<1> QED BY <1>1, <1>2, <1>3, <1>4 DEF FilesInv

LEMMA WorkFiles == ASSUME FilesInv, NEW p \in Processes, F!Work(p) PROVE FilesInv'
<1> USE FilesAssumption DEF Tasks, Segment, Busy
<1>1. FilesTypes'
  BY DEF FilesInv, FilesTypes, RunsAreApart, F!Work, F!files
<1>2. RunsAreApart'
  BY DEF FilesInv, FilesTypes, RunsAreApart, F!Work, F!files
<1>3. RunnerOwns'
  BY DEF FilesInv, FilesTypes, RunsAreApart, RunnerOwns, F!Work, F!files
<1>4. SealedIsThere'
  BY DEF FilesInv, FilesTypes, RunsAreApart, SealedIsThere, F!Complete,
         F!Segments, F!Work, F!files
<1> QED BY <1>1, <1>2, <1>3, <1>4 DEF FilesInv

LEMMA SealFiles == ASSUME FilesInv, NEW p \in Processes, F!Seal(p) PROVE FilesInv'
<1> USE FilesAssumption DEF Tasks, Segment, Busy
<1> task[p] # None
  BY DEF FilesInv, RunsAreApart, F!Seal
<1>1. FilesTypes'
  BY WholeSegments, SealedIsAll
  DEF FilesInv, FilesTypes, RunsAreApart, F!Seal, F!Conflict, F!files
<1>2. RunsAreApart'
  BY DEF FilesInv, FilesTypes, RunsAreApart, F!Seal, F!Conflict, F!files
<1>3. RunnerOwns'
  BY DEF FilesInv, FilesTypes, RunsAreApart, RunnerOwns, F!Seal, F!Conflict,
         F!files
<1>4. SealedIsThere'
  BY SealedIsAll DEF FilesInv, FilesTypes, SealedIsThere, F!Complete, F!Seal
<1> QED BY <1>1, <1>2, <1>3, <1>4 DEF FilesInv

LEMMA WriteFiles == ASSUME FilesInv, NEW p \in Processes, F!Write(p) PROVE FilesInv'
<1> USE FilesAssumption DEF Tasks, Segment, Busy
<1>1. FilesTypes'
  BY DEF FilesInv, FilesTypes, RunsAreApart, F!Write, F!files
<1>2. RunsAreApart'
  BY DEF FilesInv, FilesTypes, RunsAreApart, F!Write, F!files
<1>3. RunnerOwns'
  BY DEF FilesInv, FilesTypes, RunsAreApart, RunnerOwns, F!Write, F!files
<1>4. SealedIsThere'
  BY DEF FilesInv, FilesTypes, RunsAreApart, SealedIsThere, F!Complete,
         F!Segments, F!Write, F!files
<1> QED BY <1>1, <1>2, <1>3, <1>4 DEF FilesInv

LEMMA EndFiles == ASSUME FilesInv, NEW p \in Processes, F!End(p) PROVE FilesInv'
<1> USE FilesAssumption DEF Tasks, Segment, Busy
<1>1. FilesTypes'
  BY DEF FilesInv, FilesTypes, RunsAreApart, F!End, F!Conflict, F!files
<1>2. RunsAreApart'
  BY DEF FilesInv, FilesTypes, RunsAreApart, F!End, F!Conflict, F!files
<1>3. RunnerOwns'
  BY DEF FilesInv, FilesTypes, RunsAreApart, RunnerOwns, F!End, F!Conflict,
         F!files
<1>4. SealedIsThere'
  BY DEF FilesInv, FilesTypes, RunsAreApart, SealedIsThere, F!Complete,
         F!Segments, F!End, F!Conflict, F!files
<1> QED BY <1>1, <1>2, <1>3, <1>4 DEF FilesInv

LEMMA ReleaseFiles == ASSUME FilesInv, NEW p \in Processes, F!Release(p) PROVE FilesInv'
<1> USE FilesAssumption DEF Tasks, Segment, Busy
<1>1. FilesTypes'
  BY DEF FilesInv, FilesTypes, RunsAreApart, F!Release, F!Released, F!files
<1>2. RunsAreApart'
  BY DEF FilesInv, FilesTypes, RunsAreApart, F!Release, F!Released, F!files
<1>3. RunnerOwns'
  BY DEF FilesInv, FilesTypes, RunsAreApart, RunnerOwns, F!Release, F!Released,
         F!files
<1>4. SealedIsThere'
  BY DEF FilesInv, FilesTypes, RunsAreApart, SealedIsThere, F!Complete,
         F!Segments, F!Release, F!Released, F!files
<1> QED BY <1>1, <1>2, <1>3, <1>4 DEF FilesInv

LEMMA CrashFiles == ASSUME FilesInv, NEW p \in Processes, F!Crash(p) PROVE FilesInv'
<1> USE FilesAssumption DEF Tasks, Segment, Busy
<1>1. FilesTypes'
  BY DEF FilesInv, FilesTypes, RunsAreApart, F!Crash, F!Alive, F!files
<1>2. RunsAreApart'
  BY DEF FilesInv, FilesTypes, RunsAreApart, F!Crash, F!Alive, F!files
<1>3. RunnerOwns'
  BY DEF FilesInv, FilesTypes, RunsAreApart, RunnerOwns, F!Crash, F!Alive,
         F!files
<1>4. SealedIsThere'
  BY DEF FilesInv, FilesTypes, RunsAreApart, SealedIsThere, F!Complete,
         F!Segments, F!Crash, F!Alive, F!files
<1> QED BY <1>1, <1>2, <1>3, <1>4 DEF FilesInv

LEMMA SweepFiles == ASSUME FilesInv, NEW p \in Processes, F!Sweep(p) PROVE FilesInv'
<1> USE FilesAssumption DEF Tasks, Segment, Busy
<1>1. FilesTypes'
  BY DEF FilesInv, FilesTypes, RunsAreApart, F!Sweep, F!Owner, F!Checkpoint,
         F!files
<1>2. RunsAreApart'
  BY DEF FilesInv, FilesTypes, RunsAreApart, F!Sweep, F!Owner, F!Checkpoint,
         F!files
<1>3. RunnerOwns'
  BY DEF FilesInv, FilesTypes, RunsAreApart, RunnerOwns, F!Sweep, F!Owner,
         F!Checkpoint, F!files
<1>4. SealedIsThere'
  BY DEF FilesInv, FilesTypes, RunsAreApart, SealedIsThere, F!Complete,
         F!Segments, F!Sweep, F!Owner, F!Checkpoint, F!files
<1> QED BY <1>1, <1>2, <1>3, <1>4 DEF FilesInv

LEMMA SpareFiles == ASSUME FilesInv, NEW p \in Processes, F!Spare(p) PROVE FilesInv'
<1> USE FilesAssumption DEF Tasks, Segment, Busy
<1>1. FilesTypes'
  BY DEF FilesInv, FilesTypes, RunsAreApart, F!Spare, F!Spared, F!files
<1>2. RunsAreApart'
  BY DEF FilesInv, FilesTypes, RunsAreApart, F!Spare, F!Spared, F!files
<1>3. RunnerOwns'
  BY DEF FilesInv, FilesTypes, RunsAreApart, RunnerOwns, F!Spare, F!Spared,
         F!files
<1>4. SealedIsThere'
  BY DEF FilesInv, FilesTypes, RunsAreApart, SealedIsThere, F!Complete,
         F!Segments, F!Spare, F!Spared, F!files
<1> QED BY <1>1, <1>2, <1>3, <1>4 DEF FilesInv

LEMMA DeleteFiles == ASSUME FilesInv, NEW p \in Processes, F!Delete(p) PROVE FilesInv'
<1> USE FilesAssumption DEF Tasks, Segment, Busy
<1>1. FilesTypes'
  BY DEF FilesInv, FilesTypes, RunsAreApart, F!Delete, F!Owned, F!Alive,
         F!files
<1>2. RunsAreApart'
  BY DEF FilesInv, FilesTypes, RunsAreApart, F!Delete, F!Owned, F!Alive,
         F!files
<1>3. RunnerOwns'
  BY DEF FilesInv, FilesTypes, RunsAreApart, RunnerOwns, F!Delete, F!Owned,
         F!Alive, F!files
<1>4. SealedIsThere'
  BY DEF FilesInv, FilesTypes, RunsAreApart, SealedIsThere, F!Complete,
         F!Segments, F!Delete, F!Owned, F!Alive, F!files
<1> QED BY <1>1, <1>2, <1>3, <1>4 DEF FilesInv

LEMMA RemoveFiles == ASSUME FilesInv, NEW p \in Processes, F!Remove(p) PROVE FilesInv'
<1> USE FilesAssumption DEF Tasks, Segment, Busy
<1>1. FilesTypes'
  BY DEF FilesInv, FilesTypes, RunsAreApart, F!Remove, F!Owner, F!files
<1>2. RunsAreApart'
  BY DEF FilesInv, FilesTypes, RunsAreApart, F!Remove, F!Owner, F!files
<1>3. RunnerOwns'
  BY DEF FilesInv, FilesTypes, RunsAreApart, RunnerOwns, F!Remove, F!Owner,
         F!files
<1>4. SealedIsThere'
  BY DEF FilesInv, FilesTypes, RunsAreApart, SealedIsThere, F!Complete,
         F!Segments, F!Remove, F!Owner, F!files
<1> QED BY <1>1, <1>2, <1>3, <1>4 DEF FilesInv

LEMMA RemovedFiles == ASSUME FilesInv, NEW p \in Processes, F!Removed(p) PROVE FilesInv'
<1> USE FilesAssumption DEF Tasks, Segment, Busy
<1>1. FilesTypes'
  BY DEF FilesInv, FilesTypes, RunsAreApart, F!Removed, F!files
<1>2. RunsAreApart'
  BY DEF FilesInv, FilesTypes, RunsAreApart, F!Removed, F!files
<1>3. RunnerOwns'
  BY DEF FilesInv, FilesTypes, RunsAreApart, RunnerOwns, F!Removed, F!files
<1>4. SealedIsThere'
  BY DEF FilesInv, FilesTypes, RunsAreApart, SealedIsThere, F!Complete,
         F!Segments, F!Removed, F!files
<1> QED BY <1>1, <1>2, <1>3, <1>4 DEF FilesInv

LEMMA FilesNext == FilesInv /\ F!Next => FilesInv'
BY BeginFiles, ResumeFiles, ClaimFiles, WorkFiles, SealFiles, WriteFiles,
   EndFiles, ReleaseFiles, CrashFiles, SweepFiles, SpareFiles, DeleteFiles,
   RemoveFiles, RemovedFiles
DEF F!Next

LEMMA FilesUnchanged == FilesInv /\ UNCHANGED filesVars => FilesInv'
<1> SUFFICES ASSUME FilesInv, UNCHANGED filesVars PROVE FilesInv'
  OBVIOUS
<1>1. FilesTypes'
  BY DEF FilesInv, FilesTypes, Tasks, Segment, filesVars
<1>2. RunsAreApart' /\ RunnerOwns'
  BY DEF FilesInv, RunsAreApart, RunnerOwns, Busy, filesVars
<1>3. SealedIsThere'
  BY DEF FilesInv, SealedIsThere, F!Complete, filesVars
<1> QED BY <1>1, <1>2, <1>3 DEF FilesInv

LEMMA AtMostOneRuns == FilesInv => F!OneTask
<1> SUFFICES ASSUME FilesInv PROVE Cardinality(F!Running) <= 1
  BY Zenon DEF F!OneTask, F!Cardinality, F!IsFiniteSet, Cardinality, IsFiniteSet
<1>1. \A p \in F!Running : owner = [run |-> task[p].run, pid |-> p]
  BY DEF FilesInv, RunnerOwns, F!Running
<1>2. ASSUME NEW p \in F!Running PROVE p = owner.pid
  <2>1. owner = [run |-> task[p].run, pid |-> p]
    BY <1>1
  <2> QED BY <2>1
<1>3. CASE F!Running = {}
  BY <1>3, FS_EmptySet
<1>4. CASE F!Running # {}
  <2>1. F!Running = {owner.pid}
    BY <1>2, <1>4
  <2>2. Cardinality({owner.pid}) = 1
    BY FS_Singleton
  <2> QED BY <2>1, <2>2
<1> QED BY <1>3, <1>4

(* One task at a time, and every checkpoint can be read back, for any number *)
(* of processes, contexts and records and segments of any size, whoever      *)
(* crashes, sweeps and deletes.                                              *)
THEOREM OneTaskCorrect == SessionSpec => OneTaskAtATime
<1> DEFINE step == [SessionNext]_<<part, vars, filesVars, outcomeVars, journalVars,
                                   outputsVars, conversationsVars, memoryVars>>
<1>1. FilesInv /\ step => FilesInv'
  BY FilesUnchanged, FilesNext DEF SessionNext
<1>2. FilesInv /\ step =>
        [\A p \in Processes : phase[p] = "saves" /\ phase'[p] = "runs" /\ untouched[p]
           => F!Complete(checkpoint', segments)]_(F!vars)
  <2> SUFFICES ASSUME FilesInv, step, NEW p \in Processes, phase[p] = "saves",
                      phase'[p] = "runs", untouched[p], ~UNCHANGED F!vars
               PROVE  F!Complete(checkpoint', segments)
    OBVIOUS
  <2>1. F!Next
    BY DEF SessionNext, filesVars, F!vars, F!files
  <2>2. checkpoint' = task[p]
    BY <2>1
    DEF F!Next, F!Begin, F!Resume, F!Claim, F!Work, F!Seal, F!Write, F!End, F!Release,
        F!Crash, F!Sweep, F!Spare, F!Delete, F!Remove, F!Removed, FilesInv, FilesTypes
  <2> QED BY <2>2 DEF FilesInv, SealedIsThere
<1> QED BY FilesInit, AtMostOneRuns, <1>1, <1>2, PTL
        DEF SessionSpec, OneTaskAtATime, F!ReferencesSealed

-----------------------------------------------------------------------------
(* Outputs of tools. Who measures and writes on the disk holds the lock, so  *)
(* the room it found is still there; a record is named by its reference, so  *)
(* what is written is never taken for another.                               *)
Saving(s) == progress[s] # "idle"
LockHeld ==
  \A s \in Stores \ Private :
    progress[s] \in {"purging", "measuring", "writing"} => lock = s

NamedOnce ==
  /\ \A p \in Stores \cup {T!Disk} : \A r \in records[p] :
       /\ r.ref <= saves
       /\ \A o \in records[p] : o.ref = r.ref => o = r
       /\ \A s \in Stores : Saving(s) => storing[s].ref # r.ref
  /\ \A s \in Stores : Saving(s) =>
       /\ storing[s] \in T!Records /\ storing[s].ref <= saves
       /\ storing[s].bytes <= MaxBytes /\ storing[s].owner = s
       /\ \A t \in Stores : Saving(t) /\ storing[t].ref = storing[s].ref => t = s

Units(p) == UNION {T!Units(r) : r \in records[p]}
QuotaKept ==
  /\ \A p \in Stores \cup {T!Disk} :
       IsFiniteSet(Units(p)) /\ Cardinality(Units(p)) <= MaxBytes
  /\ \A s \in Stores :
       progress[s] = "writing" =>
         /\ s \notin Private
         /\ Cardinality(Units(T!Disk)) + storing[s].bytes <= MaxBytes

RecordOf(told) ==
  [ref |-> told.ref, owner |-> told.store, bytes |-> told.bytes, expires |-> told.expires,
   text |-> told.text]
ToldIsKept ==
  \A told \in shown : told.store \notin disposed /\ told.expires > now =>
    RecordOf(told) \in records[T!Place(told.store)]

OutputsInv == T!TypeOK /\ LockHeld /\ NamedOnce /\ QuotaKept /\ ToldIsKept

LEMMA BytesCounted ==
  /\ \A S : T!Cardinality(S) = Cardinality(S)
  /\ \A p : T!Bytes(p) = Cardinality(Units(p))
<1>1. \A S : T!Cardinality(S) = Cardinality(S)
  BY Zenon DEF T!Cardinality, T!IsFiniteSet, Cardinality, IsFiniteSet
<1> QED BY <1>1 DEF T!Bytes, Units

LEMMA UnitsOfOne ==
  ASSUME NEW r \in T!Records
  PROVE  IsFiniteSet(T!Units(r)) /\ Cardinality(T!Units(r)) = r.bytes
<1>1. r.bytes \in Nat
  BY OutputsAssumption DEF T!Records
<1>2. IsFiniteSet(1 .. r.bytes) /\ Cardinality(1 .. r.bytes) = r.bytes
  BY SMTT(30), <1>1, FS_Interval
<1>3. IsFiniteSet({r}) /\ Cardinality({r}) = 1
  BY FS_Singleton
<1>4. /\ IsFiniteSet({r} \X (1 .. r.bytes))
      /\ Cardinality({r} \X (1 .. r.bytes)) = 1 * r.bytes
  <2>1. PICK S, R : S = {r} /\ R = 1 .. r.bytes
    OBVIOUS
  <2>2. IsFiniteSet(S) /\ IsFiniteSet(R) /\ Cardinality(S) = 1 /\ Cardinality(R) = r.bytes
    BY <1>2, <1>3, <2>1
  <2>3. IsFiniteSet(S \X R) /\ Cardinality(S \X R) = Cardinality(S) * Cardinality(R)
    BY <2>2, FS_Product
  <2> QED BY <2>1, <2>2, <2>3
<1> QED BY <1>1, <1>4 DEF T!Units

LEMMA OutputsInit == SessionInit => OutputsInv
<1> SUFFICES ASSUME SessionInit PROVE OutputsInv
  OBVIOUS
<1> USE OutputsAssumption
<1>1. T!TypeOK
  BY DEF SessionInit, T!Init, T!TypeOK, T!Disk
<1>2. LockHeld /\ NamedOnce /\ ToldIsKept
  BY DEF SessionInit, T!Init, LockHeld, NamedOnce, ToldIsKept, Saving, T!Disk
<1>3. QuotaKept
  <2>1. \A p \in Stores \cup {T!Disk} : Units(p) = {}
    BY DEF SessionInit, T!Init, Units, T!Disk
  <2>2. IsFiniteSet({}) /\ Cardinality({}) = 0
    BY FS_EmptySet
  <2>3. \A s \in Stores : progress[s] # "writing"
    BY DEF SessionInit, T!Init
  <2>4. \A p \in Stores \cup {T!Disk} :
          IsFiniteSet(Units(p)) /\ Cardinality(Units(p)) = 0
    BY <2>1, <2>2
  <2>5. 0 <= MaxBytes
    OBVIOUS
  <2> QED BY <2>3, <2>4, <2>5 DEF QuotaKept
<1> QED BY <1>1, <1>2, <1>3 DEF OutputsInv

LEMMA TickOutputs ==
  ASSUME OutputsInv, T!Tick
  PROVE  OutputsInv'
<1> USE OutputsAssumption
<1>1. T!TypeOK'
  BY DEF OutputsInv, T!TypeOK, T!Tick, T!Goes, T!Disk
<1>2. LockHeld'
  BY DEF OutputsInv, T!TypeOK, LockHeld, T!Tick, T!Goes, T!Disk
<1>3. NamedOnce'
  BY DEF OutputsInv, T!TypeOK, NamedOnce, Saving, T!Tick, T!Goes, T!Disk
<1>4. QuotaKept'
  <2>1. \A p : Units(p)' = Units(p)
    BY DEF T!Tick, Units
  <2> QED BY <2>1 DEF OutputsInv, T!TypeOK, QuotaKept, T!Tick, T!Goes, T!Disk
<1>5. ToldIsKept'
  BY DEF OutputsInv, T!TypeOK, ToldIsKept, RecordOf, T!Tick, T!Goes, T!Disk,
         T!Place
<1> QED BY <1>1, <1>2, <1>3, <1>4, <1>5 DEF OutputsInv

LEMMA AddSecretOutputs ==
  ASSUME OutputsInv, NEW s \in Stores, NEW secret \in Secrets, T!AddSecret(s, secret)
  PROVE  OutputsInv'
<1> USE OutputsAssumption
<1>1. T!TypeOK'
  BY DEF OutputsInv, T!TypeOK, T!AddSecret, T!Goes, T!Disk
<1>2. LockHeld'
  BY DEF OutputsInv, T!TypeOK, LockHeld, T!AddSecret, T!Goes, T!Disk
<1>3. NamedOnce'
  BY DEF OutputsInv, T!TypeOK, NamedOnce, Saving, T!AddSecret, T!Goes, T!Disk
<1>4. QuotaKept'
  <2>1. \A p : Units(p)' = Units(p)
    BY DEF T!AddSecret, Units
  <2> QED BY <2>1 DEF OutputsInv, T!TypeOK, QuotaKept, T!AddSecret, T!Goes, T!Disk
<1>5. ToldIsKept'
  BY DEF OutputsInv, T!TypeOK, ToldIsKept, RecordOf, T!AddSecret, T!Goes,
         T!Disk, T!Place
<1> QED BY <1>1, <1>2, <1>3, <1>4, <1>5 DEF OutputsInv

LEMMA AcquireOutputs ==
  ASSUME OutputsInv, NEW s \in Stores, T!Acquire(s)
  PROVE  OutputsInv'
<1> USE OutputsAssumption
<1>1. T!TypeOK'
  BY DEF OutputsInv, T!TypeOK, T!Acquire, T!Goes, T!Disk
<1>2. LockHeld'
  BY DEF OutputsInv, T!TypeOK, LockHeld, T!Acquire, T!Goes, T!Disk
<1>3. NamedOnce'
  BY DEF OutputsInv, T!TypeOK, NamedOnce, Saving, T!Acquire, T!Goes, T!Disk
<1>4. QuotaKept'
  <2>1. \A p : Units(p)' = Units(p)
    BY DEF T!Acquire, Units
  <2> QED BY <2>1 DEF OutputsInv, T!TypeOK, QuotaKept, T!Acquire, T!Goes, T!Disk
<1>5. ToldIsKept'
  BY DEF OutputsInv, T!TypeOK, ToldIsKept, RecordOf, T!Acquire, T!Goes, T!Disk,
         T!Place
<1> QED BY <1>1, <1>2, <1>3, <1>4, <1>5 DEF OutputsInv

LEMMA MeasureOutputs ==
  ASSUME OutputsInv, NEW s \in Stores, T!Measure(s)
  PROVE  OutputsInv'
<1> USE OutputsAssumption
<1>1. T!TypeOK'
  BY DEF OutputsInv, T!TypeOK, T!Measure, T!Goes, T!Disk
<1>2. LockHeld'
  BY DEF OutputsInv, T!TypeOK, LockHeld, T!Measure, T!Goes, T!Disk
<1>3. NamedOnce'
  BY DEF OutputsInv, T!TypeOK, NamedOnce, Saving, T!Measure, T!Goes, T!Disk
<1>4. QuotaKept'
  <2>1. \A p : Units(p)' = Units(p)
    BY DEF T!Measure, Units
  <2>2. Cardinality(Units(T!Disk)) + storing[s].bytes <= MaxBytes
    BY BytesCounted DEF T!Measure, T!HasRoom, T!Place
  <2> QED BY <2>1, <2>2 DEF OutputsInv, T!TypeOK, QuotaKept, T!Measure, T!Goes, T!Disk
<1>5. ToldIsKept'
  BY DEF OutputsInv, T!TypeOK, ToldIsKept, RecordOf, T!Measure, T!Goes, T!Disk,
         T!Place
<1> QED BY <1>1, <1>2, <1>3, <1>4, <1>5 DEF OutputsInv

LEMMA PurgeExpiredOutputs ==
  ASSUME OutputsInv, NEW s \in Stores, T!PurgeExpired(s)
  PROVE  OutputsInv'
<1> USE OutputsAssumption
<1>1. T!TypeOK'
  BY DEF OutputsInv, T!TypeOK, T!PurgeExpired, T!Kept, T!IsExpired, T!Place,
         T!Goes, T!Disk
<1>2. LockHeld'
  BY DEF OutputsInv, T!TypeOK, LockHeld, T!PurgeExpired, T!Kept, T!IsExpired,
         T!Place, T!Goes, T!Disk
<1>3. NamedOnce'
  BY DEF OutputsInv, T!TypeOK, NamedOnce, Saving, T!PurgeExpired, T!Kept,
         T!IsExpired, T!Place, T!Goes, T!Disk
<1>4. QuotaKept'
  <2>1. \A p \in Stores \cup {T!Disk} : Units(p)' \subseteq Units(p)
    BY DEF OutputsInv, T!TypeOK, T!PurgeExpired, T!Kept, Units
  <2>2. \A p \in Stores \cup {T!Disk} :
          IsFiniteSet(Units(p)') /\ Cardinality(Units(p)') <= Cardinality(Units(p))
    BY <2>1, FS_Subset DEF OutputsInv, QuotaKept
  <2>3. \A p \in Stores \cup {T!Disk} :
          Cardinality(Units(p)) \in Nat /\ Cardinality(Units(p)') \in Nat
    BY <2>2, FS_CardinalityType DEF OutputsInv, QuotaKept
  <2>4. \A t \in Stores : progress'[t] = "writing" =>
          progress[t] = "writing" /\ storing'[t] = storing[t] /\ storing[t].bytes \in Nat
    BY DEF OutputsInv, T!TypeOK, NamedOnce, Saving, T!Records, T!PurgeExpired, T!Goes
  <2> QED BY <2>2, <2>3, <2>4 DEF OutputsInv, QuotaKept
<1>5. ToldIsKept'
  BY DEF OutputsInv, T!TypeOK, ToldIsKept, RecordOf, T!PurgeExpired, T!Kept,
         T!IsExpired, T!Place, T!Goes, T!Disk
<1> QED BY <1>1, <1>2, <1>3, <1>4, <1>5 DEF OutputsInv

LEMMA DisposeOutputs ==
  ASSUME OutputsInv, NEW s \in Stores, T!Dispose(s)
  PROVE  OutputsInv'
<1> USE OutputsAssumption
<1>1. T!TypeOK'
  BY DEF OutputsInv, T!TypeOK, T!Dispose, T!Goes, T!Disk
<1>2. LockHeld'
  BY DEF OutputsInv, T!TypeOK, LockHeld, T!Dispose, T!Goes, T!Disk
<1>3. NamedOnce'
  BY DEF OutputsInv, T!TypeOK, NamedOnce, Saving, T!Dispose, T!Goes, T!Disk
<1>4. QuotaKept'
  <2>1. \A p \in Stores \cup {T!Disk} : Units(p)' \subseteq Units(p)
    BY DEF OutputsInv, T!TypeOK, T!Dispose, Units
  <2>2. \A p \in Stores \cup {T!Disk} :
          IsFiniteSet(Units(p)') /\ Cardinality(Units(p)') <= Cardinality(Units(p))
    BY <2>1, FS_Subset DEF OutputsInv, QuotaKept
  <2>3. \A p \in Stores \cup {T!Disk} :
          Cardinality(Units(p)) \in Nat /\ Cardinality(Units(p)') \in Nat
    BY <2>2, FS_CardinalityType DEF OutputsInv, QuotaKept
  <2>4. \A t \in Stores : progress'[t] = "writing" =>
          progress[t] = "writing" /\ storing'[t] = storing[t] /\ storing[t].bytes \in Nat
    BY DEF OutputsInv, T!TypeOK, NamedOnce, Saving, T!Records, T!Dispose, T!Goes
  <2> QED BY <2>2, <2>3, <2>4 DEF OutputsInv, QuotaKept
<1>5. ToldIsKept'
  BY DEF OutputsInv, T!TypeOK, ToldIsKept, RecordOf, T!Dispose, T!Goes, T!Disk,
         T!Place
<1> QED BY <1>1, <1>2, <1>3, <1>4, <1>5 DEF OutputsInv

LEMMA FailOutputs ==
  ASSUME OutputsInv, NEW s \in Stores, T!Fail(s)
  PROVE  OutputsInv'
<1> USE OutputsAssumption
<1>1. T!TypeOK'
  BY DEF OutputsInv, T!TypeOK, T!Fail, T!Settle, T!Goes, T!Disk
<1>2. LockHeld'
  BY DEF OutputsInv, T!TypeOK, LockHeld, T!Fail, T!Settle, T!Goes, T!Disk
<1>3. NamedOnce'
  BY DEF OutputsInv, T!TypeOK, NamedOnce, Saving, T!Fail, T!Settle, T!Goes,
         T!Disk
<1>4. QuotaKept'
  <2>1. \A p : Units(p)' = Units(p)
    BY DEF T!Fail, Units
  <2> QED BY <2>1 DEF OutputsInv, T!TypeOK, QuotaKept, T!Fail, T!Settle, T!Goes, T!Disk
<1>5. ToldIsKept'
  BY DEF OutputsInv, T!TypeOK, ToldIsKept, RecordOf, T!Fail, T!Settle, T!Goes,
         T!Disk, T!Place
<1> QED BY <1>1, <1>2, <1>3, <1>4, <1>5 DEF OutputsInv

LEMMA SaveOutputs ==
  ASSUME OutputsInv, NEW s \in Stores, NEW text \in SUBSET Secrets,
       NEW bytes \in 1 .. MaxBytes + 1, T!Save(s, text, bytes)
  PROVE  OutputsInv'
<1> USE OutputsAssumption
<1>1. T!TypeOK'
  BY DEF OutputsInv, T!TypeOK, T!Save, T!Filter, T!Records, T!Refs, T!Goes,
         T!Disk
<1>2. LockHeld'
  BY DEF OutputsInv, T!TypeOK, LockHeld, T!Save, T!Filter, T!Records, T!Refs,
         T!Goes, T!Disk
<1>3. NamedOnce'
  BY DEF OutputsInv, T!TypeOK, NamedOnce, Saving, T!Save, T!Filter, T!Records,
         T!Refs, T!Goes, T!Disk
<1>4. QuotaKept'
  <2>1. \A p : Units(p)' = Units(p)
    BY DEF T!Save, Units
  <2> QED BY <2>1 DEF OutputsInv, T!TypeOK, QuotaKept, T!Save, T!Goes, T!Disk
<1>5. ToldIsKept'
  BY DEF OutputsInv, T!TypeOK, ToldIsKept, RecordOf, T!Save, T!Filter,
         T!Records, T!Refs, T!Goes, T!Disk, T!Place
<1> QED BY <1>1, <1>2, <1>3, <1>4, <1>5 DEF OutputsInv

LEMMA WriteOutputs ==
  ASSUME OutputsInv, NEW s \in Stores, T!Write(s)
  PROVE  OutputsInv'
<1> USE OutputsAssumption
<1>1. /\ Saving(s) /\ storing[s] \in T!Records
      /\ storing[s].bytes \in 1 .. MaxBytes /\ storing[s].owner = s
  BY DEF OutputsInv, NamedOnce, Saving, T!Write, T!Writes, T!Records
<1>2. PICK place \in Stores \cup {T!Disk} : place = T!Place(s)
  BY DEF T!Place
<1>3. Cardinality(Units(place)) + storing[s].bytes <= MaxBytes
  BY <1>2, BytesCounted DEF OutputsInv, QuotaKept, T!Write, T!Writes, T!HasRoom, T!Place
<1>4. T!TypeOK'
  BY <1>1 DEF OutputsInv, T!TypeOK, T!Write, T!Settle, T!Goes, T!Disk, T!Place, T!Records
<1>5. LockHeld'
  BY DEF OutputsInv, T!TypeOK, LockHeld, T!Write, T!Settle, T!Goes
<1>6. NamedOnce'
  BY <1>1 DEF OutputsInv, T!TypeOK, NamedOnce, Saving, T!Write, T!Settle, T!Goes, T!Disk
<1>7. QuotaKept'
  <2>1. /\ Units(place)' = Units(place) \cup T!Units(storing[s])
        /\ \A p \in Stores \cup {T!Disk} : p # place => Units(p)' = Units(p)
    BY <1>2 DEF OutputsInv, T!TypeOK, T!Write, Units, T!Disk
  <2>2. IsFiniteSet(Units(place)) /\ Cardinality(Units(place)) \in Nat
    BY FS_CardinalityType DEF OutputsInv, QuotaKept
  <2>3. /\ IsFiniteSet(T!Units(storing[s]))
        /\ Cardinality(T!Units(storing[s])) = storing[s].bytes
    BY <1>1, UnitsOfOne
  <2>4. PICK shared \in Nat :
          /\ IsFiniteSet(Units(place) \cup T!Units(storing[s]))
          /\ Cardinality(Units(place) \cup T!Units(storing[s]))
               = Cardinality(Units(place)) + Cardinality(T!Units(storing[s])) - shared
    <3>1. Cardinality(Units(place) \cap T!Units(storing[s])) \in Nat
      BY <2>2, FS_Intersection, FS_CardinalityType
    <3> QED BY <2>2, <2>3, <3>1, FS_Union
  <2>5. IsFiniteSet(Units(place)') /\ Cardinality(Units(place)') <= MaxBytes
    BY <1>1, <1>3, <2>1, <2>2, <2>3, <2>4
  <2>6. \A p \in Stores \cup {T!Disk} :
          IsFiniteSet(Units(p)') /\ Cardinality(Units(p)') <= MaxBytes
    BY <2>1, <2>5 DEF OutputsInv, QuotaKept
  <2>7. ASSUME NEW t \in Stores, progress'[t] = "writing"
        PROVE  /\ t \notin Private
               /\ Cardinality(Units(T!Disk)') + storing'[t].bytes <= MaxBytes
    <3>1. t # s /\ progress[t] = "writing" /\ storing'[t] = storing[t]
      BY <2>7 DEF OutputsInv, T!TypeOK, T!Write, T!Settle, T!Goes
    <3>2. t \notin Private /\ Cardinality(Units(T!Disk)) + storing[t].bytes <= MaxBytes
      BY <3>1 DEF OutputsInv, QuotaKept
    <3>3. s \in Private
      BY <3>1, <3>2 DEF OutputsInv, LockHeld, QuotaKept, T!Write, T!Writes
    <3>4. T!Disk # place
      BY <1>2, <3>3 DEF T!Place, T!Disk
    <3> QED BY <2>1, <3>1, <3>2, <3>4
  <2> QED BY <2>6, <2>7 DEF QuotaKept
<1>8. ToldIsKept'
  BY <1>1 DEF OutputsInv, T!TypeOK, ToldIsKept, RecordOf, T!Write, T!Settle, T!Place, T!Disk,
     T!Records
<1> QED BY <1>4, <1>5, <1>6, <1>7, <1>8 DEF OutputsInv

LEMMA OutputsNext == OutputsInv /\ T!Next => OutputsInv'
BY TickOutputs, SaveOutputs, AddSecretOutputs, AcquireOutputs, PurgeExpiredOutputs,
   MeasureOutputs, WriteOutputs, FailOutputs, DisposeOutputs
DEF T!Next

LEMMA OutputsUnchanged == OutputsInv /\ UNCHANGED outputsVars => OutputsInv'
<1> SUFFICES ASSUME OutputsInv, UNCHANGED outputsVars PROVE OutputsInv'
  OBVIOUS
<1>1. T!TypeOK' /\ LockHeld' /\ ToldIsKept'
  BY DEF OutputsInv, T!TypeOK, LockHeld, ToldIsKept, outputsVars
<1>2. NamedOnce'
  BY DEF OutputsInv, NamedOnce, Saving, outputsVars
<1>3. \A p : Units(p)' = Units(p)
  BY DEF Units, outputsVars
<1>4. QuotaKept'
  BY <1>3 DEF OutputsInv, QuotaKept, outputsVars
<1> QED BY <1>1, <1>2, <1>4 DEF OutputsInv

(* The record a task was told of is the one it loads, and no other.          *)
LEMMA LoadsWhatWasTold ==
  ASSUME OutputsInv, NEW told \in shown, told.store \notin disposed, told.expires > now,
         told.text \cap registered[told.store] = {}
  PROVE  T!Load(told.store, told.ref) = {RecordOf(told)}
<1>1. told.store \in Stores /\ told.text \in SUBSET Secrets
  BY DEF OutputsInv, T!TypeOK
<1>2. T!Place(told.store) \in Stores \cup {T!Disk}
  BY <1>1 DEF T!Place
<1>3. RecordOf(told) \in records[T!Place(told.store)]
  BY DEF OutputsInv, ToldIsKept
<1>4. RecordOf(told) \in T!Load(told.store, told.ref)
  BY <1>1, <1>3 DEF T!Load, T!IsExpired, T!Filter, RecordOf, OutputsInv, T!TypeOK
<1>5. \A r \in T!Load(told.store, told.ref) : r = RecordOf(told)
  BY <1>2, <1>3 DEF T!Load, RecordOf, OutputsInv, NamedOnce
<1> QED BY <1>4, <1>5

(* What a task was told to read later it can read, whole, until it expires,  *)
(* and no place ever holds more than the quota, for any number of stores,    *)
(* private or not, of records and of any size.                               *)
THEOREM OutputsCorrect == SessionSpec => []ReferencesStayReadable
<1>1. OutputsInv /\ [SessionNext]_<<part, vars, filesVars, outcomeVars, journalVars,
                      outputsVars, conversationsVars, memoryVars>> => OutputsInv'
  BY OutputsUnchanged, OutputsNext DEF SessionNext
<1>2. OutputsInv => ReferencesStayReadable
  <2> SUFFICES ASSUME OutputsInv PROVE T!ReferencesStayReadable
    BY DEF ReferencesStayReadable, OutputsInv
  <2>1. \A p \in DOMAIN records : T!Bytes(p) <= MaxBytes
    BY BytesCounted DEF OutputsInv, T!TypeOK, QuotaKept
  <2>2. ASSUME NEW told \in shown, told.store \notin disposed, told.expires > now,
               told.text \cap registered[told.store] = {}
        PROVE  {[text |-> r.text, bytes |-> r.bytes] : r \in T!Load(told.store, told.ref)}
                 = {[text |-> told.text, bytes |-> told.bytes]}
    <3>1. T!Load(told.store, told.ref) = {RecordOf(told)}
      BY <2>2, LoadsWhatWasTold
    <3>2. RecordOf(told).text = told.text /\ RecordOf(told).bytes = told.bytes
      BY DEF RecordOf
    <3> QED BY <3>1, <3>2
  <2> QED BY <2>1, <2>2 DEF T!ReferencesStayReadable
<1> QED BY OutputsInit, <1>1, <1>2, PTL DEF SessionSpec

-----------------------------------------------------------------------------
(* Conversations. A turn is only known where it was asked: to the processes  *)
(* that are in the conversation, to the menus that show it, to what is       *)
(* stored and to its checkpoint.                                             *)
Asked(id) == {t \in 1 .. turns : home[t] = id}
Known(s) == s.id \in 1 .. sessions /\ s.turns \in SUBSET Asked(s.id)

ConversationTypes ==
  /\ ephemeral \in BOOLEAN
  /\ sessions \in 0 .. MaxConversations /\ turns \in 0 .. MaxAsked
  /\ stored \in [C!Places -> [C!Ids -> {None} \cup SUBSET (1 .. MaxAsked)]]
  /\ checkpoints \in [C!Places -> [C!Ids -> {None} \cup 1 .. MaxAsked]]
  /\ home \in [1 .. MaxAsked -> {None} \cup C!Ids]
  /\ gone \in [C!Places -> SUBSET (1 .. sessions)]
  /\ markers \in SUBSET (1 .. sessions)
  /\ active \in [Procs -> {None} \cup C!Sessions]
  /\ menu \in [Procs -> SUBSET C!Sessions]
  /\ DOMAIN doing = Procs /\ DOMAIN chosen = Procs

WhereAsked ==
  /\ \A place \in C!Places : \A id \in C!Ids :
       /\ stored[place][id] # None => id <= sessions /\ stored[place][id] \in SUBSET Asked(id)
       /\ checkpoints[place][id] # None => checkpoints[place][id] \in Asked(id)
  /\ \A p \in Procs :
       /\ active[p] # None => Known(active[p])
       /\ \A s \in menu[p] : Known(s)
       /\ doing[p] = "deletes" => chosen[p] \in 1 .. sessions
       /\ doing[p] \in {"claims", "runs"} =>
            active[p] # None /\ chosen[p] \in Asked(active[p].id)

(* What was deleted cannot return: on the disk a marker refuses it; without  *)
(* one, the only process that could save it has left it, and shows it in no  *)
(* menu.                                                                     *)
StaysGone ==
  /\ \A place \in C!Places : \A id \in gone[place] :
       /\ stored[place][id] = None
       /\ ephemeral => checkpoints[place][id] = None
       /\ ~ephemeral => id \in markers
  /\ ephemeral => \A p \in Procs :
       /\ doing[p] \notin {"renews", "over"} /\ active[p] # None => active[p].id \notin gone[p]
       /\ doing[p] \in {"resumes", "chooses"} => \A s \in menu[p] : s.id \notin gone[p]

ConversationInv == ConversationTypes /\ WhereAsked /\ StaysGone

LEMMA PlaceIsPlace == \A p \in Procs : C!Place(p) \in C!Places
BY DEF C!Place, C!Places

LEMMA ConversationInit == SessionInit => ConversationInv
<1> SUFFICES ASSUME SessionInit PROVE ConversationInv
  OBVIOUS
<1> USE ConversationsAssumption
<1>1. ConversationTypes
  BY DEF SessionInit, C!Init, ConversationTypes, C!Places
<1>2. WhereAsked
  BY DEF SessionInit, C!Init, WhereAsked
<1>3. StaysGone
  BY DEF SessionInit, C!Init, StaysGone
<1> QED BY <1>1, <1>2, <1>3 DEF ConversationInv

(* Who only knows the same or more conversations still knows.                *)
LEMMA NewInv ==
  ASSUME ConversationInv, NEW p \in Procs, C!New(p), ephemeral' = ephemeral
  PROVE  ConversationInv'
<1> USE ConversationsAssumption, PlaceIsPlace
<1>1. ConversationTypes'
  BY DEF ConversationInv, ConversationTypes, C!New, C!Create, C!Enters, C!Created, C!Ids,
         C!Sessions, C!history
<1>2. WhereAsked'
  BY DEF ConversationInv, ConversationTypes, WhereAsked, Known, Asked, C!New, C!Create,
         C!Enters, C!Created, C!Ids, C!history
<1>3. StaysGone'
  BY DEF ConversationInv, ConversationTypes, StaysGone, C!New, C!Create, C!Enters, C!Created,
         C!Ids, C!history, C!Places
<1> QED BY <1>1, <1>2, <1>3 DEF ConversationInv

LEMMA OpenInv ==
  ASSUME ConversationInv, NEW p \in Procs, C!Open(p), ephemeral' = ephemeral
  PROVE  ConversationInv'
<1> USE ConversationsAssumption, PlaceIsPlace
<1>1. ConversationTypes'
  BY DEF ConversationInv, ConversationTypes, C!Open, C!Goes, C!Listed, C!Place,
         C!history, C!files, C!Ids, C!Sessions
<1>2. WhereAsked'
  BY DEF ConversationInv, ConversationTypes, WhereAsked, Known, Asked, C!Open,
         C!Goes, C!Listed, C!Place, C!history, C!files, C!Ids, C!Sessions
<1>3. StaysGone'
  BY DEF ConversationInv, ConversationTypes, WhereAsked, Known, StaysGone,
         C!Open, C!Goes, C!Listed, C!Place, C!history, C!files, C!Ids,
         C!Sessions, C!Places
<1> QED BY <1>1, <1>2, <1>3 DEF ConversationInv

LEMMA CancelInv ==
  ASSUME ConversationInv, NEW p \in Procs, C!Cancel(p), ephemeral' = ephemeral
  PROVE  ConversationInv'
<1> USE ConversationsAssumption, PlaceIsPlace
<1>1. ConversationTypes'
  BY DEF ConversationInv, ConversationTypes, C!Cancel, C!Goes, C!history,
         C!files, C!Ids, C!Sessions
<1>2. WhereAsked'
  BY DEF ConversationInv, ConversationTypes, WhereAsked, Known, Asked,
         C!Cancel, C!Goes, C!history, C!files, C!Ids, C!Sessions
<1>3. StaysGone'
  BY DEF ConversationInv, ConversationTypes, WhereAsked, Known, StaysGone,
         C!Cancel, C!Goes, C!history, C!files, C!Ids, C!Sessions, C!Places
<1> QED BY <1>1, <1>2, <1>3 DEF ConversationInv

LEMMA ResumeInv ==
  ASSUME ConversationInv, NEW p \in Procs, C!Resume(p), ephemeral' = ephemeral
  PROVE  ConversationInv'
<1> USE ConversationsAssumption, PlaceIsPlace
<1>1. ConversationTypes'
  BY DEF ConversationInv, ConversationTypes, C!Resume, C!Goes, C!Enters,
         C!history, C!files, C!Ids, C!Sessions
<1>2. WhereAsked'
  BY DEF ConversationInv, ConversationTypes, WhereAsked, Known, Asked,
         C!Resume, C!Goes, C!Enters, C!history, C!files, C!Ids, C!Sessions
<1>3. StaysGone'
  BY DEF ConversationInv, ConversationTypes, WhereAsked, Known, StaysGone,
         C!Resume, C!Goes, C!Enters, C!history, C!files, C!Ids, C!Sessions,
         C!Places
<1> QED BY <1>1, <1>2, <1>3 DEF ConversationInv

LEMMA ConfirmInv ==
  ASSUME ConversationInv, NEW p \in Procs, C!Confirm(p), ephemeral' = ephemeral
  PROVE  ConversationInv'
<1> USE ConversationsAssumption, PlaceIsPlace
<1>1. ConversationTypes'
  BY DEF ConversationInv, ConversationTypes, C!Confirm, C!Goes, C!history,
         C!files, C!Ids, C!Sessions
<1>2. WhereAsked'
  BY DEF ConversationInv, ConversationTypes, WhereAsked, Known, Asked,
         C!Confirm, C!Goes, C!history, C!files, C!Ids, C!Sessions
<1>3. StaysGone'
  BY DEF ConversationInv, ConversationTypes, WhereAsked, Known, StaysGone,
         C!Confirm, C!Goes, C!history, C!files, C!Ids, C!Sessions, C!Places
<1> QED BY <1>1, <1>2, <1>3 DEF ConversationInv

LEMMA DeleteInv ==
  ASSUME ConversationInv, NEW p \in Procs, C!Delete(p), ephemeral' = ephemeral
  PROVE  ConversationInv'
<1> USE ConversationsAssumption, PlaceIsPlace
<1>1. ConversationTypes'
  BY DEF ConversationInv, ConversationTypes, WhereAsked, C!Delete, C!Goes, C!Remove,
         C!Leaves, C!Place, C!history, C!files, C!Ids, C!Sessions
<1>2. WhereAsked'
  BY DEF ConversationInv, ConversationTypes, WhereAsked, Known, Asked,
         C!Delete, C!Goes, C!Remove, C!Leaves, C!Place, C!history, C!files,
         C!Ids, C!Sessions
<1>3. StaysGone'
  BY DEF ConversationInv, ConversationTypes, WhereAsked, Known, StaysGone,
         C!Delete, C!Goes, C!Remove, C!Leaves, C!Place, C!history, C!files,
         C!Ids, C!Sessions, C!Places
<1> QED BY <1>1, <1>2, <1>3 DEF ConversationInv

LEMMA RenewInv ==
  ASSUME ConversationInv, NEW p \in Procs, C!Renew(p), ephemeral' = ephemeral
  PROVE  ConversationInv'
<1> USE ConversationsAssumption, PlaceIsPlace
<1>1. ConversationTypes'
  BY DEF ConversationInv, ConversationTypes, C!Renew, C!Goes, C!Create,
         C!Enters, C!Created, C!history, C!files, C!Ids, C!Sessions
<1>2. WhereAsked'
  BY DEF ConversationInv, ConversationTypes, WhereAsked, Known, Asked, C!Renew,
         C!Goes, C!Create, C!Enters, C!Created, C!history, C!files, C!Ids,
         C!Sessions
<1>3. StaysGone'
  BY DEF ConversationInv, ConversationTypes, WhereAsked, Known, StaysGone,
         C!Renew, C!Goes, C!Create, C!Enters, C!Created, C!history, C!files,
         C!Ids, C!Sessions, C!Places
<1> QED BY <1>1, <1>2, <1>3 DEF ConversationInv

LEMMA ForkInv ==
  ASSUME ConversationInv, NEW p \in Procs, C!Fork(p), ephemeral' = ephemeral
  PROVE  ConversationInv'
<1> USE ConversationsAssumption, PlaceIsPlace
<1>1. ConversationTypes'
  BY DEF ConversationInv, ConversationTypes, C!Fork, C!Enters, C!Place,
         C!history, C!files, C!Ids, C!Sessions
<1>2. WhereAsked'
  BY SMTT(30) DEF ConversationInv, ConversationTypes, WhereAsked, Known, Asked, C!Fork,
         C!Enters, C!Place, C!history, C!files, C!Ids, C!Sessions
<1>3. StaysGone'
  BY DEF ConversationInv, ConversationTypes, WhereAsked, Known, StaysGone,
         C!Fork, C!Enters, C!Place, C!history, C!files, C!Ids, C!Sessions,
         C!Places
<1> QED BY <1>1, <1>2, <1>3 DEF ConversationInv

LEMMA AskInv ==
  ASSUME ConversationInv, NEW p \in Procs, C!Ask(p), ephemeral' = ephemeral
  PROVE  ConversationInv'
<1> USE ConversationsAssumption, PlaceIsPlace
<1>1. ConversationTypes'
  BY DEF ConversationInv, ConversationTypes, C!Ask, C!Goes, C!history, C!files,
         C!Ids, C!Sessions
<1>2. WhereAsked'
  BY DEF ConversationInv, ConversationTypes, WhereAsked, Known, Asked, C!Ask,
         C!Goes, C!history, C!files, C!Ids, C!Sessions
<1>3. StaysGone'
  BY DEF ConversationInv, ConversationTypes, WhereAsked, Known, StaysGone,
         C!Ask, C!Goes, C!history, C!files, C!Ids, C!Sessions, C!Places
<1> QED BY <1>1, <1>2, <1>3 DEF ConversationInv

LEMMA ContinueInv ==
  ASSUME ConversationInv, NEW p \in Procs, C!Continue(p), ephemeral' = ephemeral
  PROVE  ConversationInv'
<1> USE ConversationsAssumption, PlaceIsPlace
<1>1. ConversationTypes'
  BY DEF ConversationInv, ConversationTypes, C!Continue, C!Goes, C!Place,
         C!history, C!files, C!Ids, C!Sessions
<1>2. WhereAsked'
  <2>1. /\ active[p] # None /\ C!Place(p) \in C!Places /\ active[p].id \in C!Ids
        /\ checkpoints[C!Place(p)][active[p].id] # None
    BY DEF ConversationInv, ConversationTypes, C!Continue, C!Sessions
  <2>2. checkpoints[C!Place(p)][active[p].id] \in Asked(active[p].id)
    BY <2>1 DEF ConversationInv, WhereAsked
  <2>3. /\ chosen' = [chosen EXCEPT ![p] = checkpoints[C!Place(p)][active[p].id]]
        /\ doing' = [doing EXCEPT ![p] = "claims"]
        /\ UNCHANGED <<sessions, turns, home, stored, checkpoints, active, menu>>
    BY DEF C!Continue, C!Goes, C!history, C!files
  <2>4. WhereAsked /\ DOMAIN doing = Procs /\ DOMAIN chosen = Procs
    BY DEF ConversationInv, ConversationTypes
  <2> QED  BY <2>1, <2>2, <2>3, <2>4 DEF WhereAsked, Known, Asked
<1>3. StaysGone'
  BY DEF ConversationInv, ConversationTypes, WhereAsked, Known, StaysGone,
         C!Continue, C!Goes, C!Place, C!history, C!files, C!Ids, C!Sessions,
         C!Places
<1> QED BY <1>1, <1>2, <1>3 DEF ConversationInv

LEMMA ClaimInv ==
  ASSUME ConversationInv, NEW p \in Procs, C!Claim(p), ephemeral' = ephemeral
  PROVE  ConversationInv'
<1> USE ConversationsAssumption, PlaceIsPlace
<1>1. ConversationTypes'
  BY DEF ConversationInv, ConversationTypes, C!Claim, C!Goes, C!history,
         C!files, C!Ids, C!Sessions
<1>2. WhereAsked'
  BY DEF ConversationInv, ConversationTypes, WhereAsked, Known, Asked, C!Claim,
         C!Goes, C!history, C!files, C!Ids, C!Sessions
<1>3. StaysGone'
  BY DEF ConversationInv, ConversationTypes, WhereAsked, Known, StaysGone,
         C!Claim, C!Goes, C!history, C!files, C!Ids, C!Sessions, C!Places
<1> QED BY <1>1, <1>2, <1>3 DEF ConversationInv

LEMMA EndInv ==
  ASSUME ConversationInv, NEW p \in Procs, C!End(p), ephemeral' = ephemeral
  PROVE  ConversationInv'
<1> USE ConversationsAssumption, PlaceIsPlace
<1>1. PICK id \in C!Ids, known \in SUBSET (1 .. MaxAsked), turn \in 1 .. MaxAsked :
        /\ active[p] # None /\ active[p] = [id |-> id, turns |-> known] /\ chosen[p] = turn
        /\ id \in 1 .. sessions /\ id <= sessions
        /\ known \in SUBSET Asked(id) /\ turn \in Asked(id)
  <2>1. doing[p] = "runs" /\ active[p] # None /\ chosen[p] \in Asked(active[p].id)
    BY DEF C!End, ConversationInv, WhereAsked
  <2>2. active[p] \in C!Sessions /\ Known(active[p])
    BY <2>1 DEF ConversationInv, ConversationTypes, WhereAsked
  <2>3. chosen[p] \in 1 .. MaxAsked
    BY <2>1 DEF Asked, ConversationInv, ConversationTypes
  <2>4. active[p].id \in 1 .. sessions => active[p].id <= sessions
    BY DEF ConversationInv, ConversationTypes
  <2> QED BY <2>1, <2>2, <2>3, <2>4 DEF C!Sessions, Known
<1>2. PICK merged \in SUBSET (1 .. MaxAsked) :
        /\ merged = C!Merged(p, [id |-> id, turns |-> known \cup {turn}])
        /\ merged \in SUBSET Asked(id)
  <2>1. stored[C!Place(p)][id] # None => stored[C!Place(p)][id] \in SUBSET Asked(id)
    BY DEF ConversationInv, WhereAsked
  <2>2. C!Merged(p, [id |-> id, turns |-> known \cup {turn}]) \in SUBSET Asked(id)
    BY <1>1, <2>1 DEF C!Merged
  <2>3. SUBSET Asked(id) \subseteq SUBSET (1 .. MaxAsked)
    BY DEF Asked, ConversationInv, ConversationTypes
  <2> QED BY <2>2, <2>3
<1>3. PICK entered \in SUBSET (1 .. MaxAsked), left \in {None, turn} :
        /\ doing[p] = "runs" /\ doing' = [doing EXCEPT ![p] = "prompt"]
        /\ chosen' = [chosen EXCEPT ![p] = None]
        /\ active' = [active EXCEPT ![p] = [id |-> id, turns |-> entered]]
        /\ entered \in SUBSET Asked(id)
        /\ checkpoints' = [checkpoints EXCEPT ![C!Place(p)][id] = left]
        /\ stored' = IF C!Refused(id) THEN stored
                     ELSE [stored EXCEPT ![C!Place(p)][id] = merged]
  <2>1. [active[p] EXCEPT !.turns = @ \cup {chosen[p]}] = [id |-> id, turns |-> known \cup {turn}]
    BY <1>1
  <2>2. known \cup {turn} \in SUBSET Asked(id) /\ known \cup {turn} \in SUBSET (1 .. MaxAsked)
    BY <1>1
  <2>3. active[p].id = id /\ chosen[p] = turn
    BY <1>1
  <2>4. PICK left \in {None, turn} :
          checkpoints' = [checkpoints EXCEPT ![C!Place(p)][id] = left]
    BY <2>3 DEF C!End
  <2>5. /\ doing[p] = "runs" /\ doing' = [doing EXCEPT ![p] = "prompt"]
        /\ chosen' = [chosen EXCEPT ![p] = None]
    BY DEF C!End, C!Goes
  <2>6. CASE C!Refused(id)
    BY <2>1, <2>2, <2>3, <2>4, <2>5, <2>6 DEF C!End, C!Enters
  <2>7. CASE ~C!Refused(id)
    <3>1. [[id |-> id, turns |-> known \cup {turn}] EXCEPT !.turns = merged]
            = [id |-> id, turns |-> merged]
      OBVIOUS
    <3>2. /\ stored' = [stored EXCEPT ![C!Place(p)][id] = merged]
          /\ active' = [active EXCEPT ![p] = [id |-> id, turns |-> merged]]
      BY <1>2, <2>1, <2>3, <2>7, <3>1 DEF C!End, C!Enters
    <3> QED BY <1>2, <2>4, <2>5, <2>7, <3>2
  <2> QED BY <2>6, <2>7
<1>4. UNCHANGED <<sessions, turns, markers, menu, gone, home, ephemeral>>
  BY DEF C!End, C!history
<1>5. PICK place \in C!Places : place = C!Place(p)
  OBVIOUS
<1>6. ConversationTypes'
  <2>1. stored' \in [C!Places -> [C!Ids -> {None} \cup SUBSET (1 .. MaxAsked)]]
    BY <1>3, <1>5 DEF ConversationInv, ConversationTypes
  <2>2. checkpoints' \in [C!Places -> [C!Ids -> {None} \cup 1 .. MaxAsked]]
    BY <1>3, <1>5 DEF ConversationInv, ConversationTypes
  <2>3. active' \in [Procs -> {None} \cup C!Sessions]
    <3>1. [id |-> id, turns |-> entered] \in C!Sessions
      BY DEF C!Sessions
    <3> QED BY <1>3, <3>1 DEF ConversationInv, ConversationTypes
  <2>4. DOMAIN doing' = Procs /\ DOMAIN chosen' = Procs
    BY <1>3 DEF ConversationInv, ConversationTypes
  <2> QED BY <1>4, <2>1, <2>2, <2>3, <2>4 DEF ConversationInv, ConversationTypes
<1>7. ASSUME NEW q \in C!Places, NEW i \in C!Ids
      PROVE  /\ \/ stored'[q][i] = stored[q][i]
                \/ q = place /\ i = id /\ stored'[q][i] = merged /\ ~C!Refused(id)
             /\ \/ checkpoints'[q][i] = checkpoints[q][i]
                \/ q = place /\ i = id /\ checkpoints'[q][i] \in {None, turn}
  BY <1>3, <1>5 DEF ConversationInv, ConversationTypes
<1>8. WhereAsked'
  <2>1. \A i : Asked(i)' = Asked(i)
    BY <1>4 DEF Asked
  <2>2. ASSUME NEW q \in C!Places, NEW i \in C!Ids
        PROVE  /\ stored'[q][i] # None => i <= sessions /\ stored'[q][i] \in SUBSET Asked(i)
               /\ checkpoints'[q][i] # None => checkpoints'[q][i] \in Asked(i)
    <3>1. /\ stored[q][i] # None => i <= sessions /\ stored[q][i] \in SUBSET Asked(i)
          /\ checkpoints[q][i] # None => checkpoints[q][i] \in Asked(i)
      BY DEF ConversationInv, WhereAsked
    <3> QED BY ZenonT(30), <1>1, <1>2, <1>7, <3>1
  <2>3. ASSUME NEW q \in Procs
        PROVE  /\ active'[q] # None => Known(active'[q])
               /\ doing'[q] = "deletes" => chosen'[q] \in 1 .. sessions
               /\ doing'[q] \in {"claims", "runs"} =>
                    active'[q] # None /\ chosen'[q] \in Asked(active'[q].id)
    BY <1>1, <1>3 DEF ConversationInv, ConversationTypes, WhereAsked, Known
  <2>4. \A s : Known(s)' <=> Known(s)
    BY <1>4, <2>1 DEF Known
  <2> QED BY <1>4, <2>1, <2>2, <2>3, <2>4 DEF WhereAsked, ConversationInv
<1>9. StaysGone'
  <2>1. ASSUME NEW q \in C!Places, NEW i \in gone[q]
        PROVE  /\ stored'[q][i] = None
               /\ ephemeral => checkpoints'[q][i] = None
               /\ ~ephemeral => i \in markers
    <3>1. i \in C!Ids /\ i \in 1 .. sessions
      BY DEF ConversationInv, ConversationTypes, C!Ids
    <3>2. /\ stored[q][i] = None
          /\ ephemeral => checkpoints[q][i] = None
          /\ ~ephemeral => i \in markers
      BY DEF ConversationInv, StaysGone
    <3>3. CASE ~ephemeral
      BY <1>7, <3>1, <3>2, <3>3 DEF C!Refused
    <3>4. CASE ephemeral
      <4>1. q = place => i # id
        BY <1>1, <1>3, <1>5, <3>4 DEF ConversationInv, StaysGone, C!Place
      <4> QED BY <1>7, <3>1, <3>2, <3>4, <4>1
    <3> QED BY <3>3, <3>4
  <2>2. ASSUME ephemeral, NEW q \in Procs
        PROVE  /\ doing'[q] \notin {"renews", "over"} /\ active'[q] # None
                    => active'[q].id \notin gone[q]
               /\ doing'[q] \in {"resumes", "chooses"} => \A s \in menu[q] : s.id \notin gone[q]
    <3>1. /\ doing[q] \notin {"renews", "over"} /\ active[q] # None
               => active[q].id \notin gone[q]
          /\ doing[q] \in {"resumes", "chooses"} => \A s \in menu[q] : s.id \notin gone[q]
      BY <2>2 DEF ConversationInv, StaysGone
    <3>2. CASE q = p
      BY <1>1, <1>3, <3>1, <3>2 DEF ConversationInv, ConversationTypes
    <3>3. CASE q # p
      BY <1>3, <3>1, <3>3 DEF ConversationInv, ConversationTypes
    <3> QED BY <3>2, <3>3
  <2> QED BY <1>4, <2>1, <2>2 DEF StaysGone
<1> QED BY <1>6, <1>8, <1>9 DEF ConversationInv

LEMMA ExitInv ==
  ASSUME ConversationInv, NEW p \in Procs, C!Exit(p), ephemeral' = ephemeral
  PROVE  ConversationInv'
<1> USE ConversationsAssumption, PlaceIsPlace
<1>1. ConversationTypes'
  BY DEF ConversationInv, ConversationTypes, C!Exit, C!Goes, C!Alive,
         C!history, C!files, C!Ids, C!Sessions
<1>2. WhereAsked'
  BY DEF ConversationInv, ConversationTypes, WhereAsked, Known, Asked, C!Exit,
         C!Goes, C!Alive, C!history, C!files, C!Ids, C!Sessions
<1>3. StaysGone'
  BY DEF ConversationInv, ConversationTypes, WhereAsked, Known, StaysGone,
         C!Exit, C!Goes, C!Alive, C!history, C!files, C!Ids, C!Sessions,
         C!Places
<1> QED BY <1>1, <1>2, <1>3 DEF ConversationInv

LEMMA ConversationUnchanged ==
  ConversationInv /\ UNCHANGED conversationsVars => ConversationInv'
<1> SUFFICES ASSUME ConversationInv, UNCHANGED conversationsVars PROVE ConversationInv'
  OBVIOUS
<1>1. ConversationTypes'
  BY DEF ConversationInv, ConversationTypes, conversationsVars
<1>2. WhereAsked'
  BY DEF ConversationInv, WhereAsked, Known, Asked, conversationsVars
<1>3. StaysGone'
  BY DEF ConversationInv, StaysGone, conversationsVars
<1> QED BY <1>1, <1>2, <1>3 DEF ConversationInv

LEMMA ConversationNext == ConversationInv /\ C!Next => ConversationInv'
<1> SUFFICES ASSUME ConversationInv, C!Next PROVE ConversationInv'
  OBVIOUS
<1>1. ephemeral' = ephemeral
  BY DEF C!Next
<1>2. PICK p \in Procs :
        \/ C!New(p) \/ C!Open(p) \/ C!Cancel(p) \/ C!Resume(p) \/ C!Confirm(p)
        \/ C!Delete(p) \/ C!Renew(p) \/ C!Fork(p) \/ C!Ask(p) \/ C!Continue(p)
        \/ C!Claim(p) \/ C!End(p) \/ C!Exit(p)
  BY DEF C!Next
<1> QED
  BY <1>1, <1>2, NewInv, OpenInv, CancelInv, ResumeInv, ConfirmInv, DeleteInv, RenewInv,
     ForkInv, AskInv, ContinueInv, ClaimInv, EndInv, ExitInv

(* Whoever deletes a conversation, and whoever is in it or has it in a menu: *)
(* it does not come back, and no turn is stored where it was not asked, for  *)
(* any number of processes, conversations and turns.                         *)
THEOREM DeletedCorrect == SessionSpec => []DeletedIsGone
<1>1. ConversationInv /\ [SessionNext]_<<part, vars, filesVars, outcomeVars, journalVars,
                           outputsVars, conversationsVars, memoryVars>> => ConversationInv'
  BY ConversationUnchanged, ConversationNext DEF SessionNext
<1>2. ConversationInv => DeletedIsGone
  BY DEF ConversationInv, WhereAsked, StaysGone, Asked, DeletedIsGone, C!DeletedIsGone
<1> QED BY ConversationInit, <1>1, <1>2, PTL DEF SessionSpec

-----------------------------------------------------------------------------
(* The outcome of a task. What is known at each wait of it: what is held,    *)
(* what is told so far, and that only an outcome taken from a completed      *)
(* result, with everything done for it, says completed.                      *)
Early == {"setup", "prepare", "claim", "start", "agent", "dispose", "capture"}
SetUp == {"claim", "start", "agent", "dispose", "capture", "save", "record", "remember",
          "clear", "return", "catch", "release"}
Disposing == {"prepare", "claim", "start", "agent", "dispose", "catch", "outer"}
Ending == {"capture", "record", "remember", "clear", "return"}
Results == [status : {"completed", "failed", "timed-out", "interrupted"},
            reason : {"run", "error", "plugins", "jobs"}]

OutcomeTypes ==
  /\ pc \in Early \cup SetUp \cup Disposing \cup {"cleanup", "outputs", "idle"}
  /\ tasks \in Nat /\ run \in Nat /\ resumable \in {None} \cup Nat
  /\ plugins \in {"none", "live", "released", "broken"} /\ jobs \in {"none", "kept"}
  /\ pc \in Ending \cup {"dispose", "save"} => status \in {"completed", "failed"}
  /\ pc \in {"release", "cleanup", "outputs"} => outcome \in Results
  /\ pc = "idle" => outcome = None \/ outcome \in Results

Recorded ==
  /\ pc \in Early => ends = <<>>
  /\ pc \in Early \cup {"save"} => record = None
  /\ pc \in {"record", "remember", "clear", "return"} /\ status = "completed"
       => ends = <<"completed">>
  /\ pc \in {"remember", "clear", "return"} /\ status = "completed"
       => record = "completed" \/ noticed
  /\ pc = "save" => status # "completed"

Held ==
  /\ pc \notin Disposing => plugins # "live"
  /\ pc \in Ending /\ status = "completed" => plugins \notin {"live", "broken"}
  /\ record = "completed" => plugins \notin {"live", "broken"}
  /\ pc = "return" /\ status = "completed" => claimed # run /\ resumable = None
  /\ pc \in SetUp => outputs = run
  /\ pc \in {"outer", "cleanup", "outputs"} /\ ends # <<>> => outputs = run

Told ==
  /\ pc \in {"release", "cleanup", "outputs", "idle"} /\ outcome # None
     /\ outcome.status = "completed" =>
       /\ ends = <<"completed">> /\ (record = "completed" \/ noticed)
       /\ claimed # run /\ resumable = None
  /\ pc \in {"outputs", "idle"} /\ outcome # None =>
       /\ plugins = "broken" => outcome.status = "failed"
       /\ jobs = "kept" => outcome.status = "failed"
  /\ pc = "idle" /\ outcome # None /\ ends # <<>> /\ resumable = run
     /\ outcome.status # "completed" => outputs = run

OutcomeInv == OutcomeTypes /\ Recorded /\ Held /\ Told

LEMMA OutcomeInit == SessionInit => OutcomeInv
<1> SUFFICES ASSUME SessionInit PROVE OutcomeInv
  OBVIOUS
<1> QED
  BY OutcomeAssumption
  DEF SessionInit, O!Init, OutcomeInv, OutcomeTypes, Recorded, Held, Told, Early, SetUp,
      Disposing, Ending

LEMMA BeginOutcome == OutcomeInv /\ O!Begin => OutcomeInv'
<1> SUFFICES ASSUME OutcomeInv, O!Begin PROVE OutcomeInv'
  OBVIOUS
<1> USE OutcomeAssumption DEF Early, SetUp, Disposing, Ending
<1>1. OutcomeTypes'
  BY DEF OutcomeInv, OutcomeTypes, Results, O!Begin, O!held, O!told, O!stops
<1>2. Recorded'
  BY DEF OutcomeInv, OutcomeTypes, Recorded, O!Begin, O!held, O!told, O!stops
<1>3. Held'
  BY DEF OutcomeInv, OutcomeTypes, Recorded, Held, O!Begin, O!held, O!told,
         O!stops
<1>4. Told'
  BY DEF OutcomeInv, OutcomeTypes, Recorded, Held, Told, O!Begin, O!held,
         O!told, O!stops
<1> QED BY <1>1, <1>2, <1>3, <1>4 DEF OutcomeInv

LEMMA SetupOutcome == OutcomeInv /\ O!Setup => OutcomeInv'
<1> SUFFICES ASSUME OutcomeInv, O!Setup PROVE OutcomeInv'
  OBVIOUS
<1> USE OutcomeAssumption DEF Early, SetUp, Disposing, Ending
<1>1. OutcomeTypes'
  BY DEF OutcomeInv, OutcomeTypes, Results, O!Setup, O!held, O!told, O!stops
<1>2. Recorded'
  BY DEF OutcomeInv, OutcomeTypes, Recorded, O!Setup, O!held, O!told, O!stops
<1>3. Held'
  BY DEF OutcomeInv, OutcomeTypes, Recorded, Held, O!Setup, O!held, O!told,
         O!stops
<1>4. Told'
  BY DEF OutcomeInv, OutcomeTypes, Recorded, Held, Told, O!Setup, O!held,
         O!told, O!stops
<1> QED BY <1>1, <1>2, <1>3, <1>4 DEF OutcomeInv

LEMMA PrepareOutcome == OutcomeInv /\ O!Prepare => OutcomeInv'
<1> SUFFICES ASSUME OutcomeInv, O!Prepare PROVE OutcomeInv'
  OBVIOUS
<1> USE OutcomeAssumption DEF Early, SetUp, Disposing, Ending
<1>1. OutcomeTypes'
  BY DEF OutcomeInv, OutcomeTypes, Results, O!Prepare, O!held, O!told, O!stops
<1>2. Recorded'
  BY DEF OutcomeInv, OutcomeTypes, Recorded, O!Prepare, O!held, O!told, O!stops
<1>3. Held'
  BY DEF OutcomeInv, OutcomeTypes, Recorded, Held, O!Prepare, O!held, O!told,
         O!stops
<1>4. Told'
  BY DEF OutcomeInv, OutcomeTypes, Recorded, Held, Told, O!Prepare, O!held,
         O!told, O!stops
<1> QED BY <1>1, <1>2, <1>3, <1>4 DEF OutcomeInv

LEMMA ClaimOutcome == OutcomeInv /\ O!Claim => OutcomeInv'
<1> SUFFICES ASSUME OutcomeInv, O!Claim PROVE OutcomeInv'
  OBVIOUS
<1> USE OutcomeAssumption DEF Early, SetUp, Disposing, Ending
<1>1. OutcomeTypes'
  BY DEF OutcomeInv, OutcomeTypes, Results, O!Claim, O!held, O!told, O!stops
<1>2. Recorded'
  BY DEF OutcomeInv, OutcomeTypes, Recorded, O!Claim, O!held, O!told, O!stops
<1>3. Held'
  BY DEF OutcomeInv, OutcomeTypes, Recorded, Held, O!Claim, O!held, O!told,
         O!stops
<1>4. Told'
  BY DEF OutcomeInv, OutcomeTypes, Recorded, Held, Told, O!Claim, O!held,
         O!told, O!stops
<1> QED BY <1>1, <1>2, <1>3, <1>4 DEF OutcomeInv

LEMMA StartOutcome == OutcomeInv /\ O!Start => OutcomeInv'
<1> SUFFICES ASSUME OutcomeInv, O!Start PROVE OutcomeInv'
  OBVIOUS
<1> USE OutcomeAssumption DEF Early, SetUp, Disposing, Ending
<1>1. OutcomeTypes'
  BY DEF OutcomeInv, OutcomeTypes, Results, O!Start, O!held, O!told, O!stops
<1>2. Recorded'
  BY DEF OutcomeInv, OutcomeTypes, Recorded, O!Start, O!held, O!told, O!stops
<1>3. Held'
  BY DEF OutcomeInv, OutcomeTypes, Recorded, Held, O!Start, O!held, O!told,
         O!stops
<1>4. Told'
  BY DEF OutcomeInv, OutcomeTypes, Recorded, Held, Told, O!Start, O!held,
         O!told, O!stops
<1> QED BY <1>1, <1>2, <1>3, <1>4 DEF OutcomeInv

LEMMA AgentOutcome == OutcomeInv /\ O!Agent => OutcomeInv'
<1> SUFFICES ASSUME OutcomeInv, O!Agent PROVE OutcomeInv'
  OBVIOUS
<1> USE OutcomeAssumption DEF Early, SetUp, Disposing, Ending
<1>1. OutcomeTypes'
  BY DEF OutcomeInv, OutcomeTypes, Results, O!Agent, O!held, O!told, O!stops
<1>2. Recorded'
  BY DEF OutcomeInv, OutcomeTypes, Recorded, O!Agent, O!held, O!told, O!stops
<1>3. Held'
  BY DEF OutcomeInv, OutcomeTypes, Recorded, Held, O!Agent, O!held, O!told,
         O!stops
<1>4. Told'
  BY DEF OutcomeInv, OutcomeTypes, Recorded, Held, Told, O!Agent, O!held,
         O!told, O!stops
<1> QED BY <1>1, <1>2, <1>3, <1>4 DEF OutcomeInv

LEMMA DisposeOutcome == OutcomeInv /\ O!Dispose => OutcomeInv'
<1> SUFFICES ASSUME OutcomeInv, O!Dispose PROVE OutcomeInv'
  OBVIOUS
<1> USE OutcomeAssumption DEF Early, SetUp, Disposing, Ending
<1>1. OutcomeTypes'
  BY DEF OutcomeInv, OutcomeTypes, Results, O!Dispose, O!Disposed,
         O!AfterCleanup, O!held, O!told, O!stops
<1>2. Recorded'
  BY DEF OutcomeInv, OutcomeTypes, Recorded, O!Dispose, O!Disposed,
         O!AfterCleanup, O!held, O!told, O!stops
<1>3. Held'
  BY DEF OutcomeInv, OutcomeTypes, Recorded, Held, O!Dispose, O!Disposed,
         O!AfterCleanup, O!held, O!told, O!stops
<1>4. Told'
  BY DEF OutcomeInv, OutcomeTypes, Recorded, Held, Told, O!Dispose, O!Disposed,
         O!AfterCleanup, O!held, O!told, O!stops
<1> QED BY <1>1, <1>2, <1>3, <1>4 DEF OutcomeInv

LEMMA CaptureOutcome == OutcomeInv /\ O!Capture => OutcomeInv'
<1> SUFFICES ASSUME OutcomeInv, O!Capture PROVE OutcomeInv'
  OBVIOUS
<1> USE OutcomeAssumption DEF Early, SetUp, Disposing, Ending
<1>1. OutcomeTypes'
  BY DEF OutcomeInv, OutcomeTypes, Results, O!Capture, O!held, O!told, O!stops
<1>2. Recorded'
  BY DEF OutcomeInv, OutcomeTypes, Recorded, O!Capture, O!held, O!told, O!stops
<1>3. Held'
  BY DEF OutcomeInv, OutcomeTypes, Recorded, Held, O!Capture, O!held, O!told,
         O!stops
<1>4. Told'
  BY DEF OutcomeInv, OutcomeTypes, Recorded, Held, Told, O!Capture, O!held,
         O!told, O!stops
<1> QED BY <1>1, <1>2, <1>3, <1>4 DEF OutcomeInv

LEMMA SaveOutcome == OutcomeInv /\ O!Save => OutcomeInv'
<1> SUFFICES ASSUME OutcomeInv, O!Save PROVE OutcomeInv'
  OBVIOUS
<1> USE OutcomeAssumption DEF Early, SetUp, Disposing, Ending
<1>1. OutcomeTypes'
  BY DEF OutcomeInv, OutcomeTypes, Results, O!Save, O!held, O!told, O!stops
<1>2. Recorded'
  BY DEF OutcomeInv, OutcomeTypes, Recorded, O!Save, O!held, O!told, O!stops
<1>3. Held'
  BY DEF OutcomeInv, OutcomeTypes, Recorded, Held, O!Save, O!held, O!told,
         O!stops
<1>4. Told'
  BY DEF OutcomeInv, OutcomeTypes, Recorded, Held, Told, O!Save, O!held,
         O!told, O!stops
<1> QED BY <1>1, <1>2, <1>3, <1>4 DEF OutcomeInv

LEMMA RecordOutcome == OutcomeInv /\ O!Record => OutcomeInv'
<1> SUFFICES ASSUME OutcomeInv, O!Record PROVE OutcomeInv'
  OBVIOUS
<1> USE OutcomeAssumption DEF Early, SetUp, Disposing, Ending
<1>1. OutcomeTypes'
  BY DEF OutcomeInv, OutcomeTypes, Results, O!Record, O!held, O!told, O!stops
<1>2. Recorded'
  BY DEF OutcomeInv, OutcomeTypes, Recorded, O!Record, O!held, O!told, O!stops
<1>3. Held'
  BY DEF OutcomeInv, OutcomeTypes, Recorded, Held, O!Record, O!held, O!told,
         O!stops
<1>4. Told'
  BY DEF OutcomeInv, OutcomeTypes, Recorded, Held, Told, O!Record, O!held,
         O!told, O!stops
<1> QED BY <1>1, <1>2, <1>3, <1>4 DEF OutcomeInv

LEMMA RememberOutcome == OutcomeInv /\ O!Remember => OutcomeInv'
<1> SUFFICES ASSUME OutcomeInv, O!Remember PROVE OutcomeInv'
  OBVIOUS
<1> USE OutcomeAssumption DEF Early, SetUp, Disposing, Ending
<1>1. OutcomeTypes'
  BY DEF OutcomeInv, OutcomeTypes, Results, O!Remember, O!held, O!told, O!stops
<1>2. Recorded'
  BY DEF OutcomeInv, OutcomeTypes, Recorded, O!Remember, O!held, O!told,
         O!stops
<1>3. Held'
  BY DEF OutcomeInv, OutcomeTypes, Recorded, Held, O!Remember, O!held, O!told,
         O!stops
<1>4. Told'
  BY DEF OutcomeInv, OutcomeTypes, Recorded, Held, Told, O!Remember, O!held,
         O!told, O!stops
<1> QED BY <1>1, <1>2, <1>3, <1>4 DEF OutcomeInv

LEMMA ClearOutcome == OutcomeInv /\ O!Clear => OutcomeInv'
<1> SUFFICES ASSUME OutcomeInv, O!Clear PROVE OutcomeInv'
  OBVIOUS
<1> USE OutcomeAssumption DEF Early, SetUp, Disposing, Ending
<1>1. OutcomeTypes'
  BY DEF OutcomeInv, OutcomeTypes, Results, O!Clear, O!Without, O!held, O!told,
         O!stops
<1>2. Recorded'
  BY DEF OutcomeInv, OutcomeTypes, Recorded, O!Clear, O!Without, O!held,
         O!told, O!stops
<1>3. Held'
  BY DEF OutcomeInv, OutcomeTypes, Recorded, Held, O!Clear, O!Without, O!held,
         O!told, O!stops
<1>4. Told'
  BY DEF OutcomeInv, OutcomeTypes, Recorded, Held, Told, O!Clear, O!Without,
         O!held, O!told, O!stops
<1> QED BY <1>1, <1>2, <1>3, <1>4 DEF OutcomeInv

LEMMA ReturnOutcome == OutcomeInv /\ O!Return => OutcomeInv'
<1> SUFFICES ASSUME OutcomeInv, O!Return PROVE OutcomeInv'
  OBVIOUS
<1> USE OutcomeAssumption DEF Early, SetUp, Disposing, Ending
<1>1. OutcomeTypes'
  BY DEF OutcomeInv, OutcomeTypes, Results, O!Return, O!held, O!told, O!stops
<1>2. Recorded'
  BY DEF OutcomeInv, OutcomeTypes, Recorded, O!Return, O!held, O!told, O!stops
<1>3. Held'
  BY DEF OutcomeInv, OutcomeTypes, Recorded, Held, O!Return, O!held, O!told,
         O!stops
<1>4. Told'
  BY DEF OutcomeInv, OutcomeTypes, Recorded, Held, Told, O!Return, O!held,
         O!told, O!stops
<1> QED BY <1>1, <1>2, <1>3, <1>4 DEF OutcomeInv

LEMMA CatchOutcome == OutcomeInv /\ O!Catch => OutcomeInv'
<1> SUFFICES ASSUME OutcomeInv, O!Catch PROVE OutcomeInv'
  OBVIOUS
<1> USE OutcomeAssumption DEF Early, SetUp, Disposing, Ending
<1>1. OutcomeTypes'
  BY DEF OutcomeInv, OutcomeTypes, Results, O!Catch, O!Disposed, O!Failure,
         O!FailedAs, O!Cleaned, O!held, O!told, O!stops
<1>2. Recorded'
  BY DEF OutcomeInv, OutcomeTypes, Recorded, O!Catch, O!Disposed, O!Failure,
         O!FailedAs, O!Cleaned, O!held, O!told, O!stops
<1>3. Held'
  BY DEF OutcomeInv, OutcomeTypes, Recorded, Held, O!Catch, O!Disposed,
         O!Failure, O!FailedAs, O!Cleaned, O!held, O!told, O!stops
<1>4. Told'
  BY DEF OutcomeInv, OutcomeTypes, Recorded, Held, Told, O!Catch, O!Disposed,
         O!Failure, O!FailedAs, O!Cleaned, O!held, O!told, O!stops
<1> QED BY <1>1, <1>2, <1>3, <1>4 DEF OutcomeInv

LEMMA ReleaseOutcome == OutcomeInv /\ O!Release => OutcomeInv'
<1> SUFFICES ASSUME OutcomeInv, O!Release PROVE OutcomeInv'
  OBVIOUS
<1> USE OutcomeAssumption DEF Early, SetUp, Disposing, Ending
<1>1. OutcomeTypes'
  BY DEF OutcomeInv, OutcomeTypes, Results, O!Release, O!Without, O!held,
         O!told, O!stops
<1>2. Recorded'
  BY DEF OutcomeInv, OutcomeTypes, Recorded, O!Release, O!Without, O!held,
         O!told, O!stops
<1>3. Held'
  BY DEF OutcomeInv, OutcomeTypes, Recorded, Held, O!Release, O!Without,
         O!held, O!told, O!stops
<1>4. Told'
  BY DEF OutcomeInv, OutcomeTypes, Recorded, Held, Told, O!Release, O!Without,
         O!held, O!told, O!stops
<1> QED BY <1>1, <1>2, <1>3, <1>4 DEF OutcomeInv

LEMMA OuterOutcome == OutcomeInv /\ O!Outer => OutcomeInv'
<1> SUFFICES ASSUME OutcomeInv, O!Outer PROVE OutcomeInv'
  OBVIOUS
<1> USE OutcomeAssumption DEF Early, SetUp, Disposing, Ending
<1>1. OutcomeTypes'
  BY DEF OutcomeInv, OutcomeTypes, Results, O!Outer, O!Disposed, O!Failure,
         O!FailedAs, O!Cleaned, O!held, O!told, O!stops
<1>2. Recorded'
  BY DEF OutcomeInv, OutcomeTypes, Recorded, O!Outer, O!Disposed, O!Failure,
         O!FailedAs, O!Cleaned, O!held, O!told, O!stops
<1>3. Held'
  BY DEF OutcomeInv, OutcomeTypes, Recorded, Held, O!Outer, O!Disposed,
         O!Failure, O!FailedAs, O!Cleaned, O!held, O!told, O!stops
<1>4. Told'
  BY DEF OutcomeInv, OutcomeTypes, Recorded, Held, Told, O!Outer, O!Disposed,
         O!Failure, O!FailedAs, O!Cleaned, O!held, O!told, O!stops
<1> QED BY <1>1, <1>2, <1>3, <1>4 DEF OutcomeInv

LEMMA CleanupOutcome == OutcomeInv /\ O!Cleanup => OutcomeInv'
<1> SUFFICES ASSUME OutcomeInv, O!Cleanup PROVE OutcomeInv'
  OBVIOUS
<1> USE OutcomeAssumption DEF Early, SetUp, Disposing, Ending
<1>1. OutcomeTypes'
  BY DEF OutcomeInv, OutcomeTypes, Results, O!Cleanup, O!Cleaned, O!held,
         O!told, O!stops
<1>2. Recorded'
  BY DEF OutcomeInv, OutcomeTypes, Recorded, O!Cleanup, O!Cleaned, O!held,
         O!told, O!stops
<1>3. Held'
  BY DEF OutcomeInv, OutcomeTypes, Recorded, Held, O!Cleanup, O!Cleaned,
         O!held, O!told, O!stops
<1>4. Told'
  BY DEF OutcomeInv, OutcomeTypes, Recorded, Held, Told, O!Cleanup, O!Cleaned,
         O!held, O!told, O!stops
<1> QED BY <1>1, <1>2, <1>3, <1>4 DEF OutcomeInv

LEMMA GiveUpOutputsOutcome == OutcomeInv /\ O!GiveUpOutputs => OutcomeInv'
<1> SUFFICES ASSUME OutcomeInv, O!GiveUpOutputs PROVE OutcomeInv'
  OBVIOUS
<1> USE OutcomeAssumption DEF Early, SetUp, Disposing, Ending
<1>1. OutcomeTypes'
  BY DEF OutcomeInv, OutcomeTypes, Results, O!GiveUpOutputs, O!Continuable,
         O!Stopped, O!held, O!told, O!stops
<1>2. Recorded'
  BY DEF OutcomeInv, OutcomeTypes, Recorded, O!GiveUpOutputs, O!Continuable,
         O!Stopped, O!held, O!told, O!stops
<1>3. Held'
  BY DEF OutcomeInv, OutcomeTypes, Recorded, Held, O!GiveUpOutputs,
         O!Continuable, O!Stopped, O!held, O!told, O!stops
<1>4. Told'
  BY DEF OutcomeInv, OutcomeTypes, Recorded, Held, Told, O!GiveUpOutputs,
         O!Continuable, O!Stopped, O!held, O!told, O!stops
<1> QED BY <1>1, <1>2, <1>3, <1>4 DEF OutcomeInv

LEMMA InterruptOutcome == OutcomeInv /\ O!Interrupt => OutcomeInv'
<1> SUFFICES ASSUME OutcomeInv, O!Interrupt PROVE OutcomeInv'
  OBVIOUS
<1> USE OutcomeAssumption DEF Early, SetUp, Disposing, Ending
<1>1. OutcomeTypes'
  BY DEF OutcomeInv, OutcomeTypes, Results, O!Interrupt, O!held, O!told,
         O!stops
<1>2. Recorded'
  BY DEF OutcomeInv, OutcomeTypes, Recorded, O!Interrupt, O!held, O!told,
         O!stops
<1>3. Held'
  BY DEF OutcomeInv, OutcomeTypes, Recorded, Held, O!Interrupt, O!held, O!told,
         O!stops
<1>4. Told'
  BY DEF OutcomeInv, OutcomeTypes, Recorded, Held, Told, O!Interrupt, O!held,
         O!told, O!stops
<1> QED BY <1>1, <1>2, <1>3, <1>4 DEF OutcomeInv

LEMMA OutcomeNext == OutcomeInv /\ O!Next => OutcomeInv'
BY BeginOutcome, SetupOutcome, PrepareOutcome, ClaimOutcome, StartOutcome,
   AgentOutcome, DisposeOutcome, CaptureOutcome, SaveOutcome, RecordOutcome,
   RememberOutcome, ClearOutcome, ReturnOutcome, CatchOutcome, ReleaseOutcome,
   OuterOutcome, CleanupOutcome, GiveUpOutputsOutcome, InterruptOutcome
DEF O!Next

LEMMA OutcomeUnchanged == OutcomeInv /\ UNCHANGED outcomeVars => OutcomeInv'
BY DEF OutcomeInv, OutcomeTypes, Recorded, Held, Told, outcomeVars

(* What a task is told to have done, recorded and left behind is what it     *)
(* did, whichever of its waits failed, for any number of tasks.              *)
THEOREM OutcomeCorrect == SessionSpec => []ToldAsItIs
<1>1. OutcomeInv /\ [SessionNext]_<<part, vars, filesVars, outcomeVars, journalVars,
                      outputsVars, conversationsVars, memoryVars>> => OutcomeInv'
  BY OutcomeUnchanged, OutcomeNext DEF SessionNext
<1>2. OutcomeInv => ToldAsItIs
  BY OutcomeAssumption
  DEF OutcomeInv, OutcomeTypes, Held, Told, Results, Disposing, ToldAsItIs, O!ToldAsItIs,
      O!Returned
<1> QED BY OutcomeInit, <1>1, <1>2, PTL DEF SessionSpec

-----------------------------------------------------------------------------
(* The journal of a run. Folding what is written and what is on the way      *)
(* gives the projection, as long as nothing is missing; a checkpoint is what *)
(* the beginning of the journal is folded to; what is missing stays missing. *)
LEMMA SetInduction ==
  ASSUME NEW S, 0 \in S, \A n \in Nat : n \in S => n + 1 \in S
  PROVE  Nat \subseteq S
<1> SUFFICES ASSUME Nat \ S # {} PROVE FALSE
  OBVIOUS
<1>1. PICK n \in Nat \ S : \A m \in Nat \ S : ~(<<m, n>> \in OpToRel(<, Nat))
  BY WFMin, NatLessThanWellFounded
<1>2. \A m \in Nat \ S : ~(m < n)
  BY <1>1 DEF OpToRel
<1>3. n - 1 \in Nat /\ n - 1 \in S
  BY <1>2
<1> QED
  BY <1>3

(* What a sequence of events is folded to: a state after each of them.       *)
FoldsTo(state, events, f) ==
  /\ f = [n \in 0 .. Len(events) |-> f[n]]
  /\ f[0] = state
  /\ \A n \in 1 .. Len(events) : f[n] = J!Fold(f[n - 1], events[n])

LEMMA FoldedOnce ==
  ASSUME NEW state, NEW events, Len(events) \in Nat, NEW f, NEW g,
         FoldsTo(state, events, f), FoldsTo(state, events, g)
  PROVE  f = g
<1> DEFINE Same == {n \in Nat : n <= Len(events) => f[n] = g[n]}
<1>1. 0 \in Same
  BY DEF FoldsTo
<1>2. ASSUME NEW n \in Nat, n \in Same PROVE n + 1 \in Same
  <2> SUFFICES ASSUME n + 1 <= Len(events) PROVE f[n + 1] = g[n + 1]
    OBVIOUS
  <2>1. n + 1 \in 1 .. Len(events) /\ (n + 1) - 1 = n /\ f[n] = g[n]
    BY <1>2
  <2>2. f[n + 1] = J!Fold(f[n], events[n + 1]) /\ g[n + 1] = J!Fold(g[n], events[n + 1])
    BY <2>1 DEF FoldsTo
  <2> QED
    BY <2>1, <2>2
<1>3. Nat \subseteq Same
  <2> HIDE DEF Same
  <2> QED  BY <1>1, <1>2, SetInduction
<1>4. \A n \in 0 .. Len(events) : f[n] = g[n]
  BY <1>3
<1> QED
  BY <1>4 DEF FoldsTo

LEMMA Folded ==
  ASSUME NEW state, NEW events, Len(events) \in Nat
  PROVE  \E f : FoldsTo(state, events, f) /\ J!FoldRun(state, events) = f[Len(events)]
<1> DEFINE Chain(f, k) ==
             /\ f = [n \in 0 .. k |-> f[n]] /\ f[0] = state
             /\ \A n \in 1 .. k : f[n] = J!Fold(f[n - 1], events[n])
           Reached == {k \in Nat : \E f : Chain(f, k)}
           Step(f, n) == IF n = 0 THEN state ELSE J!Fold(f[n - 1], events[n])
<1>1. 0 \in Reached
  <2>1. Chain([n \in 0 .. 0 |-> state], 0)
    OBVIOUS
  <2> QED  BY <2>1
<1>2. ASSUME NEW k \in Nat, k \in Reached PROVE k + 1 \in Reached
  <2>1. PICK f : Chain(f, k)
    BY <1>2
  <2> DEFINE g == [n \in 0 .. k + 1 |-> IF n = k + 1 THEN J!Fold(f[k], events[k + 1]) ELSE f[n]]
  <2>2. g[0] = state
    BY <2>1
  <2>3. ASSUME NEW n \in 1 .. k + 1 PROVE g[n] = J!Fold(g[n - 1], events[n])
    <3>1. CASE n = k + 1
      BY <3>1
    <3>2. CASE n # k + 1
      <4>1. n \in 1 .. k /\ g[n] = f[n] /\ g[n - 1] = f[n - 1]
        BY <3>2
      <4> QED  BY <2>1, <4>1
    <3> QED  BY <3>1, <3>2
  <2>4. g = [n \in 0 .. k + 1 |-> g[n]]
    OBVIOUS
  <2>5. Chain(g, k + 1)
    BY <2>2, <2>3, <2>4
  <2> HIDE DEF g, Chain
  <2> QED  BY <2>5
<1>3. Len(events) \in Reached
  BY <1>1, <1>2, SetInduction
<1>4. PICK f : Chain(f, Len(events))
  BY <1>3
<1> DEFINE N == 0 .. Len(events)
           Rec(g) == g = [n \in N |-> Step(g, n)]
           folded == CHOOSE g : Rec(g)
<1>5. Rec(f)
  <2>1. ASSUME NEW n \in N PROVE f[n] = Step(f, n)
    BY <1>4, <2>1
  <2> QED  BY <1>4, <2>1
<1>6. Rec(folded)
  BY <1>5
<1>7. J!FoldRun(state, events) = folded[Len(events)]
  BY DEF J!FoldRun
<1>8. FoldsTo(state, events, folded)
  <2> HIDE DEF folded
  <2>1. folded = [n \in N |-> folded[n]] /\ folded[0] = state
    BY <1>6
  <2>2. \A n \in 1 .. Len(events) : folded[n] = J!Fold(folded[n - 1], events[n])
    BY <1>6
  <2> QED
    BY <2>1, <2>2 DEF FoldsTo
<1> QED
  BY <1>7, <1>8

LEMMA FoldedBefore ==
  ASSUME NEW state, NEW S, NEW events \in Seq(S), NEW k \in 0 .. Len(events), NEW f,
         FoldsTo(state, events, f)
  PROVE  J!FoldRun(state, SubSeq(events, 1, k)) = f[k]
<1> DEFINE before == SubSeq(events, 1, k)
           g == [n \in 0 .. k |-> f[n]]
<1>1. Len(before) = k /\ k \in Nat /\ Len(events) \in Nat /\ k <= Len(events)
  OBVIOUS
<1>2. \A n \in 1 .. k : before[n] = events[n]
  OBVIOUS
<1> HIDE DEF before
<1>3. FoldsTo(state, before, g)
  <2>1. g = [n \in 0 .. k |-> g[n]] /\ g[0] = state
    BY <1>1 DEF FoldsTo
  <2>2. ASSUME NEW n \in 1 .. k PROVE g[n] = J!Fold(g[n - 1], before[n])
    <3>1. n \in 1 .. Len(events) /\ n \in 0 .. k /\ n - 1 \in 0 .. k
      BY <1>1
    <3>2. f[n] = J!Fold(f[n - 1], events[n])
      BY <3>1 DEF FoldsTo
    <3>3. g[n] = f[n] /\ g[n - 1] = f[n - 1]
      BY <3>1
    <3> QED
      BY <1>2, <3>2, <3>3
  <2> HIDE DEF g
  <2> QED
    BY <1>1, <2>1, <2>2 DEF FoldsTo
<1>4. PICK h : FoldsTo(state, before, h) /\ J!FoldRun(state, before) = h[Len(before)]
  BY <1>1, Folded
<1>5. h = g
  <2> HIDE DEF g
  <2> QED  BY <1>1, <1>3, <1>4, FoldedOnce
<1>6. g[k] = f[k]
  BY <1>1
<1> QED
  BY <1>1, <1>4, <1>5, <1>6 DEF before

LEMMA FoldedNext ==
  ASSUME NEW state, NEW S, NEW events \in Seq(S), NEW event \in S
  PROVE  J!FoldRun(state, Append(events, event)) = J!Fold(J!FoldRun(state, events), event)
<1> DEFINE all == Append(events, event)
<1>1. /\ all \in Seq(S) /\ Len(all) = Len(events) + 1 /\ Len(events) \in Nat
      /\ all[Len(events) + 1] = event /\ \A n \in 1 .. Len(events) : all[n] = events[n]
  OBVIOUS
<1>0. SubSeq(all, 1, Len(events)) = events
  <2> HIDE DEF all
  <2>1. SubSeq(all, 1, Len(events)) \in Seq(S) /\ Len(SubSeq(all, 1, Len(events))) = Len(events)
    BY <1>1
  <2>2. \A n \in 1 .. Len(events) : SubSeq(all, 1, Len(events))[n] = events[n]
    BY <1>1
  <2> QED  BY <2>1, <2>2, SeqEqual
<1> HIDE DEF all
<1>2. PICK f : FoldsTo(state, all, f) /\ J!FoldRun(state, all) = f[Len(all)]
  BY <1>1, Folded
<1>3. J!FoldRun(state, events) = f[Len(events)]
  <2>1. Len(events) \in 0 .. Len(all)
    BY <1>1
  <2>2. J!FoldRun(state, SubSeq(all, 1, Len(events))) = f[Len(events)]
    BY <1>1, <1>2, <2>1, FoldedBefore
  <2> QED  BY <1>0, <2>2
<1>4. f[Len(all)] = J!Fold(f[Len(events)], event)
  <2>1. Len(all) \in 1 .. Len(all) /\ Len(all) - 1 = Len(events)
    BY <1>1
  <2> QED  BY <1>1, <1>2, <2>1 DEF FoldsTo
<1> QED
  BY <1>2, <1>3, <1>4 DEF all
JournalEvents ==
  [kind : {"start", "end", "snapshot"}, attempt : Nat \cup {None}, usage : Nat,
   id : Nat, sequence : Nat \ {0}]
JournalStates ==
  [watermark : Nat, index : SUBSET (Nat \X Nat), attempts : SUBSET Nat, ended : SUBSET Nat,
   usage : Nat, source : {"attempts", "snapshot"}, measured : Nat]

EventIsGood(event, ids, most) ==
  /\ event \in JournalEvents /\ event.id <= ids
  /\ event.kind \in {"start", "end"} => event.attempt \in 0 .. event.id
  /\ event.kind = "snapshot" => event.usage <= most

StateIsGood(state, ids, most) ==
  /\ state \in JournalStates
  /\ \A entry \in state.index : entry[1] <= ids /\ entry[2] <= state.watermark
  /\ \A attempt \in state.attempts : attempt <= ids
  /\ state.source = "snapshot" => state.usage <= most

LEMMA GoodIsNotRejected ==
  ASSUME NEW ids, NEW most, NEW state, StateIsGood(state, ids, most)
  PROVE  state # J!Rejected
<1>1. state.watermark \in Nat
  BY DEF StateIsGood, JournalStates
<1>2. J!Rejected.watermark = -1
  BY DEF J!Rejected
<1> QED
  BY <1>1, <1>2

(* What one event makes of a state.                                          *)
LEMMA Applied ==
  ASSUME NEW ids \in Nat, NEW most \in Nat, NEW state, NEW event,
         StateIsGood(state, ids, most), EventIsGood(event, ids, most)
  PROVE  /\ J!Apply(state, event) \in JournalStates
         /\ J!Apply(state, event).index = state.index
         /\ J!Apply(state, event).watermark = state.watermark
         /\ \A attempt \in J!Apply(state, event).attempts : attempt <= ids
         /\ J!Apply(state, event).source = "snapshot" => J!Apply(state, event).usage <= most
<1> DEFINE applied == J!Apply(state, event)
<1> SUFFICES /\ applied \in JournalStates
             /\ applied.index = state.index /\ applied.watermark = state.watermark
             /\ \A attempt \in applied.attempts : attempt <= ids
             /\ applied.source = "snapshot" => applied.usage <= most
  OBVIOUS
<1>1. CASE event.kind = "snapshot"
  <2>1. applied = [state EXCEPT !.usage = event.usage, !.source = "snapshot"]
    BY <1>1 DEF J!Apply
  <2> QED
    BY <1>1, <2>1 DEF StateIsGood, EventIsGood, JournalStates, JournalEvents
<1>2. CASE event.kind = "start"
  <2>1. applied = [state EXCEPT !.attempts = @ \cup {event.attempt}]
    BY <1>2 DEF J!Apply
  <2>2. event.attempt \in Nat /\ event.attempt <= ids
    BY <1>2 DEF EventIsGood, JournalEvents
  <2> QED
    BY <2>1, <2>2 DEF StateIsGood, JournalStates
<1>3. CASE event.kind = "end"
  <2> DEFINE measured == state.measured + event.usage
         tokens == IF state.source = "snapshot" THEN state.usage ELSE measured
  <2>1. applied = [state EXCEPT !.ended = @ \cup {event.attempt}, !.measured = measured,
                     !.usage = tokens]
    BY <1>3 DEF J!Apply
  <2>2. /\ event.attempt \in Nat /\ measured \in Nat /\ tokens \in Nat
        /\ state.source = "snapshot" => tokens <= most
    BY <1>3 DEF StateIsGood, JournalStates, EventIsGood, JournalEvents
  <2> HIDE DEF measured, tokens
  <2>3. /\ applied \in JournalStates
        /\ applied.index = state.index /\ applied.watermark = state.watermark
        /\ applied.attempts = state.attempts
        /\ applied.source = state.source /\ applied.usage = tokens
    <3>1. state \in JournalStates /\ state.ended \cup {event.attempt} \in SUBSET Nat
      BY <2>2 DEF StateIsGood, JournalStates
    <3> QED
      BY <2>1, <2>2, <3>1 DEF JournalStates
  <2> QED
    BY <2>2, <2>3 DEF StateIsGood
<1> QED
  BY <1>1, <1>2, <1>3 DEF EventIsGood, JournalEvents

LEMMA FoldedOne ==
  ASSUME NEW ids \in Nat, NEW most \in Nat, NEW state, NEW event,
         StateIsGood(state, ids, most), EventIsGood(event, ids, most),
         J!Fold(state, event) # J!Rejected
  PROVE  /\ StateIsGood(J!Fold(state, event), ids, most)
         /\ state.watermark <= J!Fold(state, event).watermark
         /\ event.sequence <= J!Fold(state, event).watermark
         /\ J!Fold(state, event).index = state.index \cup {<<event.id, event.sequence>>}
         /\ J!Fold(state, event) = state \/ event.sequence = state.watermark + 1
         /\ J!Fold(state, event) # state => J!Fold(state, event).watermark = event.sequence
<1>1. state # J!Rejected
  BY GoodIsNotRejected
<1>2. CASE <<event.id, event.sequence>> \in state.index
  <2>1. J!Fold(state, event) = state
    BY <1>1, <1>2 DEF J!Fold
  <2>2. event.sequence <= state.watermark
    BY <1>2 DEF StateIsGood, EventIsGood, JournalEvents
  <2> QED
    BY <1>2, <2>1, <2>2 DEF StateIsGood, JournalStates
<1>3. CASE <<event.id, event.sequence>> \notin state.index
  <2> DEFINE applied == J!Apply(state, event)
             folded == [applied EXCEPT !.watermark = event.sequence,
                                       !.index = @ \cup {<<event.id, event.sequence>>}]
  <2>1. /\ J!Fold(state, event) = folded
        /\ event.sequence = state.watermark + 1
        /\ J!Acceptable(state, event)
    BY <1>1, <1>3 DEF J!Fold
  <2>2. /\ applied \in JournalStates
        /\ applied.index = state.index /\ applied.watermark = state.watermark
        /\ \A attempt \in applied.attempts : attempt <= ids
        /\ applied.source = "snapshot" => applied.usage <= most
    BY Applied
  <2> HIDE DEF applied
  <2>3. /\ folded \in JournalStates
        /\ folded.index = state.index \cup {<<event.id, event.sequence>>}
        /\ folded.watermark = event.sequence
        /\ folded.attempts = applied.attempts
        /\ folded.source = applied.source /\ folded.usage = applied.usage
    <3>1. event.sequence \in Nat /\ <<event.id, event.sequence>> \in Nat \X Nat
      BY DEF EventIsGood, JournalEvents
    <3> QED
      BY <2>2, <3>1 DEF JournalStates
  <2>4. state.watermark \in Nat /\ event.sequence \in Nat
    BY DEF StateIsGood, EventIsGood, JournalStates, JournalEvents
  <2> HIDE DEF folded
  <2>5. StateIsGood(folded, ids, most)
    <3>1. ASSUME NEW entry \in folded.index
          PROVE  entry[1] <= ids /\ entry[2] <= folded.watermark
      <4>1. CASE entry \in state.index
        BY <2>1, <2>3, <2>4, <4>1 DEF StateIsGood, JournalStates
      <4>2. CASE entry = <<event.id, event.sequence>>
        BY <2>3, <2>4, <4>2 DEF EventIsGood
      <4> QED
        BY <2>3, <3>1, <4>1, <4>2
    <3> QED
      BY <2>2, <2>3, <3>1 DEF StateIsGood
  <2> QED
    BY <2>1, <2>3, <2>4, <2>5
<1> QED
  BY <1>2, <1>3

(* A run of events that is not refused: the states on the way.               *)
LEMMA FoldedAll ==
  ASSUME NEW ids \in Nat, NEW most \in Nat, NEW state, NEW events \in Seq(JournalEvents),
         StateIsGood(state, ids, most),
         \A n \in 1 .. Len(events) : EventIsGood(events[n], ids, most),
         NEW f, FoldsTo(state, events, f), f[Len(events)] # J!Rejected
  PROVE  /\ \A n \in 0 .. Len(events) : StateIsGood(f[n], ids, most)
         /\ \A n \in 0 .. Len(events) : state.watermark <= f[n].watermark
         /\ \A n \in 1 .. Len(events) : f[n] # J!Rejected
         /\ \A n \in 1 .. Len(events) : events[n].sequence <= f[Len(events)].watermark
<1>0. Len(events) \in Nat
  OBVIOUS
<1>1. \A n \in 1 .. Len(events) : f[n] # J!Rejected
  <2> SUFFICES ASSUME NEW n \in 1 .. Len(events), f[n] = J!Rejected PROVE FALSE
    OBVIOUS
  <2> DEFINE Refused == {k \in Nat : n + k <= Len(events) => f[n + k] = J!Rejected}
  <2>1. 0 \in Refused
    BY <1>0
  <2>2. ASSUME NEW k \in Nat, k \in Refused PROVE k + 1 \in Refused
    <3> SUFFICES ASSUME n + (k + 1) <= Len(events) PROVE f[n + (k + 1)] = J!Rejected
      OBVIOUS
    <3>1. n + (k + 1) \in 1 .. Len(events) /\ n + (k + 1) - 1 = n + k /\ f[n + k] = J!Rejected
      BY <1>0, <2>2
    <3> DEFINE m == n + (k + 1)
    <3> HIDE DEF m
    <3>2. f[m] = J!Fold(f[m - 1], events[m])
      BY <3>1 DEF FoldsTo, m
    <3>3. m - 1 = n + k
      BY <3>1 DEF m
    <3> QED  BY <3>1, <3>2, <3>3 DEF J!Fold, m
  <2>3. Len(events) - n \in Refused
    <3> HIDE DEF Refused
    <3> QED  BY SMTT(30), <1>0, <2>1, <2>2, SetInduction
  <2> QED  BY <1>0, <2>3
<1> DEFINE Good == {n \in Nat : n <= Len(events) =>
                      /\ StateIsGood(f[n], ids, most)
                      /\ state.watermark <= f[n].watermark
                      /\ \A k \in 1 .. n : events[k].sequence <= f[n].watermark}
<1>2. 0 \in Good
  <2>1. f[0] = state /\ state.watermark \in Nat
    BY DEF FoldsTo, StateIsGood, JournalStates
  <2> QED  BY <2>1
<1>3. ASSUME NEW n \in Nat, n \in Good PROVE n + 1 \in Good
  <2> SUFFICES ASSUME n + 1 <= Len(events)
               PROVE  /\ StateIsGood(f[n + 1], ids, most)
                      /\ state.watermark <= f[n + 1].watermark
                      /\ \A k \in 1 .. n + 1 : events[k].sequence <= f[n + 1].watermark
    OBVIOUS
  <2>1. /\ n + 1 \in 1 .. Len(events) /\ (n + 1) - 1 = n
        /\ StateIsGood(f[n], ids, most) /\ state.watermark <= f[n].watermark
        /\ \A k \in 1 .. n : events[k].sequence <= f[n].watermark
    BY <1>0, <1>3
  <2>2. f[n + 1] = J!Fold(f[n], events[n + 1])
    BY <2>1 DEF FoldsTo
  <2>3. /\ StateIsGood(f[n + 1], ids, most)
        /\ f[n].watermark <= f[n + 1].watermark
        /\ events[n + 1].sequence <= f[n + 1].watermark
    BY <1>1, <2>1, <2>2, FoldedOne
  <2>4. state.watermark \in Nat /\ f[n].watermark \in Nat /\ f[n + 1].watermark \in Nat
    BY <2>1, <2>3 DEF StateIsGood, JournalStates
  <2>5. \A k \in 1 .. n + 1 : events[k].sequence \in Nat
    <3>1. 1 .. n + 1 \subseteq 1 .. Len(events)
      BY <1>0, <2>1
    <3> QED  BY <3>1 DEF EventIsGood, JournalEvents
  <2>6. ASSUME NEW k \in 1 .. n + 1 PROVE events[k].sequence <= f[n + 1].watermark
    <3>1. CASE k = n + 1
      BY <2>3, <3>1
    <3>2. CASE k # n + 1
      <4>1. k \in 1 .. n
        BY <2>6, <3>2
      <4> QED  BY <2>1, <2>3, <2>4, <2>5, <4>1
    <3> QED  BY <3>1, <3>2
  <2>7. state.watermark <= f[n + 1].watermark
    BY <2>1, <2>3, <2>4
  <2> QED  BY <2>3, <2>6, <2>7
<1>4. Nat \subseteq Good
  <2> HIDE DEF Good
  <2> QED  BY <1>2, <1>3, SetInduction
<1> QED
  BY <1>0, <1>1, <1>4

(* A journal whose first events are those of a checkpoint, none of them and  *)
(* no identity coming twice, is folded from the checkpoint as from its first *)
(* event.                                                                    *)
LEMMA FoldedFromTheFirst ==
  ASSUME NEW ids \in Nat, NEW most \in Nat, NEW state, NEW events \in Seq(JournalEvents),
         StateIsGood(state, ids, most),
         \A n \in 1 .. Len(events) : EventIsGood(events[n], ids, most),
         \A m, n \in 1 .. Len(events) : events[m].id = events[n].id => m = n,
         state.watermark <= Len(events),
         \A n \in 1 .. state.watermark : events[n].sequence = n,
         \A n \in state.watermark + 1 .. Len(events) : events[n].sequence > state.watermark,
         J!FoldRun(J!Empty, SubSeq(events, 1, state.watermark)) = state,
         J!FoldRun(state, events) # J!Rejected
  PROVE  /\ J!FoldRun(J!Empty, events) = J!FoldRun(state, events)
         /\ J!FoldRun(state, events).watermark = Len(events)
         /\ \A n \in 1 .. Len(events) : events[n].sequence = n
<1> DEFINE s == state.watermark
<1>0. Len(events) \in Nat /\ s \in Nat /\ s \in 0 .. Len(events)
  BY DEF StateIsGood, JournalStates
<1>1. PICK f : FoldsTo(state, events, f) /\ J!FoldRun(state, events) = f[Len(events)]
  BY <1>0, Folded
<1>2. PICK g : FoldsTo(J!Empty, events, g) /\ J!FoldRun(J!Empty, events) = g[Len(events)]
  BY <1>0, Folded
<1>3. g[s] = state
  BY <1>0, <1>2, FoldedBefore
<1>4. /\ \A n \in 0 .. Len(events) : StateIsGood(f[n], ids, most)
      /\ \A n \in 1 .. Len(events) : f[n] # J!Rejected
  BY <1>1, FoldedAll
<1> HIDE DEF s
<1> DEFINE Skipped == {n \in Nat : n <= s => f[n] = state}
<1>5. 0 \in Skipped
  BY <1>1 DEF FoldsTo
<1>6. ASSUME NEW n \in Nat, n \in Skipped PROVE n + 1 \in Skipped
  <2> SUFFICES ASSUME n + 1 <= s PROVE f[n + 1] = state
    OBVIOUS
  <2>1. /\ n + 1 \in 1 .. Len(events) /\ n + 1 \in 1 .. s /\ (n + 1) - 1 = n
        /\ f[n] = state
    BY <1>0, <1>6
  <2>2. f[n + 1] = J!Fold(state, events[n + 1])
    BY <1>1, <2>1 DEF FoldsTo
  <2>3. events[n + 1].sequence # state.watermark + 1
    BY <1>0, <2>1 DEF s
  <2> QED
    BY <1>4, <2>1, <2>2, <2>3, FoldedOne
<1>7. f[s] = state
  <2>1. Nat \subseteq Skipped
    <3> HIDE DEF Skipped
    <3> QED  BY <1>5, <1>6, SetInduction
  <2> QED  BY <1>0, <2>1
<1> DEFINE Reached(n) ==
             /\ f[n] = g[n] /\ f[n].watermark = n
             /\ \A k \in 1 .. n : events[k].sequence = k
             /\ \A entry \in f[n].index :
                  entry[2] <= s \/ \E k \in 1 .. n : entry[1] = events[k].id
           Same == {n \in Nat : s + n <= Len(events) => Reached(s + n)}
<1>8. 0 \in Same
  <2>1. Reached(s)
    BY <1>0, <1>3, <1>7 DEF s, StateIsGood
  <2>2. s + 0 = s
    BY <1>0
  <2> HIDE DEF Reached
  <2> QED  BY <2>1, <2>2
<1>9. ASSUME NEW m \in Nat, m \in Same PROVE m + 1 \in Same
  <2> SUFFICES ASSUME s + (m + 1) <= Len(events) PROVE Reached(s + (m + 1))
    OBVIOUS
  <2> DEFINE n == s + m
             next == s + (m + 1)
  <2>1. /\ n \in Nat /\ n \in 0 .. Len(events) /\ next = n + 1 /\ next - 1 = n
        /\ next \in 1 .. Len(events) /\ next \in s + 1 .. Len(events) /\ n <= Len(events)
    BY <1>0
  <2>2. Reached(n)
    BY <1>9, <2>1
  <2> HIDE DEF n, next
  <2>3. f[next] = J!Fold(f[n], events[next]) /\ g[next] = J!Fold(g[n], events[next])
    BY <1>1, <1>2, <2>1 DEF FoldsTo
  <2>4. events[next].sequence > s /\ events[next].sequence \in Nat
    BY <2>1 DEF s, EventIsGood, JournalEvents
  <2>5. <<events[next].id, events[next].sequence>> \notin f[n].index
    <3> SUFFICES ASSUME NEW entry \in f[n].index,
                        entry = <<events[next].id, events[next].sequence>>
                 PROVE  FALSE
      OBVIOUS
    <3>1. entry[1] = events[next].id /\ entry[2] = events[next].sequence
      OBVIOUS
    <3>2. PICK k \in 1 .. n : entry[1] = events[k].id
      BY SMTT(30), <1>0, <2>2, <2>4, <3>1
    <3>3. k \in 1 .. Len(events) /\ k # next
      BY <2>1
    <3> QED  BY <2>1, <3>1, <3>2, <3>3
  <2>6. /\ f[next].index = f[n].index \cup {<<events[next].id, events[next].sequence>>}
        /\ f[next] = f[n] \/ events[next].sequence = f[n].watermark + 1
        /\ f[next] # f[n] => f[next].watermark = events[next].sequence
    BY <1>4, <2>1, <2>3, FoldedOne
  <2>7. events[next].sequence = next /\ f[next].watermark = next
    BY <2>1, <2>2, <2>5, <2>6
  <2>8. f[next] = g[next]
    BY <2>2, <2>3
  <2>9. \A k \in 1 .. next : events[k].sequence = k
    <3>1. 1 .. next = 1 .. n \cup {next}
      BY <2>1
    <3> QED  BY <2>2, <2>7, <3>1
  <2>10. ASSUME NEW entry \in f[next].index
         PROVE  entry[2] <= s \/ \E k \in 1 .. next : entry[1] = events[k].id
    <3>1. CASE entry \in f[n].index
      <4>1. 1 .. n \subseteq 1 .. next
        BY <2>1
      <4> QED  BY <2>2, <3>1, <4>1
    <3>2. CASE entry = <<events[next].id, events[next].sequence>>
      <4>1. next \in 1 .. next
        BY <2>1
      <4> QED  BY <3>2, <4>1
    <3> QED  BY <2>6, <2>10, <3>1, <3>2
  <2> QED
    BY <2>7, <2>8, <2>9, <2>10 DEF next
<1>10. Reached(Len(events))
  <2>1. Nat \subseteq Same
    <3> HIDE DEF Same
    <3> QED  BY <1>8, <1>9, SetInduction
  <2> DEFINE rest == Len(events) - s
  <2>2. rest \in Nat /\ s + rest = Len(events) /\ s + rest <= Len(events)
    BY <1>0
  <2> HIDE DEF Reached, rest
  <2>3. Reached(s + rest)
    BY <2>1, <2>2
  <2> QED  BY <2>2, <2>3
<1> QED
  BY <1>1, <1>2, <1>10

Said == journal \o queue

JournalTypes ==
  /\ running \in BOOLEAN /\ gap \in BOOLEAN /\ missing \in BOOLEAN
  /\ emitted \in Nat /\ spent \in Nat
  /\ journal \in Seq(JournalEvents) /\ queue \in Seq(JournalEvents)
  /\ ~running => queue = <<>>
  /\ refused \subseteq {"journal"}

EventsAreGood ==
  /\ \A n \in 1 .. Len(journal) : EventIsGood(journal[n], emitted, spent)
  /\ \A n \in 1 .. Len(queue) : EventIsGood(queue[n], emitted, spent)

(* An event is written once.                                                 *)
OneOfEach ==
  /\ \A m, n \in 1 .. Len(journal) : journal[m].id = journal[n].id => m = n
  /\ \A m, n \in 1 .. Len(queue) : queue[m].id = queue[n].id => m = n
  /\ \A m \in 1 .. Len(journal), n \in 1 .. Len(queue) : journal[m].id # queue[n].id

RunIsGood ==
  running =>
    /\ StateIsGood(projection, emitted, usage)
    /\ sequence = projection.watermark
    /\ usage \in Nat /\ usage <= spent

(* What the journal holds and what is on the way are all events of the run.  *)
AllIsWritten ==
  running /\ ~gap /\ ~missing =>
    /\ persisted = Len(journal)
    /\ sequence = Len(journal) + Len(queue)
    /\ \A n \in 1 .. Len(journal) : journal[n].sequence = n
    /\ \A n \in 1 .. Len(queue) : queue[n].sequence = Len(journal) + n
    /\ J!FoldRun(J!Empty, Said) = projection

(* What is missing is not going to be written.                               *)
MissingForGood ==
  running /\ ~gap /\ missing =>
    \E hole \in 1 .. sequence :
      /\ \A n \in 1 .. Len(journal) : journal[n].sequence # hole
      /\ \A n \in 1 .. Len(queue) : queue[n].sequence # hole

Holds(n) == \E k \in 1 .. Len(journal) : journal[k].sequence = n

CheckpointIsGood ==
  saved # None =>
    /\ StateIsGood(saved.projection, emitted, spent)
    /\ saved.sequence = saved.projection.watermark
    /\ saved.usage \in Nat /\ saved.usage <= spent /\ saved.gap \in BOOLEAN
    /\ running => saved.sequence <= sequence
    /\ running => \A n \in 1 .. Len(queue) : queue[n].sequence > saved.sequence

(* As long as nothing of it is lost, a checkpoint is what the beginning of   *)
(* the journal is folded to.                                                 *)
CheckpointIsFolded ==
  saved # None /\ ~saved.gap /\ (\A n \in 1 .. saved.sequence : Holds(n)) =>
    /\ saved.sequence <= Len(journal)
    /\ \A n \in 1 .. saved.sequence : journal[n].sequence = n
    /\ \A n \in saved.sequence + 1 .. Len(journal) : journal[n].sequence > saved.sequence
    /\ J!FoldRun(J!Empty, SubSeq(journal, 1, saved.sequence)) = saved.projection

JournalInv ==
  /\ JournalTypes /\ EventsAreGood /\ OneOfEach /\ RunIsGood /\ AllIsWritten /\ MissingForGood
  /\ CheckpointIsGood /\ CheckpointIsFolded

LEMMA FoldedNothing ==
  ASSUME NEW state PROVE J!FoldRun(state, <<>>) = state
<1>1. PICK f : FoldsTo(state, <<>>, f) /\ J!FoldRun(state, <<>>) = f[Len(<<>>)]
  BY Folded
<1> QED  BY <1>1 DEF FoldsTo

LEMMA EmptyIsGood ==
  ASSUME NEW ids \in Nat, NEW most \in Nat PROVE StateIsGood(J!Empty, ids, most)
BY DEF StateIsGood, JournalStates, J!Empty

LEMMA JournalInit == SessionInit => JournalInv
<1> SUFFICES ASSUME SessionInit PROVE JournalInv
  OBVIOUS
<1>0. J!Init /\ <<>> \in Seq(JournalEvents) /\ Len(<<>>) = 0
  BY EmptySeq DEF SessionInit
<1> USE <1>0 DEF J!Init
<1>1. JournalTypes
  BY DEF JournalTypes
<1>11. EventsAreGood
  BY DEF EventsAreGood
<1>12. OneOfEach
  BY DEF OneOfEach
<1>2. RunIsGood
  <2>1. StateIsGood(J!Empty, 0, 0)
    BY EmptyIsGood
  <2> QED  BY <2>1 DEF RunIsGood, J!Empty
<1>3. AllIsWritten
  <2>1. J!FoldRun(J!Empty, <<>>) = J!Empty /\ <<>> \o <<>> = <<>>
    BY FoldedNothing
  <2> QED  BY <2>1 DEF AllIsWritten, Said
<1>4. MissingForGood /\ CheckpointIsGood /\ CheckpointIsFolded
  BY DEF MissingForGood, CheckpointIsGood, CheckpointIsFolded
<1> QED  BY <1>1, <1>11, <1>12, <1>2, <1>3, <1>4 DEF JournalInv

LEMMA JournalUnchanged == JournalInv /\ UNCHANGED journalVars => JournalInv'
<1> SUFFICES ASSUME JournalInv, UNCHANGED journalVars PROVE JournalInv'
  OBVIOUS
<1> USE DEF JournalInv, journalVars
<1>1. JournalTypes' /\ EventsAreGood' /\ OneOfEach'
  BY DEF JournalTypes, EventsAreGood, OneOfEach
<1>2. RunIsGood'
  BY DEF RunIsGood
<1>3. AllIsWritten' /\ MissingForGood'
  BY DEF AllIsWritten, MissingForGood, Said
<1>4. CheckpointIsGood' /\ CheckpointIsFolded'
  BY DEF CheckpointIsGood, CheckpointIsFolded, Holds
<1> QED  BY <1>1, <1>2, <1>3, <1>4

(* More was emitted and spent: what was good stays good.                     *)
LEMMA GoodStaysGood ==
  ASSUME NEW ids \in Nat, NEW most \in Nat, NEW moreIds \in Nat, NEW more \in Nat,
         ids <= moreIds, most <= more
  PROVE  /\ \A state : StateIsGood(state, ids, most) => StateIsGood(state, moreIds, more)
         /\ \A event : EventIsGood(event, ids, most) => EventIsGood(event, moreIds, more)
<1>1. ASSUME NEW state, StateIsGood(state, ids, most) PROVE StateIsGood(state, moreIds, more)
  <2>1. /\ \A entry \in state.index : entry[1] \in Nat
        /\ \A attempt \in state.attempts : attempt \in Nat
        /\ state.usage \in Nat
    BY <1>1 DEF StateIsGood, JournalStates
  <2> QED  BY <1>1, <2>1 DEF StateIsGood
<1>2. ASSUME NEW event, EventIsGood(event, ids, most) PROVE EventIsGood(event, moreIds, more)
  <2>1. event.id \in Nat /\ event.usage \in Nat
    BY <1>2 DEF EventIsGood, JournalEvents
  <2> QED  BY <1>2, <2>1 DEF EventIsGood
<1> QED  BY <1>1, <1>2

LEMMA DieJournal == JournalInv /\ J!Die => JournalInv'
<1> SUFFICES ASSUME JournalInv, J!Die PROVE JournalInv'
  OBVIOUS
<1> USE DEF JournalInv, J!Die, J!disk, J!history
<1>1. JournalTypes' /\ EventsAreGood' /\ OneOfEach'
  <2>1. <<>> \in Seq(JournalEvents) /\ Len(<<>>) = 0
    BY EmptySeq
  <2>2. JournalTypes'
    BY <2>1 DEF JournalTypes
  <2>3. EventsAreGood'
    BY <2>1 DEF JournalTypes, EventsAreGood
  <2>4. OneOfEach'
    BY <2>1 DEF JournalTypes, OneOfEach
  <2> QED  BY <2>2, <2>3, <2>4
<1>2. RunIsGood' /\ AllIsWritten' /\ MissingForGood'
  BY DEF RunIsGood, AllIsWritten, MissingForGood
<1>3. CheckpointIsGood' /\ CheckpointIsFolded'
  BY DEF CheckpointIsGood, CheckpointIsFolded, Holds
<1> QED  BY <1>1, <1>2, <1>3

LEMMA SaveCheckpointJournal == JournalInv /\ J!SaveCheckpoint => JournalInv'
<1> SUFFICES ASSUME JournalInv, J!SaveCheckpoint PROVE JournalInv'
  OBVIOUS
<1> USE DEF JournalInv, J!SaveCheckpoint, J!run, J!history
<1>1. JournalTypes' /\ EventsAreGood' /\ OneOfEach'
  BY DEF JournalTypes, EventsAreGood, OneOfEach
<1>2. RunIsGood'
  BY DEF RunIsGood
<1>3. AllIsWritten' /\ MissingForGood'
  BY DEF AllIsWritten, MissingForGood, Said
<1>4. CheckpointIsGood'
  <2>1. /\ saved'.projection = projection /\ saved'.sequence = sequence /\ saved'.usage = usage
        /\ saved'.gap = gap
    OBVIOUS
  <2>2. sequence \in Nat /\ usage \in Nat /\ usage <= spent /\ spent \in Nat /\ emitted \in Nat
    BY DEF RunIsGood, JournalTypes, StateIsGood, JournalStates
  <2>3. StateIsGood(projection, emitted, spent)
    BY <2>2, GoodStaysGood DEF RunIsGood
  <2> QED  BY <2>1, <2>2, <2>3 DEF CheckpointIsGood, RunIsGood, JournalTypes
<1>5. CheckpointIsFolded'
  <2>1. saved'.sequence = sequence /\ saved'.gap = gap /\ saved'.projection = projection
    OBVIOUS
  <2> SUFFICES ASSUME ~gap, \A n \in 1 .. sequence : Holds(n)
               PROVE  /\ sequence <= Len(journal)
                      /\ \A n \in 1 .. sequence : journal[n].sequence = n
                      /\ \A n \in sequence + 1 .. Len(journal) : journal[n].sequence > sequence
                      /\ J!FoldRun(J!Empty, SubSeq(journal, 1, sequence)) = projection
    BY <2>1 DEF CheckpointIsFolded, Holds
  <2>2. ~missing
    BY DEF MissingForGood, Holds
  <2>3. sequence = Len(journal) /\ \A n \in 1 .. Len(journal) : journal[n].sequence = n
    BY <2>2 DEF AllIsWritten, JournalTypes
  <2>4. Said = journal
    BY ConcatEmptySeq DEF Said, JournalTypes
  <2>5. SubSeq(journal, 1, sequence) = journal
    BY <2>3, SubSeqFull DEF JournalTypes
  <2>6. Len(journal) \in Nat
    BY DEF JournalTypes
  <2>7. J!FoldRun(J!Empty, SubSeq(journal, 1, sequence)) = projection
    BY <2>2, <2>4, <2>5 DEF AllIsWritten
  <2> QED
    BY <2>3, <2>6, <2>7
<1> QED  BY <1>1, <1>2, <1>3, <1>4, <1>5

LEMMA SaidAndMore ==
  ASSUME NEW S, NEW first \in Seq(S), NEW second \in Seq(S), NEW event \in S
  PROVE  first \o Append(second, event) = Append(first \o second, event)
BY AppendIsConcat, ConcatAssociative, ConcatProperties, AppendProperties

LEMMA OneMore ==
  ASSUME NEW S, NEW some \in Seq(S), NEW event \in S
  PROVE  /\ Append(some, event) \in Seq(S) /\ Len(Append(some, event)) = Len(some) + 1
         /\ Append(some, event)[Len(some) + 1] = event
         /\ \A n \in 1 .. Len(some) : Append(some, event)[n] = some[n]
BY AppendProperties

LEMMA EmitJournal ==
  ASSUME JournalInv, NEW event, J!Emit(event),
         event.id = emitted + 1, event.sequence = sequence + 1,
         J!Acceptable(projection, event), EventIsGood(event, emitted + 1, usage'),
         usage' \in Nat, spent' \in Nat, usage <= usage', spent <= spent', usage' <= spent'
  PROVE  JournalInv'
<1> USE DEF JournalInv
<1>1. /\ running /\ running' = running /\ emitted' = emitted + 1 /\ J!Accept(event)
      /\ UNCHANGED <<persisted, missing, journal, saved>>
  BY DEF J!Emit, J!disk
<1>2. /\ StateIsGood(projection, emitted, usage) /\ sequence = projection.watermark
      /\ sequence \in Nat /\ usage \in Nat /\ emitted \in Nat /\ spent \in Nat
      /\ journal \in Seq(JournalEvents) /\ queue \in Seq(JournalEvents)
      /\ event \in JournalEvents
  BY <1>1 DEF RunIsGood, JournalTypes, StateIsGood, JournalStates, EventIsGood
<1>3. StateIsGood(projection, emitted + 1, usage')
  BY <1>2, GoodStaysGood
<1>4. EventIsGood(event, emitted', spent')
  BY <1>1, <1>2, GoodStaysGood
<1>5. J!Fold(projection, event) # J!Rejected /\ J!Fold(projection, event).watermark = sequence + 1
  <2>1. projection # J!Rejected
    BY <1>2, GoodIsNotRejected
  <2>2. <<event.id, event.sequence>> \notin projection.index
    <3> SUFFICES ASSUME NEW entry \in projection.index, entry = <<event.id, event.sequence>>
                 PROVE  FALSE
      OBVIOUS
    <3>1. entry[1] = emitted + 1
      OBVIOUS
    <3> QED  BY <1>2, <3>1 DEF StateIsGood
  <2>3. J!Fold(projection, event) =
          [J!Apply(projection, event) EXCEPT !.watermark = event.sequence,
                                             !.index = @ \cup {<<event.id, event.sequence>>}]
    BY <1>2, <2>1, <2>2 DEF J!Fold
  <2>4. J!Apply(projection, event) \in JournalStates
    BY <1>2, <1>3, Applied
  <2>5. J!Fold(projection, event).watermark = sequence + 1
    BY <2>3, <2>4 DEF JournalStates
  <2>6. J!Rejected.watermark = -1
    BY DEF J!Rejected
  <2> QED  BY <1>2, <2>5, <2>6
<1>6. /\ projection' = J!Fold(projection, event) /\ sequence' = sequence + 1
      /\ queue' = Append(queue, event) /\ UNCHANGED <<gap, refused>>
  BY <1>1, <1>5 DEF J!Accept
<1>7. StateIsGood(projection', emitted', usage')
  BY <1>1, <1>2, <1>3, <1>5, <1>6, FoldedOne
<1>17. /\ \A old : EventIsGood(old, emitted, spent) => EventIsGood(old, emitted', spent')
       /\ \A old : StateIsGood(old, emitted, spent) => StateIsGood(old, emitted', spent')
  <2>1. /\ emitted \in Nat /\ emitted' \in Nat /\ spent \in Nat /\ spent' \in Nat
        /\ emitted <= emitted' /\ spent <= spent'
    BY <1>1, <1>2
  <2> QED  BY <2>1, GoodStaysGood
<1>8. /\ Len(journal) \in Nat /\ Len(queue) \in Nat
      /\ queue' \in Seq(JournalEvents) /\ Len(queue') = Len(queue) + 1
      /\ queue'[Len(queue) + 1] = event
      /\ \A n \in 1 .. Len(queue) : queue'[n] = queue[n]
      /\ 1 .. Len(queue') = 1 .. Len(queue) \cup {Len(queue) + 1}
  <2>1. PICK S, b, q : S = JournalEvents /\ b = queue /\ q = Append(b, event)
    OBVIOUS
  <2>2. /\ b \in Seq(S) /\ event \in S /\ q = queue'
        /\ Len(journal) \in Nat /\ Len(b) \in Nat
    BY <1>2, <1>6, <2>1
  <2>3. /\ q \in Seq(S) /\ Len(q) = Len(b) + 1 /\ q[Len(b) + 1] = event
        /\ \A n \in 1 .. Len(b) : q[n] = b[n]
    <3>1. q = Append(b, event)
      BY <2>1
    <3> QED  BY <2>2, <3>1, OneMore
  <2>4. 1 .. Len(q) = 1 .. Len(b) \cup {Len(b) + 1}
    BY <2>2, <2>3
  <2> QED  BY <2>1, <2>2, <2>3, <2>4
<1>9. JournalTypes'
  BY <1>1, <1>2, <1>6, <1>8 DEF JournalTypes
<1>10. EventsAreGood'
  <2>2. \A n \in 1 .. Len(journal') : EventIsGood(journal'[n], emitted', spent')
    BY <1>1, <1>17 DEF EventsAreGood
  <2>3. \A n \in 1 .. Len(queue') : EventIsGood(queue'[n], emitted', spent')
    BY <1>4, <1>8, <1>17 DEF EventsAreGood
  <2> QED  BY <2>2, <2>3 DEF EventsAreGood
<1>11. OneOfEach'
  <2>1. /\ \A n \in 1 .. Len(journal) : journal[n].id # event.id
        /\ \A n \in 1 .. Len(queue) : queue[n].id # event.id
    <3>1. /\ \A n \in 1 .. Len(journal) : journal[n].id \in Nat /\ journal[n].id <= emitted
          /\ \A n \in 1 .. Len(queue) : queue[n].id \in Nat /\ queue[n].id <= emitted
      BY DEF EventsAreGood, EventIsGood, JournalEvents
    <3> QED  BY <1>2, <3>1
  <2>2. \A m, n \in 1 .. Len(journal') : journal'[m].id = journal'[n].id => m = n
    BY <1>1 DEF OneOfEach
  <2>3. \A m, n \in 1 .. Len(queue') : queue'[m].id = queue'[n].id => m = n
    BY <1>8, <2>1 DEF OneOfEach
  <2>4. \A m \in 1 .. Len(journal'), n \in 1 .. Len(queue') : journal'[m].id # queue'[n].id
    BY SMTT(30), <1>1, <1>8, <2>1 DEF OneOfEach
  <2> QED  BY <2>2, <2>3, <2>4 DEF OneOfEach
<1>12. RunIsGood'
  BY <1>5, <1>6, <1>7 DEF RunIsGood
<1>13. AllIsWritten'
  <2> SUFFICES ASSUME ~gap, ~missing
               PROVE  /\ persisted = Len(journal)
                      /\ sequence + 1 = Len(journal) + Len(queue')
                      /\ \A n \in 1 .. Len(journal) : journal[n].sequence = n
                      /\ \A n \in 1 .. Len(queue') : queue'[n].sequence = Len(journal) + n
                      /\ J!FoldRun(J!Empty, journal \o queue') = J!Fold(projection, event)
    BY <1>1, <1>6 DEF AllIsWritten, Said
  <2>1. /\ persisted = Len(journal)
        /\ sequence = Len(journal) + Len(queue)
        /\ \A n \in 1 .. Len(journal) : journal[n].sequence = n
        /\ \A n \in 1 .. Len(queue) : queue[n].sequence = Len(journal) + n
        /\ J!FoldRun(J!Empty, Said) = projection
    BY <1>1 DEF AllIsWritten
  <2>2. journal \o queue' = Append(Said, event) /\ Said \in Seq(JournalEvents)
    <3>1. journal \o Append(queue, event) = Append(journal \o queue, event)
      <4>1. PICK S, a, b, e : S = JournalEvents /\ a = journal /\ b = queue /\ e = event
        OBVIOUS
      <4>2. a \in Seq(S) /\ b \in Seq(S) /\ e \in S
        BY <1>2, <4>1
      <4>3. a \o Append(b, e) = Append(a \o b, e)
        BY <4>2, SaidAndMore
      <4> QED  BY <4>1, <4>3
    <3>2. journal \o queue \in Seq(JournalEvents)
      BY <1>2, ConcatProperties
    <3> QED  BY <1>6, <3>1, <3>2 DEF Said
  <2>3. J!FoldRun(J!Empty, journal \o queue') = J!Fold(projection, event)
    BY <1>2, <2>1, <2>2, FoldedNext
  <2>4. ASSUME NEW n \in 1 .. Len(queue') PROVE queue'[n].sequence = Len(journal) + n
    <3>1. CASE n \in 1 .. Len(queue)
      BY <1>8, <2>1, <3>1
    <3>2. CASE n = Len(queue) + 1
      BY <1>8, <2>1, <3>2
    <3> QED  BY <1>8, <2>4, <3>1, <3>2
  <2> QED  BY <1>8, <2>1, <2>3, <2>4
<1>14. MissingForGood'
  <2> SUFFICES ASSUME ~gap, missing
               PROVE  \E hole \in 1 .. sequence + 1 :
                        /\ \A n \in 1 .. Len(journal) : journal[n].sequence # hole
                        /\ \A n \in 1 .. Len(queue') : queue'[n].sequence # hole
    BY <1>1, <1>6 DEF MissingForGood
  <2>1. PICK hole \in 1 .. sequence :
          /\ \A n \in 1 .. Len(journal) : journal[n].sequence # hole
          /\ \A n \in 1 .. Len(queue) : queue[n].sequence # hole
    BY <1>1 DEF MissingForGood
  <2>2. hole \in 1 .. sequence + 1 /\ event.sequence # hole
    BY <1>2
  <2> QED  BY <1>8, <2>1, <2>2
<1>15. CheckpointIsGood'
  <2> SUFFICES ASSUME saved # None
               PROVE  /\ StateIsGood(saved.projection, emitted', spent')
                      /\ saved.sequence = saved.projection.watermark
                      /\ saved.usage \in Nat /\ saved.usage <= spent' /\ saved.gap \in BOOLEAN
                      /\ saved.sequence <= sequence + 1
                      /\ \A n \in 1 .. Len(queue') : queue'[n].sequence > saved.sequence
    BY <1>1, <1>6 DEF CheckpointIsGood
  <2>1. /\ StateIsGood(saved.projection, emitted, spent)
        /\ saved.sequence = saved.projection.watermark
        /\ saved.usage \in Nat /\ saved.usage <= spent /\ saved.gap \in BOOLEAN
        /\ saved.sequence <= sequence
        /\ \A n \in 1 .. Len(queue) : queue[n].sequence > saved.sequence
    BY <1>1 DEF CheckpointIsGood
  <2>2. saved.sequence \in Nat
    BY <2>1 DEF StateIsGood, JournalStates
  <2>3. StateIsGood(saved.projection, emitted', spent')
    BY <1>17, <2>1
  <2>4. event.sequence > saved.sequence
    <3>1. event.sequence = sequence + 1 /\ sequence \in Nat /\ saved.sequence <= sequence
      BY <1>2, <2>1
    <3> QED  BY <2>2, <3>1
  <2>5. \A n \in 1 .. Len(queue') : queue'[n].sequence > saved.sequence
    BY <1>8, <2>1, <2>4
  <2>6. saved.usage <= spent' /\ saved.sequence <= sequence + 1
    BY <1>2, <2>1, <2>2
  <2> QED  BY <2>1, <2>3, <2>5, <2>6
<1>16. CheckpointIsFolded'
  BY <1>1 DEF CheckpointIsFolded, Holds
<1> QED  BY <1>9, <1>10, <1>11, <1>12, <1>13, <1>14, <1>15, <1>16

LEMMA OnwardJournal ==
  ASSUME JournalInv, running
  PROVE  /\ StateIsGood(projection, emitted, usage) /\ projection \in JournalStates
         /\ sequence = projection.watermark /\ sequence \in Nat
         /\ emitted \in Nat /\ usage \in Nat /\ spent \in Nat /\ usage <= spent
BY DEF JournalInv, JournalTypes, RunIsGood, StateIsGood, JournalStates

LEMMA StartAttemptJournal == JournalInv /\ J!StartAttempt => JournalInv'
<1> SUFFICES ASSUME JournalInv, J!StartAttempt PROVE JournalInv'
  OBVIOUS
<1> DEFINE event == J!Event("start", emitted + 1, 0)
<1>1. J!Emit(event) /\ UNCHANGED <<usage, spent>> /\ running
  BY DEF J!StartAttempt, J!Emit
<1>2. /\ event.kind = "start" /\ event.attempt = emitted + 1
      /\ event.id = emitted + 1 /\ event.sequence = sequence + 1
  BY DEF J!Event
<1>3. event \in JournalEvents
  BY <1>1, OnwardJournal DEF J!Event, JournalEvents
<1>4. emitted + 1 \notin projection.attempts
  BY <1>1, OnwardJournal DEF StateIsGood
<1> HIDE DEF event
<1>5. EventIsGood(event, emitted + 1, usage')
  BY <1>1, <1>2, <1>3, OnwardJournal DEF EventIsGood
<1>6. J!Acceptable(projection, event)
  BY <1>2, <1>4 DEF J!Acceptable
<1> QED
  BY <1>1, <1>2, <1>5, <1>6, OnwardJournal, EmitJournal

LEMMA EndAttemptJournal == JournalInv /\ J!EndAttempt => JournalInv'
<1> SUFFICES ASSUME JournalInv, J!EndAttempt PROVE JournalInv'
  OBVIOUS
<1>0. PICK attempt \in projection.attempts \ projection.ended, tokens \in 0 .. 1 :
        /\ J!Emit(J!Event("end", attempt, tokens))
        /\ usage' = usage + tokens /\ spent' = spent + tokens
  BY DEF J!EndAttempt
<1> DEFINE event == J!Event("end", attempt, tokens)
<1>1. J!Emit(event) /\ running
  BY <1>0 DEF J!Emit
<1>2. /\ event.kind = "end" /\ event.attempt = attempt
      /\ event.id = emitted + 1 /\ event.sequence = sequence + 1
  BY DEF J!Event
<1>3. attempt \in Nat /\ attempt <= emitted
  BY <1>0, <1>1, OnwardJournal DEF StateIsGood, JournalStates
<1>4. event \in JournalEvents
  BY <1>1, <1>3, OnwardJournal DEF J!Event, JournalEvents
<1> HIDE DEF event
<1>5. EventIsGood(event, emitted + 1, usage')
  BY <1>1, <1>2, <1>3, <1>4, OnwardJournal DEF EventIsGood
<1>6. J!Acceptable(projection, event)
  BY <1>0, <1>2 DEF J!Acceptable
<1>7. /\ usage' \in Nat /\ spent' \in Nat /\ usage <= usage' /\ spent <= spent'
      /\ usage' <= spent'
  BY <1>0, <1>1, OnwardJournal
<1> QED
  BY <1>1, <1>2, <1>5, <1>6, <1>7, EmitJournal

LEMMA TakeSnapshotJournal == JournalInv /\ J!TakeSnapshot => JournalInv'
<1> SUFFICES ASSUME JournalInv, J!TakeSnapshot PROVE JournalInv'
  OBVIOUS
<1> DEFINE event == J!Event("snapshot", None, usage)
<1>1. J!Emit(event) /\ UNCHANGED <<usage, spent>> /\ running
  BY DEF J!TakeSnapshot, J!Emit
<1>2. /\ event.kind = "snapshot" /\ event.usage = usage
      /\ event.id = emitted + 1 /\ event.sequence = sequence + 1
  BY DEF J!Event
<1>3. event \in JournalEvents
  BY <1>1, OnwardJournal DEF J!Event, JournalEvents
<1>4. projection.source = "snapshot" => projection.usage <= usage
  BY <1>1, OnwardJournal DEF StateIsGood
<1> HIDE DEF event
<1>5. EventIsGood(event, emitted + 1, usage')
  BY <1>1, <1>2, <1>3, OnwardJournal DEF EventIsGood
<1>6. J!Acceptable(projection, event)
  BY <1>1, <1>2, <1>4, OnwardJournal DEF J!Acceptable, JournalStates
<1> QED
  BY <1>1, <1>2, <1>5, <1>6, OnwardJournal, EmitJournal

LEMMA SaidAgain ==
  ASSUME NEW S, NEW first \in Seq(S), NEW second \in Seq(S), second # <<>>
  PROVE  Append(first, Head(second)) \o Tail(second) = first \o second
<1> DEFINE moved == Append(first, Head(second))
           rest == Tail(second)
<1>1. /\ Head(second) \in S /\ rest \in Seq(S) /\ Len(rest) = Len(second) - 1
      /\ Head(second) = second[1]
      /\ \A n \in 1 .. Len(rest) : rest[n] = second[n + 1]
  BY EmptySeq, HeadTailProperties
<1>2. /\ moved \in Seq(S) /\ Len(moved) = Len(first) + 1
      /\ moved[Len(first) + 1] = second[1]
      /\ \A n \in 1 .. Len(first) : moved[n] = first[n]
  BY <1>1, AppendProperties
<1> HIDE DEF moved, rest
<1>0. PICK a \in Nat, b \in Nat : a = Len(first) /\ b = Len(second) /\ b > 0
  BY EmptySeq
<1>3. /\ moved \o rest \in Seq(S) /\ Len(moved \o rest) = Len(moved) + Len(rest)
      /\ \A n \in 1 .. Len(moved) + Len(rest) : (moved \o rest)[n] =
           IF n <= Len(moved) THEN moved[n] ELSE rest[n - Len(moved)]
  BY <1>1, <1>2, ConcatProperties
<1>4. /\ first \o second \in Seq(S) /\ Len(first \o second) = Len(first) + Len(second)
      /\ \A n \in 1 .. Len(first) + Len(second) : (first \o second)[n] =
           IF n <= Len(first) THEN first[n] ELSE second[n - Len(first)]
  BY ConcatProperties
<1>5. /\ Len(moved) = a + 1 /\ Len(rest) = b - 1 /\ Len(moved) + Len(rest) = a + b
  BY <1>0, <1>1, <1>2
<1>6. ASSUME NEW n \in 1 .. a + b PROVE (moved \o rest)[n] = (first \o second)[n]
  <2>1. CASE n <= a
    <3>1. (moved \o rest)[n] = moved[n]
      BY <1>0, <1>3, <1>5, <2>1
    <3>2. (first \o second)[n] = first[n]
      BY <1>0, <1>4, <2>1
    <3> QED  BY <1>0, <1>2, <2>1, <3>1, <3>2
  <2>2. CASE n = a + 1
    <3>1. (moved \o rest)[n] = moved[a + 1]
      BY <1>0, <1>3, <1>5, <2>2
    <3>2. (first \o second)[n] = second[n - a] /\ n - a = 1
      BY <1>0, <1>4, <2>2
    <3> QED  BY <1>0, <1>2, <3>1, <3>2
  <2>3. CASE n > a + 1
    <3>1. (moved \o rest)[n] = rest[n - (a + 1)]
      BY <1>0, <1>3, <1>5, <2>3
    <3>2. (first \o second)[n] = second[n - a]
      BY <1>0, <1>4, <2>3
    <3>3. n - (a + 1) \in 1 .. Len(rest) /\ (n - (a + 1)) + 1 = n - a
      BY <1>0, <1>5, <2>3
    <3> QED  BY <1>1, <3>1, <3>2, <3>3
  <2>4. n <= a \/ n = a + 1 \/ n > a + 1
    BY <1>0, <1>6
  <2> QED  BY <2>1, <2>2, <2>3, <2>4
<1>7. Len(moved \o rest) = a + b /\ Len(first \o second) = a + b
  BY <1>0, <1>3, <1>4, <1>5
<1>8. moved \o rest = first \o second
  BY <1>3, <1>4, <1>6, <1>7, SeqEqual
<1> QED
  BY <1>8 DEF moved, rest

(* An event leaves the queue. It came into the file, or it did not and the   *)
(* journal has a gap.                                                        *)
LEMMA PersistJournal == JournalInv /\ J!Persist => JournalInv'
<1> SUFFICES ASSUME JournalInv, J!Persist PROVE JournalInv'
  OBVIOUS
<1> USE DEF JournalInv
<1> DEFINE event == Head(queue)
           longer == Append(journal, event)
<1>1. /\ running /\ queue # <<>> /\ queue' = Tail(queue)
      /\ UNCHANGED <<running, sequence, projection, missing, usage, saved,
                     emitted, spent, refused>>
  BY DEF J!Persist, J!history
<1>2. \/ journal' = longer /\ gap' = gap
         /\ (~gap /\ persisted = event.sequence - 1 => persisted' = event.sequence)
      \/ journal' \in {journal, longer} /\ gap' = TRUE
  BY DEF J!Persist
<1>3. /\ journal \in Seq(JournalEvents) /\ queue \in Seq(JournalEvents)
      /\ gap \in BOOLEAN /\ missing \in BOOLEAN /\ emitted \in Nat /\ spent \in Nat
  BY DEF JournalTypes
<1>4. /\ event \in JournalEvents /\ event = queue[1]
      /\ Tail(queue) \in Seq(JournalEvents) /\ Len(Tail(queue)) = Len(queue) - 1
      /\ \A n \in 1 .. Len(Tail(queue)) : Tail(queue)[n] = queue[n + 1]
  BY <1>1, <1>3, HeadTailProperties
<1>5. /\ longer \in Seq(JournalEvents) /\ Len(longer) = Len(journal) + 1
      /\ longer[Len(journal) + 1] = event
      /\ \A n \in 1 .. Len(journal) : longer[n] = journal[n]
  BY <1>3, <1>4, AppendProperties
<1>6. Said = longer \o Tail(queue)
  BY <1>1, <1>3, SaidAgain DEF Said
<1>7. Len(journal) \in Nat /\ Len(queue) \in Nat \ {0}
  BY <1>1, <1>3, EmptySeq
<1> HIDE DEF longer, event
<1>8. /\ 1 .. Len(longer) = 1 .. Len(journal) \cup {Len(journal) + 1}
      /\ 1 \in 1 .. Len(queue)
      /\ \A n \in 1 .. Len(Tail(queue)) : n + 1 \in 1 .. Len(queue) /\ n + 1 # 1
  BY <1>4, <1>5, <1>7
<1>9. journal' \in {journal, longer}
  BY <1>2
<1>10. JournalTypes'
  BY <1>1, <1>2, <1>3, <1>4, <1>5 DEF JournalTypes
<1>11. EventsAreGood'
  <2>1. \A n \in 1 .. Len(queue) : EventIsGood(queue[n], emitted, spent)
    BY DEF EventsAreGood
  <2>2. \A n \in 1 .. Len(Tail(queue)) : EventIsGood(Tail(queue)[n], emitted, spent)
    BY <1>4, <1>8, <2>1
  <2>3. /\ \A n \in 1 .. Len(journal) : EventIsGood(journal[n], emitted, spent)
        /\ EventIsGood(event, emitted, spent)
    BY <1>4, <1>8 DEF EventsAreGood
  <2>4. \A n \in 1 .. Len(longer) : EventIsGood(longer[n], emitted, spent)
    BY <1>5, <1>8, <2>3
  <2>5. \A n \in 1 .. Len(journal') : EventIsGood(journal'[n], emitted, spent)
    BY <1>9, <2>3, <2>4
  <2> QED  BY <1>1, <2>2, <2>5 DEF EventsAreGood
<1>12. OneOfEach'
  <2>1. \A m, n \in 1 .. Len(Tail(queue)) : Tail(queue)[m].id = Tail(queue)[n].id => m = n
    <3> SUFFICES ASSUME NEW m \in 1 .. Len(Tail(queue)), NEW n \in 1 .. Len(Tail(queue)),
                        Tail(queue)[m].id = Tail(queue)[n].id
                 PROVE  m = n
      OBVIOUS
    <3>1. queue[m + 1].id = queue[n + 1].id
      BY <1>4
    <3>2. m + 1 = n + 1
      BY <1>8, <3>1 DEF OneOfEach
    <3> QED  BY <3>2
  <2>2. \A n \in 1 .. Len(Tail(queue)) : Tail(queue)[n].id # event.id
    <3> SUFFICES ASSUME NEW n \in 1 .. Len(Tail(queue)), Tail(queue)[n].id = event.id
                 PROVE  FALSE
      OBVIOUS
    <3>1. queue[n + 1].id = queue[1].id
      BY <1>4
    <3> QED  BY <1>8, <3>1 DEF OneOfEach
  <2>3. \A m \in 1 .. Len(journal) : journal[m].id # event.id
    BY <1>4, <1>8 DEF OneOfEach
  <2>4. \A m \in 1 .. Len(journal), n \in 1 .. Len(Tail(queue)) :
          journal[m].id # Tail(queue)[n].id
    BY <1>4, <1>8 DEF OneOfEach
  <2>5. \A m, n \in 1 .. Len(journal) : journal[m].id = journal[n].id => m = n
    BY DEF OneOfEach
  <2>6. \A m, n \in 1 .. Len(longer) : longer[m].id = longer[n].id => m = n
    BY <1>5, <1>8, <2>3, <2>5
  <2>7. \A m \in 1 .. Len(longer), n \in 1 .. Len(Tail(queue)) :
          longer[m].id # Tail(queue)[n].id
    BY <1>5, <1>8, <2>2, <2>4
  <2>8. \A m, n \in 1 .. Len(journal') : journal'[m].id = journal'[n].id => m = n
    BY <1>9, <2>5, <2>6
  <2>9. \A m \in 1 .. Len(journal'), n \in 1 .. Len(Tail(queue)) :
          journal'[m].id # Tail(queue)[n].id
    BY <1>9, <2>4, <2>7
  <2> QED  BY <1>1, <2>1, <2>8, <2>9 DEF OneOfEach
<1>13. RunIsGood'
  BY <1>1 DEF RunIsGood
<1>14. AllIsWritten'
  <2> SUFFICES ASSUME ~gap', ~missing'
               PROVE  /\ persisted' = Len(journal')
                      /\ sequence' = Len(journal') + Len(queue')
                      /\ \A n \in 1 .. Len(journal') : journal'[n].sequence = n
                      /\ \A n \in 1 .. Len(queue') : queue'[n].sequence = Len(journal') + n
                      /\ J!FoldRun(J!Empty, journal' \o queue') = projection'
    BY DEF AllIsWritten, Said
  <2>1. /\ ~gap /\ ~missing /\ journal' = longer
        /\ persisted = event.sequence - 1 => persisted' = event.sequence
    BY <1>1, <1>2
  <2>2. /\ persisted = Len(journal)
        /\ sequence = Len(journal) + Len(queue)
        /\ \A n \in 1 .. Len(journal) : journal[n].sequence = n
        /\ \A n \in 1 .. Len(queue) : queue[n].sequence = Len(journal) + n
        /\ J!FoldRun(J!Empty, Said) = projection
    BY <1>1, <2>1 DEF AllIsWritten
  <2>3. event.sequence = Len(journal) + 1
    BY <1>4, <1>8, <2>2
  <2>4. persisted' = Len(longer)
    BY <1>5, <1>7, <2>1, <2>2, <2>3
  <2>5. sequence = Len(longer) + Len(Tail(queue))
    BY <1>4, <1>5, <1>7, <2>2
  <2>6. \A n \in 1 .. Len(longer) : longer[n].sequence = n
    BY SMTT(30), <1>5, <1>8, <2>2, <2>3
  <2>7. ASSUME NEW n \in 1 .. Len(Tail(queue))
        PROVE  Tail(queue)[n].sequence = Len(longer) + n
    <3>1. queue[n + 1].sequence = Len(journal) + (n + 1)
      BY <1>8, <2>2
    <3> QED  BY <1>4, <1>5, <1>7, <3>1
  <2> QED  BY <1>1, <1>6, <2>1, <2>2, <2>4, <2>5, <2>6, <2>7
<1>15. MissingForGood'
  <2> SUFFICES ASSUME ~gap', missing
               PROVE  \E hole \in 1 .. sequence :
                        /\ \A n \in 1 .. Len(journal') : journal'[n].sequence # hole
                        /\ \A n \in 1 .. Len(Tail(queue)) : Tail(queue)[n].sequence # hole
    BY <1>1 DEF MissingForGood
  <2>1. ~gap
    BY <1>2
  <2>2. PICK hole \in 1 .. sequence :
          /\ \A n \in 1 .. Len(journal) : journal[n].sequence # hole
          /\ \A n \in 1 .. Len(queue) : queue[n].sequence # hole
    BY <1>1, <2>1 DEF MissingForGood
  <2>3. \A n \in 1 .. Len(Tail(queue)) : Tail(queue)[n].sequence # hole
    BY <1>4, <1>8, <2>2
  <2>4. \A n \in 1 .. Len(longer) : longer[n].sequence # hole
    BY <1>4, <1>5, <1>8, <2>2
  <2>5. \A n \in 1 .. Len(journal') : journal'[n].sequence # hole
    BY <1>9, <2>2, <2>4
  <2> QED  BY <2>3, <2>5
<1>16. CheckpointIsGood'
  <2>1. saved # None => \A n \in 1 .. Len(Tail(queue)) : Tail(queue)[n].sequence > saved.sequence
    BY <1>1, <1>4, <1>8 DEF CheckpointIsGood
  <2> QED  BY <1>1, <2>1 DEF CheckpointIsGood
<1>17. CheckpointIsFolded'
  <2> DEFINE Has(some, n) == \E k \in 1 .. Len(some) : some[k].sequence = n
             s == saved.sequence
  <2> SUFFICES ASSUME saved # None, ~saved.gap, \A n \in 1 .. s : Has(journal', n)
               PROVE  /\ s <= Len(journal')
                      /\ \A n \in 1 .. s : journal'[n].sequence = n
                      /\ \A n \in s + 1 .. Len(journal') : journal'[n].sequence > s
                      /\ J!FoldRun(J!Empty, SubSeq(journal', 1, s)) = saved.projection
    BY <1>1 DEF CheckpointIsFolded, Holds
  <2>1. s \in Nat /\ event.sequence > s
    BY <1>1, <1>4, <1>8 DEF CheckpointIsGood, StateIsGood, JournalStates
  <2>2. \A n \in 1 .. s : Has(longer, n) => Has(journal, n)
    BY SMTT(30), <1>5, <1>8, <2>1
  <2>3. \A n \in 1 .. s : Has(journal, n)
    BY <1>9, <2>2
  <2>4. /\ s <= Len(journal)
        /\ \A n \in 1 .. s : journal[n].sequence = n
        /\ \A n \in s + 1 .. Len(journal) : journal[n].sequence > s
        /\ J!FoldRun(J!Empty, SubSeq(journal, 1, s)) = saved.projection
    BY <2>3 DEF CheckpointIsFolded, Holds
  <2> HIDE DEF s
  <2>5. SubSeq(longer, 1, s) = SubSeq(journal, 1, s)
    <3>1. \A n \in 1 .. s : n \in 1 .. Len(journal)
      BY <1>7, <2>1, <2>4
    <3>2. /\ \A n \in 1 .. s : longer[n] \in JournalEvents
          /\ \A n \in 1 .. s : journal[n] \in JournalEvents
      BY <1>3, <1>5, <3>1
    <3>3. /\ SubSeq(longer, 1, s) \in Seq(JournalEvents)
          /\ SubSeq(journal, 1, s) \in Seq(JournalEvents)
          /\ Len(SubSeq(longer, 1, s)) = s /\ Len(SubSeq(journal, 1, s)) = s
      BY <2>1, <3>2, SubSeqProperties
    <3>4. \A n \in 1 .. s : SubSeq(longer, 1, s)[n] = SubSeq(journal, 1, s)[n]
      BY <1>5, <2>1, <3>1
    <3> QED  BY <3>3, <3>4, SeqEqual
  <2>6. /\ s <= Len(longer)
        /\ \A n \in 1 .. s : longer[n].sequence = n
    BY SMTT(30), <1>5, <1>7, <2>1, <2>4
  <2>7. \A n \in s + 1 .. Len(longer) : longer[n].sequence > s
    <3>1. \A n \in s + 1 .. Len(longer) : n \in s + 1 .. Len(journal) \/ n = Len(journal) + 1
      BY <1>5, <1>7, <2>1
    <3>2. \A n \in s + 1 .. Len(journal) : n \in 1 .. Len(journal)
      BY <1>7, <2>1
    <3> QED  BY <1>5, <2>1, <2>4, <3>1, <3>2
  <2> QED  BY <1>9, <2>4, <2>5, <2>6, <2>7
<1> QED
  BY <1>10, <1>11, <1>12, <1>13, <1>14, <1>15, <1>16, <1>17

(* A line of the journal is lost.                                            *)
Less(events, hit) == SubSeq(events, 1, hit - 1) \o SubSeq(events, hit + 1, Len(events))

LEMMA OneLess ==
  ASSUME NEW S, NEW events \in Seq(S), NEW hit \in 1 .. Len(events)
  PROVE  /\ Less(events, hit) \in Seq(S) /\ Len(Less(events, hit)) = Len(events) - 1
         /\ \A n \in 1 .. Len(Less(events, hit)) :
              Less(events, hit)[n] = events[IF n < hit THEN n ELSE n + 1]
<1> DEFINE less == Less(events, hit)
           before == SubSeq(events, 1, hit - 1)
           after == SubSeq(events, hit + 1, Len(events))
<1>9. Len(events) \in Nat /\ hit \in Nat /\ 1 <= hit /\ hit <= Len(events)
  OBVIOUS
<1>0. PICK a \in Nat, b \in Nat : a = hit - 1 /\ Len(events) = a + (b + 1) /\ hit = a + 1
  <2>1. hit - 1 \in Nat /\ Len(events) - hit \in Nat
    BY <1>9
  <2>2. Len(events) = (hit - 1) + ((Len(events) - hit) + 1) /\ hit = (hit - 1) + 1
    BY <1>9
  <2> QED  BY <2>1, <2>2
<1>1. /\ before \in Seq(S) /\ Len(before) = a /\ \A n \in 1 .. a : before[n] = events[n]
  <2>1. \A n \in 1 .. hit - 1 : events[n] \in S
    OBVIOUS
  <2> QED  BY <1>0, <2>1, SubSeqProperties
<1>2. /\ after \in Seq(S) /\ Len(after) = b
      /\ \A n \in 1 .. b : after[n] = events[n + (a + 1)]
  <2>1. \A n \in hit + 1 .. Len(events) : events[n] \in S
    OBVIOUS
  <2>2. /\ after \in Seq(S)
        /\ Len(after) = IF hit + 1 <= Len(events) THEN Len(events) - (hit + 1) + 1 ELSE 0
        /\ \A n \in 1 .. Len(events) - (hit + 1) + 1 : after[n] = events[hit + 1 + n - 1]
    <3>1. hit + 1 \in Int /\ Len(events) \in Int
      OBVIOUS
    <3> QED  BY <2>1, <3>1, SubSeqProperties
  <2>3. Len(after) = b
    BY <1>0, <2>2
  <2>4. ASSUME NEW n \in 1 .. b PROVE after[n] = events[n + (a + 1)]
    <3>1. PICK l \in Nat : l = Len(events)
      BY <1>9
    <3>2. l - (hit + 1) + 1 = b /\ hit + 1 + n - 1 = n + (a + 1)
      BY <1>0, <1>9, <2>4, <3>1
    <3> QED  BY <2>2, <2>4, <3>1, <3>2
  <2> QED  BY <2>2, <2>3, <2>4
<1>4. less = before \o after
  BY DEF Less
<1> HIDE DEF before, after, less
<1>3. /\ before \o after \in Seq(S) /\ Len(before \o after) = a + b
      /\ \A n \in 1 .. a + b : (before \o after)[n] =
           IF n <= a THEN before[n] ELSE after[n - a]
  <2>1. before \in Seq(S) /\ after \in Seq(S) /\ Len(before) = a /\ Len(after) = b
    BY <1>1, <1>2
  <2>2. /\ before \o after \in Seq(S) /\ Len(before \o after) = Len(before) + Len(after)
        /\ \A n \in 1 .. Len(before) + Len(after) : (before \o after)[n] =
             IF n <= Len(before) THEN before[n] ELSE after[n - Len(before)]
    BY <2>1, ConcatProperties
  <2> QED  BY <2>1, <2>2
<1>5. ASSUME NEW n \in 1 .. a + b PROVE less[n] = events[IF n < hit THEN n ELSE n + 1]
  <2>1. CASE n <= a
    <3>1. n \in 1 .. a /\ n < hit
      BY <1>0, <1>5, <2>1
    <3>2. less[n] = before[n]
      BY <1>3, <1>4, <1>5, <2>1
    <3> QED  BY <1>1, <3>1, <3>2
  <2>2. CASE ~(n <= a)
    <3>1. n - a \in 1 .. b /\ ~(n < hit) /\ (n - a) + (a + 1) = n + 1
      <4>1. a \in Nat /\ b \in Nat /\ n \in 1 .. a + b /\ ~(n <= a) /\ hit = a + 1
        BY <1>0, <1>5, <2>2
      <4> QED  BY <4>1
    <3>2. less[n] = after[n - a]
      BY <1>3, <1>4, <1>5, <2>2
    <3>3. after[n - a] = events[(n - a) + (a + 1)]
      BY <1>2, <3>1
    <3> QED  BY <3>1, <3>2, <3>3
  <2> QED  BY <2>1, <2>2
<1>6. Len(less) = a + b /\ a + b = Len(events) - 1
  BY <1>0, <1>3, <1>4
<1> QED
  BY <1>3, <1>4, <1>5, <1>6 DEF less

LEMMA DamageJournal == JournalInv /\ J!Damage => JournalInv'
<1> SUFFICES ASSUME JournalInv, J!Damage PROVE JournalInv'
  OBVIOUS
<1> USE DEF JournalInv
<1>1. /\ ~running
      /\ UNCHANGED <<running, sequence, projection, queue, gap, missing, usage, saved,
                     emitted, spent, refused>>
  BY DEF J!Damage, J!run, J!history
<1>2. journal \in Seq(JournalEvents) /\ Len(journal) \in Nat /\ DOMAIN journal = 1 .. Len(journal)
  BY DEF JournalTypes
<1>3. PICK hit \in 1 .. Len(journal) :
        journal' = SubSeq(journal, 1, hit - 1) \o SubSeq(journal, hit + 1, Len(journal))
  BY <1>2 DEF J!Damage
<1> DEFINE From(n) == IF n < hit THEN n ELSE n + 1
<1>4. /\ journal' \in Seq(JournalEvents) /\ Len(journal') = Len(journal) - 1
      /\ \A n \in 1 .. Len(journal') : journal'[n] = journal[From(n)]
  <2>1. journal' = Less(journal, hit)
    BY <1>3 DEF Less
  <2> QED  BY <1>2, <2>1, OneLess
<1>5. /\ \A n \in 1 .. Len(journal') : From(n) \in 1 .. Len(journal) /\ From(n) # hit
      /\ \A m, n \in 1 .. Len(journal') : From(m) = From(n) => m = n
      /\ \A n \in 1 .. Len(journal') : n < hit => From(n) = n
      /\ \A n \in 1 .. Len(journal') : From(n) >= n
  BY <1>2, <1>4
<1> HIDE DEF From
<1>6. JournalTypes'
  BY <1>1, <1>4 DEF JournalTypes
<1>7. EventsAreGood'
  BY <1>1, <1>4, <1>5 DEF EventsAreGood
<1>8. OneOfEach'
  <2>1. \A m, n \in 1 .. Len(journal') : journal'[m].id = journal'[n].id => m = n
    BY <1>4, <1>5 DEF OneOfEach
  <2>2. \A m \in 1 .. Len(journal'), n \in 1 .. Len(queue') : journal'[m].id # queue'[n].id
    BY <1>1, <1>4, <1>5 DEF OneOfEach
  <2> QED  BY <1>1, <2>1, <2>2 DEF OneOfEach
<1>9. RunIsGood' /\ AllIsWritten' /\ MissingForGood'
  BY <1>1 DEF RunIsGood, AllIsWritten, MissingForGood
<1>10. CheckpointIsGood'
  BY <1>1 DEF CheckpointIsGood
<1>11. CheckpointIsFolded'
  <2> DEFINE s == saved.sequence
  <2> SUFFICES ASSUME saved # None, ~saved.gap,
                      \A n \in 1 .. s : \E k \in 1 .. Len(journal') : journal'[k].sequence = n
               PROVE  /\ s <= Len(journal')
                      /\ \A n \in 1 .. s : journal'[n].sequence = n
                      /\ \A n \in s + 1 .. Len(journal') : journal'[n].sequence > s
                      /\ J!FoldRun(J!Empty, SubSeq(journal', 1, s)) = saved.projection
    BY <1>1 DEF CheckpointIsFolded, Holds
  <2>1. s \in Nat
    BY DEF CheckpointIsGood, StateIsGood, JournalStates
  <2>2. ASSUME NEW n \in 1 .. s PROVE Holds(n)
    <3>1. PICK k \in 1 .. Len(journal') : journal'[k].sequence = n
      OBVIOUS
    <3>2. From(k) \in 1 .. Len(journal) /\ journal[From(k)].sequence = n
      BY <1>4, <1>5, <3>1
    <3> QED  BY <3>2 DEF Holds
  <2>3. /\ s <= Len(journal)
        /\ \A n \in 1 .. s : journal[n].sequence = n
        /\ \A n \in s + 1 .. Len(journal) : journal[n].sequence > s
        /\ J!FoldRun(J!Empty, SubSeq(journal, 1, s)) = saved.projection
    BY <2>2 DEF CheckpointIsFolded
  <2> HIDE DEF s
  <2>4. hit > s
    <3> SUFFICES ASSUME hit \in 1 .. s PROVE FALSE
      BY <1>2, <2>1
    <3>1. PICK k \in 1 .. Len(journal') : journal'[k].sequence = hit
      BY DEF s
    <3>2. /\ From(k) \in 1 .. Len(journal) /\ From(k) # hit
          /\ journal[From(k)].sequence = hit
      BY <1>4, <1>5, <3>1
    <3>3. CASE From(k) \in 1 .. s
      BY <2>3, <3>2, <3>3
    <3>4. CASE From(k) \in s + 1 .. Len(journal)
      BY <2>1, <2>3, <3>2, <3>4
    <3> QED  BY <1>2, <2>1, <2>3, <3>2, <3>3, <3>4
  <2>5. s <= Len(journal')
    BY <1>2, <1>4, <2>1, <2>3, <2>4
  <2>6. ASSUME NEW n \in 1 .. s PROVE journal'[n] = journal[n]
    <3>1. n \in 1 .. Len(journal') /\ n < hit
      BY <1>2, <1>4, <2>1, <2>4, <2>5, <2>6
    <3> QED  BY <1>4, <1>5, <3>1
  <2>7. SubSeq(journal', 1, s) = SubSeq(journal, 1, s)
    <3>1. \A n \in 1 .. s : journal[n] \in JournalEvents
      BY <1>2, <2>1, <2>3
    <3>2. /\ SubSeq(journal', 1, s) \in Seq(JournalEvents)
          /\ SubSeq(journal, 1, s) \in Seq(JournalEvents)
          /\ Len(SubSeq(journal', 1, s)) = s /\ Len(SubSeq(journal, 1, s)) = s
      BY <2>1, <2>6, <3>1, SubSeqProperties
    <3>3. \A n \in 1 .. s : SubSeq(journal', 1, s)[n] = SubSeq(journal, 1, s)[n]
      BY <2>1, <2>6
    <3> QED  BY <3>2, <3>3, SeqEqual
  <2>8. ASSUME NEW n \in s + 1 .. Len(journal') PROVE journal'[n].sequence > s
    <3>1. n \in 1 .. Len(journal')
      BY <1>4, <2>1, <2>8
    <3>2. From(n) \in s + 1 .. Len(journal) /\ journal'[n] = journal[From(n)]
      BY <1>2, <1>4, <1>5, <2>1, <2>8, <3>1
    <3> QED  BY <2>3, <3>2
  <2>9. \A n \in 1 .. s : journal'[n].sequence = n
    BY <2>3, <2>6
  <2> QED  BY <2>3, <2>5, <2>7, <2>8, <2>9
<1> QED
  BY <1>6, <1>7, <1>8, <1>9, <1>10, <1>11

(* The first number that no line has.                                        *)
LEMMA ContiguousIs ==
  ASSUME JournalInv
  PROVE  /\ J!Contiguous \in 0 .. Len(journal)
         /\ 1 .. J!Contiguous \subseteq J!Physical
         /\ J!Contiguous + 1 \notin J!Physical
<1> DEFINE D == 1 .. Len(journal)
           Until(n) == 1 .. n \subseteq J!Physical /\ n + 1 \notin J!Physical
           Full == {n \in Nat : n <= Len(journal) + 1 => 1 .. n \subseteq J!Physical}
<1>1. /\ Len(journal) \in Nat /\ DOMAIN journal = D
      /\ J!Physical = {journal[i].sequence : i \in D}
  BY DEF JournalInv, JournalTypes, J!Physical
<1>2. IsFiniteSet(J!Physical) /\ Cardinality(J!Physical) <= Len(journal)
  <2>1. IsFiniteSet(D) /\ Cardinality(D) = Len(journal)
    <3>1. PICK size \in Nat : size = Len(journal)
      BY <1>1
    <3>2. 1 \in Int /\ size \in Int
      BY <3>1
    <3>3. IsFiniteSet(1 .. size)
          /\ Cardinality(1 .. size) = IF 1 > size THEN 0 ELSE size - 1 + 1
      BY ONLY ZenonT(40), <3>2, FS_Interval
    <3> QED
      BY <3>1, <3>3
  <2>2. DEFINE f == [i \in D |-> journal[i].sequence]
  <2>3. f \in Surjection(D, J!Physical)
    BY <1>1 DEF Surjection
  <2> QED  BY <2>1, <2>3, FS_Surjection
<1>3. ASSUME ~ \E n \in 0 .. Len(journal) : Until(n) PROVE FALSE
  <2>1. 0 \in Full
    OBVIOUS
  <2>2. ASSUME NEW n \in Nat, n \in Full PROVE n + 1 \in Full
    <3> SUFFICES ASSUME n + 1 <= Len(journal) + 1 PROVE 1 .. n + 1 \subseteq J!Physical
      OBVIOUS
    <3>1. 1 .. n \subseteq J!Physical /\ n \in 0 .. Len(journal)
      BY <1>1, <2>2
    <3>2. n + 1 \in J!Physical
      BY <1>3, <3>1
    <3>3. 1 .. n + 1 = 1 .. n \cup {n + 1}
      OBVIOUS
    <3> QED  BY <3>1, <3>2, <3>3
  <2>3. 1 .. Len(journal) + 1 \subseteq J!Physical
    <3> HIDE DEF Full
    <3>1. Len(journal) + 1 \in Full
      BY <1>1, <2>1, <2>2, SetInduction
    <3> QED  BY <1>1, <3>1 DEF Full
  <2>4. Cardinality(1 .. Len(journal) + 1) = Len(journal) + 1
    BY <1>1, FS_Interval
  <2>5. Cardinality(1 .. Len(journal) + 1) <= Cardinality(J!Physical)
    BY <1>2, <2>3, FS_Subset
  <2>6. Cardinality(J!Physical) \in Nat
    BY <1>2, FS_CardinalityType
  <2> QED  BY <1>1, <1>2, <2>4, <2>5, <2>6
<1>4. PICK n \in 0 .. Len(journal) : Until(n)
  BY <1>3
<1> QED
  BY <1>4 DEF J!Contiguous

LEMMA ResumeJournal == JournalInv /\ J!Resume => JournalInv'
<1> SUFFICES ASSUME JournalInv, J!Resume PROVE JournalInv'
  OBVIOUS
<1> USE DEF JournalInv
<1> DEFINE reconciled == J!FoldRun(saved.projection, journal)
           w == reconciled.watermark
           c == J!Contiguous
<1>1. /\ ~running /\ saved # None /\ UNCHANGED <<journal, saved, emitted, spent, queue>>
      /\ \/ /\ reconciled = J!Rejected
            /\ refused' = refused \cup {"journal"}
            /\ UNCHANGED <<running, sequence, projection, persisted, gap, missing, usage>>
         \/ /\ reconciled # J!Rejected
            /\ running' = TRUE /\ projection' = reconciled /\ sequence' = w
            /\ persisted' = c /\ missing' = (c # w) /\ gap' = saved.gap
            /\ usage' = J!LargerUsage(reconciled) /\ refused' = refused
  BY DEF J!Resume, J!run, J!disk
<1>2. /\ journal \in Seq(JournalEvents) /\ Len(journal) \in Nat /\ queue = <<>>
      /\ emitted \in Nat /\ spent \in Nat
      /\ \A n \in 1 .. Len(journal) : EventIsGood(journal[n], emitted, spent)
  BY <1>1 DEF JournalTypes, EventsAreGood
<1>3. /\ StateIsGood(saved.projection, emitted, spent)
      /\ saved.sequence = saved.projection.watermark /\ saved.sequence \in Nat
      /\ saved.usage \in Nat /\ saved.usage <= spent /\ saved.gap \in BOOLEAN
  BY <1>1 DEF CheckpointIsGood, StateIsGood, JournalStates
<1> HIDE DEF reconciled, c
<1>4. CASE reconciled = J!Rejected
  <2>1. /\ refused' = refused \cup {"journal"}
        /\ UNCHANGED <<running, sequence, projection, persisted, gap, missing, usage>>
    BY <1>1, <1>4
  <2>2. JournalTypes'
    BY <1>1, <2>1 DEF JournalTypes
  <2>3. EventsAreGood' /\ OneOfEach'
    BY <1>1 DEF EventsAreGood, OneOfEach
  <2>4. RunIsGood' /\ AllIsWritten' /\ MissingForGood'
    BY <1>1, <2>1 DEF RunIsGood, AllIsWritten, MissingForGood
  <2>5. CheckpointIsGood' /\ CheckpointIsFolded'
    BY <1>1, <2>1 DEF CheckpointIsGood, CheckpointIsFolded, Holds
  <2> QED  BY <2>2, <2>3, <2>4, <2>5
<1>5. CASE reconciled # J!Rejected
  <2>1. /\ running' /\ running' = TRUE /\ projection' = reconciled /\ sequence' = w
        /\ persisted' = c /\ missing' = (c # w) /\ gap' = saved.gap
        /\ usage' = J!LargerUsage(reconciled) /\ refused' = refused
    BY <1>1, <1>5
  <2>2. /\ StateIsGood(reconciled, emitted, spent) /\ saved.sequence <= w
        /\ \A n \in 1 .. Len(journal) : journal[n].sequence <= w
    <3>1. PICK f : FoldsTo(saved.projection, journal, f) /\ reconciled = f[Len(journal)]
      BY <1>2, Folded DEF reconciled
    <3>2. /\ \A n \in 0 .. Len(journal) : StateIsGood(f[n], emitted, spent)
          /\ \A n \in 0 .. Len(journal) : saved.projection.watermark <= f[n].watermark
          /\ \A n \in 1 .. Len(journal) : journal[n].sequence <= f[Len(journal)].watermark
      BY <1>2, <1>3, <1>5, <3>1, FoldedAll
    <3>3. Len(journal) \in 0 .. Len(journal)
      BY <1>2
    <3> QED  BY <1>3, <3>1, <3>2, <3>3
  <2>3. w \in Nat /\ reconciled.usage \in Nat
    BY <2>2 DEF StateIsGood, JournalStates
  <2>4. /\ usage' \in Nat /\ usage' <= spent
        /\ reconciled.source = "snapshot" => reconciled.usage <= usage'
    BY <1>3, <2>1, <2>2, <2>3 DEF J!LargerUsage, StateIsGood
  <2>5. c \in 0 .. Len(journal) /\ 1 .. c \subseteq J!Physical /\ c + 1 \notin J!Physical
    BY ContiguousIs DEF c
  <2>6. J!Physical = {journal[i].sequence : i \in 1 .. Len(journal)}
    BY <1>2 DEF J!Physical
  <2>7. JournalTypes'
    BY <1>1, <1>2, <1>3, <2>1 DEF JournalTypes
  <2>8. EventsAreGood' /\ OneOfEach'
    BY <1>1 DEF EventsAreGood, OneOfEach
  <2>9. RunIsGood'
    <3>1. StateIsGood(reconciled, emitted, usage')
      BY <2>2, <2>4 DEF StateIsGood
    <3> QED  BY <1>1, <2>1, <2>4, <3>1 DEF RunIsGood
  <2>10. AllIsWritten'
    <3> SUFFICES ASSUME ~saved.gap, c = w
                 PROVE  /\ c = Len(journal)
                        /\ w = Len(journal) + Len(queue)
                        /\ \A n \in 1 .. Len(journal) : journal[n].sequence = n
                        /\ \A n \in 1 .. Len(queue) : queue[n].sequence = Len(journal) + n
                        /\ J!FoldRun(J!Empty, journal \o queue) = reconciled
      BY <1>1, <2>1 DEF AllIsWritten, Said
    <3>1. ASSUME NEW n \in 1 .. saved.sequence PROVE Holds(n)
      <4>1. n \in 1 .. c
        BY <1>3, <2>2, <2>3, <3>1
      <4> QED  BY <2>5, <2>6, <4>1 DEF Holds
    <3>2. /\ saved.sequence <= Len(journal)
          /\ \A n \in 1 .. saved.sequence : journal[n].sequence = n
          /\ \A n \in saved.sequence + 1 .. Len(journal) : journal[n].sequence > saved.sequence
          /\ J!FoldRun(J!Empty, SubSeq(journal, 1, saved.sequence)) = saved.projection
      BY <1>1, <3>1 DEF CheckpointIsFolded
    <3>3. \A m, n \in 1 .. Len(journal) : journal[m].id = journal[n].id => m = n
      BY DEF OneOfEach
    <3>4. /\ J!FoldRun(J!Empty, journal) = reconciled /\ w = Len(journal)
          /\ \A n \in 1 .. Len(journal) : journal[n].sequence = n
      <4>1. PICK state, s : state = saved.projection /\ s = saved.sequence
        OBVIOUS
      <4>5. /\ StateIsGood(state, emitted, spent) /\ s = state.watermark
            /\ s <= Len(journal) /\ J!FoldRun(J!Empty, SubSeq(journal, 1, s)) = state
            /\ \A n \in 1 .. s : journal[n].sequence = n
            /\ \A n \in s + 1 .. Len(journal) : journal[n].sequence > s
        BY <1>3, <3>2, <4>1
      <4>2. /\ StateIsGood(state, emitted, spent) /\ state.watermark <= Len(journal)
            /\ J!FoldRun(J!Empty, SubSeq(journal, 1, state.watermark)) = state
            /\ \A n \in 1 .. state.watermark : journal[n].sequence = n
            /\ \A n \in state.watermark + 1 .. Len(journal) :
                 journal[n].sequence > state.watermark
        BY <4>5
      <4>3. reconciled = J!FoldRun(state, journal)
        BY <4>1 DEF reconciled
      <4>4. /\ J!FoldRun(J!Empty, journal) = J!FoldRun(state, journal)
            /\ J!FoldRun(state, journal).watermark = Len(journal)
            /\ \A n \in 1 .. Len(journal) : journal[n].sequence = n
        BY SMTT(30), <1>2, <1>5, <3>3, <4>2, <4>3, FoldedFromTheFirst
      <4> QED  BY <4>3, <4>4
    <3>5. journal \o queue = journal /\ Len(queue) = 0
      BY <1>2, ConcatEmptySeq
    <3> QED  BY <1>2, <3>4, <3>5
  <2>11. MissingForGood'
    <3> SUFFICES ASSUME c # w
                 PROVE  \E hole \in 1 .. w :
                          \A n \in 1 .. Len(journal) : journal[n].sequence # hole
      <4>1. \A n \in 1 .. Len(queue') : FALSE
        BY <1>1, <1>2
      <4> QED  BY <1>1, <2>1, <4>1 DEF MissingForGood
    <3>1. c <= w
      <4> SUFFICES ASSUME c > w PROVE FALSE
        BY <1>2, <2>3, <2>5
      <4>1. c \in 1 .. c
        BY <1>2, <2>3, <2>5
      <4>2. PICK n \in 1 .. Len(journal) : journal[n].sequence = c
        BY <2>5, <2>6, <4>1
      <4> QED  BY <2>2, <2>3, <2>5, <4>2
    <3>2. c + 1 \in 1 .. w
      BY <1>2, <2>3, <2>5, <3>1
    <3> QED  BY <2>5, <2>6, <3>2
  <2>12. CheckpointIsGood'
    BY <1>1, <1>2, <1>3, <2>1, <2>2 DEF CheckpointIsGood
  <2>13. CheckpointIsFolded'
    BY <1>1 DEF CheckpointIsFolded, Holds
  <2> QED  BY <2>7, <2>8, <2>9, <2>10, <2>11, <2>12, <2>13
<1> QED
  BY <1>4, <1>5

LEMMA JournalNext == JournalInv /\ J!Next => JournalInv'
BY StartAttemptJournal, EndAttemptJournal, TakeSnapshotJournal, PersistJournal,
   SaveCheckpointJournal, DieJournal, DamageJournal, ResumeJournal
DEF J!Next

LEMMA RebuiltIsTheRun == JournalInv => JournalIsTheRun
<1> SUFFICES ASSUME JournalInv PROVE JournalIsTheRun
  OBVIOUS
<1> USE DEF JournalInv
<1>1. J!CompleteIsRebuildable
  <2> SUFFICES ASSUME running, ~gap, ~missing, persisted = sequence
               PROVE  /\ [i \in DOMAIN journal |-> journal[i].sequence] = [i \in 1 .. sequence |-> i]
                      /\ J!FoldRun(J!Empty, journal) = projection
    BY DEF J!CompleteIsRebuildable, J!JournalComplete
  <2>1. /\ persisted = Len(journal) /\ sequence = Len(journal) + Len(queue)
        /\ \A n \in 1 .. Len(journal) : journal[n].sequence = n
        /\ J!FoldRun(J!Empty, Said) = projection
    BY DEF AllIsWritten
  <2>2. /\ journal \in Seq(JournalEvents) /\ queue \in Seq(JournalEvents)
        /\ Len(journal) \in Nat /\ Len(queue) \in Nat /\ DOMAIN journal = 1 .. Len(journal)
    BY DEF JournalTypes
  <2>3. Len(queue) = 0 /\ sequence = Len(journal)
    <3>1. PICK a \in Nat, b \in Nat : a = Len(journal) /\ b = Len(queue)
      BY <2>2
    <3>2. sequence = a /\ sequence = a + b
      BY <2>1, <3>1
    <3>3. b = 0
      BY <3>1, <3>2
    <3> QED  BY <3>1, <3>2, <3>3
  <2>4. queue = <<>>
    BY <2>2, <2>3, EmptySeq
  <2>5. Said = journal
    BY <2>2, <2>4, ConcatEmptySeq DEF Said
  <2> QED  BY <2>1, <2>2, <2>3, <2>5
<1>2. J!UsageCountedOnce
  BY DEF J!UsageCountedOnce, RunIsGood, JournalTypes
<1> QED
  BY <1>1, <1>2 DEF JournalIsTheRun

(* A journal that is said to be complete gives back the run, and no token is *)
(* counted twice, for any number of events, of processes that die and of     *)
(* lines that are lost.                                                      *)
THEOREM JournalCorrect == SessionSpec => []JournalIsTheRun
<1>1. JournalInv /\ [SessionNext]_<<part, vars, filesVars, outcomeVars, journalVars,
                      outputsVars, conversationsVars, memoryVars>> => JournalInv'
  BY JournalUnchanged, JournalNext DEF SessionNext
<1> QED  BY JournalInit, RebuiltIsTheRun, <1>1, PTL DEF SessionSpec

-----------------------------------------------------------------------------
(* The memory of a project. The times of the items of a kind fall from the   *)
(* newest to the oldest, over every change; so what is cut off at the end is *)
(* older than what stays, and no two items have one identity.                *)

LEMMA LeastOf ==
  ASSUME NEW N \in SUBSET Nat, N # {}
  PROVE  \E n \in N : \A m \in N : n <= m
<1>1. PICK n \in N : \A m \in N : ~(<<m, n>> \in OpToRel(<, Nat))
  BY WFMin, NatLessThanWellFounded
<1>2. \A m \in N : ~(m < n)
  BY <1>1 DEF OpToRel
<1> QED
  BY <1>2

(* What is taken are the items at these places, each of them and in order.   *)
Taken(items, places, n, some, from) ==
  /\ from \in [1 .. Len(some) -> 1 .. n]
  /\ \A k \in 1 .. Len(some) : from[k] \in places /\ some[k] = items[from[k]]
  /\ \A k, l \in 1 .. Len(some) : k < l => from[k] < from[l]
  /\ \A i \in 1 .. n : i \in places => \E k \in 1 .. Len(some) : from[k] = i

LEMMA TakenOne ==
  ASSUME NEW S, NEW items \in Seq(S), NEW places, NEW n \in Nat, n + 1 <= Len(items),
         NEW some \in Seq(S), NEW from, Taken(items, places, n, some, from)
  PROVE  LET more == IF n + 1 \in places THEN Append(some, items[n + 1]) ELSE some
         IN  more \in Seq(S) /\ \E to : Taken(items, places, n + 1, more, to)
<1>1. PICK l : l = Len(some)
  OBVIOUS
<1>2. l \in Nat /\ items[n + 1] \in S
  BY <1>1
<1>3. /\ from \in [1 .. l -> 1 .. n]
      /\ \A k \in 1 .. l : from[k] \in places /\ some[k] = items[from[k]]
      /\ \A j, k \in 1 .. l : j < k => from[j] < from[k]
      /\ \A i \in 1 .. n : i \in places => \E k \in 1 .. l : from[k] = i
  BY <1>1 DEF Taken
<1>4. CASE n + 1 \notin places
  <2>1. Taken(items, places, n + 1, some, from)
    <3>1. from \in [1 .. l -> 1 .. n + 1]
      <4>1. \A k \in 1 .. l : from[k] \in 1 .. n + 1
        BY <1>3
      <4> QED
        BY <1>3, <4>1
    <3>2. \A i \in 1 .. n + 1 : i \in places => \E k \in 1 .. l : from[k] = i
      BY <1>3, <1>4
    <3> QED
      BY <1>1, <1>3, <3>1, <3>2 DEF Taken
  <2> QED
    BY <1>4, <2>1
<1>5. CASE n + 1 \in places
  <2>1. PICK more : more = Append(some, items[n + 1])
    OBVIOUS
  <2>2. /\ more \in Seq(S) /\ Len(more) = l + 1 /\ more[l + 1] = items[n + 1]
        /\ \A k \in 1 .. l : more[k] = some[k]
    BY <1>1, <1>2, <2>1, AppendProperties
  <2>3. PICK to : to = [k \in 1 .. l + 1 |-> IF k = l + 1 THEN n + 1 ELSE from[k]]
    OBVIOUS
  <2>4. to[l + 1] = n + 1 /\ \A k \in 1 .. l : to[k] = from[k] /\ from[k] \in 1 .. n
    BY <1>2, <1>3, <2>3
  <2>5. to \in [1 .. l + 1 -> 1 .. n + 1]
    <3>1. \A k \in 1 .. l + 1 : to[k] \in 1 .. n + 1
      BY <1>2, <2>4
    <3> QED
      BY <2>3, <3>1
  <2>6. ASSUME NEW k \in 1 .. l + 1 PROVE to[k] \in places /\ more[k] = items[to[k]]
    <3>1. CASE k = l + 1
      BY <1>5, <2>2, <2>4, <3>1
    <3>2. CASE k # l + 1
      <4>1. k \in 1 .. l
        BY <1>2, <3>2
      <4> QED
        BY <1>3, <2>2, <2>4, <4>1
    <3> QED
      BY <3>1, <3>2
  <2>7. ASSUME NEW j \in 1 .. l + 1, NEW k \in 1 .. l + 1, j < k PROVE to[j] < to[k]
    <3>1. j \in 1 .. l
      BY <1>2, <2>7
    <3>2. CASE k = l + 1
      BY <2>4, <3>1, <3>2
    <3>3. CASE k # l + 1
      <4>1. k \in 1 .. l
        BY <1>2, <3>3
      <4> QED
        BY <1>3, <2>4, <2>7, <3>1, <4>1
    <3> QED
      BY <3>2, <3>3
  <2>8. ASSUME NEW i \in 1 .. n + 1, i \in places PROVE \E k \in 1 .. l + 1 : to[k] = i
    <3>1. CASE i = n + 1
      BY <1>2, <2>4, <3>1
    <3>2. CASE i # n + 1
      <4>1. i \in 1 .. n
        BY <3>2
      <4>2. PICK k \in 1 .. l : from[k] = i
        BY <1>3, <2>8, <4>1
      <4>3. k \in 1 .. l + 1 /\ to[k] = i
        BY <1>2, <2>4, <4>2
      <4> QED
        BY <4>3
    <3> QED
      BY <3>1, <3>2
  <2>9. Taken(items, places, n + 1, more, to)
    BY <2>2, <2>5, <2>6, <2>7, <2>8 DEF Taken
  <2> QED
    BY <1>5, <2>1, <2>2, <2>9
<1> QED
  BY <1>4, <1>5

LEMMA ItemsTaken ==
  ASSUME NEW S, NEW items \in Seq(S), NEW places
  PROVE  /\ M!ItemsAt(items, places) \in Seq(S)
         /\ \E from : Taken(items, places, Len(items), M!ItemsAt(items, places), from)
<1> DEFINE Step(some, n) == IF n \in places THEN Append(some, items[n]) ELSE some
           Chain(f, k) ==
             /\ f = [n \in 0 .. k |-> f[n]] /\ f[0] = <<>>
             /\ \A n \in 1 .. k : f[n] = Step(f[n - 1], n)
           Reached == {k \in Nat : \E f : Chain(f, k)}
<1>0. Len(items) \in Nat
  OBVIOUS
<1>1. 0 \in Reached
  <2>1. Chain([n \in 0 .. 0 |-> <<>>], 0)
    OBVIOUS
  <2> QED  BY <2>1
<1>2. ASSUME NEW k \in Nat, k \in Reached PROVE k + 1 \in Reached
  <2>1. PICK f : Chain(f, k)
    BY <1>2
  <2> DEFINE g == [n \in 0 .. k + 1 |-> IF n = k + 1 THEN Step(f[k], k + 1) ELSE f[n]]
  <2> HIDE DEF Step
  <2>2. g[0] = <<>>
    BY <2>1
  <2>3. ASSUME NEW n \in 1 .. k + 1 PROVE g[n] = Step(g[n - 1], n)
    <3>1. CASE n = k + 1
      BY <3>1
    <3>2. CASE n # k + 1
      <4>1. n \in 1 .. k /\ g[n] = f[n] /\ g[n - 1] = f[n - 1]
        BY <3>2
      <4> QED  BY <2>1, <4>1
    <3> QED  BY <3>1, <3>2
  <2>4. g = [n \in 0 .. k + 1 |-> g[n]]
    OBVIOUS
  <2>5. Chain(g, k + 1)
    BY <2>2, <2>3, <2>4
  <2> HIDE DEF g, Chain
  <2> QED  BY <2>5
<1>3. Len(items) \in Reached
  <2> HIDE DEF Reached
  <2>1. Nat \subseteq Reached
    BY <1>1, <1>2, SetInduction
  <2> QED  BY <1>0, <2>1
<1>4. PICK f : Chain(f, Len(items))
  BY <1>3
<1> DEFINE Rec(g) == g = [n \in 0 .. Len(items) |->
                            IF n = 0 THEN <<>>
                            ELSE IF n \in places THEN Append(g[n - 1], items[n]) ELSE g[n - 1]]
           picked == CHOOSE g : Rec(g)
<1>5. Rec(f)
  <2>1. ASSUME NEW n \in 0 .. Len(items)
        PROVE  f[n] = IF n = 0 THEN <<>>
                      ELSE IF n \in places THEN Append(f[n - 1], items[n]) ELSE f[n - 1]
    BY <1>4, <2>1
  <2> QED  BY <1>4, <2>1
<1>6. Rec(picked)
  BY <1>5
<1>7. M!ItemsAt(items, places) = picked[Len(items)]
  BY DEF M!ItemsAt
<1>8. picked[0] = <<>> /\ \A n \in 1 .. Len(items) : picked[n] = Step(picked[n - 1], n)
  <2> HIDE DEF picked
  <2>1. picked[0] = <<>>
    BY <1>0, <1>6
  <2>2. ASSUME NEW n \in 1 .. Len(items) PROVE picked[n] = Step(picked[n - 1], n)
    <3>1. n \in 0 .. Len(items) /\ n # 0
      BY <1>0
    <3> QED  BY <1>6, <3>1
  <2> QED  BY <2>1, <2>2
<1> HIDE DEF picked, Rec, Chain, Reached
<1> DEFINE Good == {n \in Nat : n <= Len(items) =>
                       picked[n] \in Seq(S) /\ \E from : Taken(items, places, n, picked[n], from)}
<1>9. 0 \in Good
  <2>1. PICK some : some = <<>>
    OBVIOUS
  <2>2. some \in Seq(S) /\ Len(some) = 0
    BY <2>1
  <2>3. Taken(items, places, 0, some, <<>>)
    BY <2>1, <2>2 DEF Taken
  <2>4. picked[0] \in Seq(S) /\ Taken(items, places, 0, picked[0], <<>>)
    BY <1>8, <2>1, <2>2, <2>3
  <2>5. \E from : Taken(items, places, 0, picked[0], from)
    BY <2>4
  <2> QED  BY <2>4, <2>5
<1>10. ASSUME NEW n \in Nat, n \in Good PROVE n + 1 \in Good
  <2> SUFFICES ASSUME n + 1 <= Len(items)
               PROVE  /\ picked[n + 1] \in Seq(S)
                      /\ \E from : Taken(items, places, n + 1, picked[n + 1], from)
    OBVIOUS
  <2>1. n + 1 \in 1 .. Len(items) /\ (n + 1) - 1 = n /\ n <= Len(items)
    BY <1>0
  <2>2. picked[n] \in Seq(S)
    BY <1>10, <2>1
  <2>3. PICK from : Taken(items, places, n, picked[n], from)
    BY <1>10, <2>1
  <2>4. picked[n + 1] = IF n + 1 \in places THEN Append(picked[n], items[n + 1]) ELSE picked[n]
    BY <1>8, <2>1
  <2> HIDE DEF Good
  <2> QED  BY <2>2, <2>3, <2>4, TakenOne
<1>11. Len(items) \in Good
  <2> HIDE DEF Good
  <2>1. Nat \subseteq Good
    BY <1>9, <1>10, SetInduction
  <2> QED  BY <1>0, <2>1
<1> QED
  BY <1>0, <1>7, <1>11

(* The items of a kind as they are read, before some time.                   *)
MemoryIds(kind) == {kind} \X Nat \X Texts
Listed(kind, items, before) ==
  /\ \A n \in 1 .. Len(items) :
       items[n].id \in MemoryIds(kind) /\ items[n].id[2] < before
  /\ \A m, n \in 1 .. Len(items) : m < n => items[n].id[2] < items[m].id[2]

MemoryItems == [id : {<<>>} \cup (Kinds \X Nat \X Texts), text : Texts, until : Nat]

LEMMA ListedStays ==
  ASSUME NEW kind \in Kinds, NEW items \in Seq(MemoryItems), NEW before \in Nat,
         Listed(kind, items, before), NEW places, NEW some, NEW from, Len(some) \in Nat,
         Taken(items, places, Len(items), some, from)
  PROVE  Listed(kind, some, before)
<1>1. /\ from \in [1 .. Len(some) -> 1 .. Len(items)]
      /\ \A k \in 1 .. Len(some) : some[k] = items[from[k]]
      /\ \A k, l \in 1 .. Len(some) : k < l => from[k] < from[l]
  BY DEF Taken
<1>2. ASSUME NEW n \in 1 .. Len(some)
      PROVE  some[n].id \in MemoryIds(kind) /\ some[n].id[2] < before
  BY <1>1 DEF Listed
<1>3. ASSUME NEW m \in 1 .. Len(some), NEW n \in 1 .. Len(some), m < n
      PROVE  some[n].id[2] < some[m].id[2]
  <2>1. from[m] \in 1 .. Len(items) /\ from[n] \in 1 .. Len(items) /\ from[m] < from[n]
    BY <1>1, <1>3
  <2> QED  BY <1>1, <2>1 DEF Listed
<1> QED  BY <1>2, <1>3 DEF Listed

(* The first of them are listed too.                                         *)
FirstOf(kind, items, before, limit, first) ==
  /\ first \in Seq(MemoryItems) /\ Len(first) \in Nat /\ Listed(kind, first, before)
  /\ Len(first) = IF limit < Len(items) THEN limit ELSE Len(items)
  /\ \A n \in 1 .. Len(first) : first[n] = items[n]

LEMMA ListedFirst ==
  ASSUME NEW kind, NEW items \in Seq(MemoryItems), NEW before, Listed(kind, items, before),
         NEW limit \in Nat
  PROVE  FirstOf(kind, items, before, limit, M!Limited(items, limit))
<1>1. PICK l : l = Len(items)
  OBVIOUS
<1>2. PICK c \in Nat : c = (IF limit < l THEN limit ELSE l) /\ c <= l /\ l \in Nat
  BY <1>1
<1>3. M!Min({limit, l}) = c
  <2>1. \A x \in {limit, l} : c <= x
    BY <1>2
  <2>2. c \in {limit, l}
    BY <1>2
  <2>3. \A x \in {limit, l} : (\A y \in {limit, l} : x <= y) => x = c
    BY <1>2, <2>1, <2>2
  <2> QED  BY <2>1, <2>2, <2>3 DEF M!Min
<1>4. PICK some : some = SubSeq(items, 1, c)
  OBVIOUS
<1>5. some = M!Limited(items, limit)
  BY <1>1, <1>3, <1>4 DEF M!Limited, M!Min
<1>6. some \in Seq(MemoryItems) /\ Len(some) = c /\ \A n \in 1 .. c : some[n] = items[n]
  BY <1>1, <1>2, <1>4
<1>7. Listed(kind, some, before)
  BY <1>1, <1>2, <1>6 DEF Listed
<1>8. FirstOf(kind, items, before, limit, some)
  BY <1>1, <1>2, <1>6, <1>7 DEF FirstOf
<1> QED  BY <1>5, <1>8

(* What was said stays said, once, not later than it stood.                  *)
LEMMA OnceEach ==
  ASSUME NEW items \in Seq(MemoryItems), NEW i \in 1 .. Len(items), NEW from,
         Taken(items, {n \in DOMAIN items : \A m \in 1 .. n - 1 : items[m].text # items[n].text},
               Len(items), M!Deduped(items), from)
  PROVE  \E k \in 1 .. Len(M!Deduped(items)) :
           from[k] <= i /\ M!Deduped(items)[k] = items[from[k]] /\ from[k] \in 1 .. Len(items)
           /\ items[from[k]].text = items[i].text
<1> DEFINE Same == {n \in 1 .. Len(items) : items[n].text = items[i].text}
           places == {n \in DOMAIN items : \A m \in 1 .. n - 1 : items[m].text # items[n].text}
<1>1. PICK n \in Same : \A m \in Same : n <= m
  <2>1. Same \in SUBSET Nat /\ i \in Same
    OBVIOUS
  <2> HIDE DEF Same
  <2> QED  BY <2>1, LeastOf
<1>2. n <= i /\ n \in 1 .. Len(items) /\ items[n].text = items[i].text
  BY <1>1
<1>3. ASSUME NEW m \in 1 .. n - 1 PROVE items[m].text # items[n].text
  <2>1. m \in 1 .. Len(items) /\ ~(n <= m)
    BY <1>2
  <2>2. m \notin Same
    BY <1>1, <2>1
  <2> QED  BY <1>2, <2>1, <2>2
<1>4. n \in places
  BY <1>2, <1>3
<1>5. PICK k \in 1 .. Len(M!Deduped(items)) : from[k] = n
  BY <1>2, <1>4 DEF Taken
<1>6. M!Deduped(items)[k] = items[from[k]]
  BY <1>5 DEF Taken
<1> QED  BY <1>2, <1>5, <1>6

MemoryTypes ==
  /\ time \in Nat /\ DOMAIN document = Kinds
  /\ \A kind \in Kinds : document[kind] \in Seq(MemoryItems)
  /\ ended \subseteq [kind : Kinds, text : Texts, at : Nat]
NewestFirst == \A kind \in Kinds : Listed(kind, M!Loaded(kind), time)
MemoryInv == MemoryTypes /\ NewestFirst

LEMMA NotEmpty ==
  ASSUME NEW kind, NEW id \in MemoryIds(kind)
  PROVE  id # <<>>
<1>1. PICK at \in Nat, text \in Texts : id = <<kind, at, text>>
  BY DEF MemoryIds
<1>2. Len(<<kind, at, text>>) = 3 /\ Len(<<>>) = 0
  OBVIOUS
<1> QED  BY <1>1, <1>2

LEMMA LoadedIs ==
  ASSUME MemoryTypes, NEW kind \in Kinds
  PROVE  /\ M!Loaded(kind) \in Seq(MemoryItems) /\ Len(M!Loaded(kind)) = Len(document[kind])
         /\ DOMAIN document[kind] = 1 .. Len(document[kind]) /\ Len(document[kind]) \in Nat
         /\ DOMAIN M!Loaded(kind) = 1 .. Len(document[kind])
         /\ \A i \in 1 .. Len(document[kind]) :
              M!Loaded(kind)[i] = [document[kind][i] EXCEPT
                                     !.id = M!Identified(kind, document[kind][i])]
         /\ \A i \in 1 .. Len(document[kind]) :
              document[kind][i].id # <<>> => M!Loaded(kind)[i] = document[kind][i]
<1>1. PICK d : d = document[kind]
  OBVIOUS
<1>2. d \in Seq(MemoryItems) /\ Len(d) \in Nat /\ DOMAIN d = 1 .. Len(d)
  BY <1>1 DEF MemoryTypes
<1>3. PICK loaded : loaded = M!Loaded(kind)
  OBVIOUS
<1>4. loaded = [i \in 1 .. Len(d) |-> [d[i] EXCEPT !.id = M!Identified(kind, d[i])]]
  BY <1>1, <1>2, <1>3 DEF M!Loaded
<1>5. ASSUME NEW i \in 1 .. Len(d) PROVE d[i] \in MemoryItems /\ loaded[i] \in MemoryItems
  <2>1. d[i] \in MemoryItems
    BY <1>2
  <2>2. M!Identified(kind, d[i]) \in {<<>>} \cup (Kinds \X Nat \X Texts)
    BY <2>1 DEF MemoryItems, M!Identified, M!Id, M!Before, M!NoId
  <2> QED  BY <1>4, <2>1, <2>2 DEF MemoryItems
<1>6. loaded \in Seq(MemoryItems) /\ Len(loaded) = Len(d) /\ DOMAIN loaded = 1 .. Len(d)
  BY <1>2, <1>4, <1>5
<1>7. ASSUME NEW i \in 1 .. Len(d), d[i].id # <<>> PROVE loaded[i] = d[i]
  BY <1>4, <1>5, <1>7 DEF M!Identified, M!NoId, MemoryItems
<1>8. \A i \in 1 .. Len(d) : loaded[i] = [d[i] EXCEPT !.id = M!Identified(kind, d[i])]
  BY <1>4
<1> QED  BY <1>1, <1>2, <1>3, <1>6, <1>7, <1>8

(* A document that is written is of the present version.                     *)
LEMMA Rewritten ==
  ASSUME NEW new, DOMAIN new = Kinds, document' = new, time' \in Nat,
         \A kind \in Kinds : new[kind] \in Seq(MemoryItems) /\ Listed(kind, new[kind], time'),
         ended' \subseteq [kind : Kinds, text : Texts, at : Nat]
  PROVE  MemoryInv' /\ \A kind \in Kinds : M!Loaded(kind)' = new[kind]
<1>1. MemoryTypes'
  BY DEF MemoryTypes
<1>2. ASSUME NEW kind \in Kinds PROVE M!Loaded(kind)' = new[kind]
  <2>1. PICK d : d = new[kind]
    OBVIOUS
  <2>2. d \in Seq(MemoryItems) /\ DOMAIN d = 1 .. Len(d) /\ Listed(kind, d, time')
    BY <2>1
  <2>3. ASSUME NEW i \in DOMAIN d
        PROVE  [d[i] EXCEPT !.id = M!Identified(kind, d[i])] = d[i]
    <3>1. d[i] \in MemoryItems /\ d[i].id \in MemoryIds(kind)
      BY <2>2 DEF Listed
    <3>2. d[i].id # <<>>
      BY <3>1, NotEmpty
    <3> QED  BY <3>1, <3>2 DEF M!Identified, M!NoId, MemoryItems
  <2>4. M!Loaded(kind)' = [i \in DOMAIN d |-> [d[i] EXCEPT !.id = M!Identified(kind, d[i])]]
    BY <2>1 DEF M!Loaded, M!Identified, M!Id
  <2> QED  BY <2>1, <2>2, <2>3, <2>4
<1> QED  BY <1>1, <1>2 DEF MemoryInv, NewestFirst

LEMMA MemoryBegins ==
  ASSUME M!Init
  PROVE  MemoryInv
<1> USE MemoryAssumption
<1>1. time = 1 /\ ended = {} /\ DOMAIN document = Kinds
  BY DEF M!Init
<1>2. ASSUME NEW kind \in Kinds
      PROVE  /\ document[kind] \in Seq(MemoryItems) /\ Len(document[kind]) \in 0 .. 1
             /\ \A i \in 1 .. Len(document[kind]) : document[kind][i].id = <<>>
  <2>1. document[kind] \in M!Older
    BY DEF M!Init
  <2>2. PICK n \in 0 .. 1 :
          document[kind] \in [1 .. n -> {[id |-> M!NoId, text |-> text, until |-> M!Never] : text \in Texts}]
    BY <2>1 DEF M!Older
  <2>3. PICK d : d = document[kind]
    OBVIOUS
  <2>4. \A i \in 1 .. n : d[i] \in MemoryItems /\ d[i].id = <<>>
    BY <2>2, <2>3 DEF MemoryItems, M!NoId, M!Never
  <2>5. d = [i \in 1 .. n |-> d[i]]
    BY <2>2, <2>3
  <2>6. d \in Seq(MemoryItems) /\ Len(d) = n
    BY <2>4, <2>5
  <2> QED  BY <2>3, <2>4, <2>6
<1>3. MemoryTypes
  BY <1>1, <1>2 DEF MemoryTypes
<1>4. ASSUME NEW kind \in Kinds PROVE Listed(kind, M!Loaded(kind), time)
  <2>1. PICK l : l = M!Loaded(kind)
    OBVIOUS
  <2>2. Len(l) \in 0 .. 1
    BY <1>2, <1>3, <2>1, LoadedIs
  <2>3. ASSUME NEW i \in 1 .. Len(l)
        PROVE  l[i].id \in MemoryIds(kind) /\ l[i].id[2] < time
    <3>1. /\ i \in 1 .. Len(document[kind])
          /\ l[i] = [document[kind][i] EXCEPT !.id = M!Identified(kind, document[kind][i])]
      BY <1>3, <2>1, <2>3, LoadedIs
    <3>2. document[kind][i] \in MemoryItems /\ document[kind][i].id = <<>>
      BY <1>2, <3>1
    <3>3. l[i].id = <<kind, 0, document[kind][i].text>> /\ document[kind][i].text \in Texts
      BY <3>1, <3>2 DEF MemoryItems, M!Identified, M!NoId, M!Id, M!Before
    <3> QED  BY <1>1, <3>3 DEF MemoryIds
  <2> QED  BY <2>1, <2>2, <2>3 DEF Listed
<1> QED  BY <1>3, <1>4 DEF MemoryInv, NewestFirst

(* Time goes by, a task ends.                                                *)
LEMMA SameDocument ==
  ASSUME MemoryInv, document' = document, time' \in Nat, time <= time',
         ended' \subseteq [kind : Kinds, text : Texts, at : Nat]
  PROVE  MemoryInv' /\ \A kind \in Kinds : M!Loaded(kind)' = M!Loaded(kind)
<1>1. MemoryTypes'
  BY DEF MemoryInv, MemoryTypes
<1>2. ASSUME NEW kind \in Kinds PROVE M!Loaded(kind)' = M!Loaded(kind)
  BY DEF M!Loaded, M!Identified, M!Id, M!Before
<1>3. ASSUME NEW kind \in Kinds PROVE Listed(kind, M!Loaded(kind)', time')
  <2>1. PICK l : l = M!Loaded(kind)
    OBVIOUS
  <2>2. Listed(kind, l, time) /\ Len(l) \in Nat /\ time \in Nat
    BY <2>1, LoadedIs DEF MemoryInv, NewestFirst, MemoryTypes
  <2>3. \A n \in 1 .. Len(l) : l[n].id[2] \in Nat
    BY <2>2 DEF Listed, MemoryIds
  <2>4. Listed(kind, l, time')
    BY <2>2, <2>3 DEF Listed
  <2> QED  BY <1>2, <2>1, <2>4
<1> QED  BY <1>1, <1>2, <1>3 DEF MemoryInv, NewestFirst

(* What a step may do to an item under its identity.                         *)
ItemStays(kind, i) ==
  LET item == M!Loaded(kind)[i]
      after == M!Loaded(kind)'
  IN  \/ \E j \in DOMAIN after : after[j].id = item.id
      \/ M!Delete(item.id)
      \/ M!Prune /\ M!Expired(item)
      \/ /\ \E entry \in ended : M!Record(entry)
         /\ \/ \E j \in DOMAIN after : after[j].text = item.text
            \/ Len(after) = MaxItems /\ \A j \in DOMAIN after : after[j].id[2] >= item.id[2]
ItemsStay == \A kind \in Kinds : \A i \in DOMAIN document[kind] : ItemStays(kind, i)

LEMMA MemoryIdle ==
  ASSUME MemoryInv, M!Wait \/ (\E kind \in Kinds, text \in Texts : M!End(kind, text))
                      \/ UNCHANGED memoryVars
  PROVE  MemoryInv' /\ ItemsStay
<1>1. document' = document /\ time' \in Nat /\ time <= time'
      /\ ended' \subseteq [kind : Kinds, text : Texts, at : Nat]
  BY DEF M!Wait, M!End, memoryVars, MemoryInv, MemoryTypes
<1>2. MemoryInv' /\ \A kind \in Kinds : M!Loaded(kind)' = M!Loaded(kind)
  BY <1>1, SameDocument
<1>3. ASSUME NEW kind \in Kinds, NEW i \in DOMAIN document[kind] PROVE ItemStays(kind, i)
  <2>1. i \in DOMAIN M!Loaded(kind)
    BY LoadedIs DEF MemoryInv
  <2> QED  BY <1>2, <2>1 DEF ItemStays
<1> QED  BY <1>2, <1>3 DEF ItemsStay

(* Some of the items are taken, as they are.                                 *)
LEMMA Thinned ==
  ASSUME MemoryInv, NEW places, DOMAIN places = Kinds, time' = time + 1, ended' = ended,
         document' = [kind \in Kinds |-> M!ItemsAt(M!Loaded(kind), places[kind])]
  PROVE  /\ MemoryInv'
         /\ \A kind \in Kinds : \A i \in DOMAIN document[kind] : i \in places[kind] =>
              \E j \in DOMAIN M!Loaded(kind)' : M!Loaded(kind)'[j] = M!Loaded(kind)[i]
<1> DEFINE new == [kind \in Kinds |-> M!ItemsAt(M!Loaded(kind), places[kind])]
<1>0. MemoryTypes /\ time \in Nat
  BY DEF MemoryInv, MemoryTypes
<1>1. ASSUME NEW kind \in Kinds
      PROVE  /\ new[kind] \in Seq(MemoryItems) /\ Listed(kind, new[kind], time + 1)
             /\ \A i \in DOMAIN document[kind] : i \in places[kind] =>
                  \E j \in DOMAIN new[kind] : new[kind][j] = M!Loaded(kind)[i]
  <2>1. PICK items, some : items = M!Loaded(kind) /\ some = new[kind]
    OBVIOUS
  <2>2. /\ items \in Seq(MemoryItems) /\ Len(items) \in Nat
        /\ DOMAIN document[kind] = 1 .. Len(items)
    BY <1>0, <2>1, LoadedIs
  <2>3. some = M!ItemsAt(items, places[kind])
    BY <2>1
  <2>4. some \in Seq(MemoryItems)
    BY <2>2, <2>3, ItemsTaken
  <2>5. PICK from : Taken(items, places[kind], Len(items), some, from)
    BY <2>2, <2>3, ItemsTaken
  <2>6. Listed(kind, items, time)
    BY <2>1 DEF MemoryInv, NewestFirst
  <2>7. Len(some) \in Nat /\ DOMAIN some = 1 .. Len(some)
    BY <2>4
  <2>8. Listed(kind, some, time)
    BY <1>0, <2>2, <2>5, <2>6, <2>7, ListedStays
  <2>9. Listed(kind, some, time + 1)
    <3>1. \A n \in 1 .. Len(some) : some[n].id[2] \in Nat
      BY <2>8 DEF Listed, MemoryIds
    <3> QED  BY <1>0, <2>8, <3>1 DEF Listed
  <2>10. ASSUME NEW i \in 1 .. Len(items), i \in places[kind]
         PROVE  \E j \in 1 .. Len(some) : some[j] = items[i]
    <3>1. PICK j \in 1 .. Len(some) : from[j] = i
      BY <2>5, <2>10 DEF Taken
    <3>2. some[j] = items[i]
      BY <2>5, <3>1 DEF Taken
    <3> QED  BY <3>2
  <2> HIDE DEF new
  <2> QED  BY <2>1, <2>2, <2>4, <2>7, <2>9, <2>10
<1>2. DOMAIN new = Kinds /\ document' = new
  OBVIOUS
<1> HIDE DEF new
<1>3. time' \in Nat /\ ended' \subseteq [kind : Kinds, text : Texts, at : Nat]
  BY <1>0 DEF MemoryTypes
<1>4. MemoryInv' /\ \A kind \in Kinds : M!Loaded(kind)' = new[kind]
  BY <1>0, <1>1, <1>2, <1>3, Rewritten
<1> QED  BY <1>1, <1>4

LEMMA MemoryDelete ==
  ASSUME MemoryInv, NEW id, M!Delete(id)
  PROVE  MemoryInv' /\ ItemsStay
<1>1. PICK places : places = [kind \in Kinds |->
                                {i \in DOMAIN document[kind] : M!Loaded(kind)[i].id # id}]
  OBVIOUS
<1>2. /\ time' = time + 1 /\ ended' = ended /\ DOMAIN places = Kinds
      /\ document' = [kind \in Kinds |-> M!ItemsAt(M!Loaded(kind), places[kind])]
  BY <1>1 DEF M!Delete, M!Changed
<1>3. /\ MemoryInv'
      /\ \A kind \in Kinds : \A i \in DOMAIN document[kind] : i \in places[kind] =>
           \E j \in DOMAIN M!Loaded(kind)' : M!Loaded(kind)'[j] = M!Loaded(kind)[i]
  BY <1>2, Thinned
<1>4. ASSUME NEW kind \in Kinds, NEW i \in DOMAIN document[kind] PROVE ItemStays(kind, i)
  <2>1. CASE M!Loaded(kind)[i].id = id
    BY <2>1 DEF ItemStays
  <2>2. CASE M!Loaded(kind)[i].id # id
    <3>1. i \in places[kind]
      BY <1>1, <2>2
    <3>2. PICK j \in DOMAIN M!Loaded(kind)' : M!Loaded(kind)'[j] = M!Loaded(kind)[i]
      BY <1>3, <3>1
    <3> QED  BY <3>2 DEF ItemStays
  <2> QED  BY <2>1, <2>2
<1> QED  BY <1>3, <1>4 DEF ItemsStay

LEMMA MemoryPrune ==
  ASSUME MemoryInv, M!Prune
  PROVE  MemoryInv' /\ ItemsStay
<1>1. PICK places : places = [kind \in Kinds |->
                                {i \in DOMAIN M!Loaded(kind) : ~M!Expired(M!Loaded(kind)[i])}]
  OBVIOUS
<1>2. /\ time' = time + 1 /\ ended' = ended /\ DOMAIN places = Kinds
      /\ document' = [kind \in Kinds |-> M!ItemsAt(M!Loaded(kind), places[kind])]
  BY <1>1 DEF M!Prune, M!Changed, M!Unexpired
<1>3. /\ MemoryInv'
      /\ \A kind \in Kinds : \A i \in DOMAIN document[kind] : i \in places[kind] =>
           \E j \in DOMAIN M!Loaded(kind)' : M!Loaded(kind)'[j] = M!Loaded(kind)[i]
  BY <1>2, Thinned
<1>4. ASSUME NEW kind \in Kinds, NEW i \in DOMAIN document[kind] PROVE ItemStays(kind, i)
  <2>1. CASE M!Expired(M!Loaded(kind)[i])
    BY <2>1 DEF ItemStays
  <2>2. CASE ~M!Expired(M!Loaded(kind)[i])
    <3>1. i \in places[kind]
      BY <1>1, <2>2, LoadedIs DEF MemoryInv
    <3>2. PICK j \in DOMAIN M!Loaded(kind)' : M!Loaded(kind)'[j] = M!Loaded(kind)[i]
      BY <1>3, <3>1
    <3> QED  BY <3>2 DEF ItemStays
  <2> QED  BY <2>1, <2>2
<1> QED  BY <1>3, <1>4 DEF ItemsStay

LEMMA MemoryEdit ==
  ASSUME MemoryInv, NEW id, NEW text \in Texts, NEW until \in Nat, M!Edit(id, text, until)
  PROVE  MemoryInv' /\ ItemsStay
<1> DEFINE edited(kind) == [i \in DOMAIN document[kind] |->
                              IF M!Loaded(kind)[i].id = id
                              THEN [id |-> id, text |-> text, until |-> until]
                              ELSE M!Loaded(kind)[i]]
           new == [kind \in Kinds |-> edited(kind)]
<1>0. MemoryTypes /\ time \in Nat
  BY DEF MemoryInv, MemoryTypes
<1>1. /\ document' = new /\ DOMAIN new = Kinds /\ time' = time + 1 /\ time' \in Nat
      /\ ended' \subseteq [kind : Kinds, text : Texts, at : Nat]
  BY <1>0 DEF M!Edit, M!Changed, MemoryTypes
<1>2. ASSUME NEW kind \in Kinds
      PROVE  /\ new[kind] \in Seq(MemoryItems) /\ Listed(kind, new[kind], time + 1)
             /\ \A i \in DOMAIN document[kind] :
                  i \in DOMAIN new[kind] /\ new[kind][i].id = M!Loaded(kind)[i].id
  <2>1. PICK items, some, n : /\ items = M!Loaded(kind) /\ some = new[kind]
                              /\ n = Len(document[kind])
    OBVIOUS
  <2>2. /\ items \in Seq(MemoryItems) /\ Len(items) = n /\ n \in Nat
        /\ DOMAIN document[kind] = 1 .. n /\ Listed(kind, items, time)
    BY <1>0, <2>1, LoadedIs DEF MemoryInv, NewestFirst
  <2>3. some = [i \in 1 .. n |-> IF items[i].id = id
                                 THEN [id |-> id, text |-> text, until |-> until] ELSE items[i]]
    BY <2>1, <2>2
  <2>4. \A i \in 1 .. n : items[i] \in MemoryItems
    BY <2>2
  <2>5. \A i \in 1 .. n : some[i] \in MemoryItems /\ some[i].id = items[i].id
    BY <2>3, <2>4 DEF MemoryItems
  <2>6. some \in Seq(MemoryItems) /\ Len(some) = n /\ DOMAIN some = 1 .. n
    BY <2>2, <2>3, <2>5
  <2>7. \A i \in 1 .. n : items[i].id \in MemoryIds(kind) /\ items[i].id[2] < time
                           /\ items[i].id[2] \in Nat
    BY <2>2 DEF Listed, MemoryIds
  <2>8. Listed(kind, some, time + 1)
    <3>1. \A i \in 1 .. n : some[i].id \in MemoryIds(kind) /\ some[i].id[2] < time + 1
      BY <1>0, <2>5, <2>7
    <3>2. \A i, j \in 1 .. n : i < j => items[j].id[2] < items[i].id[2]
      BY <2>2 DEF Listed
    <3>3. \A i, j \in 1 .. n : i < j => some[j].id[2] < some[i].id[2]
      BY <2>5, <3>2
    <3> QED  BY <2>6, <3>1, <3>3 DEF Listed
  <2> HIDE DEF new
  <2> QED  BY <2>1, <2>2, <2>5, <2>6, <2>8
<1> HIDE DEF new
<1>3. MemoryInv' /\ \A kind \in Kinds : M!Loaded(kind)' = new[kind]
  BY <1>1, <1>2, Rewritten
<1>4. ASSUME NEW kind \in Kinds, NEW i \in DOMAIN document[kind] PROVE ItemStays(kind, i)
  BY <1>2, <1>3 DEF ItemStays
<1> QED  BY <1>3, <1>4 DEF ItemsStay

(* A new item is put in front; what said the same goes, and what is too much *)
(* at the end.                                                               *)
Fronted(kind, all) ==
  /\ all \in Seq(MemoryItems) /\ Listed(kind, all, time + 1)
  /\ \A i \in DOMAIN document[kind] : \E j \in 1 .. Len(all) : all[j] = M!Loaded(kind)[i]

LEMMA InFront ==
  ASSUME MemoryInv, NEW kind \in Kinds, NEW text \in Texts, NEW front,
         front \in {<<>>, <<M!Item(kind, time, text)>>}
  PROVE  Fronted(kind, front \o M!Loaded(kind))
<1> USE MemoryAssumption DEF Fronted
<1>1. PICK items, n : items = M!Loaded(kind) /\ n = Len(items)
  OBVIOUS
<1>2. /\ items \in Seq(MemoryItems) /\ n \in Nat /\ DOMAIN document[kind] = 1 .. n
      /\ Listed(kind, items, time) /\ time \in Nat
  BY <1>1, LoadedIs DEF MemoryInv, NewestFirst, MemoryTypes
<1>3. \A i \in 1 .. n : items[i].id \in MemoryIds(kind) /\ items[i].id[2] < time
                         /\ items[i].id[2] \in Nat
  BY <1>1, <1>2 DEF Listed, MemoryIds
<1>4. CASE front = <<>>
  <2>1. front \o items = items
    BY <1>2, <1>4, ConcatEmptySeq
  <2>2. Listed(kind, items, time + 1)
    BY <1>1, <1>2, <1>3 DEF Listed
  <2> QED  BY <1>1, <1>2, <2>1, <2>2
<1>5. CASE front # <<>>
  <2>1. PICK item, all : item = M!Item(kind, time, text) /\ all = front \o items
    OBVIOUS
  <2>2. front = <<item>>
    BY <1>5, <2>1
  <2>3. item \in MemoryItems /\ item.id = <<kind, time, text>>
    BY <1>2, <2>1 DEF M!Item, M!Id, M!Never, MemoryItems
  <2>4. front \in Seq(MemoryItems) /\ Len(front) = 1 /\ front[1] = item
    BY <2>2, <2>3
  <2>5. /\ all \in Seq(MemoryItems) /\ Len(all) = n + 1 /\ all[1] = item
        /\ \A i \in 1 .. n : i + 1 \in 1 .. Len(all) /\ all[i + 1] = items[i]
    <3>1. /\ front \o items \in Seq(MemoryItems)
          /\ Len(front \o items) = Len(front) + Len(items)
          /\ \A i \in 1 .. Len(front) + Len(items) : (front \o items)[i] =
               IF i <= Len(front) THEN front[i] ELSE items[i - Len(front)]
      <4>1. front \in Seq(MemoryItems) /\ items \in Seq(MemoryItems)
        BY <1>2, <2>4
      <4> QED  BY <4>1, ConcatProperties
    <3>2. \A i \in 1 .. n + 1 : all[i] = IF i <= 1 THEN front[i] ELSE items[i - 1]
      BY <1>1, <1>2, <2>1, <2>4, <3>1
    <3>3. all[1] = item
      <4>1. 1 \in 1 .. n + 1
        BY <1>2
      <4>2. all[1] = front[1]
        BY <3>2, <4>1
      <4> QED  BY <2>4, <4>2
    <3>4. ASSUME NEW i \in 1 .. n PROVE i + 1 \in 1 .. n + 1 /\ all[i + 1] = items[i]
      <4>1. i + 1 \in 1 .. n + 1 /\ ~(i + 1 <= 1) /\ (i + 1) - 1 = i
        BY <1>2
      <4> QED  BY <3>2, <4>1
    <3> QED  BY <1>1, <1>2, <2>1, <2>4, <3>1, <3>3, <3>4
  <2>6. all[1].id \in MemoryIds(kind) /\ all[1].id[2] = time
    <3>1. all[1].id = <<kind, time, text>>
      BY <2>3, <2>5
    <3> QED  BY <1>2, <3>1 DEF MemoryIds
  <2>7. \A i \in 2 .. n + 1 : i - 1 \in 1 .. n /\ all[i] = items[i - 1]
    <3>1. ASSUME NEW i \in 2 .. n + 1 PROVE i - 1 \in 1 .. n /\ (i - 1) + 1 = i
      BY <1>2
    <3> QED  BY <2>5, <3>1
  <2>8. \A i \in 1 .. Len(all) : all[i].id \in MemoryIds(kind) /\ all[i].id[2] < time + 1
    <3>1. ASSUME NEW i \in 1 .. Len(all) PROVE i = 1 \/ i \in 2 .. n + 1
      BY <1>2, <2>5
    <3>2. all[1].id[2] < time + 1
      BY <1>2, <2>6
    <3>3. ASSUME NEW i \in 2 .. n + 1
          PROVE  all[i].id \in MemoryIds(kind) /\ all[i].id[2] < time + 1
      <4>1. i - 1 \in 1 .. n /\ all[i] = items[i - 1]
        BY <2>7
      <4>2. items[i - 1].id \in MemoryIds(kind) /\ items[i - 1].id[2] < time
            /\ items[i - 1].id[2] \in Nat
        BY <1>3, <4>1
      <4> QED  BY SMTT(30), <1>2, <4>1, <4>2
    <3> QED  BY <2>6, <3>1, <3>2, <3>3
  <2>9. ASSUME NEW i \in 1 .. Len(all), NEW j \in 1 .. Len(all), i < j
        PROVE  all[j].id[2] < all[i].id[2]
    <3>1. j \in 2 .. n + 1 /\ j - 1 \in 1 .. n /\ all[j] = items[j - 1]
      <4>1. j \in 2 .. n + 1
        BY <1>2, <2>5, <2>9
      <4> QED  BY <2>7, <4>1
    <3>2. CASE i = 1
      BY <1>3, <2>6, <3>1, <3>2
    <3>3. CASE i # 1
      <4>1. i \in 2 .. n + 1 /\ i - 1 < j - 1
        BY <1>2, <2>5, <2>9, <3>3
      <4>2. all[i] = items[i - 1] /\ i - 1 \in 1 .. n
        BY <2>7, <4>1
      <4> QED  BY <1>1, <1>2, <3>1, <4>1, <4>2 DEF Listed
    <3> QED  BY <3>2, <3>3
  <2>10. Listed(kind, all, time + 1)
    BY <2>8, <2>9 DEF Listed
  <2> QED  BY <1>1, <1>2, <2>1, <2>5, <2>10
<1> QED  BY <1>4, <1>5

LEMMA RecordedInOne ==
  ASSUME NEW kind \in Kinds, NEW before \in Nat, NEW all \in Seq(MemoryItems),
         Listed(kind, all, before), NEW new, new = M!Limited(M!Deduped(all), MaxItems)
  PROVE  /\ new \in Seq(MemoryItems) /\ Listed(kind, new, before)
         /\ \A i \in 1 .. Len(all) :
              \/ \E j \in DOMAIN new : new[j].text = all[i].text
              \/ Len(new) = MaxItems /\ \A j \in DOMAIN new : new[j].id[2] >= all[i].id[2]
<1> DEFINE places == {n \in DOMAIN all : \A m \in 1 .. n - 1 : all[m].text # all[n].text}
<1>0. MaxItems \in Nat
  BY MemoryAssumption
<1>1. PICK once : once = M!Deduped(all)
  OBVIOUS
<1>2. once = M!ItemsAt(all, places)
  BY <1>1 DEF M!Deduped
<1>3. once \in Seq(MemoryItems) /\ Len(once) \in Nat
  BY <1>2, ItemsTaken
<1>4. PICK from : Taken(all, places, Len(all), once, from)
  BY <1>2, ItemsTaken
<1>5. Listed(kind, once, before)
  BY <1>3, <1>4, ListedStays
<1>6. /\ new \in Seq(MemoryItems) /\ Listed(kind, new, before) /\ Len(new) \in Nat
      /\ Len(new) = IF MaxItems < Len(once) THEN MaxItems ELSE Len(once)
      /\ \A n \in 1 .. Len(new) : new[n] = once[n]
  <2>1. new = M!Limited(once, MaxItems)
    BY <1>1
  <2>2. FirstOf(kind, once, before, MaxItems, M!Limited(once, MaxItems))
    BY <1>0, <1>3, <1>5, ListedFirst
  <2>3. FirstOf(kind, once, before, MaxItems, new)
    BY <2>1, <2>2
  <2> QED  BY <2>3 DEF FirstOf
<1>7. DOMAIN new = 1 .. Len(new)
  BY <1>6
<1>8. ASSUME NEW i \in 1 .. Len(all)
      PROVE  \/ \E j \in DOMAIN new : new[j].text = all[i].text
             \/ Len(new) = MaxItems /\ \A j \in DOMAIN new : new[j].id[2] >= all[i].id[2]
  <2>1. PICK k \in 1 .. Len(once) :
          /\ from[k] <= i /\ once[k] = all[from[k]] /\ from[k] \in 1 .. Len(all)
          /\ all[from[k]].text = all[i].text
    BY <1>1, <1>4, OnceEach
  <2>2. CASE k <= Len(new)
    <3>1. k \in DOMAIN new /\ new[k].text = all[i].text
      BY <1>6, <1>7, <2>1, <2>2
    <3> QED  BY <3>1
  <2>3. CASE ~(k <= Len(new))
    <3>1. Len(new) = MaxItems
      BY <1>0, <1>3, <1>6, <2>1, <2>3
    <3>2. ASSUME NEW j \in 1 .. Len(new) PROVE new[j].id[2] >= all[i].id[2]
      <4>1. j < k /\ j \in 1 .. Len(once) /\ new[j] = once[j]
        BY <1>3, <1>6, <2>1, <2>3
      <4>2. once[k].id[2] < once[j].id[2]
        BY <1>5, <4>1 DEF Listed
      <4>3. once[j].id[2] \in Nat /\ all[i].id[2] \in Nat /\ all[from[k]].id[2] \in Nat
        BY <1>5, <2>1, <4>1 DEF Listed, MemoryIds
      <4>4. all[i].id[2] <= all[from[k]].id[2]
        <5>1. CASE from[k] = i
          BY <4>3, <5>1
        <5>2. CASE from[k] # i
          <6>1. PICK f : f = from[k]
            OBVIOUS
          <6>2. f \in 1 .. Len(all) /\ f <= i /\ f # i
            BY <2>1, <5>2, <6>1
          <6>3. f < i
            BY <6>2
          <6>4. all[i].id[2] < all[f].id[2]
            BY <6>2, <6>3 DEF Listed
          <6> QED  BY SMTT(30), <4>3, <6>1, <6>4
        <5> QED  BY <5>1, <5>2
      <4>5. once[k].id[2] = all[from[k]].id[2]
        BY <2>1
      <4>6. all[i].id[2] <= once[j].id[2]
        BY SMTT(30), <4>2, <4>3, <4>4, <4>5
      <4> QED  BY <4>1, <4>3, <4>6
    <3> QED  BY <1>7, <3>1, <3>2
  <2> QED  BY <2>2, <2>3
<1> QED  BY <1>6, <1>8

LEMMA MemoryRecord ==
  ASSUME MemoryInv, NEW entry, M!Record(entry)
  PROVE  MemoryInv' /\ ItemsStay
<1> DEFINE front(kind) == IF kind = entry.kind
                          THEN <<M!Item(entry.kind, M!TimeOf(entry), entry.text)>> ELSE <<>>
           new == [kind \in Kinds |->
                     M!Limited(M!Deduped(front(kind) \o M!Loaded(kind)), MaxItems)]
<1>0. /\ MemoryTypes /\ time \in Nat /\ time + 1 \in Nat
      /\ entry \in ended /\ entry.text \in Texts /\ entry.kind \in Kinds
  BY DEF MemoryInv, MemoryTypes, M!Record
<1>1. /\ document' = new /\ DOMAIN new = Kinds /\ time' = time + 1 /\ time' \in Nat
      /\ ended' \subseteq [kind : Kinds, text : Texts, at : Nat]
  BY <1>0 DEF M!Record, M!Changed, MemoryTypes
<1>2. ASSUME NEW kind \in Kinds
      PROVE  /\ new[kind] \in Seq(MemoryItems) /\ Listed(kind, new[kind], time + 1)
             /\ \A i \in DOMAIN document[kind] :
                  \/ \E j \in DOMAIN new[kind] : new[kind][j].text = M!Loaded(kind)[i].text
                  \/ /\ Len(new[kind]) = MaxItems
                     /\ \A j \in DOMAIN new[kind] : new[kind][j].id[2] >= M!Loaded(kind)[i].id[2]
  <2>1. PICK first, all, some : /\ first = front(kind) /\ all = first \o M!Loaded(kind)
                                /\ some = new[kind]
    OBVIOUS
  <2>2. first \in {<<>>, <<M!Item(kind, time, entry.text)>>}
    BY <2>1 DEF M!TimeOf
  <2>3. /\ all \in Seq(MemoryItems) /\ Listed(kind, all, time + 1)
        /\ \A i \in DOMAIN document[kind] : \E j \in 1 .. Len(all) : all[j] = M!Loaded(kind)[i]
    <3>1. Fronted(kind, first \o M!Loaded(kind))
      BY <1>0, <2>2, InFront DEF MemoryInv
    <3>2. Fronted(kind, all)
      BY <2>1, <3>1
    <3> QED  BY <3>2 DEF Fronted
  <2>4. some = M!Limited(M!Deduped(all), MaxItems)
    BY <2>1
  <2>5. /\ some \in Seq(MemoryItems) /\ Listed(kind, some, time + 1)
        /\ \A i \in 1 .. Len(all) :
             \/ \E j \in DOMAIN some : some[j].text = all[i].text
             \/ Len(some) = MaxItems /\ \A j \in DOMAIN some : some[j].id[2] >= all[i].id[2]
    BY SMTT(30), <1>0, <2>3, <2>4, RecordedInOne
  <2>6. ASSUME NEW i \in DOMAIN document[kind]
        PROVE  \/ \E j \in DOMAIN some : some[j].text = M!Loaded(kind)[i].text
               \/ /\ Len(some) = MaxItems
                  /\ \A j \in DOMAIN some : some[j].id[2] >= M!Loaded(kind)[i].id[2]
    <3>1. PICK k \in 1 .. Len(all) : all[k] = M!Loaded(kind)[i]
      BY <2>3
    <3> QED  BY <2>5, <3>1
  <2> HIDE DEF new
  <2> QED  BY <2>1, <2>5, <2>6
<1> HIDE DEF new
<1>3. MemoryInv' /\ \A kind \in Kinds : M!Loaded(kind)' = new[kind]
  BY <1>1, <1>2, Rewritten
<1>4. ASSUME NEW kind \in Kinds, NEW i \in DOMAIN document[kind] PROVE ItemStays(kind, i)
  BY <1>0, <1>2, <1>3 DEF ItemStays
<1> QED  BY <1>3, <1>4 DEF ItemsStay

(* Every item has its own identity, and a task is told the newest that hold. *)
LEMMA OneEach ==
  ASSUME MemoryInv
  PROVE  M!OneItemPerId
<1> SUFFICES ASSUME NEW k \in Kinds, NEW l \in Kinds, NEW i \in DOMAIN document[k],
                    NEW j \in DOMAIN document[l], M!Loaded(k)[i].id = M!Loaded(l)[j].id
             PROVE  k = l /\ i = j
  BY DEF M!OneItemPerId
<1>1. \A kind \in Kinds : /\ Listed(kind, M!Loaded(kind), time)
                          /\ DOMAIN document[kind] = 1 .. Len(M!Loaded(kind))
                          /\ Len(M!Loaded(kind)) \in Nat
  BY LoadedIs DEF MemoryInv, NewestFirst
<1>2. M!Loaded(k)[i].id \in MemoryIds(k) /\ M!Loaded(l)[j].id \in MemoryIds(l)
  BY <1>1 DEF Listed
<1>3. k = l
  BY <1>2 DEF MemoryIds
<1>4. PICK items, n : items = M!Loaded(k) /\ n = Len(items)
  OBVIOUS
<1>5. /\ i \in 1 .. n /\ j \in 1 .. n /\ n \in Nat /\ items[i].id = items[j].id
      /\ \A a, b \in 1 .. n : a < b => items[b].id[2] < items[a].id[2]
  BY <1>1, <1>3, <1>4 DEF Listed
<1>6. items[i].id[2] \in Nat
  BY <1>2, <1>4 DEF MemoryIds
<1>7. ~(i < j) /\ ~(j < i)
  <2>1. i < j => items[j].id[2] < items[i].id[2]
    BY <1>5
  <2>2. j < i => items[i].id[2] < items[j].id[2]
    BY <1>5
  <2> QED  BY <1>5, <1>6, <2>1, <2>2
<1> QED  BY <1>3, <1>5, <1>7

LEMMA ToldLatest ==
  ASSUME MemoryInv
  PROVE  M!TheLatestIsTold
<1> USE MemoryAssumption
<1> SUFFICES ASSUME NEW kind \in Kinds, NEW i \in DOMAIN M!Told(kind),
                    NEW j \in DOMAIN document[kind]
             PROVE  /\ ~M!Expired(M!Told(kind)[i])
                    /\ \/ M!Expired(M!Loaded(kind)[j])
                       \/ M!Told(kind)[i].id[2] >= M!Loaded(kind)[j].id[2]
                       \/ \E k \in DOMAIN M!Told(kind) : M!Told(kind)[k] = M!Loaded(kind)[j]
  BY DEF M!TheLatestIsTold
<1>1. PICK items, places : /\ items = M!Loaded(kind)
                           /\ places = {n \in DOMAIN items : ~M!Expired(items[n])}
  OBVIOUS
<1>2. PICK valid, told : valid = M!Unexpired(items) /\ told = M!Told(kind)
  OBVIOUS
<1>3. /\ items \in Seq(MemoryItems) /\ Listed(kind, items, time) /\ time \in Nat
      /\ j \in 1 .. Len(items)
  BY <1>1, LoadedIs DEF MemoryInv, NewestFirst, MemoryTypes
<1>4. valid = M!ItemsAt(items, places)
  BY <1>1, <1>2 DEF M!Unexpired
<1>5. valid \in Seq(MemoryItems) /\ Len(valid) \in Nat
  BY <1>3, <1>4, ItemsTaken
<1>6. PICK from : Taken(items, places, Len(items), valid, from)
  BY <1>3, <1>4, ItemsTaken
<1>7. Listed(kind, valid, time)
  BY <1>3, <1>5, <1>6, ListedStays
<1>8. told = M!Limited(valid, MaxShown) /\ MaxShown \in Nat
  BY <1>1, <1>2 DEF M!Told, M!Active
<1>9. /\ told \in Seq(MemoryItems) /\ Len(told) \in Nat
      /\ Len(told) = IF MaxShown < Len(valid) THEN MaxShown ELSE Len(valid)
      /\ \A n \in 1 .. Len(told) : told[n] = valid[n]
  <2>1. FirstOf(kind, valid, time, MaxShown, M!Limited(valid, MaxShown))
    BY <1>5, <1>7, <1>8, ListedFirst
  <2>2. FirstOf(kind, valid, time, MaxShown, told)
    BY <1>8, <2>1
  <2> QED  BY <2>2 DEF FirstOf
<1>10. i \in 1 .. Len(told) /\ i \in 1 .. Len(valid) /\ told[i] = valid[i]
  BY <1>2, <1>5, <1>9
<1>11. ~M!Expired(told[i])
  <2>1. from[i] \in places /\ valid[i] = items[from[i]]
    BY <1>6, <1>10 DEF Taken
  <2> QED  BY <1>1, <1>10, <2>1
<1>12. ASSUME ~M!Expired(items[j])
       PROVE  \/ told[i].id[2] >= items[j].id[2]
              \/ \E k \in DOMAIN told : told[k] = items[j]
  <2>1. j \in places
    BY <1>1, <1>3, <1>12
  <2>2. PICK k \in 1 .. Len(valid) : from[k] = j
    BY <1>3, <1>6, <2>1 DEF Taken
  <2>3. valid[k] = items[j]
    BY <1>6, <2>2 DEF Taken
  <2>4. CASE k <= Len(told)
    <3>1. k \in DOMAIN told /\ told[k] = items[j]
      BY <1>9, <2>2, <2>3, <2>4
    <3> QED  BY <3>1
  <2>5. CASE ~(k <= Len(told))
    <3>1. i < k
      BY <1>5, <1>9, <1>10, <2>2, <2>5
    <3>2. valid[k].id[2] < valid[i].id[2]
      BY <1>7, <1>10, <2>2, <3>1 DEF Listed
    <3>3. valid[k].id[2] \in Nat /\ valid[i].id[2] \in Nat
      BY <1>7, <1>10, <2>2 DEF Listed, MemoryIds
    <3>4. valid[i].id[2] >= valid[k].id[2]
      BY <3>2, <3>3
    <3> QED  BY <1>10, <2>3, <3>4
  <2> QED  BY <2>4, <2>5
<1> QED  BY <1>1, <1>2, <1>11, <1>12

LEMMA MemoryNext ==
  ASSUME MemoryInv, M!Next \/ UNCHANGED memoryVars
  PROVE  MemoryInv' /\ ItemsStay
<1> USE MemoryAssumption
<1>1. CASE M!Wait \/ (\E kind \in Kinds, text \in Texts : M!End(kind, text))
             \/ UNCHANGED memoryVars
  BY <1>1, MemoryIdle
<1>2. CASE \E entry \in ended : M!Record(entry)
  BY <1>2, MemoryRecord
<1>3. CASE \E id \in M!Ids, text \in Texts, until \in {time + 1, M!Never} : M!Edit(id, text, until)
  <2>1. time + 1 \in Nat /\ M!Never \in Nat
    BY DEF M!Never, MemoryInv, MemoryTypes
  <2> QED  BY <1>3, <2>1, MemoryEdit
<1>4. CASE \E id \in M!Ids : M!Delete(id)
  BY <1>4, MemoryDelete
<1>5. CASE M!Prune
  BY <1>5, MemoryPrune
<1> QED  BY <1>1, <1>2, <1>3, <1>4, <1>5 DEF M!Next

(* What is remembered of a project is found under the identity a user was    *)
(* shown until it is removed, every item has an identity of its own, and     *)
(* what a task is told is what holds and was recorded last; for any number   *)
(* of items kept and shown.                                                  *)
THEOREM RememberedCorrect == SessionSpec => MemoryIsKept
<1>1. SessionInit => MemoryInv
  BY MemoryBegins DEF SessionInit
<1>2. MemoryInv /\ [SessionNext]_<<part, vars, filesVars, outcomeVars, journalVars,
                                   outputsVars, conversationsVars, memoryVars>>
        => MemoryInv' /\ ItemsStay
  <2> SUFFICES ASSUME MemoryInv, SessionNext \/ UNCHANGED memoryVars
               PROVE  MemoryInv' /\ ItemsStay
    OBVIOUS
  <2>1. M!Next \/ UNCHANGED memoryVars
    BY DEF SessionNext
  <2> QED  BY <2>1, MemoryNext
<1>3. MemoryInv => M!OneItemPerId /\ M!TheLatestIsTold
  BY OneEach, ToldLatest
<1>4. MemoryIsKept <=> [](M!OneItemPerId /\ M!TheLatestIsTold) /\ [][ItemsStay]_M!vars
  BY DEF MemoryIsKept, M!FoundUntilRemoved, ItemsStay, ItemStays
<1> QED
  BY <1>1, <1>2, <1>3, <1>4, PTL DEF SessionSpec

-----------------------------------------------------------------------------
(* A session that several processes have open.                               *)

Histories == SUBSET [id : Turns, seq : Nat]

(* A copy: its turns are known by their ids, and none is live that it has    *)
(* not.                                                                      *)
SoundCopy(s, ids) ==
  /\ s \in Sessions /\ s.turns \subseteq Ids(s.history)
  /\ \A turn \in s.history : turn.id <= ids
  /\ \A turn, other \in s.history : turn.id = other.id => turn = other

(* The file: its turns are numbered beyond what was trimmed.                 *)
SoundFile(f, ids) ==
  /\ SoundCopy(f, ids)
  /\ \A turn \in f.history : f.trimmedThrough < turn.seq /\ turn.seq <= f.sequence
  /\ \A turn, other \in f.history : turn.seq = other.seq => turn = other
  /\ f.trimmedThrough <= f.sequence
  /\ \A id \in f.trimmed : id <= ids
  /\ Ids(f.history) \cap f.trimmed = {}

(* A copy was the file once: what is numbered in it stands there or was      *)
(* trimmed, what is not numbered was never there.                            *)
CopyOf(s, f) ==
  /\ s.revision <= f.revision /\ s.sequence <= f.sequence
  /\ s.trimmedThrough <= f.trimmedThrough /\ s.trimmed \subseteq f.trimmed
  /\ \A turn \in s.history :
       IF turn.seq = 0 THEN turn.id \notin Ids(f.history) \cup f.trimmed
       ELSE turn \in f.history \/ (turn.id \in f.trimmed /\ turn.seq <= f.trimmedThrough)
  /\ s.revision = f.revision =>
       /\ f.history \subseteq s.history /\ \A turn \in s.history : turn.seq > 0 => turn \in f.history
       /\ s.trimmed = f.trimmed
       /\ f.artifacts \subseteq s.artifacts \cup s.tombstones /\ f.tombstones \subseteq s.tombstones

LEMMA HistoryIsFinite ==
  ASSUME NEW h \in Histories, \A turn, other \in h : turn.id = other.id => turn = other
  PROVE  IsFiniteSet(h)
<1>1. PICK f : f \in Injection(h, Turns)
  <2> DEFINE g == [turn \in h |-> turn.id]
  <2>1. g \in Injection(h, Turns)
    BY DEF Injection, IsInjective, Histories
  <2> QED
    BY ONLY <2>1
<1>2. IsFiniteSet(Turns)
  BY FS_Interval, SessionAssumption DEF Turns
<1> QED
  BY <1>1, <1>2, FS_Injection

LEMMA GreatestOf ==
  ASSUME NEW Some \in SUBSET Nat, NEW n \in Nat, Some # {}, \A m \in Some : m <= n
  PROVE  Latest(Some) \in Some /\ \A m \in Some : m <= Latest(Some)
<1> DEFINE Bounds == {k \in Nat : \A m \in Some : m <= k}
<1>1. PICK k \in Bounds : \A l \in Bounds : k <= l
  BY LeastOf
<1>2. k \in Some
  <2> SUFFICES ASSUME k \notin Some PROVE FALSE
    OBVIOUS
  <2>1. \A m \in Some : m <= k - 1
    OBVIOUS
  <2>2. k - 1 \in Nat
    <3>1. PICK m \in Some : TRUE
      OBVIOUS
    <3> QED
      BY <3>1, <2>1
  <2> QED
    BY <1>1, <2>1, <2>2
<1> QED
  BY <1>2 DEF Latest

(* The ranks of the turns of a set are the numbers from 1 to its size.       *)
LEMMA Ranked ==
  ASSUME NEW all \in Histories, \A turn, other \in all : turn.id = other.id => turn = other,
         NEW Rank, Rank = [turn \in all |-> Cardinality({other \in all : other.id <= turn.id})]
  PROVE  /\ Cardinality(all) \in Nat
         /\ \A turn \in all : Rank[turn] \in 1 .. Cardinality(all)
         /\ \A turn, other \in all : Rank[turn] = Rank[other] => turn = other
<1>1. IsFiniteSet(all) /\ Cardinality(all) \in Nat
  BY HistoryIsFinite, FS_CardinalityType
<1>2. ASSUME NEW turn \in all
      PROVE  /\ IsFiniteSet({other \in all : other.id <= turn.id})
             /\ Rank[turn] \in 1 .. Cardinality(all)
  <2> DEFINE Some == {other \in all : other.id <= turn.id}
  <2>1. IsFiniteSet(Some) /\ Cardinality(Some) <= Cardinality(all)
    BY <1>1, FS_Subset
  <2>2. turn \in Some
    BY SessionAssumption DEF Histories, Turns
  <2>3. Cardinality(Some) \in Nat /\ Cardinality(Some) # 0
    BY <2>1, <2>2, FS_CardinalityType, FS_EmptySet
  <2>4. Rank[turn] = Cardinality(Some)
    OBVIOUS
  <2> QED
    BY <1>1, <2>1, <2>3, <2>4
<1>3. ASSUME NEW turn \in all, NEW other \in all, turn.id < other.id
      PROVE  Rank[turn] # Rank[other]
  <2> DEFINE Some(t) == {o \in all : o.id <= t.id}
  <2>1. Some(turn) \in SUBSET Some(other) /\ other \in Some(other) /\ other \notin Some(turn)
    BY <1>3, SessionAssumption DEF Histories, Turns
  <2>2. IsFiniteSet(Some(other))
    BY <1>2
  <2>3. Cardinality(Some(turn)) # Cardinality(Some(other))
    BY ONLY <2>1, <2>2, FS_Subset
  <2> QED
    BY <2>3
<1>4. \A turn, other \in all : turn.id < other.id \/ other.id < turn.id \/ turn.id = other.id
  BY SessionAssumption DEF Histories, Turns
<1> QED
  BY <1>1, <1>2, <1>3, <1>4

LEMMA LastIs ==
  ASSUME NEW ids \in Nat, NEW f, NEW s, SoundFile(f, ids), SoundCopy(s, ids), CopyOf(s, f)
  PROVE  Last(f, s) = f.sequence
<1> DEFINE Some == {f.sequence, s.sequence, f.trimmedThrough, s.trimmedThrough}
                  \cup {turn.seq : turn \in f.history \cup s.history}
<1>1. Some \in SUBSET Nat /\ f.sequence \in Some
  BY DEF SoundFile, SoundCopy, Sessions
<1>2. \A turn \in f.history \cup s.history : turn.seq <= f.sequence
  BY DEF SoundFile, SoundCopy, CopyOf, Sessions
<1>3. \A n \in Some : n <= f.sequence
  BY <1>2 DEF SoundFile, SoundCopy, CopyOf, Sessions
<1>4. Latest(Some) = f.sequence
  BY <1>1, <1>3 DEF Latest
<1> QED
  BY <1>4 DEF Last

(* The turns that get their number: those that have none, each one of its    *)
(* own behind all that are known.                                            *)
Unnumbered(s) == {turn \in s.history : turn.seq = 0}
Fresh(new, f, s, n) ==
  /\ new \in Histories /\ Ids(new) = Ids(Unnumbered(s))
  /\ n \in Nat /\ f.sequence <= n
  /\ \A turn \in new : f.sequence < turn.seq /\ turn.seq <= n
  /\ \A turn, other \in new : turn.seq = other.seq \/ turn.id = other.id => turn = other
OrderedWith(new, f, s, n) ==
  LET history == (s.history \cap f.history) \cup new
  IN  [s EXCEPT !.history = history, !.turns = s.turns \cap Ids(history),
                !.sequence = n, !.trimmedThrough = f.trimmedThrough]

LEMMA OrderedIs ==
  ASSUME NEW ids \in Nat, NEW f, NEW s, SoundFile(f, ids), SoundCopy(s, ids), CopyOf(s, f)
  PROVE  \E new, n : Fresh(new, f, s, n) /\ Ordered(f, s) = OrderedWith(new, f, s, n)
<1>1. Unknown(f, s) = Unnumbered(s) /\ Unnumbered(s) \in Histories
  BY DEF Unknown, Unnumbered, Histories, SoundCopy, CopyOf, Sessions
<1>2. PICK Rank : Rank = [turn \in Unnumbered(s) |->
                            Cardinality({other \in Unnumbered(s) : other.id <= turn.id})]
  OBVIOUS
<1>3. /\ Cardinality(Unnumbered(s)) \in Nat
      /\ \A turn \in Unnumbered(s) : Rank[turn] \in 1 .. Cardinality(Unnumbered(s))
      /\ \A turn, other \in Unnumbered(s) : Rank[turn] = Rank[other] => turn = other
  <2>1. \A turn, other \in Unnumbered(s) : turn.id = other.id => turn = other
    BY DEF Unnumbered, SoundCopy
  <2> QED
    BY <1>1, <1>2, <2>1, Ranked
<1>4. PICK new : new = {[id |-> turn.id, seq |-> f.sequence + Rank[turn]] :
                          turn \in Unnumbered(s)}
  OBVIOUS
<1>5. PICK n : n = f.sequence + Cardinality(Unnumbered(s))
  OBVIOUS
<1>6. f.sequence \in Nat /\ f.history \in Histories /\ s.history \in Histories
      /\ f.trimmedThrough \in Nat /\ s.trimmedThrough \in Nat
  BY DEF SoundFile, SoundCopy, Sessions, Histories
<1>7. Fresh(new, f, s, n)
  <2>1. \A turn \in Unnumbered(s) : turn.id \in Turns
    BY <1>1 DEF Histories
  <2>2. new \in Histories
    BY <1>3, <1>4, <1>6, <2>1 DEF Histories
  <2>3. Ids(new) = Ids(Unnumbered(s))
    <3>1. ASSUME NEW turn \in Unnumbered(s)
          PROVE  \E other \in new : other.id = turn.id
      <4>1. [id |-> turn.id, seq |-> f.sequence + Rank[turn]] \in new
        BY <1>4
      <4> QED
        BY <4>1
    <3>2. \A other \in new : \E turn \in Unnumbered(s) : other.id = turn.id
      BY <1>4
    <3> QED
      BY ONLY <3>1, <3>2 DEF Ids
  <2>4. \A turn \in new : f.sequence < turn.seq /\ turn.seq <= n
    BY <1>3, <1>4, <1>5, <1>6
  <2>5. ASSUME NEW turn \in new, NEW other \in new, turn.seq = other.seq \/ turn.id = other.id
        PROVE  turn = other
    <3>1. PICK a \in Unnumbered(s) : turn = [id |-> a.id, seq |-> f.sequence + Rank[a]]
      BY <1>4
    <3>2. PICK b \in Unnumbered(s) : other = [id |-> b.id, seq |-> f.sequence + Rank[b]]
      BY <1>4
    <3>3. turn.seq = other.seq => Rank[a] = Rank[b]
      BY <1>3, <1>6, <3>1, <3>2
    <3>4. a = b
      BY <1>3, <2>5, <3>1, <3>2, <3>3 DEF Unnumbered, SoundCopy
    <3> QED
      BY <3>1, <3>2, <3>4
  <2>6. n \in Nat /\ f.sequence <= n
    BY <1>3, <1>5, <1>6
  <2> QED
    BY <2>2, <2>3, <2>4, <2>5, <2>6 DEF Fresh
<1>8. ASSUME NEW turn \in s.history
      PROVE  [id |-> turn.id, seq |-> Number(f, s, turn)]
               = IF turn.seq = 0 THEN [id |-> turn.id, seq |-> f.sequence + Rank[turn]] ELSE turn
  <2>1. CASE turn.seq = 0
    <3>1. turn.id \notin Ids(f.history) /\ turn \in Unnumbered(s)
      BY <2>1 DEF CopyOf, Unnumbered
    <3>2. Number(f, s, turn) = f.sequence + Rank[turn]
      BY <1>1, <1>2, <2>1, <3>1, LastIs DEF Number
    <3> QED
      BY <2>1, <3>2
  <2>2. CASE turn.seq # 0 /\ turn \in f.history
    <3>1. turn.id \in Ids(f.history)
      BY <2>2 DEF Ids
    <3>2. \A known \in f.history : known.id = turn.id => known = turn
      BY <2>2 DEF SoundFile, SoundCopy
    <3>3. Number(f, s, turn) = turn.seq
      BY <2>2, <3>1, <3>2 DEF Number
    <3> QED
      BY <1>6, <2>2, <3>3 DEF Histories
  <2>3. CASE turn.seq # 0 /\ turn \notin f.history
    <3>1. turn.id \notin Ids(f.history)
      BY <2>3 DEF CopyOf, SoundFile
    <3>2. turn.seq > 0
      BY <1>6, <2>3 DEF Histories
    <3>3. Number(f, s, turn) = turn.seq
      BY <3>1, <3>2 DEF Number
    <3> QED
      BY <1>6, <2>3, <3>3 DEF Histories
  <2> QED
    BY <2>1, <2>2, <2>3
<1>9. {turn \in {[id |-> turn.id, seq |-> Number(f, s, turn)] : turn \in s.history} :
         turn.seq > f.trimmedThrough}
        = (s.history \cap f.history) \cup new
  <2> DEFINE All == {[id |-> turn.id, seq |-> Number(f, s, turn)] : turn \in s.history}
  <2>1. ASSUME NEW turn \in All, turn.seq > f.trimmedThrough
        PROVE  turn \in (s.history \cap f.history) \cup new
    <3>1. PICK a \in s.history : turn = [id |-> a.id, seq |-> Number(f, s, a)]
      OBVIOUS
    <3>2. CASE a.seq = 0
      <4>1. turn = [id |-> a.id, seq |-> f.sequence + Rank[a]] /\ a \in Unnumbered(s)
        BY <1>8, <3>1, <3>2 DEF Unnumbered
      <4> QED
        BY <1>4, <4>1
    <3>3. CASE a.seq # 0
      <4>1. turn = a
        BY <1>8, <3>1, <3>3
      <4>2. a.seq \in Nat
        BY <1>6 DEF Histories
      <4> QED
        BY <1>6, <2>1, <3>3, <4>1, <4>2 DEF CopyOf
    <3> QED
      BY <3>2, <3>3
  <2>2. ASSUME NEW turn \in s.history \cap f.history
        PROVE  turn \in All /\ turn.seq > f.trimmedThrough
    <3>1. turn.seq > f.trimmedThrough /\ turn.seq # 0
      BY <1>6 DEF SoundFile, Histories
    <3>2. turn = [id |-> turn.id, seq |-> Number(f, s, turn)]
      BY <1>8, <3>1
    <3> QED
      BY <3>1, <3>2
  <2>3. ASSUME NEW turn \in new
        PROVE  turn \in All /\ turn.seq > f.trimmedThrough
    <3>1. PICK a \in Unnumbered(s) : turn = [id |-> a.id, seq |-> f.sequence + Rank[a]]
      BY <1>4
    <3>2. a \in s.history /\ a.seq = 0
      BY DEF Unnumbered
    <3>3. turn = [id |-> a.id, seq |-> Number(f, s, a)]
      BY <1>8, <3>1, <3>2
    <3>4. turn.seq > f.trimmedThrough
      BY <1>6, <1>7 DEF Fresh, Histories, SoundFile
    <3> QED
      BY <3>2, <3>3, <3>4
  <2> QED
    BY <2>1, <2>2, <2>3
<1>10. Larger(f.trimmedThrough, s.trimmedThrough) = f.trimmedThrough
  BY <1>6 DEF Larger, CopyOf
<1>11. Ordered(f, s) = OrderedWith(new, f, s, n)
  <2>1. PICK numbered : numbered = Numbered(f, s)
    OBVIOUS
  <2>2. numbered = [s EXCEPT !.history = {[id |-> turn.id, seq |-> Number(f, s, turn)] :
                                            turn \in s.history}, !.sequence = n]
    BY <1>1, <1>5, <2>1, LastIs DEF Numbered, SoundCopy, Sessions
  <2>3. numbered.turns = s.turns
    BY <2>2 DEF SoundCopy, Sessions
  <2>4. {turn \in numbered.history : turn.seq > f.trimmedThrough}
          = (s.history \cap f.history) \cup new
    BY <1>9, <2>2 DEF SoundCopy, Sessions
  <2>5. Ordered(f, s) = [numbered EXCEPT
          !.history = (s.history \cap f.history) \cup new,
          !.turns = s.turns \cap Ids((s.history \cap f.history) \cup new),
          !.trimmedThrough = f.trimmedThrough]
    <3>1. Ordered(f, s) = Kept(numbered, f.trimmedThrough)
      BY <1>10, <2>1 DEF Ordered
    <3> QED
      BY ONLY <2>3, <2>4, <3>1 DEF Kept
  <2> QED
    BY <2>2, <2>5 DEF OrderedWith, SoundCopy, Sessions
<1> QED
  BY <1>7, <1>11

(* What makes room are the oldest turns, none of them live: what stays is    *)
(* numbered beyond them.                                                     *)
Standing(b) ==
  /\ b \in Sessions /\ b.trimmedThrough <= b.sequence
  /\ \A turn \in b.history : b.trimmedThrough < turn.seq /\ turn.seq <= b.sequence
  /\ \A turn, other \in b.history : turn.seq = other.seq \/ turn.id = other.id => turn = other
Trims(cut, through, b, room) ==
  /\ cut \in SUBSET b.history /\ Ids(cut) \cap b.turns = {}
  /\ through \in Nat /\ b.trimmedThrough <= through /\ through <= b.sequence
  /\ \A turn \in cut : turn.seq <= through
  /\ \A turn \in b.history \ cut : through < turn.seq
  /\ cut # {} => Cardinality(b.history \ cut) >= room
Without(b, cut, through) ==
  [b EXCEPT !.history = b.history \ cut, !.trimmedThrough = through,
            !.trimmed = b.trimmed \cup Ids(cut)]

LEMMA EarlierIs ==
  ASSUME NEW b, Standing(b)
  PROVE  \A turn, other \in b.history : Earlier(turn, other) <=> turn.seq < other.seq
BY DEF Standing, Sessions, Earlier

LEMMA OldestIs ==
  ASSUME NEW b, Standing(b), NEW count \in Nat, count > 0, count <= Cardinality(b.history),
         NEW cut, cut = Oldest(b.history, count)
  PROVE  /\ cut \in SUBSET b.history /\ cut # {}
         /\ \E last \in cut :
              /\ \A one \in cut : one.seq <= last.seq
              /\ \A turn \in b.history \ cut : last.seq < turn.seq
         /\ Cardinality(cut) <= count
<1> DEFINE H == b.history
           Before(turn) == {other \in H : Earlier(other, turn)}
<1>1. H \in Histories /\ IsFiniteSet(H) /\ \A turn \in H : turn.seq \in Nat
  BY HistoryIsFinite DEF Standing, Sessions, Histories
<1>2. \A turn \in H : Before(turn) = {other \in H : other.seq < turn.seq}
  BY EarlierIs
<1>3. \A turn \in H : /\ Before(turn) \in SUBSET H /\ IsFiniteSet(Before(turn))
                      /\ Cardinality(Before(turn)) \in Nat
  BY <1>1, FS_Subset, FS_CardinalityType
<1>4. /\ cut \in SUBSET H
      /\ \A turn \in H : turn \in cut <=> Cardinality(Before(turn)) < count
  BY DEF Oldest
<1>5. cut # {}
  <2> DEFINE Numbers == {turn.seq : turn \in H}
  <2>1. H # {}
    BY FS_EmptySet
  <2>2. Numbers \in SUBSET Nat /\ Numbers # {}
    BY <1>1, <2>1
  <2>3. PICK n \in Numbers : \A m \in Numbers : n <= m
    BY <2>2, LeastOf
  <2>4. PICK turn \in H : turn.seq = n
    OBVIOUS
  <2>5. Before(turn) = {}
    BY <1>1, <1>2, <2>3, <2>4
  <2> QED
    BY <1>4, <2>5, FS_EmptySet
<1>6. PICK last \in cut : \A turn \in cut : turn.seq <= last.seq
  <2> DEFINE Numbers == {turn.seq : turn \in cut}
  <2>1. Numbers \in SUBSET Nat /\ Numbers # {} /\ b.sequence \in Nat
        /\ \A m \in Numbers : m <= b.sequence
    BY <1>1, <1>4, <1>5 DEF Standing, Sessions
  <2>2. PICK n \in Numbers : \A m \in Numbers : m <= n
    BY <2>1, GreatestOf
  <2> QED
    BY <2>2
<1>7. \A turn \in H \ cut : last.seq < turn.seq
  <2> SUFFICES ASSUME NEW turn \in H \ cut, ~(last.seq < turn.seq) PROVE FALSE
    OBVIOUS
  <2>1. last \in H /\ turn.seq <= last.seq
    BY <1>1, <1>4
  <2>2. Before(turn) \in SUBSET Before(last)
    BY <1>1, <1>2, <2>1
  <2>3. Cardinality(Before(turn)) <= Cardinality(Before(last))
    BY <1>3, <2>1, <2>2, FS_Subset
  <2>4. /\ Cardinality(Before(last)) < count /\ ~(Cardinality(Before(turn)) < count)
        /\ Cardinality(Before(turn)) \in Nat /\ Cardinality(Before(last)) \in Nat
    BY <1>3, <1>4, <2>1
  <2> QED
    BY <2>3, <2>4
<1>8. Cardinality(cut) <= count
  <2>1. last \in H /\ IsFiniteSet(cut) /\ Cardinality(cut) \in Nat
    BY <1>1, <1>4, FS_Subset, FS_CardinalityType
  <2>2. cut \ {last} \in SUBSET Before(last)
    <3> SUFFICES ASSUME NEW turn \in cut, turn # last PROVE turn \in Before(last)
      OBVIOUS
    <3>1. turn \in H /\ turn.seq # last.seq
      BY <1>4, <2>1 DEF Standing
    <3> QED
      BY <1>1, <1>2, <1>6, <2>1, <3>1
  <2>3. Cardinality(cut \ {last}) <= Cardinality(Before(last))
    BY <1>3, <2>1, <2>2, FS_Subset
  <2>4. Cardinality(cut \ {last}) = Cardinality(cut) - 1
    BY <2>1, FS_RemoveElement
  <2>5. Cardinality(Before(last)) < count /\ Cardinality(Before(last)) \in Nat
    BY <1>3, <1>4, <2>1
  <2> QED
    BY <2>1, <2>3, <2>4, <2>5
<1> QED
  BY <1>4, <1>5, <1>6, <1>7, <1>8

LEMMA FitIs ==
  ASSUME NEW b, Standing(b), NEW room \in Nat
  PROVE  \E cut, through : /\ Trims(cut, through, b, room)
                           /\ Fit(b, room) = Without(b, cut, through)
<1>1. /\ b.history \in Histories /\ IsFiniteSet(b.history) /\ Cardinality(b.history) \in Nat
      /\ \A turn \in b.history : turn.seq \in Nat
  BY HistoryIsFinite, FS_CardinalityType DEF Standing, Sessions, Histories
<1>2. PICK Old : Old = {turn \in b.history :
                          \A other \in Live(b) : other # turn /\ ~Earlier(other, turn)}
  OBVIOUS
<1>3. IsFiniteSet(Old) /\ Cardinality(Old) \in Nat /\ Cardinality(Old) <= Cardinality(b.history)
  BY <1>1, <1>2, FS_Subset, FS_CardinalityType
<1>4. PICK excess : excess = Larger(Cardinality(b.history) - room, 0)
  OBVIOUS
<1>5. excess \in Nat /\ (excess # 0 => excess = Cardinality(b.history) - room)
  BY <1>1, <1>4 DEF Larger
<1>6. PICK count : count = IF Cardinality(Old) < excess THEN Cardinality(Old) ELSE excess
  OBVIOUS
<1>7. /\ count \in Nat /\ count <= Cardinality(Old) /\ count <= excess
      /\ count <= Cardinality(b.history)
  BY <1>1, <1>3, <1>5, <1>6
<1>8. Fit(b, room) = IF count = 0 THEN b
                     ELSE [b EXCEPT
                       !.history = @ \ Oldest(b.history, count),
                       !.trimmedThrough = Larger(@, Latest({turn.seq : turn \in Oldest(b.history, count)})),
                       !.trimmed = @ \cup Ids(Oldest(b.history, count))]
  BY <1>2, <1>4, <1>6 DEF Fit
<1>9. CASE count = 0
  <2>1. Trims({}, b.trimmedThrough, b, room)
    BY DEF Trims, Standing, Sessions, Ids
  <2>2. b = Without(b, {}, b.trimmedThrough)
    <3>1. b.history \ {} = b.history /\ b.trimmed \cup Ids({}) = b.trimmed
      BY DEF Ids
    <3> QED
      BY <3>1 DEF Standing, Sessions, Without
  <2> QED
    BY <1>8, <1>9, <2>1, <2>2
<1>10. CASE count # 0
  <2>1. PICK cut : cut = Oldest(b.history, count)
    OBVIOUS
  <2>2. PICK last \in cut : /\ \A turn \in cut : turn.seq <= last.seq
                            /\ \A turn \in b.history \ cut : last.seq < turn.seq
    BY <1>7, <1>10, <2>1, OldestIs
  <2>3. cut \in SUBSET b.history /\ cut # {} /\ Cardinality(cut) <= count
    BY <1>7, <1>10, <2>1, OldestIs
  <2>4. last \in b.history /\ last.seq \in Nat
    BY <1>1, <2>3
  <2>5. Latest({turn.seq : turn \in cut}) = last.seq
    <3> DEFINE Numbers == {turn.seq : turn \in cut}
    <3>1. Numbers \in SUBSET Nat /\ last.seq \in Numbers /\ \A m \in Numbers : m <= last.seq
      BY <1>1, <2>2, <2>3
    <3> QED
      BY <3>1 DEF Latest
  <2>6. Larger(b.trimmedThrough, last.seq) = last.seq
    BY <2>4 DEF Larger, Standing, Sessions
  <2>7. Fit(b, room) = Without(b, cut, last.seq)
    BY <1>8, <1>10, <2>1, <2>5, <2>6 DEF Without
  <2>8. Ids(cut) \cap b.turns = {}
    <3> SUFFICES ASSUME NEW turn \in cut, turn.id \in b.turns PROVE FALSE
      BY DEF Ids
    <3> DEFINE Before == {other \in b.history : Earlier(other, turn)}
    <3>1. turn \in Live(b)
      BY <2>3 DEF Live
    <3>2. Old \in SUBSET Before
      BY <1>1, <1>2, <2>3, <3>1, EarlierIs DEF Standing
    <3>3. IsFiniteSet(Before) /\ Cardinality(Before) \in Nat
      BY <1>1, FS_Subset, FS_CardinalityType
    <3>4. Cardinality(Old) <= Cardinality(Before)
      BY <3>2, <3>3, FS_Subset
    <3>5. Cardinality(Before) < count
      BY <2>1 DEF Oldest
    <3> QED
      BY <1>3, <1>7, <3>3, <3>4, <3>5
  <2>9. Cardinality(b.history \ cut) >= room
    <3>1. IsFiniteSet(cut) /\ Cardinality(cut) \in Nat /\ b.history \cap cut = cut
      BY <1>1, <2>3, FS_Subset, FS_CardinalityType
    <3>2. Cardinality(b.history \ cut) = Cardinality(b.history) - Cardinality(cut)
      BY ZenonT(40), <1>1, <3>1, FS_Difference
    <3> QED
      BY <1>1, <1>5, <1>7, <1>10, <2>3, <3>1, <3>2
  <2>10. Trims(cut, last.seq, b, room)
    BY <2>2, <2>3, <2>4, <2>8, <2>9 DEF Trims, Standing, Sessions
  <2> QED
    BY <2>7, <2>10
<1> QED
  BY <1>9, <1>10

(* What the user demanded in it is told, live or in the summary.             *)
AllTold(s) ==
  Ids(s.history) \cup s.trimmed
    \subseteq s.turns \cup (IF s.summary = None THEN {} ELSE s.summary)

LEMMA CompactedIs ==
  ASSUME NEW s \in Sessions, s.turns \subseteq Ids(s.history),
         \A turn, other \in s.history : turn.id = other.id => turn = other
  PROVE  \E summary \in {None} \cup SUBSET Turns, left \in SUBSET s.turns :
           /\ Compacted(s) = [s EXCEPT !.summary = summary, !.turns = left]
           /\ \/ AllTold(s)
              \/ /\ s.summary = None /\ s.turns = Ids(s.history)
                 /\ s.trimmed = {} \/ Cardinality(s.history) > Recent
              => AllTold(Compacted(s))
<1>1. PICK count : count = Cardinality(Live(s)) - Recent
  OBVIOUS
<1>2. PICK folded : folded = Ids(Oldest(Live(s), count))
  OBVIOUS
<1>3. PICK before : before = IF s.summary # None THEN s.summary
                             ELSE s.trimmed \cup Ids(s.history \ Live(s))
  OBVIOUS
<1>4. Compacted(s) = IF count <= 0 THEN s
                     ELSE [s EXCEPT !.summary = before \cup folded, !.turns = @ \ folded]
  BY <1>1, <1>2, <1>3 DEF Compacted
<1>5. s.history \in Histories /\ s.trimmed \in SUBSET Turns
      /\ s.summary \in {None} \cup SUBSET Turns /\ s.turns \in SUBSET Turns
  BY DEF Sessions, Histories
<1>6. Ids(s.history) \in SUBSET Turns /\ Ids(s.history \ Live(s)) \in SUBSET Turns
  BY <1>5 DEF Ids, Histories
<1>7. folded \in SUBSET Turns
  BY <1>2, <1>5 DEF Ids, Oldest, Live, Histories
<1>8. before \in SUBSET Turns
  BY <1>3, <1>5, <1>6
<1>9. CASE count <= 0
  <2>1. Compacted(s) = s /\ s = [s EXCEPT !.summary = s.summary, !.turns = s.turns]
    BY <1>4, <1>9 DEF Sessions
  <2>2. ASSUME s.summary = None, s.turns = Ids(s.history),
               s.trimmed = {} \/ Cardinality(s.history) > Recent
        PROVE  AllTold(s)
    <3>1. Live(s) = s.history
      BY <2>2 DEF Live, Ids
    <3>2. Cardinality(s.history) \in Nat
      BY <1>5, HistoryIsFinite, FS_CardinalityType
    <3>3. s.trimmed = {}
      BY <1>1, <1>9, <2>2, <3>1, <3>2, SessionAssumption
    <3> QED
      BY <2>2, <3>3 DEF AllTold
  <2> QED
    BY <1>5, <2>1, <2>2
<1>10. CASE ~(count <= 0)
  <2>1. Compacted(s) = [s EXCEPT !.summary = before \cup folded, !.turns = s.turns \ folded]
    BY <1>4, <1>10
  <2>2. before \cup folded \in SUBSET Turns /\ before \cup folded # None
    BY <1>7, <1>8, SessionAssumption
  <2>3. Ids(s.history) \subseteq s.turns \cup Ids(s.history \ Live(s))
    BY DEF Ids, Live
  <2>4. ASSUME \/ AllTold(s)
               \/ s.summary = None
        PROVE  Ids(s.history) \cup s.trimmed \subseteq s.turns \cup before
    BY <1>3, <2>3, <2>4 DEF AllTold
  <2>5. /\ Compacted(s).history = s.history /\ Compacted(s).trimmed = s.trimmed
        /\ Compacted(s).turns = s.turns \ folded /\ Compacted(s).summary = before \cup folded
    BY <2>1 DEF Sessions
  <2>6. AllTold(s) \/ s.summary = None => AllTold(Compacted(s))
    BY <2>2, <2>4, <2>5 DEF AllTold
  <2> QED
    BY <2>1, <2>2, <2>6
<1> QED
  BY <1>9, <1>10

(* What is written before room is made: the turns of the file and the new    *)
(* ones.                                                                     *)
Brings(b, new, n, f, s) ==
  /\ Standing(b) /\ b.revision = f.revision + 1 /\ b.sequence = n
  /\ b.history = f.history \cup new /\ b.turns \subseteq Ids(b.history)
  /\ b.trimmed = f.trimmed /\ b.trimmedThrough = f.trimmedThrough
  /\ f.tombstones \cup s.tombstones \subseteq b.tombstones
  /\ (f.artifacts \cup s.artifacts) \ b.tombstones \subseteq b.artifacts
  /\ AllTold(f) /\ AllTold(s) /\ (f.trimmed # {} => Cardinality(f.history) > Recent) => AllTold(b)

LEMMA TogetherStand ==
  ASSUME NEW ids \in Nat, NEW f, NEW s, SoundFile(f, ids), SoundCopy(s, ids), CopyOf(s, f),
         NEW new, NEW n, Fresh(new, f, s, n)
  PROVE  /\ f.history \cup new \in Histories
         /\ Ids(f.history \cup new) = Ids(f.history) \cup Ids(Unnumbered(s))
         /\ \A turn \in new : turn.id \notin Ids(f.history)
         /\ \A turn \in f.history \cup new : f.trimmedThrough < turn.seq /\ turn.seq <= n
         /\ \A turn, other \in f.history \cup new :
              turn.seq = other.seq \/ turn.id = other.id => turn = other
<1>1. /\ f.history \in Histories /\ new \in Histories
      /\ f.sequence \in Nat /\ f.trimmedThrough \in Nat /\ n \in Nat
  BY DEF SoundFile, SoundCopy, Sessions, Histories, Fresh
<1>2. \A turn \in f.history \cup new : turn.seq \in Nat
  BY <1>1 DEF Histories
<1>3. \A turn \in f.history \cup new : f.trimmedThrough < turn.seq /\ turn.seq <= n
  BY <1>1, <1>2 DEF SoundFile, Fresh
<1>4. \A turn \in new : turn.id \notin Ids(f.history)
  <2> TAKE turn \in new
  <2>1. turn.id \in Ids(Unnumbered(s))
    BY DEF Fresh, Ids
  <2> QED
    BY <2>1 DEF Ids, Unnumbered, CopyOf
<1>5. \A turn \in new, other \in f.history : turn.seq # other.seq /\ turn.id # other.id
  BY <1>1, <1>2, <1>4 DEF SoundFile, Fresh, Ids
<1>6. \A turn, other \in f.history \cup new :
        turn.seq = other.seq \/ turn.id = other.id => turn = other
  <2>1. \A turn, other \in f.history : turn.seq = other.seq \/ turn.id = other.id => turn = other
    BY DEF SoundFile, SoundCopy
  <2>2. \A turn, other \in new : turn.seq = other.seq \/ turn.id = other.id => turn = other
    BY DEF Fresh
  <2> QED
    BY ONLY <1>5, <2>1, <2>2
<1>7. Ids(f.history \cup new) = Ids(f.history) \cup Ids(Unnumbered(s))
  BY DEF Ids, Fresh
<1> QED
  BY <1>1, <1>3, <1>4, <1>6, <1>7 DEF Histories

LEMMA FreshIsWritten ==
  ASSUME NEW ids \in Nat, NEW f, NEW s, SoundFile(f, ids), SoundCopy(s, ids), CopyOf(s, f),
         ~Stale(f, s), NEW new, NEW n, Fresh(new, f, s, n)
  PROVE  Brings([OrderedWith(new, f, s, n) EXCEPT !.revision = f.revision + 1], new, n, f, s)
<1>0. /\ f.history \cup new \in Histories
      /\ Ids(f.history \cup new) = Ids(f.history) \cup Ids(Unnumbered(s))
      /\ \A turn \in new : turn.id \notin Ids(f.history)
      /\ \A turn \in f.history \cup new : f.trimmedThrough < turn.seq /\ turn.seq <= n
      /\ \A turn, other \in f.history \cup new :
           turn.seq = other.seq \/ turn.id = other.id => turn = other
  BY ONLY SoundFile(f, ids), SoundCopy(s, ids), CopyOf(s, f), Fresh(new, f, s, n), ids \in Nat,
          TogetherStand
<1>1. s \in Sessions /\ f \in Sessions /\ n \in Nat /\ new \in Histories
  BY DEF SoundFile, SoundCopy, Fresh
<1>2. /\ s.revision = f.revision /\ f.history \subseteq s.history /\ s.trimmed = f.trimmed
      /\ \A turn \in s.history : turn.seq > 0 => turn \in f.history
      /\ f.artifacts \subseteq s.artifacts \cup s.tombstones /\ f.tombstones \subseteq s.tombstones
  BY DEF Stale, CopyOf
<1>3. (s.history \cap f.history) \cup new = f.history \cup new
  BY <1>2
<1>4. Ids(s.history) = Ids(f.history \cup new)
  <2>1. s.history = f.history \cup Unnumbered(s)
    <3>1. \A turn \in s.history : turn.seq \in Nat
      BY <1>1 DEF Sessions
    <3> QED
      BY <1>2, <3>1 DEF Unnumbered
  <2>2. Ids(s.history) = Ids(f.history) \cup Ids(Unnumbered(s))
    BY <2>1 DEF Ids
  <2> QED
    BY <2>2, <1>0
<1>5. s.turns \cap Ids(f.history \cup new) = s.turns
  BY <1>4 DEF SoundCopy
<1>6. PICK b : b = [OrderedWith(new, f, s, n) EXCEPT !.revision = f.revision + 1]
  OBVIOUS
<1>7. b = [s EXCEPT !.revision = f.revision + 1, !.history = f.history \cup new,
                    !.turns = s.turns, !.sequence = n, !.trimmedThrough = f.trimmedThrough]
  BY <1>1, <1>3, <1>5, <1>6 DEF OrderedWith, Sessions
<1>8. /\ b.revision = f.revision + 1 /\ b.history = f.history \cup new /\ b.turns = s.turns
      /\ b.sequence = n /\ b.trimmedThrough = f.trimmedThrough /\ b.trimmed = s.trimmed
      /\ b.artifacts = s.artifacts /\ b.tombstones = s.tombstones /\ b.summary = s.summary
  BY <1>1, <1>7 DEF Sessions
<1>9. b \in Sessions
  <2>1. /\ f.history \cup new \in Histories /\ f.revision + 1 \in Nat
        /\ f.trimmedThrough \in Nat /\ n \in Nat
    BY <1>0, <1>1 DEF Sessions
  <2> QED
    BY ONLY <1>1, <1>7, <2>1 DEF Sessions, Histories
<1>10. Standing(b)
  <2>1. f.trimmedThrough <= n
    BY <1>1 DEF SoundFile, Fresh, Sessions
  <2> QED
    BY <1>8, <1>9, <2>1, <1>0 DEF Standing
<1>11. AllTold(s) => AllTold(b)
  BY <1>4, <1>8 DEF AllTold
<1>12. b.turns \subseteq Ids(b.history)
  BY <1>4, <1>8 DEF SoundCopy
<1> QED
  BY <1>2, <1>6, <1>8, <1>10, <1>11, <1>12 DEF Brings

LEMMA MergedIsWritten ==
  ASSUME NEW ids \in Nat, NEW f, NEW s, SoundFile(f, ids), SoundCopy(s, ids), CopyOf(s, f),
         NEW new, NEW n, Fresh(new, f, s, n)
  PROVE  Brings([Merged(f, OrderedWith(new, f, s, n)) EXCEPT !.revision = f.revision + 1],
                new, n, f, s)
<1>0. /\ f.history \cup new \in Histories
      /\ Ids(f.history \cup new) = Ids(f.history) \cup Ids(Unnumbered(s))
      /\ \A turn \in new : turn.id \notin Ids(f.history)
      /\ \A turn \in f.history \cup new : f.trimmedThrough < turn.seq /\ turn.seq <= n
      /\ \A turn, other \in f.history \cup new :
           turn.seq = other.seq \/ turn.id = other.id => turn = other
  BY ONLY SoundFile(f, ids), SoundCopy(s, ids), CopyOf(s, f), Fresh(new, f, s, n), ids \in Nat,
          TogetherStand
<1>1. s \in Sessions /\ f \in Sessions /\ n \in Nat /\ new \in Histories
  BY DEF SoundFile, SoundCopy, Fresh
<1>2. PICK o : o = OrderedWith(new, f, s, n)
  OBVIOUS
<1>3. /\ o.revision = s.revision /\ o.history = (s.history \cap f.history) \cup new
      /\ o.sequence = n /\ o.trimmedThrough = f.trimmedThrough /\ o.trimmed = s.trimmed
      /\ o.artifacts = s.artifacts /\ o.tombstones = s.tombstones
      /\ o.turns = s.turns \cap Ids((s.history \cap f.history) \cup new)
  BY <1>1, <1>2 DEF OrderedWith, Sessions
<1>4. o = [revision |-> o.revision, history |-> o.history, turns |-> o.turns,
           summary |-> o.summary, sequence |-> o.sequence,
           trimmedThrough |-> o.trimmedThrough, trimmed |-> o.trimmed,
           artifacts |-> o.artifacts, tombstones |-> o.tombstones]
  BY <1>1, <1>2 DEF OrderedWith, Sessions
<1>5. {turn \in o.history : turn.id \notin Ids(f.history)} = new
  <2>1. \A turn \in f.history : turn.id \in Ids(f.history)
    BY DEF Ids
  <2> QED
    BY <1>3, <2>1, <1>0
<1>6. {turn \in f.history \cup new : turn.seq > o.trimmedThrough} = f.history \cup new
  BY <1>3, <1>0
<1>7. PICK u : u = [Union(f, o) EXCEPT !.summary = None]
  OBVIOUS
<1>8. u = [revision |-> s.revision, history |-> f.history \cup new,
           turns |-> Ids(f.history \cup new), summary |-> None, sequence |-> n,
           trimmedThrough |-> f.trimmedThrough, trimmed |-> f.trimmed \cup s.trimmed,
           artifacts |-> (f.artifacts \cup s.artifacts) \ (f.tombstones \cup s.tombstones),
           tombstones |-> f.tombstones \cup s.tombstones]
  BY <1>3, <1>4, <1>5, <1>6, <1>7 DEF Union
<1>9. f.trimmed \cup s.trimmed = f.trimmed
  BY DEF CopyOf
<1>10. u \in Sessions
  <2>1. f.history \cup new \in Histories
    BY <1>0
  <2>2. Ids(f.history \cup new) \in SUBSET Turns
    BY <2>1 DEF Ids, Histories
  <2> QED
    BY <1>1, <1>8, <2>1, <2>2 DEF Sessions, Histories
<1>11. PICK summary \in {None} \cup SUBSET Turns, left \in SUBSET u.turns :
         /\ Compacted(u) = [u EXCEPT !.summary = summary, !.turns = left]
         /\ f.trimmed = {} \/ Cardinality(f.history \cup new) > Recent => AllTold(Compacted(u))
  <2>1. u.turns = Ids(u.history) /\ u.summary = None /\ u.trimmed = f.trimmed
    BY <1>8, <1>9
  <2>2. \A turn, other \in u.history : turn.id = other.id => turn = other
    BY <1>8, <1>0
  <2>3. u.history = f.history \cup new
    BY <1>8
  <2> QED
    BY <1>10, <2>1, <2>2, <2>3, CompactedIs
<1>12. PICK b : b = [Merged(f, o) EXCEPT !.revision = f.revision + 1]
  OBVIOUS
<1>13. b = [revision |-> f.revision + 1, history |-> f.history \cup new,
            turns |-> left, summary |-> summary, sequence |-> n,
            trimmedThrough |-> f.trimmedThrough, trimmed |-> f.trimmed,
            artifacts |-> (f.artifacts \cup s.artifacts) \ (f.tombstones \cup s.tombstones),
            tombstones |-> f.tombstones \cup s.tombstones]
  <2>1. Merged(f, o) = [u EXCEPT !.summary = summary, !.turns = left]
    BY <1>7, <1>11 DEF Merged
  <2>2. b = [[u EXCEPT !.summary = summary, !.turns = left] EXCEPT !.revision = f.revision + 1]
    BY <1>12, <2>1
  <2> QED
    BY ONLY <1>8, <1>9, <2>2
<1>14. /\ Compacted(u).history = b.history /\ Compacted(u).trimmed = b.trimmed
       /\ Compacted(u).turns = b.turns /\ Compacted(u).summary = b.summary
  BY <1>8, <1>9, <1>11, <1>13
<1>15. b \in Sessions /\ b.turns \subseteq Ids(b.history)
  <2>1. f.history \cup new \in Histories
    BY <1>0
  <2>2. left \subseteq Ids(f.history \cup new)
    BY <1>8
  <2>3. Ids(f.history \cup new) \in SUBSET Turns
    BY <2>1 DEF Ids, Histories
  <2>4. /\ f.revision + 1 \in Nat /\ f.trimmedThrough \in Nat /\ n \in Nat
        /\ f.trimmed \in SUBSET Turns /\ summary \in {None} \cup SUBSET Turns
        /\ (f.artifacts \cup s.artifacts) \ (f.tombstones \cup s.tombstones) \in SUBSET Nat
        /\ f.tombstones \cup s.tombstones \in SUBSET Nat
    BY <1>1 DEF Sessions
  <2>5. left \in SUBSET Turns
    BY <2>2, <2>3
  <2>6. b \in Sessions
    BY ONLY <1>13, <2>1, <2>4, <2>5 DEF Sessions, Histories
  <2> QED
    BY <1>13, <2>2, <2>6
<1>16. Standing(b)
  <2>1. f.trimmedThrough <= n
    BY <1>1 DEF SoundFile, Fresh, Sessions
  <2> QED
    BY <1>13, <1>15, <2>1, <1>0 DEF Standing
<1>17. (f.trimmed # {} => Cardinality(f.history) > Recent) => AllTold(b)
  <2>1. Cardinality(f.history) <= Cardinality(f.history \cup new)
        /\ Cardinality(f.history) \in Nat /\ Cardinality(f.history \cup new) \in Nat
    <3>1. IsFiniteSet(f.history \cup new)
      BY HistoryIsFinite, <1>0
    <3> QED
      BY <3>1, FS_Subset, FS_CardinalityType
  <2>2. AllTold(Compacted(u)) => AllTold(b)
    BY <1>14 DEF AllTold
  <2> QED
    BY <1>11, <2>1, <2>2, SessionAssumption
<1> QED
  BY <1>2, <1>12, <1>13, <1>15, <1>16, <1>17 DEF Brings

LEMMA WrittenIs ==
  ASSUME NEW ids \in Nat, NEW f, NEW s, SoundFile(f, ids), SoundCopy(s, ids), CopyOf(s, f),
         NEW room \in Nat
  PROVE  \E new, n, b, cut, through :
           /\ Fresh(new, f, s, n) /\ Brings(b, new, n, f, s) /\ Trims(cut, through, b, room)
           /\ Stored(f, s, room) = Without(b, cut, through)
<1>1. PICK new, n : Fresh(new, f, s, n) /\ Ordered(f, s) = OrderedWith(new, f, s, n)
  BY OrderedIs
<1>2. PICK b : b = [(IF Stale(f, s) THEN Merged(f, Ordered(f, s)) ELSE Ordered(f, s))
                      EXCEPT !.revision = f.revision + 1]
  OBVIOUS
<1>3. Brings(b, new, n, f, s)
  BY <1>1, <1>2, FreshIsWritten, MergedIsWritten
<1>4. Stored(f, s, room) = Fit(b, room)
  BY <1>2 DEF Stored
<1>5. PICK cut, through : Trims(cut, through, b, room) /\ Fit(b, room) = Without(b, cut, through)
  BY <1>3, FitIs DEF Brings
<1> QED
  BY <1>1, <1>3, <1>4, <1>5

LEMMA WithoutIs ==
  ASSUME NEW ids \in Nat, NEW f, NEW s, SoundFile(f, ids), SoundCopy(s, ids), CopyOf(s, f),
         NEW room \in Nat, NEW new, NEW n, NEW b, NEW cut, NEW through,
         Fresh(new, f, s, n), Brings(b, new, n, f, s), Trims(cut, through, b, room),
         NEW t, t = Without(b, cut, through)
  PROVE  /\ SoundFile(t, ids) /\ CopyOf(t, t)
         /\ t.revision = f.revision + 1 /\ t.sequence = n /\ t.trimmedThrough = through
         /\ t.history = (f.history \cup new) \ cut /\ t.trimmed = f.trimmed \cup Ids(cut)
         /\ t.artifacts = b.artifacts /\ t.tombstones = b.tombstones
         /\ t.turns = b.turns /\ t.summary = b.summary
         /\ Ids(t.history) \cup t.trimmed
              = Ids(f.history) \cup Ids(Unnumbered(s)) \cup f.trimmed
<1>0. /\ f.history \cup new \in Histories
      /\ Ids(f.history \cup new) = Ids(f.history) \cup Ids(Unnumbered(s))
      /\ \A turn \in new : turn.id \notin Ids(f.history)
      /\ \A turn \in f.history \cup new : f.trimmedThrough < turn.seq /\ turn.seq <= n
      /\ \A turn, other \in f.history \cup new :
           turn.seq = other.seq \/ turn.id = other.id => turn = other
  BY ONLY ZenonT(40), SoundFile(f, ids), SoundCopy(s, ids), CopyOf(s, f), Fresh(new, f, s, n),
          ids \in Nat, TogetherStand
<1>1. /\ b \in Sessions /\ b.revision = f.revision + 1 /\ b.sequence = n
      /\ b.history = f.history \cup new /\ b.turns \subseteq Ids(b.history)
      /\ b.trimmed = f.trimmed /\ b.trimmedThrough = f.trimmedThrough
  BY DEF Brings, Standing
<1>2. /\ t.revision = f.revision + 1 /\ t.sequence = n /\ t.trimmedThrough = through
      /\ t.history = (f.history \cup new) \ cut /\ t.trimmed = f.trimmed \cup Ids(cut)
      /\ t.artifacts = b.artifacts /\ t.tombstones = b.tombstones
      /\ t.turns = b.turns /\ t.summary = b.summary
  BY <1>1 DEF Without, Sessions
<1>3. /\ cut \in SUBSET (f.history \cup new) /\ Ids(cut) \cap b.turns = {}
      /\ through \in Nat /\ f.trimmedThrough <= through /\ through <= n
      /\ \A turn \in cut : turn.seq <= through
      /\ \A turn \in (f.history \cup new) \ cut : through < turn.seq
  BY <1>1 DEF Trims
<1>4. Ids(cut) \cup Ids(t.history) = Ids(f.history) \cup Ids(Unnumbered(s))
  <2>1. Ids(cut) \cup Ids(t.history) = Ids(f.history \cup new)
    <3>1. f.history \cup new = cut \cup t.history
      BY <1>2, <1>3
    <3> QED
      BY ONLY <3>1 DEF Ids
  <2> QED
    BY <1>0, <2>1
<1>5. t \in Sessions
  <2>1. Ids(cut) \in SUBSET Turns
    BY <1>0, <1>3 DEF Ids, Histories
  <2>2. (f.history \cup new) \ cut \in SUBSET [id : Turns, seq : Nat]
    BY <1>0 DEF Histories
  <2> QED
    BY ONLY <1>1, <1>3, <2>1, <2>2, t = Without(b, cut, through) DEF Without, Sessions
<1>6. \A turn \in f.history \cup new : turn.id <= ids
  <2>1. \A id \in Ids(f.history) \cup Ids(Unnumbered(s)) : id <= ids
    BY DEF Ids, Unnumbered, SoundFile, SoundCopy
  <2>2. \A turn \in f.history \cup new : turn.id \in Ids(f.history \cup new)
    BY DEF Ids
  <2> QED
    BY ONLY <1>0, <2>1, <2>2
<1>7. t.turns \subseteq Ids(t.history)
  <2>1. \A id \in b.turns : \E turn \in f.history \cup new : turn.id = id
    BY <1>1 DEF Ids
  <2>2. \A turn \in cut : turn.id \notin b.turns
    BY <1>3 DEF Ids
  <2>3. \A id \in b.turns : \E turn \in t.history : turn.id = id
    BY <1>2, <2>1, <2>2
  <2> QED
    BY <1>2, <2>3 DEF Ids
<1>8. SoundCopy(t, ids)
  BY <1>0, <1>2, <1>5, <1>6, <1>7 DEF SoundCopy
<1>9. \A id \in t.trimmed : id <= ids
  BY <1>2, <1>3, <1>6 DEF Ids, SoundFile
<1>10. Ids(t.history) \cap t.trimmed = {}
  <2> SUFFICES ASSUME NEW turn \in t.history, turn.id \in t.trimmed PROVE FALSE
    BY DEF Ids
  <2>1. turn \in f.history \cup new /\ turn \notin cut
    BY <1>2
  <2>2. CASE turn.id \in Ids(cut)
    <3>1. PICK other \in cut : other.id = turn.id
      BY <2>2 DEF Ids
    <3> QED
      BY <1>0, <1>3, <2>1, <3>1
  <2>3. CASE turn.id \in f.trimmed
    <3>1. turn.id \in Ids(f.history) \cup Ids(Unnumbered(s))
      BY <1>0, <2>1 DEF Ids
    <3>2. \A id \in Ids(Unnumbered(s)) : id \notin f.trimmed
      BY DEF Ids, Unnumbered, CopyOf
    <3> QED
      BY <2>3, <3>1, <3>2 DEF SoundFile
  <2> QED
    BY <1>2, <2>2, <2>3
<1>11. SoundFile(t, ids)
  <2>1. \A turn \in t.history : t.trimmedThrough < turn.seq /\ turn.seq <= t.sequence
    BY <1>0, <1>2, <1>3
  <2>2. \A turn, other \in t.history : turn.seq = other.seq => turn = other
    BY <1>0, <1>2
  <2> QED
    BY <1>2, <1>3, <1>8, <1>9, <1>10, <2>1, <2>2 DEF SoundFile
<1>12. CopyOf(t, t)
  <2>1. /\ t.revision \in Nat /\ t.sequence \in Nat /\ t.trimmedThrough \in Nat
        /\ \A turn \in t.history : turn.seq \in Nat
    BY <1>5 DEF Sessions
  <2>2. \A turn \in t.history : turn.seq # 0
    BY <2>1, <1>11 DEF SoundFile
  <2> QED
    BY <2>1, <2>2 DEF CopyOf
<1> QED
  BY <1>2, <1>4, <1>11, <1>12

LEMMA OthersAreCopies ==
  ASSUME NEW ids \in Nat, NEW f, NEW s, SoundFile(f, ids), SoundCopy(s, ids), CopyOf(s, f),
         NEW new, NEW cut, NEW n \in Nat, NEW t, SoundFile(t, ids), f.sequence <= n,
         t.revision = f.revision + 1, t.sequence = n, f.trimmedThrough <= t.trimmedThrough,
         t.history = (f.history \cup new) \ cut, t.trimmed = f.trimmed \cup Ids(cut),
         \A turn \in cut : turn.seq <= t.trimmedThrough,
         Ids(t.history) \cup t.trimmed = Ids(f.history) \cup Ids(Unnumbered(s)) \cup f.trimmed,
         NEW c, SoundCopy(c, ids), CopyOf(c, f),
         \A turn \in c.history : turn.seq = 0 => turn.id \notin Ids(s.history)
  PROVE  CopyOf(c, t)
<1>1. c \in Sessions /\ f \in Sessions /\ t \in Sessions
  BY DEF SoundFile, SoundCopy
<1>2. /\ c.revision <= t.revision /\ c.revision # t.revision /\ c.sequence <= t.sequence
      /\ c.trimmedThrough <= t.trimmedThrough /\ c.trimmed \subseteq t.trimmed
  BY <1>1 DEF CopyOf, Sessions
<1>3. ASSUME NEW turn \in c.history, turn.seq = 0
      PROVE  turn.id \notin Ids(t.history) \cup t.trimmed
  <2>1. turn.id \notin Ids(f.history) \cup f.trimmed
    BY <1>3 DEF CopyOf
  <2>2. turn.id \notin Ids(Unnumbered(s))
    BY <1>3 DEF Ids, Unnumbered
  <2> QED
    BY <2>1, <2>2
<1>4. ASSUME NEW turn \in c.history, turn.seq # 0
      PROVE  turn \in t.history \/ (turn.id \in t.trimmed /\ turn.seq <= t.trimmedThrough)
  <2>1. CASE turn \in cut
    BY <2>1 DEF Ids
  <2>2. CASE turn \in f.history /\ turn \notin cut
    BY <2>2
  <2>3. CASE turn \notin f.history
    <3>1. turn.id \in f.trimmed /\ turn.seq <= f.trimmedThrough
      BY <1>4, <2>3 DEF CopyOf
    <3>2. turn.seq \in Nat /\ f.trimmedThrough \in Nat /\ t.trimmedThrough \in Nat
      BY <1>1 DEF Sessions
    <3> QED
      BY <3>1, <3>2
  <2> QED
    BY <2>1, <2>2, <2>3
<1> QED
  BY <1>2, <1>3, <1>4 DEF CopyOf

LEMMA ToldAgain ==
  ASSUME NEW f, NEW s, NEW room \in Nat, NEW new, NEW n, NEW b, NEW cut, NEW through, NEW t,
         room > Recent, f.history \cup new \in Histories,
         Standing(b), Brings(b, new, n, f, s), Trims(cut, through, b, room),
         t = Without(b, cut, through),
         AllTold(f), AllTold(s), f.trimmed # {} => Cardinality(f.history) > Recent
  PROVE  AllTold(t) /\ (t.trimmed # {} => Cardinality(t.history) > Recent)
<1>1. AllTold(b) /\ b.history = f.history \cup new /\ b.trimmed = f.trimmed
  BY DEF Brings
<1>2. /\ t.history = b.history \ cut /\ t.trimmed = b.trimmed \cup Ids(cut)
      /\ t.turns = b.turns /\ t.summary = b.summary
  BY DEF Standing, Sessions, Without
<1>3. cut \in SUBSET b.history /\ (cut # {} => Cardinality(b.history \ cut) >= room)
  BY DEF Trims
<1>4. AllTold(t)
  <2>1. Ids(t.history) \cup t.trimmed \subseteq Ids(b.history) \cup b.trimmed
    BY <1>1, <1>3, <1>2 DEF Ids
  <2> QED
    BY <1>1, <1>2, <2>1 DEF AllTold
<1>5. /\ IsFiniteSet(b.history) /\ Cardinality(b.history) \in Nat
      /\ Cardinality(f.history) \in Nat /\ Cardinality(f.history) <= Cardinality(b.history)
      /\ Cardinality(t.history) \in Nat
  <2>1. IsFiniteSet(b.history)
    BY <1>1, HistoryIsFinite DEF Standing
  <2>2. f.history \in SUBSET b.history /\ t.history \in SUBSET b.history
    BY <1>1, <1>2
  <2> QED
    BY <2>1, <2>2, FS_Subset, FS_CardinalityType
<1>6. ASSUME t.trimmed # {} PROVE Cardinality(t.history) > Recent
  <2>1. CASE cut = {}
    <3>1. t.history = b.history /\ f.trimmed # {}
      BY <1>1, <1>6, <1>2, <2>1 DEF Ids
    <3> QED
      BY <1>5, <3>1, SessionAssumption
  <2>2. CASE cut # {}
    BY <1>1, <1>3, <1>5, <1>2, <2>2, SessionAssumption
  <2> QED
    BY <2>1, <2>2
<1> QED
  BY <1>4, <1>6

RoomForMore == \A room \in Rooms : room > Recent

HistoryTypes ==
  /\ file \in {None} \cup Sessions /\ held \in [Procs -> {None} \cup Sessions]
  /\ taken \in Nat /\ written \in Nat
  /\ directory \subseteq Nat /\ \A index \in directory : index <= written
  /\ saving \in [Procs -> {None} \cup SUBSET Nat]
  /\ \A p \in Procs :
       saving[p] # None => held[p] # None /\ saving[p] \subseteq held[p].artifacts
  /\ deleted \in BOOLEAN /\ (deleted <=> file = None)
CopiesAreSound ==
  /\ \A p \in Procs : held[p] # None => SoundCopy(held[p], taken)
  /\ \A p, q \in Procs : p # q /\ held[p] # None /\ held[q] # None =>
       \A turn \in held[p].history : turn.seq = 0 => turn.id \notin Ids(held[q].history)
FileIsSound ==
  file # None =>
    /\ SoundFile(file, taken) /\ dropped = file.trimmed
    /\ \A p \in Procs : held[p] # None => CopyOf(held[p], file)
DemandsAreTold ==
  /\ \A p \in Procs : held[p] # None => AllTold(held[p])
  /\ file # None => /\ AllTold(file)
                    /\ file.trimmed # {} => Cardinality(file.history) > Recent

HistoryInv ==
  /\ HistoryTypes /\ CopiesAreSound /\ FileIsSound
  /\ OneNumberPerTurn /\ SavedTurnsKept /\ ArtifactsKept
  /\ RoomForMore => DemandsAreTold

(* The turns that anybody has.                                               *)
Anywhere == UNION {s.history : s \in Copies \ {None}}

LEMMA AnywhereIs ==
  \A turn : turn \in Anywhere <=>
    \/ file # None /\ turn \in file.history
    \/ \E p \in Procs : held[p] # None /\ turn \in held[p].history
BY DEF Anywhere, Copies

LEMMA AnywhereNext ==
  \A turn : turn \in Anywhere' <=>
    \/ file' # None /\ turn \in file'.history
    \/ \E p \in Procs : held'[p] # None /\ turn \in held'[p].history
BY DEF Anywhere, Copies

LEMMA OrderStays ==
  ASSUME OneNumberPerTurn, \A turn \in Anywhere' : turn.seq > 0 => turn \in Anywhere
  PROVE  OneNumberPerTurn'
BY DEF OneNumberPerTurn, Anywhere

(* A process changes its copy, or loads one; the file stays.                 *)
MayHave(p, c, ids) ==
  c # None =>
    /\ SoundCopy(c, ids) /\ (file # None => CopyOf(c, file)) /\ (RoomForMore => AllTold(c))
    /\ \A turn \in c.history : turn.seq > 0 => turn \in Anywhere
    /\ \A q \in Procs \ {p} : held[q] # None =>
         /\ \A turn \in c.history : turn.seq = 0 => turn.id \notin Ids(held[q].history)
         /\ \A turn \in held[q].history : turn.seq = 0 => turn.id \notin Ids(c.history)

LEMMA CopyChanges ==
  ASSUME HistoryInv, NEW p \in Procs, NEW c \in {None} \cup Sessions,
         held' = [held EXCEPT ![p] = c], UNCHANGED <<file, deleted, acked, dropped>>,
         taken' \in Nat, taken <= taken', MayHave(p, c, taken')
  PROVE  /\ CopiesAreSound' /\ FileIsSound' /\ OneNumberPerTurn' /\ SavedTurnsKept'
         /\ (RoomForMore => DemandsAreTold)'
<1> USE DEF HistoryInv, MayHave
<1>1. /\ held'[p] = c /\ \A q \in Procs \ {p} : held'[q] = held[q]
      /\ taken \in Nat
  BY DEF HistoryTypes
<1>2. \A s : SoundCopy(s, taken) => SoundCopy(s, taken')
  <2> SUFFICES ASSUME NEW s, SoundCopy(s, taken) PROVE SoundCopy(s, taken')
    OBVIOUS
  <2>1. \A turn \in s.history : turn.id \in Int
    BY SessionAssumption DEF SoundCopy, Sessions, Turns
  <2> QED
    BY <1>1, <2>1 DEF SoundCopy
<1>3. \A s : SoundFile(s, taken) => SoundFile(s, taken')
  <2> SUFFICES ASSUME NEW s, SoundFile(s, taken) PROVE SoundFile(s, taken')
    OBVIOUS
  <2>1. \A id \in s.trimmed : id \in Int
    BY SessionAssumption DEF SoundFile, SoundCopy, Sessions, Turns
  <2> QED
    BY <1>1, <1>2, <2>1 DEF SoundFile
<1>4. CopiesAreSound'
  <2>1. \A q \in Procs : held'[q] # None => SoundCopy(held'[q], taken')
    BY <1>1, <1>2 DEF CopiesAreSound
  <2>2. ASSUME NEW q \in Procs, NEW r \in Procs, q # r, held'[q] # None, held'[r] # None,
               NEW turn \in held'[q].history, turn.seq = 0
        PROVE  turn.id \notin Ids(held'[r].history)
    <3>1. CASE q = p
      BY <1>1, <2>2, <3>1
    <3>2. CASE r = p
      BY <1>1, <2>2, <3>2
    <3>3. CASE q # p /\ r # p
      BY <1>1, <2>2, <3>3 DEF CopiesAreSound
    <3> QED
      BY <3>1, <3>2, <3>3
  <2> QED
    BY <2>1, <2>2 DEF CopiesAreSound
<1>5. FileIsSound'
  BY <1>1, <1>3 DEF FileIsSound
<1>6. OneNumberPerTurn'
  <2>1. \A turn \in Anywhere' : turn.seq > 0 => turn \in Anywhere
    <3> SUFFICES ASSUME NEW turn \in Anywhere', turn.seq > 0 PROVE turn \in Anywhere
      OBVIOUS
    <3>1. CASE file' # None /\ turn \in file'.history
      BY <3>1, AnywhereIs
    <3>2. CASE \E q \in Procs : held'[q] # None /\ turn \in held'[q].history
      <4>1. PICK q \in Procs : held'[q] # None /\ turn \in held'[q].history
        BY <3>2
      <4>2. CASE q = p
        BY <1>1, <4>1, <4>2
      <4>3. CASE q # p
        BY <1>1, <4>1, <4>3, AnywhereIs
      <4> QED
        BY <4>2, <4>3
    <3> QED
      BY <3>1, <3>2, AnywhereNext
  <2> QED
    BY <2>1, OrderStays
<1>7. SavedTurnsKept'
  BY DEF SavedTurnsKept
<1>8. (RoomForMore => DemandsAreTold)'
  BY <1>1 DEF DemandsAreTold, RoomForMore
<1> QED
  BY <1>4, <1>5, <1>6, <1>7, <1>8

LEMMA LoadHistory == ASSUME HistoryInv, NEW p \in Procs, Load(p) PROVE HistoryInv'
<1> USE DEF HistoryInv
<1>1. /\ held[p] = None /\ file # None /\ file \in Sessions
      /\ held' = [held EXCEPT ![p] = file]
      /\ UNCHANGED <<file, deleted, saving, directory, indexLock, taken, written, acked,
                     wanted, dropped>>
  BY DEF Load, HistoryTypes
<1>2. SoundFile(file, taken) /\ SoundCopy(file, taken)
  BY <1>1 DEF FileIsSound, SoundFile
<1>3. \A turn \in file.history : turn.seq # 0
  BY <1>1, <1>2 DEF SoundFile, Sessions
<1>4. CopyOf(file, file)
  BY <1>1, <1>3 DEF CopyOf, Sessions
<1>5. \A q \in Procs \ {p} : held[q] # None =>
        \A turn \in held[q].history : turn.seq = 0 => turn.id \notin Ids(file.history)
  BY <1>1 DEF FileIsSound, CopyOf
<1>6. RoomForMore => AllTold(file)
  BY <1>1 DEF DemandsAreTold
<1>7. \A turn \in file.history : turn \in Anywhere
  BY <1>1, AnywhereIs
<1>8. taken \in Nat /\ taken' = taken
  BY <1>1 DEF HistoryTypes
<1>9. /\ CopiesAreSound' /\ FileIsSound' /\ OneNumberPerTurn' /\ SavedTurnsKept'
      /\ (RoomForMore => DemandsAreTold)'
  <2>1. MayHave(p, file, taken')
    BY <1>2, <1>3, <1>4, <1>5, <1>6, <1>7, <1>8 DEF MayHave
  <2>2. taken' \in Nat /\ taken <= taken'
    BY <1>8
  <2> QED
    BY ONLY <1>1, <2>1, <2>2, CopyChanges, HistoryInv, p \in Procs
<1>10. HistoryTypes' /\ ArtifactsKept'
  BY <1>1 DEF HistoryTypes, ArtifactsKept
<1> QED
  BY <1>9, <1>10

LEMMA RecordHistory == ASSUME HistoryInv, NEW p \in Procs, RecordTurn(p) PROVE HistoryInv'
<1> USE DEF HistoryInv
<1>1. PICK added : added = [id |-> taken + 1, seq |-> 0]
  OBVIOUS
<1>2. PICK s : s = [held[p] EXCEPT !.history = @ \cup {added}, !.turns = @ \cup {taken + 1}]
  OBVIOUS
<1>3. /\ held[p] # None /\ held[p] \in Sessions /\ saving[p] = None /\ taken < MaxTurns
      /\ taken' = taken + 1 /\ held' = [held EXCEPT ![p] = Compacted(s)]
      /\ saving' = [saving EXCEPT ![p] = {}] /\ taken \in Nat
      /\ UNCHANGED <<file, deleted, directory, indexLock, written, acked, wanted, dropped>>
  <2>1. /\ held[p] # None /\ saving[p] = None /\ taken < MaxTurns
        /\ taken' = taken + 1 /\ saving' = [saving EXCEPT ![p] = {}]
        /\ UNCHANGED <<file, deleted, directory, indexLock, written, acked, wanted, dropped>>
    BY DEF RecordTurn
  <2>2. held' = [held EXCEPT ![p] = Compacted(
          [held[p] EXCEPT !.history = @ \cup {[id |-> taken + 1, seq |-> 0]},
                          !.turns = @ \cup {taken + 1}])]
    BY DEF RecordTurn
  <2>3. held' = [held EXCEPT ![p] = Compacted(s)]
    BY ONLY <1>1, <1>2, <2>2
  <2> QED
    BY <2>1, <2>3 DEF HistoryTypes
<1>4. /\ added \in [id : Turns, seq : Nat] /\ taken + 1 \in Turns /\ added.id = taken + 1
      /\ added.seq = 0
  BY <1>1, <1>3, SessionAssumption DEF Turns
<1>5. /\ s \in Sessions
      /\ s.history = held[p].history \cup {added} /\ s.turns = held[p].turns \cup {taken + 1}
      /\ s.summary = held[p].summary /\ s.trimmed = held[p].trimmed
      /\ s.artifacts = held[p].artifacts /\ s.tombstones = held[p].tombstones
      /\ s.revision = held[p].revision /\ s.sequence = held[p].sequence
      /\ s.trimmedThrough = held[p].trimmedThrough
  BY <1>2, <1>3, <1>4 DEF Sessions
<1>6. SoundCopy(held[p], taken)
  BY <1>3 DEF CopiesAreSound
<1>7. \A other \in held[p].history : other.id <= taken /\ other.id \in Nat
  BY <1>3, <1>6, SessionAssumption DEF SoundCopy, Sessions, Turns
<1>8. /\ s.turns \subseteq Ids(s.history)
      /\ \A one, other \in s.history : one.id = other.id => one = other
      /\ \A one \in s.history : one.id <= taken + 1
  <2>1. s.turns \subseteq Ids(s.history)
    <3>1. Ids(s.history) = Ids(held[p].history) \cup {taken + 1}
      BY <1>4, <1>5 DEF Ids
    <3> QED
      BY <1>5, <1>6, <3>1 DEF SoundCopy
  <2>2. \A one, other \in s.history : one.id = other.id => one = other
    BY <1>3, <1>4, <1>5, <1>6, <1>7 DEF SoundCopy
  <2>3. \A one \in s.history : one.id <= taken + 1
    BY <1>3, <1>4, <1>5, <1>7
  <2> QED
    BY ONLY <2>1, <2>2, <2>3
<1>9. PICK summary \in {None} \cup SUBSET Turns, left \in SUBSET s.turns :
        /\ Compacted(s) = [s EXCEPT !.summary = summary, !.turns = left]
        /\ AllTold(s) => AllTold(Compacted(s))
  BY <1>5, <1>8, CompactedIs
<1>10. PICK c : c = Compacted(s)
  OBVIOUS
<1>11. /\ c \in Sessions /\ c.history = s.history /\ c.turns = left /\ c.trimmed = s.trimmed
       /\ c.artifacts = s.artifacts /\ c.tombstones = s.tombstones
       /\ c.revision = s.revision /\ c.sequence = s.sequence
       /\ c.trimmedThrough = s.trimmedThrough
  <2>1. left \in SUBSET Turns
    BY <1>5 DEF Sessions
  <2> QED
    BY <1>5, <1>9, <1>10, <2>1 DEF Sessions
<1>12. c # None
  BY <1>11, SessionAssumption
<1>13. SoundCopy(c, taken')
  BY <1>3, <1>8, <1>11 DEF SoundCopy
<1>14. ASSUME file # None PROVE CopyOf(c, file)
  <2>1. SoundFile(file, taken) /\ CopyOf(held[p], file)
    BY <1>3, <1>14 DEF FileIsSound
  <2>2. added.id \notin Ids(file.history) \cup file.trimmed
    BY <1>3, <1>4, <2>1 DEF SoundFile, SoundCopy, Ids
  <2>3. file.history \subseteq held[p].history => file.history \subseteq c.history
    BY <1>5, <1>11
  <2> QED
    BY <1>4, <1>5, <1>11, <2>1, <2>2, <2>3 DEF CopyOf
<1>15. ASSUME RoomForMore PROVE AllTold(c)
  <2>1. AllTold(held[p])
    BY <1>3, <1>15 DEF DemandsAreTold
  <2>2. Ids(s.history) = Ids(held[p].history) \cup {taken + 1}
    BY <1>4, <1>5 DEF Ids
  <2>3. AllTold(s)
    BY <1>5, <2>1, <2>2 DEF AllTold
  <2> QED
    BY <1>9, <1>10, <2>3
<1>16. \A one \in c.history : one.seq > 0 => one \in Anywhere
  BY <1>3, <1>4, <1>5, <1>11, AnywhereIs
<1>17. ASSUME NEW q \in Procs \ {p}, held[q] # None
       PROVE  /\ \A one \in c.history : one.seq = 0 => one.id \notin Ids(held[q].history)
              /\ \A one \in held[q].history : one.seq = 0 => one.id \notin Ids(c.history)
  <2>1. \A one \in held[q].history : one.id <= taken /\ one.id \in Nat
    <3>1. SoundCopy(held[q], taken)
      BY <1>17 DEF CopiesAreSound
    <3> QED
      BY <3>1, SessionAssumption DEF SoundCopy, Sessions, Turns
  <2>2. added.id \notin Ids(held[q].history)
    BY <1>3, <1>4, <2>1 DEF Ids
  <2>3. \A one \in held[q].history : one.id # added.id
    BY <1>3, <1>4, <2>1
  <2>4. \A one \in held[p].history : one.seq = 0 => one.id \notin Ids(held[q].history)
    BY <1>3, <1>17 DEF CopiesAreSound
  <2>5. \A one \in held[q].history : one.seq = 0 => one.id \notin Ids(held[p].history)
    BY <1>3, <1>17 DEF CopiesAreSound
  <2> QED
    BY <1>5, <1>11, <2>2, <2>3, <2>4, <2>5 DEF Ids
<1>18. held' = [held EXCEPT ![p] = c] /\ taken' \in Nat /\ taken <= taken'
  BY <1>3, <1>10
<1>19. /\ CopiesAreSound' /\ FileIsSound' /\ OneNumberPerTurn' /\ SavedTurnsKept'
       /\ (RoomForMore => DemandsAreTold)'
  <2>1. MayHave(p, c, taken')
    BY <1>13, <1>14, <1>15, <1>16, <1>17 DEF MayHave
  <2> QED
    BY ONLY <1>3, <1>11, <1>18, <2>1, CopyChanges, HistoryInv, p \in Procs
<1>20. HistoryTypes' /\ ArtifactsKept'
  <2>1. \A q \in Procs : saving'[q] # None =>
          held'[q] # None /\ saving'[q] \subseteq held'[q].artifacts
    <3> TAKE q \in Procs
    <3>1. CASE q = p
      <4>1. held'[p] = c /\ (saving'[p] # None => saving'[p] = {})
        BY <1>3, <1>18 DEF HistoryTypes
      <4> QED
        BY <1>12, <3>1, <4>1
    <3>2. CASE q # p
      BY <1>3, <1>18, <3>2 DEF HistoryTypes
    <3> QED
      BY <3>1, <3>2
  <2> QED
    BY <1>3, <1>11, <1>18, <2>1 DEF HistoryTypes, ArtifactsKept
<1> QED
  BY <1>19, <1>20

(* What a copy lists of the artifacts may be anything that is newer.         *)
LEMMA SameTurns ==
  ASSUME HistoryInv, NEW p \in Procs, held[p] # None, NEW c \in Sessions,
         NEW artifacts \in SUBSET Nat, NEW tombstones \in SUBSET Nat,
         c = [held[p] EXCEPT !.artifacts = artifacts, !.tombstones = tombstones],
         held[p].artifacts \cup held[p].tombstones \subseteq artifacts \cup tombstones,
         held[p].tombstones \subseteq tombstones
  PROVE  MayHave(p, c, taken)
<1> USE DEF HistoryInv
<1>1. held[p] \in Sessions /\ SoundCopy(held[p], taken)
  BY DEF HistoryTypes, CopiesAreSound
<1>2. /\ c.history = held[p].history /\ c.turns = held[p].turns
      /\ c.summary = held[p].summary /\ c.trimmed = held[p].trimmed
      /\ c.revision = held[p].revision /\ c.sequence = held[p].sequence
      /\ c.trimmedThrough = held[p].trimmedThrough
      /\ c.artifacts = artifacts /\ c.tombstones = tombstones
  BY <1>1 DEF Sessions
<1>3. SoundCopy(c, taken)
  BY <1>1, <1>2 DEF SoundCopy
<1>4. ASSUME file # None PROVE CopyOf(c, file)
  <2>1. CopyOf(held[p], file)
    BY <1>4 DEF FileIsSound
  <2> QED
    BY <1>2, <2>1 DEF CopyOf
<1>5. RoomForMore => AllTold(c)
  BY <1>2 DEF DemandsAreTold, AllTold
<1>6. \A turn \in c.history : turn \in Anywhere
  BY <1>2, AnywhereIs
<1>7. \A q \in Procs \ {p} : held[q] # None =>
        /\ \A turn \in c.history : turn.seq = 0 => turn.id \notin Ids(held[q].history)
        /\ \A turn \in held[q].history : turn.seq = 0 => turn.id \notin Ids(c.history)
  BY <1>2 DEF CopiesAreSound
<1> QED
  BY <1>3, <1>4, <1>5, <1>6, <1>7 DEF MayHave

LEMMA SaveArtifactHistory == ASSUME HistoryInv, NEW p \in Procs, SaveArtifact(p) PROVE HistoryInv'
<1> USE DEF HistoryInv
<1>1. /\ held[p] # None /\ held[p] \in Sessions /\ saving[p] = None /\ taken \in Nat
      /\ written' = written + 1 /\ written \in Nat
      /\ directory' = directory \cup {NextIndex}
      /\ held' = [held EXCEPT ![p].artifacts = @ \cup {NextIndex}]
      /\ saving' = [saving EXCEPT ![p] = {NextIndex}]
      /\ UNCHANGED <<file, deleted, indexLock, taken, acked, wanted, dropped>>
  BY DEF SaveArtifact, HistoryTypes
<1>2. NextIndex \in Nat /\ NextIndex <= written + 1
  <2>1. CASE directory = {}
    BY <1>1, <2>1 DEF NextIndex
  <2>2. CASE directory # {}
    <3>1. directory \in SUBSET Nat /\ \A index \in directory : index <= written
      BY DEF HistoryTypes
    <3>2. Latest(directory) \in directory
      BY <1>1, <2>2, <3>1, GreatestOf
    <3> QED
      BY <1>1, <2>2, <3>1, <3>2 DEF NextIndex
  <2> QED
    BY <2>1, <2>2
<1>3. PICK c : c = [held[p] EXCEPT !.artifacts = held[p].artifacts \cup {NextIndex},
                                   !.tombstones = held[p].tombstones]
  OBVIOUS
<1>4. /\ c \in Sessions /\ c.artifacts = held[p].artifacts \cup {NextIndex}
      /\ held[p].artifacts \cup {NextIndex} \in SUBSET Nat /\ held[p].tombstones \in SUBSET Nat
      /\ c = [held[p] EXCEPT !.artifacts = @ \cup {NextIndex}]
  BY <1>1, <1>2, <1>3 DEF Sessions
<1>5. held' = [held EXCEPT ![p] = c]
  BY <1>1, <1>4
<1>6. c # None
  BY <1>4, SessionAssumption
<1>7. MayHave(p, c, taken)
  BY <1>1, <1>3, <1>4, SameTurns
<1>8. /\ CopiesAreSound' /\ FileIsSound' /\ OneNumberPerTurn' /\ SavedTurnsKept'
      /\ (RoomForMore => DemandsAreTold)'
  <2>1. taken' = taken /\ taken' \in Nat /\ taken <= taken'
    BY <1>1
  <2> QED
    BY ONLY <1>1, <1>4, <1>5, <1>7, <2>1, CopyChanges, HistoryInv, p \in Procs
<1>9. HistoryTypes' /\ ArtifactsKept'
  <2>1. \A q \in Procs : saving'[q] # None =>
          held'[q] # None /\ saving'[q] \subseteq held'[q].artifacts
    <3> TAKE q \in Procs
    <3>1. CASE q = p
      <4>1. held'[p] = c /\ (saving'[p] # None => saving'[p] = {NextIndex})
        BY <1>1, <1>5 DEF HistoryTypes
      <4> QED
        BY <1>4, <1>6, <3>1, <4>1
    <3>2. CASE q # p
      BY <1>1, <1>5, <3>2 DEF HistoryTypes
    <3> QED
      BY <3>1, <3>2
  <2>2. directory' \subseteq Nat /\ \A index \in directory' : index <= written'
    BY <1>1, <1>2 DEF HistoryTypes
  <2> QED
    BY <1>1, <1>4, <1>5, <2>1, <2>2 DEF HistoryTypes, ArtifactsKept
<1> QED
  BY <1>8, <1>9

LEMMA DeleteArtifactHistory ==
  ASSUME HistoryInv, NEW p \in Procs, DeleteArtifact(p) PROVE HistoryInv'
<1> USE DEF HistoryInv
<1>1. PICK id \in directory :
        /\ directory' = directory \ {id} /\ wanted' = wanted \ {id}
        /\ held' = [held EXCEPT ![p].artifacts = @ \ {id}, ![p].tombstones = @ \cup {id}]
        /\ saving' = [q \in Procs |->
                        IF q = p THEN {}
                        ELSE IF saving[q] = None THEN None ELSE saving[q] \ {id}]
  BY DEF DeleteArtifact
<1>2. /\ held[p] # None /\ held[p] \in Sessions /\ saving[p] = None /\ taken \in Nat
      /\ id \in Nat
      /\ UNCHANGED <<file, deleted, taken, written, acked, dropped>>
  BY <1>1 DEF DeleteArtifact, HistoryTypes
<1>3. PICK c : c = [held[p] EXCEPT !.artifacts = held[p].artifacts \ {id},
                                   !.tombstones = held[p].tombstones \cup {id}]
  OBVIOUS
<1>4. /\ c \in Sessions
      /\ held[p].artifacts \ {id} \in SUBSET Nat /\ held[p].tombstones \cup {id} \in SUBSET Nat
  BY <1>2, <1>3 DEF Sessions
<1>5. held' = [held EXCEPT ![p] = c]
  BY <1>1, <1>2, <1>3 DEF HistoryTypes, Sessions
<1>6. c # None
  BY <1>4, SessionAssumption
<1>7. MayHave(p, c, taken)
  BY <1>2, <1>3, <1>4, SameTurns
<1>8. /\ CopiesAreSound' /\ FileIsSound' /\ OneNumberPerTurn' /\ SavedTurnsKept'
      /\ (RoomForMore => DemandsAreTold)'
  <2>1. taken' = taken /\ taken' \in Nat /\ taken <= taken'
    BY <1>2
  <2> QED
    BY ONLY <1>2, <1>4, <1>5, <1>7, <2>1, CopyChanges, HistoryInv, p \in Procs
<1>9. HistoryTypes' /\ ArtifactsKept'
  <2>1. \A q \in Procs : saving'[q] # None =>
          held'[q] # None /\ saving'[q] \subseteq held'[q].artifacts
    <3> TAKE q \in Procs
    <3>1. CASE q = p
      <4>1. held'[p] = c /\ saving'[p] = {}
        BY <1>1, <1>5 DEF HistoryTypes
      <4> QED
        BY <1>6, <3>1, <4>1
    <3>2. CASE q # p
      <4>1. /\ held'[q] = held[q]
            /\ saving'[q] = IF saving[q] = None THEN None ELSE saving[q] \ {id}
        BY <1>1, <1>5, <3>2 DEF HistoryTypes
      <4> QED
        BY <4>1 DEF HistoryTypes
    <3> QED
      BY <3>1, <3>2
  <2>2. ArtifactsKept'
    BY <1>1, <1>2 DEF ArtifactsKept
  <2>3. saving' \in [Procs -> {None} \cup SUBSET Nat]
    BY <1>1 DEF HistoryTypes
  <2> QED
    BY <1>1, <1>2, <1>4, <1>5, <2>1, <2>2, <2>3 DEF HistoryTypes
<1> QED
  BY <1>8, <1>9

LEMMA NotSavedHistory ==
  ASSUME HistoryInv, NEW p \in Procs, saving' = [saving EXCEPT ![p] = None],
         UNCHANGED <<file, deleted, held, directory, taken, written, acked, wanted, dropped>>
  PROVE  HistoryInv'
<1> USE DEF HistoryInv
<1>1. HistoryTypes'
  BY DEF HistoryTypes
<1> QED
  BY <1>1
  DEF CopiesAreSound, FileIsSound, OneNumberPerTurn, Copies, SavedTurnsKept, ArtifactsKept,
      DemandsAreTold, RoomForMore

LEMMA SaveFailsHistory == ASSUME HistoryInv, NEW p \in Procs, SaveFails(p) PROVE HistoryInv'
BY NotSavedHistory DEF SaveFails

LEMMA CrashHistory == ASSUME HistoryInv, NEW p \in Procs, Crash(p) PROVE HistoryInv'
<1> USE DEF HistoryInv
<1>1. /\ held' = [held EXCEPT ![p] = None] /\ saving' = [saving EXCEPT ![p] = None]
      /\ UNCHANGED <<file, deleted, directory, taken, written, acked, wanted, dropped>>
  BY DEF Crash
<1>2. /\ CopiesAreSound' /\ FileIsSound' /\ OneNumberPerTurn' /\ SavedTurnsKept'
      /\ (RoomForMore => DemandsAreTold)'
  <2>1. MayHave(p, None, taken')
    BY DEF MayHave
  <2>2. taken' \in Nat /\ taken <= taken'
    BY <1>1 DEF HistoryTypes
  <2>3. None \in {None} \cup Sessions
    OBVIOUS
  <2> QED
    BY ONLY <1>1, <2>1, <2>2, <2>3, CopyChanges, HistoryInv, p \in Procs
<1>3. HistoryTypes' /\ ArtifactsKept'
  BY <1>1 DEF HistoryTypes, ArtifactsKept
<1> QED
  BY <1>2, <1>3

LEMMA DeleteHistory == ASSUME HistoryInv, NEW p \in Procs, DeleteSession(p) PROVE HistoryInv'
<1> USE DEF HistoryInv
<1>1. /\ deleted' = TRUE /\ file' = None /\ directory' = {} /\ wanted' = {} /\ dropped' = {}
      /\ UNCHANGED <<held, saving, indexLock, taken, written, acked>>
  BY DEF DeleteSession
<1>2. HistoryTypes' /\ CopiesAreSound'
  BY <1>1 DEF HistoryTypes, CopiesAreSound
<1>3. OneNumberPerTurn'
  <2>1. \A turn \in Anywhere' : turn \in Anywhere
    BY <1>1, AnywhereIs, AnywhereNext
  <2> QED
    BY <2>1, OrderStays
<1>4. FileIsSound' /\ SavedTurnsKept' /\ ArtifactsKept'
  BY <1>1 DEF FileIsSound, SavedTurnsKept, ArtifactsKept
<1>5. (RoomForMore => DemandsAreTold)'
  BY <1>1 DEF DemandsAreTold, RoomForMore
<1> QED
  BY <1>2, <1>3, <1>4, <1>5

LEMMA HistoryUnchanged == HistoryInv /\ UNCHANGED vars => HistoryInv'
BY DEF HistoryInv, HistoryTypes, CopiesAreSound, FileIsSound, OneNumberPerTurn, Copies,
       SavedTurnsKept, ArtifactsKept, DemandsAreTold, RoomForMore, vars

LEMMA HistoryBegins == SessionInit => HistoryInv
<1> SUFFICES ASSUME Init PROVE HistoryInv
  BY DEF SessionInit
<1>1. New \in Sessions /\ New # None
  BY SessionAssumption DEF New, Sessions
<1>2. /\ file = New /\ deleted = FALSE /\ held = [p \in Procs |-> None]
      /\ saving = [p \in Procs |-> None] /\ directory = {} /\ taken = 0 /\ written = 0
      /\ acked = {} /\ wanted = {} /\ dropped = {}
  BY DEF Init
<1>3. New.history = {} /\ New.turns = {} /\ New.trimmed = {} /\ New.summary = None
      /\ New.trimmedThrough = 0 /\ New.sequence = 0
  BY DEF New
<1>4. HistoryTypes /\ CopiesAreSound
  BY <1>1, <1>2 DEF HistoryTypes, CopiesAreSound
<1>5. FileIsSound
  BY <1>1, <1>2, <1>3 DEF FileIsSound, SoundFile, SoundCopy, Ids
<1>6. OneNumberPerTurn
  <2>1. Anywhere = {}
    BY <1>2, <1>3, AnywhereIs
  <2> QED
    BY <2>1 DEF OneNumberPerTurn, Anywhere
<1>7. SavedTurnsKept /\ ArtifactsKept /\ DemandsAreTold
  BY <1>2, <1>3 DEF SavedTurnsKept, ArtifactsKept, DemandsAreTold, AllTold, Ids
<1> QED
  BY <1>4, <1>5, <1>6, <1>7 DEF HistoryInv

LEMMA SavedHistory ==
  ASSUME HistoryInv, NEW p \in Procs, Save(p), ~deleted
  PROVE  HistoryInv'
<1> USE DEF HistoryInv
<1>1. /\ file # None /\ file \in Sessions /\ held[p] # None /\ held[p] \in Sessions
      /\ saving[p] # None /\ saving[p] \subseteq held[p].artifacts /\ taken \in Nat
  BY DEF Save, HistoryTypes
<1>2. PICK f : f = file
  OBVIOUS
<1>3. PICK s : s = held[p]
  OBVIOUS
<1>4. PICK room \in Rooms :
        /\ file' = Stored(f, s, room) /\ held' = [held EXCEPT ![p] = Stored(f, s, room)]
        /\ acked' = acked \cup Ids(s.history)
        /\ wanted' = wanted \cup (saving[p] \cap directory)
        /\ dropped' = dropped \cup Stored(f, s, room).trimmed
  BY <1>1, <1>2, <1>3 DEF Save, MayBeSaved
<1>5. /\ saving' = [saving EXCEPT ![p] = None]
      /\ UNCHANGED <<deleted, directory, taken, written>>
  BY DEF Save
<1>6. room \in Nat
  BY SessionAssumption
<1>7. SoundFile(f, taken) /\ SoundCopy(s, taken) /\ CopyOf(s, f) /\ dropped = f.trimmed
  BY <1>1, <1>2, <1>3 DEF FileIsSound, CopiesAreSound
<1>8. PICK new, n, b, cut, through :
        /\ Fresh(new, f, s, n) /\ Brings(b, new, n, f, s) /\ Trims(cut, through, b, room)
        /\ Stored(f, s, room) = Without(b, cut, through)
  BY ONLY <1>1, <1>6, <1>7, WrittenIs
<1>9. PICK t : t = Without(b, cut, through)
  OBVIOUS
<1>10. /\ SoundFile(t, taken) /\ CopyOf(t, t)
       /\ t.revision = f.revision + 1 /\ t.sequence = n /\ t.trimmedThrough = through
       /\ t.history = (f.history \cup new) \ cut /\ t.trimmed = f.trimmed \cup Ids(cut)
       /\ t.artifacts = b.artifacts /\ t.tombstones = b.tombstones
       /\ t.turns = b.turns /\ t.summary = b.summary
       /\ Ids(t.history) \cup t.trimmed
            = Ids(f.history) \cup Ids(Unnumbered(s)) \cup f.trimmed
  BY ONLY <1>1, <1>6, <1>7, <1>8, <1>9, WithoutIs
<1>11. /\ file' = t /\ held' = [held EXCEPT ![p] = t] /\ dropped' = dropped \cup t.trimmed
  BY <1>4, <1>8, <1>9
<1>12. t \in Sessions /\ t # None
  BY <1>10, SessionAssumption DEF SoundFile, SoundCopy
<1>13. held'[p] = t /\ \A q \in Procs \ {p} : held'[q] = held[q]
  BY <1>11 DEF HistoryTypes
<1>14. /\ f.history \cup new \in Histories
       /\ \A turn \in t.history : turn.seq # 0
       /\ \A turn \in t.history : turn \in f.history \/ turn \in new
  <2>1. f.history \cup new \in Histories
    BY <1>7, <1>8 DEF Fresh, SoundFile, SoundCopy, Sessions, Histories
  <2> QED
    BY <1>10, <1>12, <2>1 DEF SoundFile, Sessions
<1>15. HistoryTypes'
  <2>1. \A q \in Procs : saving'[q] # None =>
          held'[q] # None /\ saving'[q] \subseteq held'[q].artifacts
    BY <1>5, <1>13 DEF HistoryTypes
  <2> QED
    BY <1>1, <1>5, <1>11, <1>12, <2>1 DEF HistoryTypes
<1>16. ASSUME NEW q \in Procs \ {p}, held[q] # None
       PROVE  /\ SoundCopy(held[q], taken) /\ CopyOf(held[q], f)
              /\ \A turn \in held[q].history : turn.seq = 0 => turn.id \notin Ids(s.history)
              /\ \A turn \in s.history : turn.seq = 0 => turn.id \notin Ids(held[q].history)
  BY <1>1, <1>2, <1>3, <1>16 DEF CopiesAreSound, FileIsSound
<1>17. ASSUME NEW q \in Procs \ {p}, held[q] # None
       PROVE  CopyOf(held[q], t)
  <2>1. /\ n \in Nat /\ f.sequence <= n /\ f.trimmedThrough <= t.trimmedThrough
        /\ \A turn \in cut : turn.seq <= t.trimmedThrough
    BY <1>8, <1>10 DEF Fresh, Trims, Brings
  <2> QED
    BY ONLY <1>1, <1>7, <1>10, <1>16, <1>17, <2>1, OthersAreCopies
<1>18. FileIsSound'
  <2>1. dropped' = t.trimmed
    BY <1>7, <1>10, <1>11
  <2> QED
    BY <1>5, <1>10, <1>11, <1>13, <1>17, <2>1 DEF FileIsSound
<1>19. CopiesAreSound'
  <2>1. \A q \in Procs : held'[q] # None => SoundCopy(held'[q], taken')
    BY <1>5, <1>10, <1>13, <1>16 DEF SoundFile
  <2>2. ASSUME NEW q \in Procs, NEW r \in Procs, q # r, held'[q] # None, held'[r] # None,
               NEW turn \in held'[q].history, turn.seq = 0
        PROVE  turn.id \notin Ids(held'[r].history)
    <3>1. CASE q = p
      BY <1>13, <1>14, <2>2, <3>1
    <3>2. CASE r = p
      <4>1. held[q] # None /\ turn \in held[q].history /\ q \in Procs \ {p}
        BY <1>13, <2>2, <3>2
      <4>2. CopyOf(held[q], t)
        BY <1>17, <4>1
      <4> QED
        BY <1>13, <2>2, <3>2, <4>1, <4>2 DEF CopyOf
    <3>3. CASE q # p /\ r # p
      BY <1>13, <2>2, <3>3 DEF CopiesAreSound
    <3> QED
      BY <3>1, <3>2, <3>3
  <2> QED
    BY <2>1, <2>2 DEF CopiesAreSound
<1>20. OneNumberPerTurn'
  <2>1. \A turn \in Anywhere : turn.seq \in Nat
    BY AnywhereIs, <1>1 DEF HistoryTypes, Sessions
  <2>2. ASSUME NEW turn \in Anywhere'
        PROVE  turn \in new \/ turn \in Anywhere
    BY <1>2, <1>1, <1>11, <1>13, <1>14, AnywhereIs, AnywhereNext
  <2>3. ASSUME NEW turn \in Anywhere, turn.seq > 0
        PROVE  turn.seq <= f.sequence /\ turn.id \in Ids(f.history) \cup f.trimmed
    <3>1. CASE turn \in f.history
      BY <1>7, <3>1 DEF SoundFile, Ids
    <3>2. CASE turn \notin f.history
      <4>1. PICK q \in Procs : held[q] # None /\ turn \in held[q].history
        BY <1>2, <3>2, AnywhereIs
      <4>2. CopyOf(held[q], f)
        BY <1>2, <1>1, <4>1 DEF FileIsSound
      <4>3. turn.id \in f.trimmed /\ turn.seq <= f.trimmedThrough
        BY <2>3, <3>2, <4>1, <4>2 DEF CopyOf
      <4>4. f.trimmedThrough <= f.sequence /\ f.trimmedThrough \in Nat /\ f.sequence \in Nat
        BY <1>7 DEF SoundFile, SoundCopy, Sessions
      <4> QED
        BY <2>1, <4>3, <4>4
    <3> QED
      BY <3>1, <3>2
  <2>4. ASSUME NEW turn \in new
        PROVE  f.sequence < turn.seq /\ turn.id \notin Ids(f.history) \cup f.trimmed
    <3>1. turn.id \in Ids(Unnumbered(s)) /\ f.sequence < turn.seq
      BY <1>8 DEF Fresh, Ids
    <3> QED
      BY <1>7, <3>1 DEF Ids, Unnumbered, CopyOf
  <2>5. f.sequence \in Nat /\ \A turn \in new : turn.seq \in Nat
    BY <1>7, <1>8 DEF SoundFile, SoundCopy, Sessions, Fresh, Histories
  <2>6. \A turn, other \in new : turn.id = other.id <=> turn.seq = other.seq
    BY <1>8 DEF Fresh
  <2>7. \A turn, other \in Anywhere :
          turn.seq > 0 /\ other.seq > 0 => (turn.id = other.id <=> turn.seq = other.seq)
    BY DEF OneNumberPerTurn, Anywhere
  <2>8. \A turn \in new, other \in Anywhere :
          other.seq > 0 => turn.id # other.id /\ turn.seq # other.seq
    BY <2>1, <2>3, <2>4, <2>5
  <2>9. \A turn, other \in Anywhere' :
          turn.seq > 0 /\ other.seq > 0 => (turn.id = other.id <=> turn.seq = other.seq)
    BY ONLY <2>2, <2>6, <2>7, <2>8
  <2> QED
    BY <2>9 DEF OneNumberPerTurn, Anywhere
<1>21. SavedTurnsKept'
  <2>1. acked \subseteq Ids(f.history) \cup f.trimmed
    BY <1>1, <1>2 DEF SavedTurnsKept
  <2>2. Ids(s.history) \subseteq Ids(f.history) \cup f.trimmed \cup Ids(Unnumbered(s))
    BY <1>7 DEF Ids, Unnumbered, CopyOf
  <2> QED
    BY <1>4, <1>10, <1>11, <2>1, <2>2 DEF SavedTurnsKept
<1>22. ArtifactsKept'
  <2>1. /\ f.tombstones \cup s.tombstones \subseteq b.tombstones
        /\ (f.artifacts \cup s.artifacts) \ b.tombstones \subseteq b.artifacts
    BY <1>8 DEF Brings
  <2>2. wanted \ f.tombstones \subseteq f.artifacts
    BY <1>1, <1>2 DEF ArtifactsKept
  <2>3. wanted' \ t.tombstones \subseteq t.artifacts
    BY <1>1, <1>3, <1>4, <1>10, <2>1, <2>2
  <2> QED
    BY <1>11, <2>3 DEF ArtifactsKept
<1>23. (RoomForMore => DemandsAreTold)'
  <2> SUFFICES ASSUME RoomForMore PROVE DemandsAreTold'
    BY DEF RoomForMore
  <2>1. /\ AllTold(f) /\ AllTold(s) /\ (f.trimmed # {} => Cardinality(f.history) > Recent)
        /\ \A q \in Procs : held[q] # None => AllTold(held[q])
    BY <1>1, <1>2, <1>3 DEF DemandsAreTold
  <2>2. room > Recent /\ Standing(b)
    BY <1>8 DEF RoomForMore, Brings
  <2>3. AllTold(t) /\ (t.trimmed # {} => Cardinality(t.history) > Recent)
    BY ONLY <1>6, <1>8, <1>9, <1>14, <2>1, <2>2, ToldAgain
  <2> QED
    BY <1>11, <1>13, <2>1, <2>3 DEF DemandsAreTold
<1> QED
  BY <1>15, <1>18, <1>19, <1>20, <1>21, <1>22, <1>23

LEMMA SaveHistory == ASSUME HistoryInv, NEW p \in Procs, Save(p) PROVE HistoryInv'
<1>1. CASE deleted
  <2>1. /\ saving' = [saving EXCEPT ![p] = None]
        /\ UNCHANGED <<file, deleted, held, directory, taken, written, acked, wanted, dropped>>
    BY <1>1 DEF Save, MayBeSaved
  <2> QED
    BY <2>1, NotSavedHistory
<1>2. CASE ~deleted
  BY <1>2, SavedHistory
<1> QED
  BY <1>1, <1>2

LEMMA HistoryNext == HistoryInv /\ Next => HistoryInv'
BY LoadHistory, RecordHistory, SaveArtifactHistory, DeleteArtifactHistory, SaveHistory,
   SaveFailsHistory, DeleteHistory, CrashHistory
DEF Next

LEMMA HistoryIsKept == HistoryInv => TurnsKept
<1> SUFFICES ASSUME HistoryInv PROVE TurnsKept
  OBVIOUS
<1> USE DEF HistoryInv
<1>1. TrimmedForGood
  BY DEF FileIsSound, SoundFile, TrimmedForGood
<1>2. DeletedForGood
  BY DEF HistoryTypes, DeletedForGood
<1>3. RoomForMore => DemandsKept
  BY DEF DemandsAreTold, AllTold, SavedTurnsKept, DemandsKept
<1> QED
  BY <1>1, <1>2, <1>3 DEF TurnsKept, RoomForMore

(* However many processes have the session open, and whatever room its file  *)
(* has: every turn and artifact is kept as is said of TurnsKept.             *)
THEOREM TurnsCorrect == SessionSpec => []TurnsKept
<1>1. HistoryInv /\ [SessionNext]_<<part, vars, filesVars, outcomeVars, journalVars,
                                    outputsVars, conversationsVars, memoryVars>> => HistoryInv'
  BY HistoryNext, HistoryUnchanged DEF SessionNext, vars
<1> QED
  BY HistoryBegins, HistoryIsKept, <1>1, PTL DEF SessionSpec
=============================================================================
