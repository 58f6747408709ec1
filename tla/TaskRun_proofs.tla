--------------------------- MODULE TaskRun_proofs ---------------------------
(* Theorems about TaskRun: whatever a call may have changed is on record     *)
(* when its step is over, and a run is told of lost progress when some was   *)
(* lost.                                                                     *)
EXTENDS TaskRun, FiniteSetTheorems, SequenceTheorems, WellFoundedInduction, TLAPS

(* What a call may have changed is recorded or the call still runs; outside  *)
(* the tool round none does. The first part alone is not inductive: at the   *)
(* end of a round it needs the second to reach EffectsAccounted.             *)
Covered == begun \subseteq recorded \cup {turn[i] : i \in Active}

Idle == pc # "tools" => Active = {}

Matched == DOMAIN exec = DOMAIN turn

RoundInv == Covered /\ Idle /\ Matched

-----------------------------------------------------------------------------
(* A step that leaves the calls and their record alone keeps the invariant,  *)
(* if it leaves the tool round only when nothing runs.                       *)
LEMMA Harmless ==
  ASSUME RoundInv,
         UNCHANGED <<round, facts>>,
         pc' # "tools" => Active = {}
  PROVE  RoundInv'
<1>1. Active' = Active
  BY DEF Active, In, round
<1>2. QED
  BY <1>1 DEF RoundInv, Covered, Idle, Matched, round, facts

(* Nor does one that forgets the calls of a finished step.                   *)
LEMMA Forgotten ==
  ASSUME turn' = <<>>, exec' = <<>>, begun' \subseteq recorded'
  PROVE  RoundInv'
<1>1. Active' = {}
  BY DEF Active, In
<1>2. QED
  BY <1>1 DEF RoundInv, Covered, Idle, Matched

LEMMA OverForgets ==
  ASSUME NEW how, Over(how)
  PROVE  RoundInv'
BY Forgotten DEF Over

LEMMA InitRound == Init => RoundInv
<1>1. ASSUME Init PROVE Active = {}
  BY <1>1 DEF Init, Active, In
<1>2. QED
  BY <1>1 DEF Init, RoundInv, Covered, Idle, Matched

(* The calls of a reply wait: none of them has changed anything yet.         *)
LEMMA CallKeeps ==
  ASSUME RoundInv, Call
  PROVE  RoundInv'
<1>1. PICK kinds \in Replies \ {<<>>} :
        /\ turn' = Calls(kinds)
        /\ exec' = [i \in DOMAIN kinds |-> "waits"]
  BY DEF Call
<1>2. DOMAIN exec' = DOMAIN turn'
  BY <1>1 DEF Calls
<1>3. Active' = {}
  BY <1>1 DEF Active, In
<1>4. begun \subseteq recorded
  BY DEF RoundInv, Covered, Idle, Call
<1>5. QED
  BY <1>2, <1>3, <1>4 DEF RoundInv, Covered, Idle, Matched, Call, facts

LEMMA BeginKeeps ==
  ASSUME RoundInv, NEW i \in DOMAIN turn, Begin(i)
  PROVE  RoundInv'
<1>1. pc' = "tools" /\ turn' = turn /\ recorded' = recorded /\ exec[i] = "waits"
  BY DEF Begin, loop, Ready
<1>2. DOMAIN exec' = DOMAIN exec
  BY DEF Begin
<1>3. begun' \subseteq recorded \cup {turn[j] : j \in Active'}
  <2>1. \A j \in Active : j \in Active'
    BY <1>1, <1>2 DEF Begin, Active, In
  <2>2. CASE aborted \/ stopped
    BY <2>1, <2>2 DEF Begin, RoundInv, Covered
  <2>3. CASE ~(aborted \/ stopped)
    <3>1. i \in Active'
      BY <1>1, <2>3 DEF Begin, Active, In, RoundInv, Matched
    <3>2. QED
      BY <2>1, <2>3, <3>1 DEF Begin, RoundInv, Covered
  <2>4. QED
    BY <2>2, <2>3
<1>4. QED
  BY <1>1, <1>2, <1>3 DEF RoundInv, Covered, Idle, Matched

LEMMA ReturnKeeps ==
  ASSUME RoundInv, NEW i \in DOMAIN turn, Return(i)
  PROVE  RoundInv'
<1>1. pc' = "tools" /\ turn' = turn /\ begun' = begun
  BY DEF Return, loop
<1>2. recorded' = recorded \cup {turn[i]}
  BY DEF Return
<1>3. DOMAIN exec' = DOMAIN exec
  BY DEF Return
<1>4. \A j \in Active \ {i} : j \in Active'
  BY <1>3 DEF Return, Active, In
<1>5. begun' \subseteq recorded' \cup {turn'[j] : j \in Active'}
  BY <1>1, <1>2, <1>4 DEF RoundInv, Covered
<1>6. QED
  BY <1>1, <1>3, <1>5 DEF RoundInv, Covered, Idle, Matched

(* The round ends only when none of its calls runs.                          *)
LEMMA SettleKeeps ==
  ASSUME RoundInv, Settle
  PROVE  RoundInv'
BY Harmless DEF Settle, Settled

LEMMA EndStepKeeps ==
  ASSUME RoundInv, EndStep
  PROVE  RoundInv'
<1>1. begun \subseteq recorded
  BY DEF RoundInv, Covered, Idle, EndStep
<1>2. QED
  BY <1>1, Forgotten DEF EndStep, facts

LEMMA ResumeKeeps ==
  ASSUME Resume
  PROVE  RoundInv'
BY Forgotten DEF Resume

(* Every other step is outside the round, or does not move the run.          *)
LEMMA OthersKeep ==
  ASSUME RoundInv,
         \/ Turn \/ Decline \/ Grant \/ Compact \/ Send \/ NoReply \/ Unkept
         \/ Final \/ Answer \/ Write \/ Abort \/ Spend
  PROVE  RoundInv'
<1>1. UNCHANGED <<round, facts>>
  BY DEF Turn, Decline, Grant, Compact, Send, NoReply, Unkept, Final, Answer,
         Write, Abort, Spend, round, facts
<1>2. pc' # "tools" => Active = {}
  BY DEF Turn, Decline, Grant, Compact, Send, NoReply, Unkept, Final, Answer,
         Write, Abort, Spend, loop, RoundInv, Idle
<1>3. QED
  BY <1>1, <1>2, Harmless

LEMMA EndingKeeps ==
  ASSUME RoundInv, Leave \/ Fail \/ Finish \/ Clear \/ Crash
  PROVE  RoundInv'
<1>1. CASE \E how \in {"ended", "down"} : Over(how)
  BY <1>1, OverForgets
<1>2. CASE UNCHANGED <<round, facts>> /\ pc # "tools"
  <2>1. Active = {}
    BY <1>2 DEF RoundInv, Idle
  <2>2. QED
    BY <1>2, <2>1, Harmless
<1>3. QED
  BY <1>1, <1>2 DEF Leave, Fail, Finish, Clear, Crash

LEMMA StepKeeps == RoundInv /\ [Next]_vars => RoundInv'
<1> SUFFICES ASSUME RoundInv, [Next]_vars PROVE RoundInv'
  OBVIOUS
<1>1. CASE UNCHANGED vars
  BY <1>1, Harmless DEF vars, loop, RoundInv, Idle
<1>2. CASE \/ Turn \/ Decline \/ Grant \/ Compact \/ Send \/ NoReply \/ Unkept
           \/ Final \/ Answer \/ Write \/ Abort \/ Spend
  BY <1>2, OthersKeep
<1>3. CASE Call
  BY <1>3, CallKeeps
<1>4. CASE Settle
  BY <1>4, SettleKeeps
<1>5. CASE EndStep
  BY <1>5, EndStepKeeps
<1>6. CASE Leave \/ Fail \/ Finish \/ Clear \/ Crash
  BY <1>6, EndingKeeps
<1>7. CASE \E i \in DOMAIN turn : Begin(i) \/ Return(i)
  BY <1>7, BeginKeeps, ReturnKeeps
<1>8. CASE Resume
  BY <1>8, ResumeKeeps
<1>9. QED
  BY <1>1, <1>2, <1>3, <1>4, <1>5, <1>6, <1>7, <1>8 DEF Next, Program

-----------------------------------------------------------------------------
(* In every reachable state of a task, what a call may have changed is on    *)
(* record or the call is one the round still waits for (runOne).             *)
THEOREM RoundInvariant == Spec => []RoundInv
<1>1. QED
  BY InitRound, StepKeeps, PTL DEF Spec

(* However a step ends, by its last call, an abort or a spent budget, no     *)
(* call of it still runs and the run knows what each of them did (runOne,    *)
(* mapWithConcurrency), for any replies, budgets and number of runs.         *)
THEOREM EffectsCorrect == Spec => []EffectsAccounted
<1>1. RoundInv => EffectsAccounted
  BY DEF RoundInv, Covered, Idle, EffectsAccounted
<1>2. QED
  BY <1>1, RoundInvariant, PTL

-----------------------------------------------------------------------------
(* The checkpoint is behind the run, the marker is not ahead of the          *)
(* checkpoint, and it names the checkpoint exactly when a later save was     *)
(* refused: a save at a step the marker already names would turn an old      *)
(* marker into a wrong one.                                                  *)
SavedStep == saved # None => saved.step \in Nat

Cleared == pc = "clear" => saved = None

MarkerOld == saved # None /\ marker # None => marker \in Nat /\ marker <= saved.step

Ahead ==
  Running /\ pc # "clear" =>
    /\ step \in Nat
    /\ saved # None => saved.step < step
    /\ marker # None => marker \in Nat /\ marker < step

Truthful == saved # None => (marker = saved.step <=> unsaved)

DiskInv == SavedStep /\ Cleared /\ MarkerOld /\ Ahead /\ Truthful

(* A run that goes on, by a step or in the same one, and does not clear.     *)
LEMMA GoesOn ==
  ASSUME DiskInv, Running, pc # "clear", pc' # "clear", UNCHANGED disk,
         step' \in {step, step + 1}
  PROVE  DiskInv'
BY DEF DiskInv, SavedStep, Cleared, MarkerOld, Ahead, Truthful, Running, disk

(* A stop: the disk stays as it is.                                          *)
LEMMA StopsThere ==
  ASSUME DiskInv, pc' \in {"ended", "down"}, UNCHANGED disk
  PROVE  DiskInv'
BY DEF DiskInv, SavedStep, Cleared, MarkerOld, Ahead, Truthful, Running, disk

(* A save, taken or refused, by a run that then stops or takes a new step.   *)
LEMMA SaveKeeps ==
  ASSUME DiskInv, Running, pc # "clear", Saved \/ Downgraded,
         \/ pc' \in {"ended", "down"}
         \/ pc' = "head" /\ step' = step + 1
  PROVE  DiskInv'
<1>1. step \in Nat
  BY DEF DiskInv, Ahead
<1>2. CASE Saved
  <2>1. saved'.step = step /\ unsaved' = FALSE /\ marker' = marker
    BY <1>2 DEF Saved, Snapshot
  <2>2. marker # step
    BY <1>1, RunAssumption DEF DiskInv, Ahead
  <2>3. QED
    BY <1>1, <2>1, <2>2 DEF DiskInv, SavedStep, Cleared, MarkerOld, Ahead, Truthful, Running
<1>3. CASE Downgraded
  BY <1>1, <1>3 DEF Downgraded, DiskInv, SavedStep, Cleared, MarkerOld, Ahead, Truthful, Running
<1>4. QED
  BY <1>2, <1>3

LEMMA InitDisk == Init => DiskInv
BY DEF Init, DiskInv, SavedStep, Cleared, MarkerOld, Ahead, Truthful, Running

LEMMA LoopKeeps ==
  ASSUME DiskInv,
         \/ Turn \/ Decline \/ Grant \/ Compact \/ Send \/ NoReply \/ Unkept
         \/ Final \/ Call \/ Settle \/ Answer \/ EndStep \/ Spend
         \/ \E i \in DOMAIN turn : Begin(i) \/ Return(i)
  PROVE  DiskInv'
<1>1. Running /\ pc # "clear" /\ pc' # "clear" /\ UNCHANGED disk
  BY DEF Turn, Decline, Grant, Compact, Send, NoReply, Unkept, Final, Call,
         Settle, Answer, EndStep, Spend, Begin, Return, Running, loop, Throw
<1>2. step' \in {step, step + 1}
  BY DEF Turn, Decline, Grant, Compact, Send, NoReply, Unkept, Final, Call,
         Settle, Answer, EndStep, Spend, Begin, Return, loop
<1>3. QED
  BY <1>1, <1>2, GoesOn

LEMMA AbortKeeps ==
  ASSUME DiskInv, Abort
  PROVE  DiskInv'
BY DEF Abort, loop, disk, DiskInv, SavedStep, Cleared, MarkerOld, Ahead, Truthful, Running

LEMMA WriteKeeps ==
  ASSUME DiskInv, Write
  PROVE  DiskInv'
<1>1. Running /\ pc # "clear"
  BY DEF Write, Running
<1>2. CASE (Saved \/ Downgraded) /\ pc' = "head" /\ step' = step + 1
  BY <1>1, <1>2, SaveKeeps
<1>3. CASE Throw(stopped) /\ UNCHANGED <<step, disk>>
  BY <1>1, <1>3, GoesOn DEF Throw
<1>4. QED
  BY <1>2, <1>3 DEF Write

LEMMA LeaveKeeps ==
  ASSUME DiskInv, Leave
  PROVE  DiskInv'
<1>1. Running /\ pc # "clear"
  BY DEF Leave, Running
<1>2. CASE (Saved \/ Downgraded) /\ Over("ended")
  BY <1>1, <1>2, SaveKeeps DEF Over
<1>3. CASE pc' = "fail" /\ UNCHANGED <<step, disk>>
  BY <1>1, <1>3, GoesOn
<1>4. QED
  BY <1>2, <1>3 DEF Leave

LEMMA FailKeeps ==
  ASSUME DiskInv, Fail
  PROVE  DiskInv'
<1>1. Running /\ pc # "clear" /\ pc' = "ended"
  BY DEF Fail, Running, Over
<1>2. CASE Saved \/ Downgraded
  BY <1>1, <1>2, SaveKeeps
<1>3. CASE UNCHANGED disk
  BY <1>1, <1>3, StopsThere
<1>4. QED
  BY <1>2, <1>3 DEF Fail

LEMMA FinishKeeps ==
  ASSUME DiskInv, Finish
  PROVE  DiskInv'
<1>1. Running /\ pc # "clear"
  BY DEF Finish, Running
<1>2. CASE pc' = "leave" /\ UNCHANGED <<step, disk>>
  BY <1>1, <1>2, GoesOn
<1>3. CASE Over("ended") /\ UNCHANGED disk
  BY <1>3, StopsThere DEF Over
<1>4. CASE pc' = "clear" /\ saved' = None
  BY <1>4 DEF DiskInv, SavedStep, Cleared, MarkerOld, Ahead, Truthful
<1>5. QED
  BY <1>2, <1>3, <1>4 DEF Finish

LEMMA ClearKeeps ==
  ASSUME DiskInv, Clear
  PROVE  DiskInv'
<1>1. saved' = None /\ pc' = "ended"
  BY DEF Clear, Over, DiskInv, Cleared
<1>2. QED
  BY <1>1 DEF DiskInv, SavedStep, Cleared, MarkerOld, Ahead, Truthful, Running

LEMMA CrashKeeps ==
  ASSUME DiskInv, Crash
  PROVE  DiskInv'
BY StopsThere DEF Crash, Over

LEMMA ResumeStartsAhead ==
  ASSUME DiskInv, Resume
  PROVE  DiskInv'
<1>1. /\ saved # None /\ pc' = "head" /\ step' = saved.step + 1
      /\ saved' = saved /\ marker' = marker /\ unsaved' = unsaved
  BY DEF Resume, disk
<1>2. QED
  BY <1>1 DEF DiskInv, SavedStep, Cleared, MarkerOld, Ahead, Truthful, Running

LEMMA DiskStep == DiskInv /\ [Next]_vars => DiskInv'
<1> SUFFICES ASSUME DiskInv, [Next]_vars PROVE DiskInv'
  OBVIOUS
<1>1. CASE UNCHANGED vars
  BY <1>1 DEF vars, loop, disk, DiskInv, SavedStep, Cleared, MarkerOld, Ahead, Truthful, Running
<1>2. CASE Next
  BY <1>2, LoopKeeps, AbortKeeps, WriteKeeps, LeaveKeeps, FailKeeps, FinishKeeps,
     ClearKeeps, CrashKeeps, ResumeStartsAhead DEF Next, Program
<1>3. QED
  BY <1>1, <1>2

(* In every reachable state the marker names the checkpoint exactly when a   *)
(* later save was refused and recorded (recordCheckpointDowngrade).          *)
THEOREM DiskInvariant == Spec => []DiskInv
<1>1. QED
  BY InitDisk, DiskStep, PTL DEF Spec

(* Only a continuation changes the number of runs.                           *)
LEMMA OneRun ==
  ASSUME [Next]_vars, runs' # runs
  PROVE  Resume
BY DEF Next, Program, Turn, Decline, Grant, Compact, Send, NoReply, Unkept,
       Final, Call, Begin, Return, Settle, Answer, EndStep, Write, Leave, Fail,
       Finish, Clear, Abort, Spend, Crash, vars, task

(* A run that continues is told of lost progress exactly when some was lost  *)
(* (loadCheckpoint, prepareCheckpointResume), for any number of runs, steps  *)
(* and refused saves.                                                        *)
THEOREM ResumeCorrect == Spec => ResumeTells
<1>1. DiskInv /\ [Next]_vars => [runs' # runs => (told' <=> unsaved)]_vars
  <2> SUFFICES ASSUME DiskInv, [Next]_vars, runs' # runs
               PROVE  told' <=> unsaved
    OBVIOUS
  <2>1. saved # None /\ told' = (marker = saved.step)
    BY OneRun DEF Resume, Degraded
  <2>2. QED
    BY <2>1 DEF DiskInv, Truthful
<1>2. QED
  BY <1>1, DiskInvariant, PTL DEF Spec, ResumeTells

-----------------------------------------------------------------------------
(* The types without the calls of a step, which RoundInv describes, and with *)
(* the step a checkpoint continues from.                                     *)
LoopTypes ==
  /\ pc \in {"head", "ask", "prepare", "request", "tools", "answer", "write",
             "leave", "fail", "finish", "clear", "ended", "down"}
  /\ step \in Nat /\ limit \in Nat /\ runs \in Nat
  /\ granted \in 0 .. MaxExtensions /\ shrinks \in 0 .. 2
  /\ repairs \in 0 .. MaxRepairs /\ idle \in 0 .. MaxIdle
  /\ pc \in {"leave", "fail"} \/ idle < MaxIdle
  /\ aborted \in BOOLEAN /\ stopped \in BOOLEAN
  /\ unsaved \in BOOLEAN /\ told \in BOOLEAN
  /\ saved # None => saved.step \in Nat

(* How far a call of the step may be.                                        *)
CallTypes == In({"waits", "runs", "done", "threw"}) = DOMAIN exec

LEMMA Limits ==
  /\ MaxSteps \in Nat /\ MaxIdle \in Nat \ {0}
  /\ MaxExtensions \in Nat /\ MaxRepairs \in Nat
BY RunAssumption

LEMMA OverTypes ==
  ASSUME LoopTypes, NEW how \in {"ended", "down"}, Over(how), UNCHANGED <<runs, granted>>,
         unsaved' \in BOOLEAN, saved' # None => saved'.step \in Nat
  PROVE  LoopTypes' /\ CallTypes'
<1>1. LoopTypes'
  <2>1. aborted' \in BOOLEAN /\ stopped' \in BOOLEAN /\ told' \in BOOLEAN
    BY Zenon DEF Over
  <2>2. /\ pc' = how /\ step' = 0 /\ limit' = 0 /\ shrinks' = 0
        /\ repairs' = 0 /\ idle' = 0 /\ UNCHANGED <<runs, granted>>
    BY DEF Over
  <2>3. QED
    BY <2>1, <2>2, Limits DEF LoopTypes
<1>2. CallTypes'
  BY DEF Over, CallTypes, In
<1>3. QED
  BY <1>1, <1>2

LEMMA SaveTypes ==
  ASSUME LoopTypes, Saved \/ Downgraded
  PROVE  unsaved' \in BOOLEAN /\ (saved' # None => saved'.step \in Nat)
<1>1. Snapshot.step = step
  BY DEF Snapshot
<1>2. CASE Saved
  BY <1>1, <1>2 DEF Saved, LoopTypes
<1>3. CASE Downgraded
  BY <1>3 DEF Downgraded, LoopTypes
<1>4. QED
  BY <1>2, <1>3

(* The steps that leave the calls of the reply as they are.                  *)
LEMMA LoopTypesStep ==
  ASSUME LoopTypes,
         \/ Turn \/ Decline \/ Grant \/ Compact \/ Send \/ NoReply \/ Unkept
         \/ Final \/ Settle \/ Answer \/ Abort \/ Spend
  PROVE  LoopTypes' /\ UNCHANGED round
<1> USE Limits DEF LoopTypes, loop, conv, stops, counts, disk, task
<1>1. CASE Turn
  BY <1>1 DEF Turn
<1>2. CASE Decline \/ Grant
  BY <1>2 DEF Decline, Grant
<1>3. CASE Compact
  BY <1>3 DEF Compact
<1>4. CASE Send
  BY <1>4 DEF Send
<1>5. CASE NoReply \/ Unkept
  BY <1>5 DEF NoReply, Unkept, Throw
<1>6. CASE Final
  BY <1>6 DEF Final, MayRepair
<1>7. CASE Settle \/ Answer
  BY <1>7 DEF Settle, Answer, Throw
<1>8. CASE Abort \/ Spend
  BY <1>8 DEF Abort, Spend
<1>9. QED
  BY <1>1, <1>2, <1>3, <1>4, <1>5, <1>6, <1>7, <1>8

LEMMA RoundTypesStep ==
  ASSUME LoopTypes, CallTypes, RoundInv,
         Call \/ EndStep \/ \E i \in DOMAIN turn : Begin(i) \/ Return(i)
  PROVE  LoopTypes' /\ CallTypes'
<1> USE DEF loop, conv, stops, counts, disk, task
<1>1. CASE Call
  <2>1. LoopTypes'
    BY <1>1 DEF Call, LoopTypes
  <2>2. PICK kinds \in Replies \ {<<>>} : exec' = [i \in DOMAIN kinds |-> "waits"]
    BY <1>1 DEF Call
  <2>3. CallTypes'
    BY <2>2 DEF CallTypes, In
  <2>4. QED
    BY <2>1, <2>3
<1>2. CASE EndStep
  <2>1. LoopTypes'
    <3>1. idle < MaxIdle /\ (idle' = idle + 1 \/ idle' = 0)
      BY <1>2 DEF EndStep, LoopTypes
    <3>2. idle' \in 0 .. MaxIdle
      BY <3>1, Limits DEF LoopTypes
    <3>3. QED
      BY <1>2, <3>2, Limits DEF EndStep, LoopTypes
  <2>2. CallTypes'
    BY <1>2 DEF EndStep, CallTypes, In
  <2>3. QED
    BY <2>1, <2>2
<1>3. ASSUME NEW i \in DOMAIN turn, Begin(i) \/ Return(i)
      PROVE  LoopTypes' /\ CallTypes'
  <2>1. LoopTypes'
    BY <1>3 DEF Begin, Return, LoopTypes
  <2>2. PICK new \in {"runs", "done", "threw"} : exec' = [exec EXCEPT ![i] = new]
    BY <1>3 DEF Begin, Return
  <2>3. CallTypes'
    BY <2>2 DEF CallTypes, In
  <2>4. QED
    BY <2>1, <2>3
<1>4. QED
  BY <1>1, <1>2, <1>3

LEMMA EndTypesStep ==
  ASSUME LoopTypes, CallTypes,
         Write \/ Leave \/ Fail \/ Finish \/ Clear \/ Resume \/ Crash
  PROVE  LoopTypes' /\ CallTypes'
<1> USE DEF loop, conv, stops, counts, disk, task
<1>1. CASE Write
  <2>1. UNCHANGED <<round, limit, shrinks, stops, counts, task>>
    BY <1>1 DEF Write
  <2>2. unsaved' \in BOOLEAN /\ (saved' # None => saved'.step \in Nat)
    BY <1>1, SaveTypes DEF Write, LoopTypes
  <2>3. pc' \in {"head", "leave", "fail"} /\ step' \in Nat /\ idle < MaxIdle
    BY <1>1 DEF Write, Throw, LoopTypes
  <2>4. QED
    BY <2>1, <2>2, <2>3 DEF LoopTypes, CallTypes, In, round
<1>2. CASE Leave \/ Fail \/ Finish \/ Clear
  <2>1. unsaved' \in BOOLEAN /\ (saved' # None => saved'.step \in Nat)
    BY <1>2, SaveTypes DEF Leave, Fail, Finish, Clear, LoopTypes
  <2>2. CASE Over("ended")
    <3>1. UNCHANGED <<runs, granted>>
      BY <1>2 DEF Leave, Fail, Finish, Clear
    <3>2. QED
      BY <2>1, <2>2, <3>1, OverTypes
  <2>3. CASE /\ pc' \in {"fail", "leave"} \/ (pc = "finish" /\ pc' = "clear")
             /\ UNCHANGED <<step, limit, shrinks, round, stops, counts, told, runs, granted>>
    BY <2>1, <2>3 DEF LoopTypes, CallTypes, In, round
  <2>4. QED
    BY <1>2, <2>2, <2>3 DEF Leave, Fail, Finish, Clear
<1>3. CASE Crash
  BY <1>3, OverTypes DEF Crash, LoopTypes
<1>4. CASE Resume
  <2>1. saved.step \in Nat
    BY <1>4 DEF Resume, LoopTypes
  <2>2. told' \in BOOLEAN /\ aborted' \in BOOLEAN /\ stopped' \in BOOLEAN
    BY <1>4, Zenon DEF Resume, Degraded
  <2>3. LoopTypes'
    <3>1. /\ pc' = "head" /\ runs' = runs + 1 /\ step' = saved.step + 1
          /\ limit' = saved.step + MaxSteps /\ shrinks' = 0 /\ repairs' = 0 /\ idle' = 0
          /\ UNCHANGED <<saved, unsaved, granted>>
      BY <1>4 DEF Resume
    <3>2. QED
      BY <2>1, <2>2, <3>1, Limits DEF LoopTypes
  <2>4. CallTypes'
    BY <1>4 DEF Resume, CallTypes, In
  <2>5. QED
    BY <2>3, <2>4
<1>5. QED
  BY <1>1, <1>2, <1>3, <1>4

LEMMA TypesStep == RoundInv /\ LoopTypes /\ CallTypes /\ [Next]_vars => LoopTypes' /\ CallTypes'
<1> SUFFICES ASSUME RoundInv, LoopTypes, CallTypes, [Next]_vars
             PROVE  LoopTypes' /\ CallTypes'
  OBVIOUS
<1>1. CASE UNCHANGED vars
  BY <1>1 DEF vars, loop, conv, round, stops, counts, disk, task, LoopTypes, CallTypes, In
<1>2. CASE \/ Turn \/ Decline \/ Grant \/ Compact \/ Send \/ NoReply \/ Unkept
           \/ Final \/ Settle \/ Answer \/ Abort \/ Spend
  <2>1. LoopTypes' /\ UNCHANGED round
    BY <1>2, LoopTypesStep
  <2>2. QED
    BY <2>1 DEF CallTypes, In, round
<1>3. CASE Call \/ EndStep \/ \E i \in DOMAIN turn : Begin(i) \/ Return(i)
  BY <1>3, RoundTypesStep
<1>4. CASE Write \/ Leave \/ Fail \/ Finish \/ Clear \/ Resume \/ Crash
  BY <1>4, EndTypesStep
<1>5. QED
  BY <1>1, <1>2, <1>3, <1>4 DEF Next, Program

(* Every variable of a run keeps its type, for any replies and limits.       *)
THEOREM TypeCorrect == Spec => []TypeOK
<1>1. Init => LoopTypes /\ CallTypes
  <2> SUFFICES ASSUME Init PROVE LoopTypes /\ CallTypes
    OBVIOUS
  <2>1. LoopTypes
    <3>1. aborted \in BOOLEAN /\ stopped \in BOOLEAN /\ told \in BOOLEAN /\ unsaved \in BOOLEAN
      BY Zenon DEF Init
    <3>2. /\ pc = "head" /\ step = 1 /\ limit = MaxSteps /\ granted = 0 /\ shrinks = 0
          /\ repairs = 0 /\ idle = 0 /\ runs = 1 /\ saved = None
      BY DEF Init
    <3>3. QED
      BY <3>1, <3>2, Limits DEF LoopTypes
  <2>2. CallTypes
    BY DEF Init, CallTypes, In
  <2>3. QED
    BY <2>1, <2>2
<1>2. RoundInv /\ LoopTypes /\ CallTypes => TypeOK
  BY DEF RoundInv, Matched, LoopTypes, CallTypes, TypeOK
<1>3. QED
  BY <1>1, <1>2, RoundInvariant, TypesStep, PTL DEF Spec

(* What a run did is told, for any replies, limits and number of runs.       *)
THEOREM TellingCorrect == Spec => StateIsTold
BY TypeCorrect, EffectsCorrect, ResumeCorrect, PTL DEF StateIsTold

-----------------------------------------------------------------------------
(* The conversation. A saved one may end within the answers of a reply, so   *)
(* what holds at all times is that it is the beginning of one a provider     *)
(* accepts; that its calls are different ones is what lets the repair find   *)
(* the calls without an answer, and that a run's are newer than all before   *)
(* keeps them different.                                                     *)
CallSet == [run : Nat, step : Nat, place : Nat, kind : {"tool", "agent"}]
Messages ==
  [role : {"system", "task", "summary", "note", "assistant", "tool"}, calls : Seq(CallSet),
   call : {None} \cup CallSet]

Opens(m) == Len(m) >= 2 /\ m[1] = Plain("system") /\ m[2] = Plain("task")
AnswersFollow(m) ==
  \A j \in DOMAIN m : \A k \in DOMAIN m[j].calls :
    j + k <= Len(m) => m[j + k] = Answers(m[j].calls[k])
AnswersBelong(m) ==
  \A i \in DOMAIN m : m[i].role = "tool" => \E j \in 1 .. i - 1 : i - j \in DOMAIN m[j].calls
Distinct(m) ==
  \A i, j \in DOMAIN m : \A k \in DOMAIN m[i].calls, l \in DOMAIN m[j].calls :
    m[i].calls[k] = m[j].calls[l] => i = j /\ k = l
Talk(m) ==
  m \in Seq(Messages) /\ Opens(m) /\ AnswersFollow(m) /\ AnswersBelong(m) /\ Distinct(m)

AllAnswered(m) == \A j \in DOMAIN m : j + Len(m[j].calls) <= Len(m)

SaidBefore(m, r, s) ==
  \A j \in DOMAIN m : \A k \in DOMAIN m[j].calls :
    LET c == m[j].calls[k] IN c.run < r \/ (c.run = r /\ c.step < s)

AnsweringTurn ==
  \E j \in DOMAIN ms :
    /\ ms[j].calls = turn /\ Len(ms) <= j + Len(turn)
    /\ \A i \in DOMAIN ms \ {j} : i + Len(ms[i].calls) <= Len(ms)

TalkInv ==
  /\ turn \in Seq(CallSet) /\ step \in Nat /\ runs \in Nat
  /\ Running => Talk(ms) /\ SaidBefore(ms, runs, step + 1)
  /\ pc \in {"head", "ask", "prepare", "request"} => SaidBefore(ms, runs, step)
  /\ pc \in {"head", "ask", "prepare", "request", "write"} => AllAnswered(ms)
  /\ pc \in {"tools", "answer"} => AnsweringTurn
  /\ saved # None => /\ saved.step \in Nat /\ Talk(saved.ms)
                     /\ SaidBefore(saved.ms, runs + 1, 0)

(* The record of the context names, for the messages it was last taken from, *)
(* what they say.                                                            *)
Records == [message : Messages, from : Seq(Nat)]
Contexts == [live : Seq(Nat), records : Seq(Records), prefix : Nat]
ContextOf(c, m) ==
  /\ c \in Contexts /\ c.prefix >= 2
  /\ \A i \in DOMAIN c.live : c.live[i] \in DOMAIN c.records
  /\ Captured(c, m)

ContextInv ==
  /\ Running => ContextOf(ctx, ms)
  /\ saved # None => ContextOf(saved.ctx, saved.ms) /\ Len(saved.ctx.live) = Len(saved.ms)

LEMMA Appending ==
  ASSUME NEW S, NEW s \in Seq(S), NEW e \in S
  PROVE  /\ Append(s, e) \in Seq(S) /\ Len(Append(s, e)) = Len(s) + 1 /\ Len(s) \in Nat
         /\ DOMAIN Append(s, e) = DOMAIN s \cup {Len(s) + 1} /\ DOMAIN s = 1 .. Len(s)
         /\ \A i \in DOMAIN s : Append(s, e)[i] = s[i]
         /\ Append(s, e)[Len(s) + 1] = e
OBVIOUS

LEMMA MessageKinds ==
  /\ \A role \in {"system", "task", "summary", "note"} :
       Plain(role) \in Messages /\ Plain(role).calls = <<>> /\ Plain(role).role = role
  /\ \A calls \in Seq(CallSet) :
       /\ Says(calls) \in Messages /\ Says(calls).calls = calls
       /\ Says(calls).role = "assistant"
  /\ \A c \in CallSet :
       /\ Answers(c) \in Messages /\ Answers(c).calls = <<>> /\ Answers(c).call = c
       /\ Answers(c).role = "tool"
BY DEF Plain, Says, Answers, Messages

LEMMA CallsOf ==
  ASSUME NEW m \in Seq(Messages), NEW j \in DOMAIN m
  PROVE  /\ m[j] \in Messages /\ m[j].calls \in Seq(CallSet) /\ Len(m[j].calls) \in Nat
         /\ DOMAIN m[j].calls = 1 .. Len(m[j].calls)
         /\ j \in 1 .. Len(m) /\ DOMAIN m = 1 .. Len(m) /\ Len(m) \in Nat
<1>1. m[j] \in Messages
  OBVIOUS
<1>2. m[j].calls \in Seq(CallSet)
  BY <1>1 DEF Messages
<1> QED
  BY <1>1, <1>2

LEMMA TalkGrows ==
  ASSUME NEW m, Talk(m), NEW x \in Messages,
         x.role = "tool" => \E j \in DOMAIN m : Len(m) + 1 - j \in DOMAIN m[j].calls,
         \A j \in DOMAIN m : \A k \in DOMAIN m[j].calls :
           /\ j + k = Len(m) + 1 => x = Answers(m[j].calls[k])
           /\ \A l \in DOMAIN x.calls : x.calls[l] # m[j].calls[k],
         \A k, l \in DOMAIN x.calls : x.calls[k] = x.calls[l] => k = l
  PROVE  Talk(Append(m, x))
<1> DEFINE n == Append(m, x)
<1>1. /\ n \in Seq(Messages) /\ Len(n) = Len(m) + 1 /\ Len(m) \in Nat
      /\ DOMAIN n = DOMAIN m \cup {Len(m) + 1} /\ DOMAIN m = 1 .. Len(m)
      /\ \A i \in DOMAIN m : n[i] = m[i]
      /\ n[Len(m) + 1] = x
  BY Appending DEF Talk
<1> HIDE DEF n
<1>2. \A i \in DOMAIN n : n[i].calls \in Seq(CallSet)
  BY <1>1, CallsOf
<1>3. Opens(n)
  BY <1>1 DEF Talk, Opens
<1>4. AnswersFollow(n)
  <2>1. ASSUME NEW j \in DOMAIN n, NEW k \in DOMAIN n[j].calls, j + k <= Len(n)
        PROVE  n[j + k] = Answers(n[j].calls[k])
    <3>1. k \in Nat \ {0} /\ j \in Nat \ {0}
      BY <1>1, <1>2
    <3>2. j \in DOMAIN m /\ n[j] = m[j]
      BY <1>1, <2>1, <3>1
    <3>3. CASE j + k = Len(m) + 1
      BY <1>1, <3>2, <3>3
    <3>4. CASE j + k <= Len(m)
      <4>1. m[j + k] = Answers(m[j].calls[k])
        BY <3>2, <3>4 DEF Talk, AnswersFollow
      <4>2. j + k \in DOMAIN m
        BY <1>1, <3>1, <3>4
      <4> QED
        BY <1>1, <3>2, <4>1, <4>2
    <3> QED
      BY <1>1, <2>1, <3>1, <3>3, <3>4
  <2> QED
    BY <2>1 DEF AnswersFollow
<1>5. AnswersBelong(n)
  <2>1. ASSUME NEW i \in DOMAIN n, n[i].role = "tool"
        PROVE  \E j \in 1 .. i - 1 : i - j \in DOMAIN n[j].calls
    <3>1. CASE i = Len(m) + 1
      BY <1>1, <2>1, <3>1
    <3>2. CASE i \in DOMAIN m
      <4>1. PICK j \in 1 .. i - 1 : i - j \in DOMAIN m[j].calls
        BY <1>1, <2>1, <3>2 DEF Talk, AnswersBelong
      <4> QED
        BY <1>1, <3>2, <4>1
    <3> QED
      BY <1>1, <3>1, <3>2
  <2> QED
    BY <2>1 DEF AnswersBelong
<1>6. Distinct(n)
  <2>1. ASSUME NEW i \in DOMAIN n, NEW j \in DOMAIN n, NEW k \in DOMAIN n[i].calls,
               NEW l \in DOMAIN n[j].calls, n[i].calls[k] = n[j].calls[l]
        PROVE  i = j /\ k = l
    <3>1. CASE i \in DOMAIN m /\ j \in DOMAIN m
      BY <1>1, <2>1, <3>1 DEF Talk, Distinct
    <3>2. CASE i = Len(m) + 1 /\ j = Len(m) + 1
      BY <1>1, <2>1, <3>2
    <3> QED
      BY <1>1, <2>1, <3>1, <3>2
  <2> QED
    BY <2>1 DEF Distinct
<1> QED
  BY <1>1, <1>3, <1>4, <1>5, <1>6 DEF Talk, n

LEMMA SaidGrows ==
  ASSUME NEW m \in Seq(Messages), NEW x \in Messages, NEW r \in Nat, NEW s \in Nat,
         SaidBefore(m, r, s), 
         \A k \in DOMAIN x.calls : x.calls[k].run = r /\ x.calls[k].step < s
  PROVE  SaidBefore(Append(m, x), r, s)
BY Appending DEF SaidBefore

(* A message without calls, when no answer is missing.                       *)
LEMMA PlainGrows ==
  ASSUME NEW m, Talk(m), AllAnswered(m), NEW x \in Messages, x.calls = <<>>, x.role # "tool"
  PROVE  Talk(Append(m, x)) /\ AllAnswered(Append(m, x))
<1>1. /\ m \in Seq(Messages) /\ Len(Append(m, x)) = Len(m) + 1 /\ Len(m) \in Nat
      /\ DOMAIN Append(m, x) = DOMAIN m \cup {Len(m) + 1} /\ DOMAIN m = 1 .. Len(m)
      /\ \A i \in DOMAIN m : Append(m, x)[i] = m[i]
      /\ Append(m, x)[Len(m) + 1] = x
  BY Appending DEF Talk
<1>2. \A j \in DOMAIN m : m[j].calls \in Seq(CallSet) /\ j + Len(m[j].calls) <= Len(m)
  BY <1>1, CallsOf DEF AllAnswered
<1>3. AllAnswered(Append(m, x))
  BY <1>1, <1>2 DEF AllAnswered
<1>4. \A j \in DOMAIN m : \A k \in DOMAIN m[j].calls : j + k # Len(m) + 1
  BY <1>1, <1>2
<1> QED
  BY <1>3, <1>4, TalkGrows

(* A reply with calls that are newer than all before.                        *)
LEMMA CallsGrow ==
  ASSUME NEW m, Talk(m), AllAnswered(m), NEW calls \in Seq(CallSet), NEW r \in Nat, NEW s \in Nat,
         SaidBefore(m, r, s),
         \A k \in DOMAIN calls : calls[k].run = r /\ calls[k].step = s /\ calls[k].place = k
  PROVE  Talk(Append(m, Says(calls)))
<1> DEFINE x == Says(calls)
<1>1. x \in Messages /\ x.calls = calls /\ x.role = "assistant"
  BY MessageKinds
<1> HIDE DEF x
<1>2. \A j \in DOMAIN m : m[j].calls \in Seq(CallSet) /\ j + Len(m[j].calls) <= Len(m)
                          /\ j \in Nat /\ Len(m) \in Nat
  BY CallsOf DEF AllAnswered, Talk
<1>3. ASSUME NEW j \in DOMAIN m, NEW k \in DOMAIN m[j].calls
      PROVE  /\ j + k # Len(m) + 1
             /\ \A l \in DOMAIN calls : calls[l] # m[j].calls[k]
  <2>1. m[j].calls[k].run < r \/ (m[j].calls[k].run = r /\ m[j].calls[k].step < s)
    BY DEF SaidBefore
  <2> QED
    BY <1>2, <2>1
<1> QED
  BY <1>1, <1>3, TalkGrows DEF x

LEMMA Accepted ==
  ASSUME NEW m, Talk(m), AllAnswered(m)
  PROVE  WellFormed(m) /\ IsPrefix(Opening, m)
<1>1. m \in Seq(Messages) /\ \A j \in DOMAIN m : m[j].calls \in Seq(CallSet)
  BY CallsOf DEF Talk
<1>2. WellFormed(m)
  <2>1. ASSUME NEW j \in DOMAIN m, NEW k \in DOMAIN m[j].calls
        PROVE  j + k \in DOMAIN m /\ m[j + k] = Answers(m[j].calls[k])
    <3>1. j + k <= Len(m) /\ j + k \in Nat \ {0}
      BY <1>1 DEF AllAnswered
    <3> QED
      BY <1>1, <3>1 DEF Talk, AnswersFollow
  <2> QED
    BY <2>1 DEF WellFormed, Talk, AnswersBelong
<1>3. IsPrefix(Opening, m)
  BY <1>1 DEF IsPrefix, Opening, Talk, Opens
<1> QED
  BY <1>2, <1>3

(* The next answer of a reply whose answers are the only ones missing.       *)
LEMMA AnswersGrow ==
  ASSUME NEW m, Talk(m), NEW j \in DOMAIN m, Len(m) < j + Len(m[j].calls),
         \A i \in DOMAIN m \ {j} : i + Len(m[i].calls) <= Len(m)
  PROVE  /\ Len(m) + 1 - j \in DOMAIN m[j].calls
         /\ Talk(Append(m, Answers(m[j].calls[Len(m) + 1 - j])))
<1> DEFINE k == Len(m) + 1 - j
           x == Answers(m[j].calls[k])
<1>1. k \in DOMAIN m[j].calls /\ m[j].calls \in Seq(CallSet)
  BY CallsOf DEF Talk
<1>2. m[j].calls[k] \in CallSet
  BY <1>1
<1>3. x \in Messages /\ x.role = "tool" /\ x.calls = <<>>
  BY <1>2, MessageKinds
<1> HIDE DEF x
<1>4. ASSUME NEW i \in DOMAIN m, NEW l \in DOMAIN m[i].calls, i + l = Len(m) + 1
      PROVE  x = Answers(m[i].calls[l])
  <2>1. i = j
    BY <1>4, CallsOf DEF Talk
  <2>2. l = k
    BY <1>4, <2>1, CallsOf DEF Talk
  <2> QED
    BY <2>1, <2>2 DEF x
<1>5. Talk(Append(m, x))
  BY <1>1, <1>3, <1>4, TalkGrows
<1> QED
  BY <1>1, <1>5 DEF x

(* Which calls of the reply have their answer.                               *)
LEMMA GivenIs ==
  ASSUME Talk(ms), turn \in Seq(CallSet), NEW j \in DOMAIN ms, ms[j].calls = turn,
         Len(ms) <= j + Len(turn)
  PROVE  /\ Given = 1 .. Len(ms) - j /\ Cardinality(Given) = Len(ms) - j
         /\ Len(ms) - j \in 0 .. Len(turn) /\ DOMAIN turn = 1 .. Len(turn)
<1>1. /\ ms \in Seq(Messages) /\ Len(ms) \in Nat /\ j \in 1 .. Len(ms) /\ Len(turn) \in Nat
      /\ DOMAIN ms = 1 .. Len(ms) /\ DOMAIN turn = 1 .. Len(turn)
  BY DEF Talk
<1>2. ASSUME NEW i \in 1 .. Len(ms) - j
      PROVE  i \in Given
  <2>1. i \in DOMAIN turn /\ j + i \in DOMAIN ms /\ j + i <= Len(ms)
    BY <1>1
  <2>2. ms[j + i] = Answers(turn[i])
    BY <2>1 DEF Talk, AnswersFollow
  <2> QED
    BY <1>1, <2>1, <2>2 DEF Given, ToSet
<1>3. ASSUME NEW i \in Given
      PROVE  i \in 1 .. Len(ms) - j
  <2>1. i \in DOMAIN turn /\ turn[i] \in CallSet
    BY DEF Given
  <2>2. PICK q \in DOMAIN ms : ms[q] = Answers(turn[i])
    BY <1>1 DEF Given, ToSet
  <2>3. ms[q].role = "tool" /\ ms[q].call = turn[i]
    BY <2>1, <2>2, MessageKinds
  <2>4. PICK p \in 1 .. q - 1 : q - p \in DOMAIN ms[p].calls
    BY <2>3 DEF Talk, AnswersBelong
  <2>5. p \in DOMAIN ms /\ p + (q - p) = q /\ q <= Len(ms)
    BY <1>1
  <2>6. ms[q] = Answers(ms[p].calls[q - p]) /\ ms[p].calls[q - p] \in CallSet
    <3>1. p + (q - p) <= Len(ms)
      BY <1>1
    <3>2. ms[p + (q - p)] = Answers(ms[p].calls[q - p])
      BY <2>4, <2>5, <3>1 DEF Talk, AnswersFollow
    <3>3. ms[p].calls[q - p] \in CallSet
      <4>1. ms[p].calls \in Seq(CallSet)
        BY <1>1, <2>5, CallsOf
      <4> QED
        BY <2>4, <4>1
    <3> QED
      BY <2>5, <3>2, <3>3
  <2>7. ms[p].calls[q - p] = ms[j].calls[i]
    BY <2>3, <2>6, MessageKinds
  <2>8. p = j /\ q - p = i
    BY <2>1, <2>4, <2>5, <2>7 DEF Talk, Distinct
  <2> QED
    BY <1>1, <2>1, <2>8
<1>4. Given = 1 .. Len(ms) - j
  BY <1>2, <1>3
<1>5. Cardinality(1 .. Len(ms) - j) = Len(ms) - j
  <2>1. Len(ms) - j \in Nat
    BY <1>1
  <2> QED
    BY <2>1, FS_Interval
<1> QED
  BY <1>1, <1>4, <1>5

Splice(m, s, e, x) == SubSeq(m, 1, s) \o <<x>> \o SubSeq(m, e + 1, Len(m))

Spliced(S, w, m, s, e, x) ==
  /\ w \in Seq(S) /\ Len(m) \in Nat
  /\ Len(w) = Len(m) - (e - s) + 1
  /\ DOMAIN w = 1 .. Len(m) - (e - s) + 1 /\ DOMAIN m = 1 .. Len(m)
  /\ \A i \in 1 .. s : w[i] = m[i]
  /\ w[s + 1] = x
  /\ \A i \in e + 1 .. Len(m) : w[i - (e - s) + 1] = m[i]

LEMMA Splicing ==
  ASSUME NEW S, NEW x \in S, NEW m \in Seq(S), NEW s \in Nat, NEW e \in Nat, s < e, e <= Len(m)
  PROVE  Spliced(S, Splice(m, s, e, x), m, s, e, x)
<1>2. /\ SubSeq(m, 1, s) \in Seq(S) /\ Len(SubSeq(m, 1, s)) = s
      /\ \A i \in 1 .. s : SubSeq(m, 1, s)[i] = m[i]
  OBVIOUS
<1>3. /\ SubSeq(m, e + 1, Len(m)) \in Seq(S)
      /\ Len(SubSeq(m, e + 1, Len(m))) = Len(m) - e
      /\ \A i \in 1 .. Len(m) - e : SubSeq(m, e + 1, Len(m))[i] = m[e + i]
  OBVIOUS
<1> DEFINE b == SubSeq(m, 1, s)
           c == SubSeq(m, e + 1, Len(m))
<1> HIDE DEF b, c
<1>4. Splice(m, s, e, x) = b \o <<x>> \o c
  BY DEF Splice, b, c
<1>5. /\ b \o <<x>> \in Seq(S) /\ Len(b \o <<x>>) = s + 1
      /\ \A i \in 1 .. s : (b \o <<x>>)[i] = m[i]
      /\ (b \o <<x>>)[s + 1] = x
  BY <1>2 DEF b
<1> DEFINE d == b \o <<x>>
<1> HIDE DEF d
<1>6. /\ d \o c \in Seq(S) /\ Len(d \o c) = s + 1 + (Len(m) - e)
      /\ \A i \in 1 .. s + 1 : (d \o c)[i] = d[i]
      /\ \A i \in 1 .. Len(m) - e : (d \o c)[s + 1 + i] = m[e + i]
  <2>1. c \in Seq(S) /\ Len(c) = Len(m) - e /\ \A i \in 1 .. Len(m) - e : c[i] = m[e + i]
    BY <1>3 DEF c
  <2>2. d \in Seq(S) /\ Len(d) = s + 1
    BY <1>5 DEF d
  <2>3. /\ d \o c \in Seq(S) /\ Len(d \o c) = Len(d) + Len(c)
        /\ \A i \in 1 .. Len(d) : (d \o c)[i] = d[i]
        /\ \A i \in 1 .. Len(c) : (d \o c)[Len(d) + i] = c[i]
    <3>1. \A i \in 1 .. Len(d) + Len(c) :
            (d \o c)[i] = IF i <= Len(d) THEN d[i] ELSE c[i - Len(d)]
      BY <2>1, <2>2, ConcatProperties
    <3>2. ASSUME NEW i \in 1 .. Len(c)
          PROVE  (d \o c)[Len(d) + i] = c[i]
      <4>1. Len(d) + i \in 1 .. Len(d) + Len(c) /\ ~(Len(d) + i <= Len(d)) /\ Len(d) + i - Len(d) = i
        BY <2>1, <2>2
      <4> QED
        BY <3>1, <4>1
    <3>3. d \o c \in Seq(S) /\ Len(d \o c) = Len(d) + Len(c)
      BY <2>1, <2>2, ConcatProperties
    <3>4. \A i \in 1 .. Len(d) : (d \o c)[i] = d[i]
      BY <2>1, <2>2, <3>1
    <3> QED
      BY <3>2, <3>3, <3>4
  <2> QED
    BY <2>1, <2>2, <2>3
<1>7. ASSUME NEW i \in e + 1 .. Len(m)
      PROVE  (d \o c)[i - (e - s) + 1] = m[i]
  <2>1. i - e \in 1 .. Len(m) - e /\ s + 1 + (i - e) = i - (e - s) + 1 /\ e + (i - e) = i
    OBVIOUS
  <2> QED
    BY <1>6, <2>1
<1> QED
  BY <1>4, <1>5, <1>6, <1>7 DEF d, Spliced

LEMMA Cutting ==
  ASSUME NEW m \in Seq(Messages), NEW s \in Nat, NEW e \in Nat, s < e, e <= Len(m)
  PROVE  /\ Cut(m, s, e) \in Seq(Messages) /\ Len(m) \in Nat
         /\ Len(Cut(m, s, e)) = Len(m) - (e - s) + 1
         /\ DOMAIN Cut(m, s, e) = 1 .. Len(m) - (e - s) + 1 /\ DOMAIN m = 1 .. Len(m)
         /\ \A i \in 1 .. s : Cut(m, s, e)[i] = m[i]
         /\ Cut(m, s, e)[s + 1] = Summary
         /\ \A i \in e + 1 .. Len(m) : Cut(m, s, e)[i - (e - s) + 1] = m[i]
<1>1. Summary \in Messages
  BY MessageKinds DEF Summary
<1>2. Cut(m, s, e) = Splice(m, s, e, Summary)
  BY DEF Cut, Splice
<1>3. Spliced(Messages, Splice(m, s, e, Summary), m, s, e, Summary)
  BY <1>1, Splicing
<1> QED
  BY <1>2, <1>3 DEF Spliced

(* The last of a set of places, by the smallest distance from the end.       *)
LEMMA LastOne ==
  ASSUME NEW n \in Nat, NEW S, S \subseteq 1 .. n, S # {}
  PROVE  \E x \in S : \A y \in S : y <= x
<1> DEFINE D == {n - x : x \in S}
<1>1. D \subseteq Nat /\ D # {}
  <2>1. \A x \in S : n - x \in Nat
    OBVIOUS
  <2> QED
    BY <2>1
<1>2. PICK d \in D : \A z \in D : ~(<<z, d>> \in OpToRel(<, Nat))
  <2> HIDE DEF D
  <2> QED
    BY <1>1, WFMin, NatLessThanWellFounded
<1>3. \A z \in D : ~(z < d)
  BY <1>1, <1>2 DEF OpToRel
<1>4. PICK x \in S : d = n - x
  OBVIOUS
<1>5. ASSUME NEW y \in S
      PROVE  y <= x
  <2>1. n - y \in D
    OBVIOUS
  <2>2. ~(n - y < n - x)
    BY <1>3, <1>4, <2>1
  <2> QED
    BY <2>2
<1> QED
  BY <1>5

(* A group ends with its last answer, so a boundary behind a call's message  *)
(* is behind its answers.                                                    *)
LEMMA BehindAnswers ==
  ASSUME NEW m, Talk(m), AllAnswered(m), NEW n \in Nat, Boundary(m, n), NEW i \in DOMAIN m, i <= n,
         m[i].calls # <<>>
  PROVE  i + Len(m[i].calls) <= n
<1>1. /\ m \in Seq(Messages) /\ m[i].calls \in Seq(CallSet) /\ Len(m[i].calls) \in Nat
      /\ DOMAIN m[i].calls = 1 .. Len(m[i].calls) /\ i \in 1 .. Len(m) /\ Len(m) \in Nat
      /\ i + Len(m[i].calls) <= Len(m) /\ DOMAIN m = 1 .. Len(m)
  BY CallsOf DEF Talk, AllAnswered
<1>2. ASSUME NEW k \in 1 .. Len(m[i].calls)
      PROVE  m[i + k].role = "tool"
  <2>1. m[i + k] = Answers(m[i].calls[k]) /\ m[i].calls[k] \in CallSet
    BY <1>1 DEF Talk, AnswersFollow
  <2> QED
    BY <2>1, MessageKinds
<1> DEFINE Rest == {j \in 1 .. Len(m) : j >= i /\ \A k \in i + 1 .. j : m[k].role = "tool"}
<1>3. i \in Rest
  BY <1>1
<1>4. PICK g \in Rest : \A y \in Rest : y <= g
  <2>1. Rest \subseteq 1 .. Len(m)
    OBVIOUS
  <2> HIDE DEF Rest
  <2> QED
    BY <1>1, <1>3, <2>1, LastOne
<1>5. g = Len(m) \/ m[g + 1].role # "tool"
  <2>1. SUFFICES ASSUME g # Len(m), m[g + 1].role = "tool"
                 PROVE  FALSE
    OBVIOUS
  <2>2. g \in Nat /\ g + 1 \in 1 .. Len(m) /\ g + 1 >= i
    <3>1. Len(m) \in Nat /\ i \in Nat
      BY <1>1
    <3>2. g \in 1 .. Len(m) /\ g >= i
      OBVIOUS
    <3> HIDE DEF Rest
    <3> QED
      BY <2>1, <3>1, <3>2
  <2>3. \A k \in i + 1 .. g : m[k].role = "tool"
    OBVIOUS
  <2>4. \A k \in i + 1 .. g + 1 : k \in i + 1 .. g \/ k = g + 1
    BY <1>1, <2>2
  <2>5. g + 1 \in Rest
    BY <2>1, <2>2, <2>3, <2>4
  <2>6. ~(g + 1 <= g)
    BY <2>2
  <2> QED
    BY <1>4, <2>5, <2>6
<1>6. /\ GroupEnd(m, i) \in i .. Len(m)
      /\ GroupEnd(m, i) = Len(m) \/ m[GroupEnd(m, i) + 1].role # "tool"
  <2>1. g \in i .. Len(m) /\ \A k \in i + 1 .. g : m[k].role = "tool"
    BY <1>1
  <2>2. \E j \in i .. Len(m) : /\ \A k \in i + 1 .. j : m[k].role = "tool"
                               /\ j = Len(m) \/ m[j + 1].role # "tool"
    BY <1>5, <2>1
  <2> QED
    BY <2>2 DEF GroupEnd
<1>7. n >= GroupEnd(m, i)
  BY <1>1 DEF Boundary
<1>8. GroupEnd(m, i) >= i + Len(m[i].calls)
  <2>1. SUFFICES ASSUME GroupEnd(m, i) < i + Len(m[i].calls)
                 PROVE  FALSE
    BY <1>1, <1>6
  <2>2. GroupEnd(m, i) + 1 - i \in 1 .. Len(m[i].calls)
    BY <1>1, <1>6, <2>1
  <2>3. i + (GroupEnd(m, i) + 1 - i) = GroupEnd(m, i) + 1
    BY <1>1, <1>6
  <2>4. m[GroupEnd(m, i) + 1].role = "tool"
    BY <1>2, <2>2, <2>3
  <2> QED
    BY <1>1, <1>6, <2>1, <2>4
<1> QED
  BY <1>1, <1>6, <1>7, <1>8

LEMMA CutKeeps ==
  ASSUME NEW m, Talk(m), AllAnswered(m), NEW s \in Nat, NEW e \in Nat, 2 <= s, s < e, e <= Len(m),
         Boundary(m, s), Boundary(m, e)
  PROVE  /\ Talk(Cut(m, s, e)) /\ AllAnswered(Cut(m, s, e))
         /\ \A r, n : SaidBefore(m, r, n) => SaidBefore(Cut(m, s, e), r, n)
<1>2. PICK d \in Nat : s + 1 + d = e
  <2>1. e - s - 1 \in Nat /\ s + 1 + (e - s - 1) = e
    OBVIOUS
  <2> QED
    BY <2>1
<1> DEFINE c == Cut(m, s, e)
           Moved(i) == IF i <= s THEN i ELSE i + d
<1>1. /\ m \in Seq(Messages) /\ c \in Seq(Messages) /\ Len(m) \in Nat
      /\ Len(c) = Len(m) - d /\ DOMAIN c = 1 .. Len(m) - d /\ DOMAIN m = 1 .. Len(m)
      /\ \A i \in 1 .. s : c[i] = m[i]
      /\ c[s + 1] = Summary
      /\ \A i \in e + 1 .. Len(m) : c[i - d] = m[i]
  <2>1. m \in Seq(Messages)
    BY DEF Talk
  <2>2. Len(m) \in Nat /\ Len(m) - (e - s) + 1 = Len(m) - d
        /\ \A i \in e + 1 .. Len(m) : i - (e - s) + 1 = i - d
    BY <1>2, <2>1
  <2>3. ASSUME NEW i \in e + 1 .. Len(m)
        PROVE  c[i - d] = m[i]
    <3>1. c[i - (e - s) + 1] = m[i]
      BY ZenonT(40), <2>1, <2>3, Cutting
    <3>2. i - (e - s) + 1 = i - d
      BY <2>2
    <3> HIDE DEF c
    <3> QED
      BY <3>1, <3>2
  <2>4. /\ c \in Seq(Messages)
        /\ Len(c) = Len(m) - (e - s) + 1 /\ DOMAIN c = 1 .. Len(m) - (e - s) + 1
        /\ DOMAIN m = 1 .. Len(m) /\ \A i \in 1 .. s : c[i] = m[i]
        /\ c[s + 1] = Summary
    BY ZenonT(40), <2>1, Cutting
  <2> HIDE DEF c
  <2> QED
    BY <2>1, <2>2, <2>3, <2>4
<1> HIDE DEF c
<1>3. \A j \in DOMAIN m : /\ m[j].calls \in Seq(CallSet) /\ Len(m[j].calls) \in Nat
                          /\ DOMAIN m[j].calls = 1 .. Len(m[j].calls)
                          /\ j + Len(m[j].calls) <= Len(m)
  BY <1>1, CallsOf DEF AllAnswered
<1>4. Summary.calls = <<>> /\ Summary.role = "summary"
  BY MessageKinds DEF Summary
<1>5. \A i \in DOMAIN c \ {s + 1} :
        /\ Moved(i) \in DOMAIN m /\ c[i] = m[Moved(i)] /\ i \in Nat
        /\ i <= s \/ i > s + 1
  <2>1. ASSUME NEW i \in DOMAIN c, i > s + 1
        PROVE  i + d \in DOMAIN m /\ c[i] = m[i + d]
    <3>1. i + d \in e + 1 .. Len(m) /\ (i + d) - d = i
      BY <1>1, <1>2, <2>1
    <3> QED
      BY <1>1, <3>1
  <2> QED
    BY SMTT(30), <1>1, <2>1
<1>6. ASSUME NEW j \in DOMAIN m, m[j].calls # <<>>
      PROVE  /\ j <= s => j + Len(m[j].calls) <= s
             /\ j <= e => j + Len(m[j].calls) <= e
  BY <1>6, BehindAnswers
<1>7. ASSUME NEW j \in DOMAIN c, NEW k \in DOMAIN c[j].calls
      PROVE  /\ j # s + 1 /\ k \in 1 .. Len(m[Moved(j)].calls) /\ k \in DOMAIN m[Moved(j)].calls
             /\ j + k \in DOMAIN c /\ j + k # s + 1 /\ Moved(j + k) = Moved(j) + k
  <2>1. j # s + 1
    BY <1>1, <1>4, <1>7
  <2>2. PICK q \in DOMAIN m : q = Moved(j) /\ c[j] = m[q]
    BY <1>5, <2>1
  <2>3. j \in Nat /\ (j <= s \/ j > s + 1)
    BY <1>5, <2>1
  <2>4. /\ k \in 1 .. Len(m[q].calls) /\ k \in DOMAIN m[q].calls /\ m[q].calls # <<>>
        /\ q + Len(m[q].calls) <= Len(m) /\ Len(m[q].calls) \in Nat
        /\ q + k <= Len(m) /\ k \in Nat \ {0}
    <3>1. /\ m[q].calls \in Seq(CallSet) /\ Len(m[q].calls) \in Nat
          /\ DOMAIN m[q].calls = 1 .. Len(m[q].calls) /\ q + Len(m[q].calls) <= Len(m)
      BY <1>3
    <3>2. k \in DOMAIN m[q].calls
      BY <2>2
    <3>3. q \in Nat /\ Len(m) \in Nat
      BY <1>1
    <3> QED
      BY <3>1, <3>2, <3>3
  <2>5. j + k \in DOMAIN c /\ j + k # s + 1 /\ Moved(j + k) = q + k
    <3>1. CASE j <= s
      <4>1. q = j
        BY <2>2, <3>1
      <4>2. q + Len(m[q].calls) <= s
        BY <1>6, <2>4, <3>1, <4>1
      <4>3. j + k <= s /\ j + k \in Nat \ {0}
        BY <2>3, <2>4, <4>1, <4>2
      <4> QED
        BY <1>1, <1>2, <4>1, <4>3
    <3>2. CASE j > s + 1
      <4>1. q = j + d
        BY <2>2, <2>3, <3>2
      <4>2. q + k <= Len(m) /\ k \in Nat \ {0} /\ Len(m) \in Nat
        BY <1>1, <2>4
      <4>3. j + k \in 1 .. Len(m) - d /\ j + k > s + 1 /\ j + k + d = q + k
        BY <1>2, <2>3, <3>2, <4>1, <4>2
      <4>4. Moved(j + k) = j + k + d
        BY <1>2, <4>3
      <4> QED
        BY <1>1, <4>3, <4>4
    <3> QED
      BY <2>3, <3>1, <3>2
  <2> HIDE DEF Moved
  <2> QED
    BY <2>1, <2>2, <2>4, <2>5
<1>8. Opens(c)
  BY <1>1, <1>2 DEF Talk, Opens
<1>9. AnswersFollow(c)
  <2>1. ASSUME NEW j \in DOMAIN c, NEW k \in DOMAIN c[j].calls
        PROVE  c[j + k] = Answers(c[j].calls[k])
    <3>1. /\ j # s + 1 /\ k \in DOMAIN m[Moved(j)].calls
          /\ j + k \in DOMAIN c /\ j + k # s + 1 /\ Moved(j + k) = Moved(j) + k
      BY <1>7
    <3>2. c[j] = m[Moved(j)] /\ c[j + k] = m[Moved(j + k)] /\ Moved(j) \in DOMAIN m
          /\ Moved(j + k) \in DOMAIN m
      BY <1>5, <3>1
    <3> HIDE DEF Moved
    <3>3. m[Moved(j) + k] = Answers(m[Moved(j)].calls[k])
      <4>1. Moved(j) + k <= Len(m)
        BY <1>1, <3>1, <3>2
      <4> QED
        BY <3>1, <3>2, <4>1 DEF Talk, AnswersFollow
    <3> QED
      BY <3>1, <3>2, <3>3
  <2> QED
    BY <2>1 DEF AnswersFollow
<1>10. AnswersBelong(c)
  <2>1. ASSUME NEW i \in DOMAIN c, c[i].role = "tool"
        PROVE  \E j \in 1 .. i - 1 : i - j \in DOMAIN c[j].calls
    <3>1. i # s + 1 /\ Moved(i) \in DOMAIN m /\ c[i] = m[Moved(i)] /\ i \in Nat
          /\ (i <= s \/ i > s + 1)
      BY <1>4, <1>5, <1>1, <2>1
    <3>2. PICK q \in DOMAIN m : q = Moved(i) /\ c[i] = m[q]
      BY <3>1
    <3>3. PICK j \in 1 .. q - 1 : q - j \in DOMAIN m[j].calls
      BY <2>1, <3>2 DEF Talk, AnswersBelong
    <3>4. j \in DOMAIN m /\ m[j].calls # <<>> /\ q <= j + Len(m[j].calls) /\ q \in Nat
          /\ Len(m[j].calls) \in Nat /\ j \in Nat
      <4>1. j \in DOMAIN m /\ q \in Nat /\ j \in Nat
        BY SMTT(30), <1>1, <3>2
      <4>2. q - j \in 1 .. Len(m[j].calls) /\ Len(m[j].calls) \in Nat
            /\ DOMAIN m[j].calls = 1 .. Len(m[j].calls)
        BY <1>3, <3>3, <4>1
      <4> QED
        BY <4>1, <4>2
    <3>5. CASE i <= s
      <4>1. q = i /\ c[j] = m[j]
        BY <1>1, <3>2, <3>3, <3>5
      <4> QED
        BY <3>3, <4>1
    <3>6. CASE i > s + 1
      <4>1. q = i + d
        BY <1>2, <3>1, <3>2, <3>6
      <4>0. q > e
        BY <1>2, <3>1, <3>6, <4>1
      <4>2. j > e
        BY <1>6, <3>4, <4>0
      <4>3. /\ j - d \in DOMAIN c /\ j - d \in 1 .. i - 1 /\ i - (j - d) = q - j
        <5>1. j \in Nat /\ j <= Len(m) /\ j <= q - 1 /\ i \in Nat /\ Len(m) \in Nat
          BY <1>1, <3>1, <3>3, <3>4
        <5>2. j - d \in 1 .. Len(m) - d /\ j - d \in 1 .. i - 1 /\ i - (j - d) = q - j
          BY <1>2, <4>1, <4>2, <5>1
        <5> QED
          BY <1>1, <5>2
      <4>4. c[j - d] = m[j]
        <5>1. j \in e + 1 .. Len(m)
          BY <1>1, <3>4, <4>2
        <5> QED
          BY <1>1, <5>1
      <4> QED
        BY <3>3, <4>3, <4>4
    <3> QED
      BY <3>1, <3>5, <3>6
  <2> QED
    BY <2>1 DEF AnswersBelong
<1>11. Distinct(c)
  <2>1. ASSUME NEW i \in DOMAIN c, NEW j \in DOMAIN c, NEW k \in DOMAIN c[i].calls,
               NEW l \in DOMAIN c[j].calls, c[i].calls[k] = c[j].calls[l]
        PROVE  i = j /\ k = l
    <3>1. /\ i # s + 1 /\ k \in DOMAIN m[Moved(i)].calls /\ j # s + 1
          /\ l \in DOMAIN m[Moved(j)].calls
      BY <1>7
    <3>2. /\ Moved(i) \in DOMAIN m /\ c[i] = m[Moved(i)] /\ (i <= s \/ i > s + 1) /\ i \in Nat
          /\ Moved(j) \in DOMAIN m /\ c[j] = m[Moved(j)] /\ (j <= s \/ j > s + 1) /\ j \in Nat
      BY <1>5, <3>1
    <3>3. Moved(i) = Moved(j) /\ k = l
      <4> HIDE DEF Moved
      <4> QED
        BY <2>1, <3>1, <3>2 DEF Talk, Distinct
    <3> QED
      BY <1>2, <3>2, <3>3
  <2> QED
    BY <2>1 DEF Distinct
<1>12. AllAnswered(c)
  <2>1. ASSUME NEW j \in DOMAIN c
        PROVE  j + Len(c[j].calls) <= Len(c)
    <3>1. /\ c[j].calls \in Seq(CallSet) /\ Len(c[j].calls) \in Nat /\ j \in 1 .. Len(c)
          /\ DOMAIN c[j].calls = 1 .. Len(c[j].calls) /\ DOMAIN c = 1 .. Len(c) /\ Len(c) \in Nat
      BY <1>1, CallsOf
    <3>2. CASE Len(c[j].calls) = 0
      BY <3>1, <3>2
    <3>3. CASE Len(c[j].calls) # 0
      <4>1. Len(c[j].calls) \in DOMAIN c[j].calls
        BY <3>1, <3>3
      <4>2. j + Len(c[j].calls) \in DOMAIN c
        BY <1>7, <4>1
      <4> QED
        BY <3>1, <4>2
    <3> QED
      BY <3>2, <3>3
  <2> QED
    BY <2>1 DEF AllAnswered
<1>13. ASSUME NEW r, NEW n, SaidBefore(m, r, n)
       PROVE  SaidBefore(c, r, n)
  <2>1. ASSUME NEW j \in DOMAIN c, NEW k \in DOMAIN c[j].calls
        PROVE  /\ Moved(j) \in DOMAIN m /\ k \in DOMAIN m[Moved(j)].calls
               /\ c[j].calls[k] = m[Moved(j)].calls[k]
    BY <1>5, <1>7
  <2> HIDE DEF Moved
  <2> QED
    BY <1>13, <2>1 DEF SaidBefore
<1> QED
  BY <1>1, <1>8, <1>9, <1>10, <1>11, <1>12, <1>13 DEF Talk, c

(* The protected messages begin with the task, and a compaction leaves them. *)
LEMMA PrefixProtects ==
  ASSUME NEW c, NEW m, Talk(m), c.prefix \in Nat, c.prefix >= 2
  PROVE  SafePrefix(c, m) \in Nat /\ SafePrefix(c, m) >= 2
<1>1. m \in Seq(Messages) /\ Len(m) \in Nat /\ Len(m) >= 2 /\ DOMAIN m = 1 .. Len(m)
      /\ m[1].calls = <<>> /\ m[2].calls = <<>>
  BY MessageKinds DEF Talk, Opens
<1>2. Boundary(m, 2)
  <2>1. ASSUME 2 < Len(m), m[2 + 1].role = "tool"
        PROVE  FALSE
    <3>1. 3 \in DOMAIN m /\ m[3].role = "tool"
      BY <1>1, <2>1
    <3>2. PICK j \in 1 .. 2 : 3 - j \in DOMAIN m[j].calls
      BY <3>1 DEF Talk, AnswersBelong
    <3> QED
      BY <1>1, <3>2
  <2>2. \A i \in 1 .. 2 : m[i].calls = <<>>
    BY <1>1
  <2> QED
    BY <1>1, <2>1, <2>2 DEF Boundary
<1> DEFINE most == IF c.prefix < Len(m) THEN c.prefix ELSE Len(m)
           Cuts == {q \in 1 .. most : Boundary(m, q)}
<1>3. most \in Nat /\ most >= 2
  BY <1>1
<1> HIDE DEF most
<1>4. 2 \in Cuts
  BY <1>2, <1>3
<1>5. PICK p \in Cuts : \A y \in Cuts : y <= p
  <2>1. Cuts \subseteq 1 .. most
    OBVIOUS
  <2> HIDE DEF Cuts
  <2> QED
    BY <1>3, <1>4, <2>1, LastOne
<1>6. \E q \in 1 .. most : /\ q = 1 \/ Boundary(m, q)
                           /\ \A z \in q + 1 .. most : ~Boundary(m, z)
  <2>1. \A z \in p + 1 .. most : ~Boundary(m, z)
    BY <1>3, <1>5
  <2> QED
    BY <1>5, <2>1
<1>7. /\ SafePrefix(c, m) \in 1 .. most
      /\ \A z \in SafePrefix(c, m) + 1 .. most : ~Boundary(m, z)
  BY <1>6 DEF SafePrefix, most
<1> QED
  BY <1>2, <1>3, <1>7

(* Places in one message.                                                    *)
RowOf(j, b, n) == {<<j, k>> : k \in b + 1 .. b + n}

LEMMA Row ==
  ASSUME NEW j, NEW b \in Nat, NEW n \in Nat
  PROVE  Cardinality(RowOf(j, b, n)) = n
<1> DEFINE S == {<<j, k>> : k \in b + 1 .. b + n}
           f == [i \in 1 .. n |-> <<j, b + i>>]
<1>1. \A i \in 1 .. n : f[i] \in S /\ f[i] = <<j, b + i>>
  OBVIOUS
<1>2. f \in [1 .. n -> S]
  BY <1>1
<1>3. \A i, l \in 1 .. n : f[i] = f[l] => i = l
  BY <1>1
<1>4. \A q \in S : \E i \in 1 .. n : f[i] = q
  <2>1. ASSUME NEW k \in b + 1 .. b + n
        PROVE  \E i \in 1 .. n : f[i] = <<j, k>>
    <3>1. k - b \in 1 .. n /\ b + (k - b) = k
      OBVIOUS
    <3> QED
      BY <1>1, <3>1
  <2> QED
    BY <2>1
<1> HIDE DEF f, S
<1>5. ExistsBijection(1 .. n, S)
  BY <1>2, <1>3, <1>4 DEF ExistsBijection, Bijection, Injection, Surjection, IsInjective
<1> QED
  BY <1>5, FS_CountingElements DEF S, RowOf

(* A call is answered exactly if the messages reach as far as its answer.    *)
LEMMA AnsweredPlaces ==
  ASSUME NEW m, Talk(m), NEW j \in DOMAIN m, NEW k \in DOMAIN m[j].calls
  PROVE  m[j].calls[k] \in AnsweredIn(m) <=> j + k <= Len(m)
<1>1. /\ m \in Seq(Messages) /\ Len(m) \in Nat /\ j \in 1 .. Len(m) /\ DOMAIN m = 1 .. Len(m)
      /\ m[j].calls \in Seq(CallSet) /\ m[j].calls[k] \in CallSet /\ k \in Nat \ {0}
  BY CallsOf DEF Talk
<1>2. ASSUME j + k <= Len(m)
      PROVE  m[j].calls[k] \in AnsweredIn(m)
  <2>1. j + k \in DOMAIN m /\ m[j + k] = Answers(m[j].calls[k])
    BY <1>1, <1>2 DEF Talk, AnswersFollow
  <2>2. m[j + k].role = "tool" /\ m[j + k].call = m[j].calls[k]
    BY <1>1, <2>1, MessageKinds
  <2> QED
    BY <2>1, <2>2 DEF AnsweredIn
<1>3. ASSUME m[j].calls[k] \in AnsweredIn(m)
      PROVE  j + k <= Len(m)
  <2>1. PICK q \in DOMAIN m : m[q].role = "tool" /\ m[q].call = m[j].calls[k]
    BY <1>3 DEF AnsweredIn
  <2>2. PICK p \in 1 .. q - 1 : q - p \in DOMAIN m[p].calls
    BY <2>1 DEF Talk, AnswersBelong
  <2>3. p \in DOMAIN m /\ p + (q - p) = q /\ q \in 1 .. Len(m)
    BY <1>1
  <2>4. m[p + (q - p)] = Answers(m[p].calls[q - p])
    BY <1>1, <2>2, <2>3 DEF Talk, AnswersFollow
  <2>5. m[p].calls[q - p] \in CallSet
    <3>1. m[p].calls \in Seq(CallSet)
      BY <1>1, <2>3, CallsOf
    <3> QED
      BY <2>2, <3>1
  <2>6. m[p].calls[q - p] = m[j].calls[k]
    BY SMTT(30), <2>1, <2>3, <2>4, <2>5, MessageKinds
  <2>7. p = j /\ q - p = k
    BY SMTT(30), <2>2, <2>3, <2>6 DEF Talk, Distinct
  <2> QED
    BY <1>1, <2>3, <2>7
<1> QED
  BY <1>2, <1>3

LEMMA Reaches ==
  ASSUME NEW l \in Nat, NEW c \in Nat, NEW p \in 1 .. l, NEW q \in 1 .. l, p < q, p + c > l
  PROVE  q - p \in 1 .. c /\ p + (q - p) = q /\ q <= l
OBVIOUS

(* Only the last reply can lack answers.                                     *)
LEMMA OneLacks ==
  ASSUME NEW m, Talk(m), NEW i \in DOMAIN m, NEW j \in DOMAIN m,
         i + Len(m[i].calls) > Len(m), j + Len(m[j].calls) > Len(m)
  PROVE  i = j
<1>1. ASSUME NEW p \in DOMAIN m, NEW q \in DOMAIN m, p < q, p + Len(m[p].calls) > Len(m)
      PROVE  m[q].calls = <<>>
  <2>1. /\ m[p].calls \in Seq(CallSet) /\ Len(m[p].calls) \in Nat /\ Len(m) \in Nat
        /\ p \in 1 .. Len(m) /\ q \in 1 .. Len(m)
        /\ DOMAIN m[p].calls = 1 .. Len(m[p].calls)
    BY CallsOf DEF Talk
  <2>2. q - p \in 1 .. Len(m[p].calls) /\ p + (q - p) = q /\ q <= Len(m)
    <3>1. PICK l, c : l = Len(m) /\ c = Len(m[p].calls)
      OBVIOUS
    <3>2. l \in Nat /\ c \in Nat /\ p \in 1 .. l /\ q \in 1 .. l
      BY <2>1, <3>1
    <3>4. p < q /\ p + c > l
      BY <1>1, <3>1
    <3>3. q - p \in 1 .. c /\ p + (q - p) = q /\ q <= l
      BY <3>2, <3>4, Reaches
    <3> QED
      BY <3>1, <3>3
  <2>3. m[p + (q - p)] = Answers(m[p].calls[q - p])
    BY <2>1, <2>2 DEF Talk, AnswersFollow
  <2>4. m[p].calls[q - p] \in CallSet
    <3>1. PICK c, k : c = m[p].calls /\ k = q - p
      OBVIOUS
    <3>2. c \in Seq(CallSet) /\ k \in 1 .. Len(c)
      BY <2>1, <2>2, <3>1
    <3>3. c[k] \in CallSet
      BY <3>2
    <3> QED
      BY <3>1, <3>3
  <2> QED
    BY <2>2, <2>3, <2>4, MessageKinds
<1>2. i \in 1 .. Len(m) /\ j \in 1 .. Len(m) /\ Len(m) \in Nat
  BY CallsOf DEF Talk
<1>3. ASSUME i < j PROVE FALSE
  <2>1. m[j].calls = <<>>
    BY <1>1, <1>3
  <2> QED
    BY <1>2, <2>1
<1>4. ASSUME j < i PROVE FALSE
  <2>1. m[i].calls = <<>>
    BY <1>1, <1>4
  <2> QED
    BY <1>2, <2>1
<1> QED
  BY <1>2, <1>3, <1>4

(* The answers that the repair puts behind the messages: each is for the     *)
(* call whose answer belongs at its place.                                   *)
LEMMA MissingIs ==
  ASSUME NEW m, Talk(m)
  PROVE  \E n \in Nat :
           /\ Missing(m) \in Seq(Messages) /\ Len(Missing(m)) = n
           /\ \A j \in DOMAIN m : j + Len(m[j].calls) <= Len(m) + n
           /\ \A j \in DOMAIN m : \A k \in DOMAIN m[j].calls :
                j + k > Len(m) => Missing(m)[j + k - Len(m)] = Answers(m[j].calls[k])
           /\ n > 0 => \E j \in DOMAIN m : j + Len(m[j].calls) = Len(m) + n
<1> DEFINE Lacks(n) ==
             /\ Missing(m) \in Seq(Messages) /\ Len(Missing(m)) = n
             /\ \A j \in DOMAIN m : j + Len(m[j].calls) <= Len(m) + n
             /\ \A j \in DOMAIN m : \A k \in DOMAIN m[j].calls :
                  j + k > Len(m) => Missing(m)[j + k - Len(m)] = Answers(m[j].calls[k])
             /\ n > 0 => \E j \in DOMAIN m : j + Len(m[j].calls) = Len(m) + n
<1>1. m \in Seq(Messages) /\ Len(m) \in Nat /\ DOMAIN m = 1 .. Len(m)
  BY DEF Talk
<1>2. Open(m) = UNION {{<<j, k>> : k \in {l \in DOMAIN m[j].calls : j + l > Len(m)}} :
                         j \in DOMAIN m}
  <2>1. ASSUME NEW j \in DOMAIN m
        PROVE  {l \in DOMAIN m[j].calls : m[j].calls[l] \notin AnsweredIn(m)}
                 = {l \in DOMAIN m[j].calls : j + l > Len(m)}
    <3>1. m[j].calls \in Seq(CallSet) /\ DOMAIN m[j].calls = 1 .. Len(m[j].calls)
          /\ Len(m[j].calls) \in Nat
      BY <1>1, CallsOf
    <3>2. \A l \in DOMAIN m[j].calls : m[j].calls[l] \in AnsweredIn(m) <=> j + l <= Len(m)
      BY AnsweredPlaces
    <3>3. \A l \in DOMAIN m[j].calls : j + l <= Len(m) <=> ~(j + l > Len(m))
      BY <1>1, <3>1
    <3> QED
      BY <3>2, <3>3
  <2> QED
    BY <2>1 DEF Open
<1>3. ASSUME \A j \in DOMAIN m : j + Len(m[j].calls) <= Len(m)
      PROVE  \E n \in Nat : Lacks(n)
  <2>1. ASSUME NEW j \in DOMAIN m, NEW k \in DOMAIN m[j].calls
        PROVE  ~(j + k > Len(m))
    BY <1>1, <1>3, CallsOf
  <2>2. Open(m) = {}
    BY <1>2, <2>1
  <2>3. Cardinality(Open(m)) = 0
    BY <2>2, FS_EmptySet
  <2>4. Missing(m) = <<>>
    BY <2>3 DEF Missing
  <2>5. \A j \in DOMAIN m : j + Len(m[j].calls) <= Len(m) + 0
    BY <1>1, <1>3
  <2>6. \A j \in DOMAIN m : \A k \in DOMAIN m[j].calls :
          j + k > Len(m) => Missing(m)[j + k - Len(m)] = Answers(m[j].calls[k])
    BY <2>1
  <2>7. Missing(m) \in Seq(Messages) /\ Len(Missing(m)) = 0
    BY <2>4
  <2>8. Lacks(0)
    BY <2>5, <2>6, <2>7
  <2> HIDE DEF Lacks
  <2> QED
    BY <2>8
<1>4. ASSUME NEW j \in DOMAIN m, j + Len(m[j].calls) > Len(m)
      PROVE  \E n \in Nat : Lacks(n)
  <2>1. /\ m[j].calls \in Seq(CallSet) /\ DOMAIN m[j].calls = 1 .. Len(m[j].calls)
        /\ Len(m[j].calls) \in Nat /\ j \in 1 .. Len(m)
    BY <1>1, CallsOf
  <2>2. PICK a \in Nat, n \in Nat : a = Len(m) - j /\ a + n = Len(m[j].calls) /\ n > 0
    <3>1. Len(m) - j \in Nat /\ Len(m[j].calls) - (Len(m) - j) \in Nat
          /\ (Len(m) - j) + (Len(m[j].calls) - (Len(m) - j)) = Len(m[j].calls)
          /\ Len(m[j].calls) - (Len(m) - j) > 0
      <4>1. PICK l, c : l = Len(m) /\ c = Len(m[j].calls)
        OBVIOUS
      <4>2. l \in Nat /\ c \in Nat /\ j \in 1 .. l /\ j + c > l
        BY <1>4, <2>1, <4>1, <1>1
      <4>3. l - j \in Nat /\ c - (l - j) \in Nat /\ (l - j) + (c - (l - j)) = c
            /\ c - (l - j) > 0
        BY <4>2
      <4> QED
        BY <4>1, <4>3
    <3> QED
      BY <3>1
  <2>3. \A i \in DOMAIN m : i # j => i + Len(m[i].calls) <= Len(m)
    BY <1>1, <1>4, OneLacks, CallsOf
  <2>4. \A i \in DOMAIN m : \A k \in DOMAIN m[i].calls : i + k > Len(m) => i = j
    BY <1>1, <2>3, CallsOf
  <2>5. Open(m) = RowOf(j, a, n)
    <3>1. {l \in DOMAIN m[j].calls : j + l > Len(m)} = a + 1 .. a + n
      BY <1>1, <2>1, <2>2
    <3> QED
      BY <1>2, <2>4, <3>1 DEF RowOf
  <2>6. Cardinality(Open(m)) = n
    BY <2>2, <2>5, Row
  <2>7. ASSUME NEW i \in 1 .. n
        PROVE  OpenCall(m, i) = m[j].calls[a + i]
    <3> DEFINE Fits(p) == Cardinality({q \in Open(m) : Before(q, p)}) = i - 1
    <3>1. ASSUME NEW l \in 1 .. n
          PROVE  Cardinality({q \in Open(m) : Before(q, <<j, a + l>>)}) = l - 1
      <4>1. l - 1 \in Nat
        OBVIOUS
      <4>2. {q \in Open(m) : Before(q, <<j, a + l>>)} = RowOf(j, a, l - 1)
        <5>1. \A k \in a + 1 .. a + n : Before(<<j, k>>, <<j, a + l>>)
                                          <=> k \in a + 1 .. a + (l - 1)
          BY <1>1, <2>1 DEF Before
        <5>2. \A k \in a + 1 .. a + (l - 1) : k \in a + 1 .. a + n
          OBVIOUS
        <5> QED
          BY <2>5, <5>1, <5>2 DEF RowOf
      <4> QED
        BY <4>1, <4>2, Row
    <3>2. <<j, a + i>> \in Open(m) /\ Fits(<<j, a + i>>)
      <4>1. a + i \in a + 1 .. a + n
        OBVIOUS
      <4> QED
        BY <2>5, <3>1, <4>1 DEF RowOf
    <3>3. \A p \in Open(m) : Fits(p) => p = <<j, a + i>>
      <4>1. ASSUME NEW p \in Open(m), Fits(p)
            PROVE  p = <<j, a + i>>
        <5>1. PICK k \in a + 1 .. a + n : p = <<j, k>>
          BY <2>5 DEF RowOf
        <5>2. k - a \in 1 .. n /\ a + (k - a) = k
          OBVIOUS
        <5>3. Cardinality({q \in Open(m) : Before(q, <<j, k>>)}) = (k - a) - 1
          BY <3>1, <5>2
        <5>4. (k - a) - 1 = i - 1
          BY <4>1, <5>1, <5>3
        <5>5. k = a + i
          BY <5>4
        <5> QED
          BY <5>1, <5>5
      <4> QED
        BY <4>1
    <3>4. (CHOOSE p \in Open(m) : Fits(p)) = <<j, a + i>>
      <4> HIDE DEF Fits
      <4> QED
        BY <3>2, <3>3
    <3>5. OpenCall(m, i) = m[(CHOOSE p \in Open(m) : Fits(p))[1]].calls[
                             (CHOOSE p \in Open(m) : Fits(p))[2]]
      BY DEF OpenCall
    <3>6. <<j, a + i>>[1] = j /\ <<j, a + i>>[2] = a + i
      OBVIOUS
    <3> QED
      BY <3>4, <3>5, <3>6
  <2>8. Missing(m) = [i \in 1 .. n |-> Answers(m[j].calls[a + i])]
    <3>1. Missing(m) = [i \in 1 .. n |-> Answers(OpenCall(m, i))]
      BY <2>6 DEF Missing
    <3> QED
      BY <2>7, <3>1
  <2>9. \A i \in 1 .. n : Answers(m[j].calls[a + i]) \in Messages
    <3>1. ASSUME NEW i \in 1 .. n
          PROVE  m[j].calls[a + i] \in CallSet
      <4>1. PICK c : c = m[j].calls
        OBVIOUS
      <4>2. c \in Seq(CallSet) /\ a + i \in 1 .. Len(c)
        <5>1. a + i \in 1 .. a + n
          OBVIOUS
        <5> QED
          BY <2>1, <2>2, <4>1, <5>1
      <4>3. c[a + i] \in CallSet
        BY <4>2
      <4> QED
        BY <4>1, <4>3
    <3> QED
      BY <3>1, MessageKinds
  <2>10. /\ Missing(m) \in Seq(Messages) /\ Len(Missing(m)) = n
         /\ \A i \in 1 .. n : Missing(m)[i] = Answers(m[j].calls[a + i])
    BY <2>8, <2>9
  <2>11. ASSUME NEW i \in DOMAIN m, NEW k \in DOMAIN m[i].calls, i + k > Len(m)
         PROVE  Missing(m)[i + k - Len(m)] = Answers(m[i].calls[k])
    <3>1. i = j /\ k \in 1 .. a + n
      BY <2>1, <2>2, <2>4, <2>11
    <3>2. i + k - Len(m) \in 1 .. n /\ a + (i + k - Len(m)) = k
      <4>1. j + k > Len(m) /\ j \in Nat /\ Len(m) \in Nat /\ k \in Nat /\ k <= a + n
        BY <1>1, <2>1, <2>11, <3>1
      <4>0. PICK l : l = Len(m)
        OBVIOUS
      <4>3. j + k > l /\ j \in Nat /\ l \in Nat /\ k \in Nat /\ k <= a + n
        BY <4>0, <4>1
      <4>4. a = l - j /\ a \in Nat /\ n \in Nat
        BY <2>1, <2>2, <4>0
      <4>5. j + k - l \in 1 .. n /\ a + (j + k - l) = k
        BY <4>3, <4>4
      <4>2. j + k - Len(m) \in 1 .. n /\ a + (j + k - Len(m)) = k
        BY <4>0, <4>5
      <4> QED
        BY <3>1, <4>2
    <3>3. Missing(m)[i + k - Len(m)] = Answers(m[j].calls[a + (i + k - Len(m))])
      BY <2>10, <3>2
    <3> QED
      BY <3>1, <3>2, <3>3
  <2>12. j + Len(m[j].calls) = Len(m) + n
    BY SMTT(30), <1>1, <2>1, <2>2
  <2>13. \A i \in DOMAIN m : i + Len(m[i].calls) <= Len(m) + n
    <3>1. ASSUME NEW i \in DOMAIN m, i # j
          PROVE  i + Len(m[i].calls) <= Len(m) + n
      BY <1>1, <2>3, <3>1, CallsOf
    <3>2. j + Len(m[j].calls) <= Len(m) + n
      BY <1>1, <2>12
    <3> QED
      BY <3>1, <3>2
  <2>14. Lacks(n)
    BY <2>10, <2>11, <2>12, <2>13
  <2> HIDE DEF Lacks
  <2> QED
    BY <2>14
<1>5. \A j \in DOMAIN m : j + Len(m[j].calls) \in Nat
  BY <1>1, CallsOf
<1>6. \A j \in DOMAIN m : ~(j + Len(m[j].calls) > Len(m)) => j + Len(m[j].calls) <= Len(m)
  BY <1>1, <1>5
<1>7. \E n \in Nat : Lacks(n)
  <2> HIDE DEF Lacks
  <2> QED
    BY <1>3, <1>4, <1>6
<1> QED
  BY <1>7

(* The repair answers what had no answer, says nothing else and takes        *)
(* nothing away.                                                             *)
Extends(w, m) == Len(m) <= Len(w) /\ \A i \in DOMAIN m : w[i] = m[i]

LEMMA Completing ==
  ASSUME NEW m, Talk(m)
  PROVE  /\ Talk(m \o Missing(m)) /\ AllAnswered(m \o Missing(m)) /\ Extends(m \o Missing(m), m)
         /\ \A r, s : SaidBefore(m, r, s) => SaidBefore(m \o Missing(m), r, s)
<1> DEFINE w == m \o Missing(m)
<1>1. PICK n \in Nat :
        /\ Missing(m) \in Seq(Messages) /\ Len(Missing(m)) = n
        /\ \A j \in DOMAIN m : j + Len(m[j].calls) <= Len(m) + n
        /\ \A j \in DOMAIN m : \A k \in DOMAIN m[j].calls :
             j + k > Len(m) => Missing(m)[j + k - Len(m)] = Answers(m[j].calls[k])
        /\ n > 0 => \E j \in DOMAIN m : j + Len(m[j].calls) = Len(m) + n
  BY MissingIs
<1>2. PICK l : l = Len(m)
  OBVIOUS
<1>3. m \in Seq(Messages) /\ l \in Nat /\ DOMAIN m = 1 .. l
  BY <1>2 DEF Talk
<1>4. /\ w \in Seq(Messages) /\ Len(w) = l + n /\ DOMAIN w = 1 .. l + n
      /\ \A i \in 1 .. l : w[i] = m[i]
      /\ \A i \in 1 .. n : w[l + i] = Missing(m)[i]
  <2>1. PICK x : x = Missing(m)
    OBVIOUS
  <2>2. x \in Seq(Messages) /\ Len(x) = n
    BY <1>1, <2>1
  <2>3. w = m \o x
    BY <2>1
  <2>4. w \in Seq(Messages) /\ Len(w) = l + n
    BY <1>2, <1>3, <2>2, <2>3
  <2>5. \A i \in 1 .. l : w[i] = m[i]
    BY <1>2, <1>3, <2>2, <2>3
  <2>6. \A i \in 1 .. n : w[l + i] = x[i]
    BY <1>2, <1>3, <2>2, <2>3
  <2> HIDE DEF w
  <2>7. DOMAIN w = 1 .. l + n
    BY <2>4
  <2>8. \A i \in 1 .. n : w[l + i] = Missing(m)[i]
    BY <2>1, <2>6
  <2> QED
    BY <2>4, <2>5, <2>7, <2>8
<1> HIDE DEF w
<1>5. \A j \in 1 .. l : /\ m[j].calls \in Seq(CallSet) /\ Len(m[j].calls) \in Nat
                        /\ DOMAIN m[j].calls = 1 .. Len(m[j].calls)
  BY <1>3, CallsOf
<1>6. ASSUME NEW i \in 1 .. n
      PROVE  \E j \in 1 .. l : \E k \in DOMAIN m[j].calls :
               j + k = l + i /\ w[l + i] = Answers(m[j].calls[k])
  <2>1. PICK j \in 1 .. l : j + Len(m[j].calls) = l + n
    BY <1>1, <1>2, <1>3
  <2>2. PICK t \in Nat : t = Len(m[j].calls)
    BY <1>5
  <2>3. PICK k \in Nat : j + k = l + i
    <3>1. l + i - j \in Nat /\ j + (l + i - j) = l + i
      BY <1>3
    <3> QED
      BY <3>1
  <2>4. j + t = l + n
    BY <2>1, <2>2
  <2>5. k \in 1 .. t /\ j + k > l /\ j + k - l = i
    BY <1>3, <2>3, <2>4
  <2>6. k \in DOMAIN m[j].calls
    BY <1>5, <2>2, <2>5
  <2>7. Missing(m)[i] = Answers(m[j].calls[k])
    BY <1>1, <1>2, <1>3, <2>5, <2>6
  <2> QED
    BY <1>4, <2>3, <2>6, <2>7
<1>7. ASSUME NEW i \in 1 .. n
      PROVE  w[l + i].calls = <<>>
  <2>1. PICK j \in 1 .. l : \E k \in DOMAIN m[j].calls : w[l + i] = Answers(m[j].calls[k])
    BY <1>6
  <2>2. PICK c \in CallSet : w[l + i] = Answers(c)
    BY <1>5, <2>1
  <2> QED
    BY <2>2, MessageKinds
<1>8. ASSUME NEW i \in DOMAIN w, w[i].calls # <<>>
      PROVE  i \in 1 .. l /\ w[i] = m[i]
  <2>1. CASE i \in 1 .. l
    BY <1>4, <2>1
  <2>2. CASE i > l
    <3>1. i - l \in 1 .. n /\ l + (i - l) = i
      BY <1>3, <1>4, <2>2
    <3> QED
      BY <1>7, <1>8, <3>1
  <2> QED
    BY <1>3, <1>4, <2>1, <2>2
<1>9. \A i \in DOMAIN w : \A k \in DOMAIN w[i].calls : i \in 1 .. l /\ w[i] = m[i]
  <2>1. ASSUME NEW i \in DOMAIN w, NEW k \in DOMAIN w[i].calls
        PROVE  w[i].calls # <<>>
    OBVIOUS
  <2> QED
    BY <1>8, <2>1
<1>10. Opens(w)
  BY <1>2, <1>3, <1>4 DEF Talk, Opens
<1>11. AnswersFollow(w)
  <2>1. ASSUME NEW j \in DOMAIN w, NEW k \in DOMAIN w[j].calls, j + k <= Len(w)
        PROVE  w[j + k] = Answers(w[j].calls[k])
    <3>1. j \in 1 .. l /\ w[j] = m[j] /\ k \in DOMAIN m[j].calls
      BY <1>9
    <3>2. k \in Nat \ {0}
      BY <1>5, <3>1
    <3>3. CASE j + k <= l
      <4>1. m[j + k] = Answers(m[j].calls[k])
        BY <1>2, <1>3, <3>1, <3>3 DEF Talk, AnswersFollow
      <4>2. j + k \in 1 .. l
        BY <1>3, <3>1, <3>2, <3>3
      <4> QED
        BY <1>4, <3>1, <4>1, <4>2
    <3>4. CASE j + k > l
      <4>1. Missing(m)[j + k - l] = Answers(m[j].calls[k])
        BY <1>1, <1>2, <1>3, <3>1, <3>4
      <4>2. j + k - l \in 1 .. n /\ l + (j + k - l) = j + k
        BY <1>3, <1>4, <2>1, <3>1, <3>2, <3>4
      <4> QED
        BY <1>4, <3>1, <4>1, <4>2
    <3> QED
      BY <1>3, <3>1, <3>2, <3>3, <3>4
  <2> QED
    BY <2>1 DEF AnswersFollow
<1>12. AnswersBelong(w)
  <2>1. ASSUME NEW i \in DOMAIN w, w[i].role = "tool"
        PROVE  \E j \in 1 .. i - 1 : i - j \in DOMAIN w[j].calls
    <3>1. CASE i \in 1 .. l
      <4>1. PICK j \in 1 .. i - 1 : i - j \in DOMAIN m[j].calls
        BY <1>3, <1>4, <2>1, <3>1 DEF Talk, AnswersBelong
      <4>2. w[j] = m[j]
        BY <1>3, <1>4, <3>1
      <4> QED
        BY <4>1, <4>2
    <3>2. CASE i > l
      <4>1. PICK p \in Nat : i = l + p /\ p \in 1 .. n
        <5>1. i - l \in 1 .. n /\ i = l + (i - l)
          BY <1>3, <1>4, <3>2
        <5> QED
          BY <5>1
      <4>2. PICK j \in 1 .. l : \E k \in DOMAIN m[j].calls : j + k = l + p
        BY <1>6, <4>1
      <4>3. PICK k \in DOMAIN m[j].calls : j + k = l + p
        BY <4>2
      <4>4. j \in 1 .. i - 1 /\ i - j = k
        <5>1. k \in Nat
          BY <1>5
        <5> QED
          BY <1>3, <4>1, <4>3, <5>1
      <4> QED
        BY <1>4, <4>3, <4>4
    <3> QED
      BY <1>3, <1>4, <3>1, <3>2
  <2> QED
    BY <2>1 DEF AnswersBelong
<1>13. Distinct(w)
  BY <1>3, <1>9 DEF Talk, Distinct
<1>14. AllAnswered(w)
  <2>1. ASSUME NEW j \in DOMAIN w
        PROVE  j + Len(w[j].calls) <= Len(w)
    <3>1. CASE w[j].calls = <<>>
      BY <1>3, <1>4, <3>1
    <3>2. CASE w[j].calls # <<>>
      BY <1>1, <1>2, <1>3, <1>4, <1>8, <3>2
    <3> QED
      BY <3>1, <3>2
  <2> QED
    BY <2>1 DEF AllAnswered
<1>15. Extends(w, m)
  BY <1>2, <1>3, <1>4 DEF Extends
<1>16. \A r, s : SaidBefore(m, r, s) => SaidBefore(w, r, s)
  BY <1>3, <1>9 DEF SaidBefore
<1> QED
  BY <1>4, <1>10, <1>11, <1>12, <1>13, <1>14, <1>15, <1>16 DEF Talk, w

LEMMA RepairedKeeps ==
  ASSUME NEW m, Talk(m)
  PROVE  /\ Talk(Repaired(m)) /\ AllAnswered(Repaired(m)) /\ Extends(Repaired(m), m)
         /\ \A r, s \in Nat : SaidBefore(m, r, s) => SaidBefore(Repaired(m), r, s)
<1>1. PICK w : w = m \o Missing(m)
  OBVIOUS
<1>2. /\ Talk(w) /\ AllAnswered(w) /\ Extends(w, m)
      /\ \A r, s : SaidBefore(m, r, s) => SaidBefore(w, r, s)
  BY <1>1, Completing
<1>3. /\ Plain("note") \in Messages /\ Plain("note").calls = <<>>
      /\ Plain("note").role # "tool"
  BY MessageKinds
<1>4. Repaired(m) = Append(w, Plain("note"))
  BY <1>1 DEF Repaired
<1>5. Talk(Append(w, Plain("note"))) /\ AllAnswered(Append(w, Plain("note")))
  BY <1>2, <1>3, PlainGrows
<1>6. Extends(Append(w, Plain("note")), m)
  <2>1. w \in Seq(Messages) /\ m \in Seq(Messages)
    BY <1>2 DEF Talk
  <2>2. \A i \in DOMAIN m : i \in DOMAIN w
    BY <1>2, <2>1 DEF Extends
  <2> QED
    BY <1>2, <1>3, <2>1, <2>2, Appending DEF Extends
<1>7. ASSUME NEW r \in Nat, NEW s \in Nat, SaidBefore(m, r, s)
      PROVE  SaidBefore(Append(w, Plain("note")), r, s)
  BY <1>2, <1>3, <1>7, SaidGrows DEF Talk
<1> QED
  BY <1>4, <1>5, <1>6, <1>7

-----------------------------------------------------------------------------
(* The record of the context.                                                *)
Joined(S, w, s, t) ==
  /\ w \in Seq(S) /\ Len(w) = Len(s) + Len(t) /\ DOMAIN w = 1 .. Len(s) + Len(t)
  /\ \A i \in 1 .. Len(s) : w[i] = s[i]
  /\ \A i \in 1 .. Len(t) : w[Len(s) + i] = t[i]

LEMMA Concat ==
  ASSUME NEW S, NEW s \in Seq(S), NEW t \in Seq(S)
  PROVE  Joined(S, s \o t, s, t)
<1>1. s \o t \in Seq(S) /\ Len(s \o t) = Len(s) + Len(t)
  BY ConcatProperties
<1>2. \A i \in 1 .. Len(s) + Len(t) : (s \o t)[i] = IF i <= Len(s) THEN s[i] ELSE t[i - Len(s)]
  BY ConcatProperties
<1>3. ASSUME NEW i \in 1 .. Len(t)
      PROVE  (s \o t)[Len(s) + i] = t[i]
  <2>1. Len(s) + i \in 1 .. Len(s) + Len(t) /\ ~(Len(s) + i <= Len(s)) /\ Len(s) + i - Len(s) = i
    OBVIOUS
  <2> QED
    BY <1>2, <2>1
<1>4. \A i \in 1 .. Len(s) : (s \o t)[i] = s[i]
  BY <1>2
<1> QED
  BY <1>1, <1>3, <1>4 DEF Joined

LEMMA SyncKeeps ==
  ASSUME NEW c, NEW m \in Seq(Messages), ContextOf(c, m)
  PROVE  ContextOf(Sync(c, m), m) /\ Len(Sync(c, m).live) = Len(m) /\ Sync(c, m).prefix = c.prefix
<1>1. PICK a \in Nat, r \in Nat, d \in Nat :
        a = Len(c.live) /\ r = Len(c.records) /\ a + d = Len(m)
  <2>1. Len(c.live) \in Nat /\ Len(c.records) \in Nat /\ Len(m) \in Nat /\ Len(c.live) <= Len(m)
    BY DEF ContextOf, Contexts, Captured
  <2>2. Len(m) - Len(c.live) \in Nat /\ Len(c.live) + (Len(m) - Len(c.live)) = Len(m)
    BY <2>1
  <2> QED
    BY <2>1, <2>2
<1>2. PICK f : f = SubSeq(m, Len(c.live) + 1, Len(m))
  OBVIOUS
<1>3. f \in Seq(Messages) /\ Len(f) = d /\ DOMAIN f = 1 .. d /\ \A i \in 1 .. d : f[i] = m[a + i]
  <2>1. f = SubSeq(m, a + 1, a + d) /\ Len(m) = a + d
    BY <1>1, <1>2
  <2> QED
    BY <2>1
<1>4. PICK u, v : u = [i \in DOMAIN f |-> Len(c.records) + i] /\ v = [i \in DOMAIN f |-> Source(f[i])]
  OBVIOUS
<1>5. /\ u \in Seq(Nat) /\ Len(u) = d /\ \A i \in 1 .. d : u[i] = r + i
      /\ v \in Seq(Records) /\ Len(v) = d /\ \A i \in 1 .. d : v[i].message = m[a + i]
  <2>1. u = [i \in 1 .. d |-> r + i]
    BY <1>1, <1>3, <1>4
  <2>2. v = [i \in 1 .. d |-> Source(f[i])]
    BY <1>3, <1>4
  <2>3. \A i \in 1 .. d : Source(f[i]) \in Records /\ Source(f[i]).message = m[a + i]
    BY <1>3 DEF Source, Records
  <2>4. u \in Seq(Nat) /\ Len(u) = d /\ \A i \in 1 .. d : u[i] = r + i
    BY <2>1
  <2>5. v \in Seq(Records) /\ Len(v) = d /\ \A i \in 1 .. d : v[i].message = m[a + i]
    BY <2>2, <2>3
  <2> QED
    BY <2>4, <2>5
<1>6. PICK x, y : x = c.live \o u /\ y = c.records \o v
  OBVIOUS
<1>7. /\ x \in Seq(Nat) /\ Len(x) = a + d /\ DOMAIN x = 1 .. a + d
      /\ (\A i \in 1 .. a : x[i] = c.live[i]) /\ (\A i \in 1 .. d : x[a + i] = r + i)
  <2>1. PICK b : b = c.live
    OBVIOUS
  <2>2. b \in Seq(Nat) /\ u \in Seq(Nat)
    BY <1>5, <2>1 DEF ContextOf, Contexts
  <2>3. Joined(Nat, b \o u, b, u)
    BY <2>2, Concat
  <2> QED
    BY <1>1, <1>5, <1>6, <2>1, <2>3 DEF Joined
<1>8. /\ y \in Seq(Records) /\ Len(y) = r + d /\ DOMAIN y = 1 .. r + d
      /\ (\A i \in 1 .. r : y[i] = c.records[i]) /\ (\A i \in 1 .. d : y[r + i] = v[i])
  <2>1. PICK b : b = c.records
    OBVIOUS
  <2>2. b \in Seq(Records) /\ v \in Seq(Records)
    BY <1>5, <2>1 DEF ContextOf, Contexts
  <2>3. Joined(Records, b \o v, b, v)
    BY <2>2, Concat
  <2> QED
    BY <1>1, <1>5, <1>6, <2>1, <2>3 DEF Joined
<1>9. PICK z : z = Sync(c, m)
  OBVIOUS
<1>10. z \in Contexts /\ z.live = x /\ z.records = y /\ z.prefix = c.prefix
  <2>1. z = [c EXCEPT !.live = x, !.records = y]
    BY <1>2, <1>4, <1>6, <1>9 DEF Sync
  <2> QED
    BY <1>7, <1>8, <2>1 DEF ContextOf, Contexts
<1>11. ASSUME NEW i \in 1 .. a + d
       PROVE  x[i] \in DOMAIN y /\ y[x[i]].message = m[i]
  <2>1. CASE i <= a
    <3>1. x[i] = c.live[i] /\ i \in DOMAIN c.live
      BY <1>1, <1>7, <2>1 DEF ContextOf, Contexts
    <3>2. c.live[i] \in 1 .. r /\ c.records[c.live[i]].message = m[i]
      BY <1>1, <3>1 DEF ContextOf, Contexts, Captured
    <3> QED
      BY <1>8, <3>1, <3>2
  <2>2. CASE i > a
    <3>1. PICK p \in 1 .. d : i = a + p
      <4>1. i - a \in 1 .. d /\ i = a + (i - a)
        BY <2>2
      <4> QED
        BY <4>1
    <3>2. x[i] = r + p /\ y[r + p].message = m[i]
      BY <1>5, <1>7, <1>8, <3>1
    <3> QED
      BY <1>8, <3>2
  <2> QED
    BY <2>1, <2>2
<1>12. ContextOf(z, m) /\ Len(z.live) = Len(m)
  BY <1>1, <1>7, <1>10, <1>11 DEF ContextOf, Captured
<1> QED
  BY <1>9, <1>10, <1>12

LEMMA CompactedKeeps ==
  ASSUME NEW c, NEW m \in Seq(Messages), ContextOf(c, m), Len(c.live) = Len(m),
         NEW s \in Nat, NEW e \in Nat, s < e, e <= Len(m)
  PROVE  ContextOf(Compacted(c, s, e), Cut(m, s, e))
<1>1. PICK n, r : n = Len(m) /\ r = Len(c.records)
  OBVIOUS
<1>2. /\ c.live \in Seq(Nat) /\ c.records \in Seq(Records) /\ n \in Nat /\ r \in Nat
      /\ Len(c.live) = n /\ DOMAIN c.live = 1 .. n /\ DOMAIN c.records = 1 .. r
      /\ \A i \in 1 .. n : c.live[i] \in 1 .. r /\ c.records[c.live[i]].message = m[i]
  BY <1>1 DEF ContextOf, Contexts, Captured
<1>3. PICK x, w : x = Splice(c.live, s, e, r + 1) /\ w = Cut(m, s, e)
  OBVIOUS
<1>4. /\ x \in Seq(Nat) /\ Len(x) = n - (e - s) + 1 /\ DOMAIN x = 1 .. n - (e - s) + 1
      /\ (\A i \in 1 .. s : x[i] = c.live[i]) /\ x[s + 1] = r + 1
      /\ \A i \in e + 1 .. n : x[i - (e - s) + 1] = c.live[i]
  <2>1. PICK b, k : b = c.live /\ k = r + 1
    OBVIOUS
  <2>2. k \in Nat /\ e <= Len(b) /\ b \in Seq(Nat) /\ Len(b) = n
    BY <1>1, <1>2, <2>1
  <2>3. Spliced(Nat, Splice(b, s, e, k), b, s, e, k)
    BY <2>2, Splicing
  <2> QED
    BY <1>3, <2>1, <2>2, <2>3 DEF Spliced
<1>5. /\ Len(w) = n - (e - s) + 1
      /\ (\A i \in 1 .. s : w[i] = m[i]) /\ w[s + 1] = Summary
      /\ \A i \in e + 1 .. n : w[i - (e - s) + 1] = m[i]
  <2>1. /\ Len(Cut(m, s, e)) = Len(m) - (e - s) + 1
        /\ \A i \in 1 .. s : Cut(m, s, e)[i] = m[i]
        /\ Cut(m, s, e)[s + 1] = Summary
        /\ \A i \in e + 1 .. Len(m) : Cut(m, s, e)[i - (e - s) + 1] = m[i]
    BY Cutting
  <2>2. Len(m) = n /\ Cut(m, s, e) = w
    BY <1>1, <1>3
  <2> QED
    BY <2>1, <2>2
<1>6. PICK f : f = SubSeq(c.live, s + 1, e)
  OBVIOUS
<1>7. PICK y, q : q = [message |-> Summary, from |-> f] /\ y = Append(c.records, q)
  OBVIOUS
<1>8. q \in Records /\ q.message = Summary
  <2>1. f \in Seq(Nat)
    BY <1>2, <1>6
  <2>2. Summary \in Messages
    BY MessageKinds DEF Summary
  <2> QED
    BY <1>7, <2>1, <2>2 DEF Records
<1>9. /\ y \in Seq(Records) /\ DOMAIN y = 1 .. r + 1
      /\ (\A i \in 1 .. r : y[i] = c.records[i]) /\ y[r + 1] = q
  BY <1>1, <1>2, <1>7, <1>8
<1>10. PICK z : z = Compacted(c, s, e)
  OBVIOUS
<1>11. z \in Contexts /\ z.live = x /\ z.records = y /\ z.prefix = c.prefix
  <2>1. z = [c EXCEPT !.live = x, !.records = y]
    BY <1>1, <1>3, <1>6, <1>7, <1>10 DEF Compacted, Splice
  <2> QED
    BY <1>4, <1>9, <2>1 DEF ContextOf, Contexts
<1>13. n \in Nat /\ r \in Nat /\ s < e /\ e <= n
  BY <1>1, <1>2
<1>12. ASSUME NEW i \in 1 .. n - (e - s) + 1
       PROVE  x[i] \in 1 .. r + 1 /\ y[x[i]].message = w[i]
  <2>1. CASE i <= s
    <3>1. i \in 1 .. s /\ i \in 1 .. n
      BY <1>13, <2>1
    <3>2. x[i] = c.live[i] /\ w[i] = m[i] /\ c.live[i] \in 1 .. r
      BY <1>2, <1>4, <1>5, <3>1
    <3>3. y[c.live[i]] = c.records[c.live[i]] /\ c.live[i] \in 1 .. r + 1
      BY <1>9, <1>13, <3>2
    <3>4. c.records[c.live[i]].message = m[i]
      BY <1>2, <3>1
    <3> QED
      BY <3>2, <3>3, <3>4
  <2>2. CASE i = s + 1
    <3>1. x[i] = r + 1 /\ w[i] = Summary
      BY <1>4, <1>5, <2>2
    <3>2. y[r + 1].message = Summary /\ r + 1 \in 1 .. r + 1
      BY <1>8, <1>9, <1>13
    <3> QED
      BY <3>1, <3>2
  <2>3. CASE i > s + 1
    <3>1. PICK p \in e + 1 .. n : i = p - (e - s) + 1
      <4>1. i + (e - s) - 1 \in e + 1 .. n /\ i = (i + (e - s) - 1) - (e - s) + 1
        BY <1>13, <2>3
      <4> QED
        BY <4>1
    <3>2. x[i] = c.live[p] /\ w[i] = m[p]
      BY <1>4, <1>5, <3>1
    <3>3. p \in 1 .. n
      BY <1>13
    <3>4. c.live[p] \in 1 .. r /\ c.records[c.live[p]].message = m[p]
      BY <1>2, <3>3
    <3>5. y[c.live[p]].message = m[p] /\ c.live[p] \in 1 .. r + 1
      BY <1>9, <1>13, <3>4
    <3> QED
      BY <3>2, <3>5
  <2> QED
    BY <1>13, <2>1, <2>2, <2>3
<1>14. \A i \in DOMAIN x : x[i] \in DOMAIN y /\ y[x[i]].message = w[i]
  BY <1>4, <1>9, <1>12
<1>15. Len(x) <= Len(w) /\ c.prefix >= 2
  BY <1>4, <1>5, <1>13 DEF ContextOf
<1> QED
  BY <1>3, <1>10, <1>11, <1>14, <1>15 DEF ContextOf, Captured

LEMMA ContextGrows ==
  ASSUME NEW c, NEW m \in Seq(Messages), NEW w \in Seq(Messages), ContextOf(c, m), Extends(w, m)
  PROVE  ContextOf(c, w)
<1>1. c.live \in Seq(Nat) /\ Len(c.live) <= Len(m) /\ Len(c.live) \in Nat
      /\ DOMAIN c.live = 1 .. Len(c.live) /\ DOMAIN m = 1 .. Len(m) /\ Len(m) \in Nat
      /\ Len(w) \in Nat
  BY DEF ContextOf, Contexts, Captured
<1>2. \A i \in DOMAIN c.live : w[i] = m[i]
  BY <1>1 DEF Extends
<1> QED
  BY <1>1, <1>2 DEF ContextOf, Captured, Extends

LEMMA AppendExtends ==
  ASSUME NEW m \in Seq(Messages), NEW x \in Messages
  PROVE  Append(m, x) \in Seq(Messages) /\ Extends(Append(m, x), m)
BY Appending DEF Extends

(* What a continued run protects when the archived part is lost.             *)
LEMMA FirstIsBehindTheTask ==
  ASSUME NEW m, Talk(m)
  PROVE  FirstPrefix(m) \in Nat /\ FirstPrefix(m) >= 2
<1> DEFINE said == {i \in DOMAIN m : m[i].role = "assistant"}
<1>1. /\ m \in Seq(Messages) /\ Len(m) \in Nat /\ Len(m) >= 2 /\ DOMAIN m = 1 .. Len(m)
      /\ m[1].role # "assistant" /\ m[2].role # "assistant"
  BY MessageKinds DEF Talk, Opens
<1>2. CASE said = {}
  BY <1>1, <1>2 DEF FirstPrefix
<1>3. CASE said # {}
  <2> DEFINE R == {Len(m) + 1 - i : i \in said}
  <2>1. R \subseteq 1 .. Len(m) /\ R # {}
    BY <1>1, <1>3
  <2>2. PICK x \in R : \A y \in R : y <= x
    <3> HIDE DEF R
    <3> QED
      BY <1>1, <2>1, LastOne
  <2>3. PICK i \in said : x = Len(m) + 1 - i
    OBVIOUS
  <2>4. ASSUME NEW j \in said
        PROVE  i <= j
    <3>1. Len(m) + 1 - j \in R
      OBVIOUS
    <3>2. Len(m) + 1 - j <= Len(m) + 1 - i
      BY <2>2, <2>3, <3>1
    <3> QED
      BY <1>1, <3>2
  <2> DEFINE first == CHOOSE k \in said : \A j \in said : k <= j
  <2>6. first \in said /\ \A j \in said : first <= j
    BY <2>4
  <2>8. FirstPrefix(m) = IF first = 1 THEN 1 ELSE first - 1
    BY <1>3 DEF FirstPrefix
  <2> HIDE DEF first
  <2>7. first \in Nat /\ first >= 3
    BY <1>1, <2>6
  <2> QED
    BY <2>7, <2>8
<1> QED
  BY <1>2, <1>3

LEMMA FreshContext ==
  ASSUME NEW m \in Seq(Messages), NEW p \in Nat, p >= 2
  PROVE  ContextOf([NewContext EXCEPT !.prefix = p], m)
<1>1. PICK c : c = [NewContext EXCEPT !.prefix = p]
  OBVIOUS
<1>2. c.live = <<>> /\ c.records = <<>> /\ c.prefix = p /\ c \in Contexts
  <2>1. c = [live |-> <<>>, records |-> <<>>, prefix |-> p]
    BY <1>1 DEF NewContext
  <2>2. <<>> \in Seq(Nat) /\ <<>> \in Seq(Records)
    OBVIOUS
  <2> QED
    BY <2>1, <2>2 DEF Contexts
<1>3. Len(c.live) = 0 /\ DOMAIN c.live = {} /\ Len(m) \in Nat
  BY <1>2
<1> QED
  BY <1>1, <1>2, <1>3 DEF ContextOf, Captured

-----------------------------------------------------------------------------
(* The steps of a run and its messages.                                      *)
Asking == {"head", "ask", "prepare", "request"}
SavedTalk ==
  saved # None => /\ saved.step \in Nat /\ Talk(saved.ms)
                  /\ SaidBefore(saved.ms, runs + 1, 0)

LEMMA SaidLater ==
  ASSUME NEW m \in Seq(Messages), NEW r \in Nat, NEW s \in Nat, NEW q \in Nat, NEW t \in Nat,
         SaidBefore(m, r, s), r < q \/ (r = q /\ s <= t)
  PROVE  SaidBefore(m, q, t)
<1>1. ASSUME NEW j \in DOMAIN m, NEW k \in DOMAIN m[j].calls
      PROVE  m[j].calls[k].run < q \/ (m[j].calls[k].run = q /\ m[j].calls[k].step < t)
  <2>1. PICK c : c = m[j].calls[k]
    OBVIOUS
  <2>2. c \in CallSet
    <3>1. m[j].calls \in Seq(CallSet)
      BY CallsOf
    <3> QED
      BY <2>1, <3>1
  <2>3. c.run < r \/ (c.run = r /\ c.step < s)
    BY <2>1 DEF SaidBefore
  <2>4. c.run \in Nat /\ c.step \in Nat
    BY <2>2 DEF CallSet
  <2>5. c.run < q \/ (c.run = q /\ c.step < t)
    BY <2>3, <2>4
  <2> QED
    BY <2>1, <2>5
<1> QED
  BY <1>1 DEF SaidBefore

(* Steps that leave the messages and the calls of the reply alone.           *)
LEMMA TalkRests ==
  ASSUME TalkInv, Running, UNCHANGED <<ms, turn, step, runs>>, saved' \in {saved, None},
         pc' \in Asking => pc \in Asking,
         pc' # "write",
         pc' \in {"tools", "answer"} => pc \in {"tools", "answer"}
  PROVE  TalkInv'
<1>1. turn' \in Seq(CallSet) /\ step' \in Nat /\ runs' \in Nat
  BY DEF TalkInv
<1>2. Talk(ms') /\ SaidBefore(ms', runs', step' + 1)
  BY DEF TalkInv
<1>3. pc' \in Asking => SaidBefore(ms', runs', step')
  BY DEF TalkInv, Asking
<1>4. pc' \in Asking => AllAnswered(ms')
  BY DEF TalkInv, Asking
<1>5. pc' \in {"tools", "answer"} => AnsweringTurn'
  <2>1. pc \in {"tools", "answer"} => AnsweringTurn
    BY DEF TalkInv
  <2> QED
    BY <2>1 DEF AnsweringTurn
<1>6. SavedTalk'
  BY DEF TalkInv, SavedTalk
<1> QED
  BY <1>1, <1>2, <1>3, <1>4, <1>5, <1>6 DEF TalkInv, Asking, SavedTalk

LEMMA TalkIsSaved ==
  ASSUME TalkInv, Running, Saved \/ Downgraded, UNCHANGED runs
  PROVE  SavedTalk'
<1>1. SavedTalk /\ step \in Nat /\ runs \in Nat /\ Talk(ms) /\ SaidBefore(ms, runs, step + 1)
  BY DEF TalkInv, SavedTalk
<1>2. SaidBefore(ms, runs + 1, 0)
  BY <1>1, SaidLater DEF Talk
<1>3. CASE Saved
  <2>1. saved'.step = step /\ saved'.ms = ms
    BY <1>3 DEF Saved, Snapshot
  <2> QED
    BY <1>1, <1>2, <2>1 DEF SavedTalk
<1>4. CASE Downgraded
  BY <1>1, <1>4 DEF Downgraded, SavedTalk
<1> QED
  BY <1>3, <1>4

LEMMA TalkEnds ==
  ASSUME TalkInv, NEW how \in {"ended", "down"}, Over(how), UNCHANGED runs, SavedTalk'
  PROVE  TalkInv'
<1>1. pc' = how /\ step' = 0 /\ turn' = <<>> /\ runs' = runs
  BY DEF Over
<1>2. ~Running'
  BY <1>1 DEF Running
<1>3. pc' \notin {"head", "ask", "prepare", "request", "write", "tools", "answer"}
  BY <1>1
<1> QED
  BY <1>1, <1>2, <1>3 DEF TalkInv, SavedTalk

LEMMA TalkAtEnds ==
  ASSUME TalkInv, Leave \/ Fail \/ Finish \/ Clear \/ Crash
  PROVE  TalkInv'
<1> USE DEF conv, round, stops, counts, facts, disk
<1>1. SavedTalk
  BY DEF TalkInv, SavedTalk
<1>2. CASE Leave
  <2>1. Running /\ runs' = runs
    BY <1>2 DEF Leave, Running
  <2>2. CASE (Saved \/ Downgraded) /\ Over("ended")
    BY <2>1, <2>2, TalkIsSaved, TalkEnds
  <2>3. CASE pc' = "fail" /\ UNCHANGED <<step, limit, conv, round, stops, counts, facts, disk, told>>
    BY <2>1, <2>3, TalkRests DEF Asking
  <2> QED
    BY <1>2, <2>2, <2>3 DEF Leave
<1>3. CASE Fail
  <2>1. Running /\ runs' = runs /\ Over("ended")
    BY <1>3 DEF Fail, Running
  <2>2. CASE Saved \/ Downgraded
    BY <2>1, <2>2, TalkIsSaved, TalkEnds
  <2>3. CASE UNCHANGED disk
    BY <1>1, <2>1, <2>3, TalkEnds DEF SavedTalk
  <2> QED
    BY <1>3, <2>2, <2>3 DEF Fail
<1>4. CASE Finish
  <2>1. Running /\ runs' = runs
    BY <1>4 DEF Finish, Running
  <2>2. CASE pc' = "leave" /\ UNCHANGED <<step, limit, conv, round, stops, counts, facts, disk, told>>
    BY <2>1, <2>2, TalkRests DEF Asking
  <2>3. CASE Over("ended") /\ UNCHANGED disk
    BY <1>1, <2>1, <2>3, TalkEnds DEF SavedTalk
  <2>4. CASE /\ pc' = "clear" /\ saved' = None
             /\ UNCHANGED <<step, limit, conv, round, stops, counts, facts, marker, told>>
    BY <2>1, <2>4, TalkRests DEF Asking
  <2> QED
    BY <1>4, <2>2, <2>3, <2>4 DEF Finish
<1>5. CASE Clear
  <2>1. Over("ended") /\ runs' = runs /\ saved' = saved
    BY <1>5 DEF Clear
  <2> QED
    BY <1>1, <2>1, TalkEnds DEF SavedTalk
<1>6. CASE Crash
  <2>1. Over("down") /\ runs' = runs /\ saved' = saved
    BY <1>6 DEF Crash
  <2> QED
    BY <1>1, <2>1, TalkEnds DEF SavedTalk
<1> QED
  BY <1>2, <1>3, <1>4, <1>5, <1>6

LEMMA TalkInLoop ==
  ASSUME TalkInv,
         \/ Turn \/ Decline \/ Grant \/ Send \/ NoReply \/ Unkept \/ Settle \/ Abort \/ Spend
         \/ \E i \in DOMAIN turn : Begin(i) \/ Return(i)
  PROVE  TalkInv'
<1> USE DEF conv, round, stops, counts, facts, disk, task, loop, Asking
<1>1. CASE Turn
  BY <1>1, TalkRests DEF Turn, Running
<1>2. CASE Decline
  BY <1>2, TalkRests DEF Decline, Running
<1>3. CASE Grant
  BY <1>3, TalkRests DEF Grant, Running
<1>4. CASE Send
  BY <1>4, TalkRests DEF Send, Running
<1>5. CASE NoReply
  BY <1>5, TalkRests DEF NoReply, Throw, Running
<1>6. CASE Unkept
  BY <1>6, TalkRests DEF Unkept, Throw, Running
<1>7. CASE Settle
  BY <1>7, TalkRests DEF Settle, Throw, Running
<1>8. CASE Spend
  BY <1>8, TalkRests DEF Spend, Running
<1>9. CASE \E i \in DOMAIN turn : Begin(i) \/ Return(i)
  BY <1>9, TalkRests DEF Begin, Return, Running
<1>10. CASE Abort
  <2>1. Running /\ UNCHANGED <<ms, turn, step, runs, saved, pc>>
    BY <1>10 DEF Abort
  <2>2. CASE pc = "write"
    BY <2>1, <2>2 DEF TalkInv, Running
  <2>3. CASE pc # "write"
    BY <2>1, <2>3, TalkRests
  <2> QED
    BY <2>2, <2>3
<1> QED
  BY <1>1, <1>2, <1>3, <1>4, <1>5, <1>6, <1>7, <1>8, <1>9, <1>10

LEMMA TalkAtCompact ==
  ASSUME TalkInv, ContextInv, Compact
  PROVE  TalkInv' /\ ContextInv'
<1>1. /\ pc = "prepare" /\ Running /\ Talk(ms) /\ AllAnswered(ms) /\ SaidBefore(ms, runs, step)
      /\ SaidBefore(ms, runs, step + 1) /\ ContextOf(ctx, ms) /\ ms \in Seq(Messages)
  BY DEF Compact, TalkInv, ContextInv, Running, Talk
<1>2. PICK all : all = Sync(ctx, ms)
  OBVIOUS
<1>3. PICK p : p = SafePrefix(all, ms)
  OBVIOUS
<1>4. PICK e \in Ends(all, ms, Recent) : ms' = Cut(ms, p, e) /\ ctx' = Compacted(all, p, e)
  BY <1>2, <1>3 DEF Compact
<1>5. ContextOf(all, ms) /\ Len(all.live) = Len(ms)
  BY <1>1, <1>2, SyncKeeps
<1>6. all.prefix \in Nat /\ all.prefix >= 2
  BY <1>5 DEF ContextOf, Contexts
<1>7. p \in Nat /\ p >= 2
  BY <1>1, <1>3, <1>6, PrefixProtects
<1>8. e \in p + 1 .. Len(ms) /\ Boundary(ms, p) /\ Boundary(ms, e)
  BY <1>3, <1>4 DEF Ends
<1>9. e \in Nat /\ p < e /\ e <= Len(ms)
  BY <1>1, <1>7, <1>8
<1>10. /\ Talk(ms') /\ AllAnswered(ms') /\ SaidBefore(ms', runs, step)
       /\ SaidBefore(ms', runs, step + 1)
  BY <1>1, <1>4, <1>7, <1>8, <1>9, CutKeeps
<1>11. ContextOf(ctx', ms')
  BY <1>1, <1>4, <1>5, <1>7, <1>9, CompactedKeeps
<1>12. UNCHANGED <<pc, turn, step, runs, saved>>
  BY DEF Compact, loop, round, disk, task
<1>13. TalkInv'
  BY <1>1, <1>10, <1>12 DEF TalkInv
<1>14. ContextInv'
  BY <1>11, <1>12 DEF ContextInv
<1> QED
  BY <1>13, <1>14

LEMMA TalkAtFinal ==
  ASSUME TalkInv, Final
  PROVE  TalkInv' /\ Extends(ms', ms)
<1>1. /\ pc = "request" /\ Talk(ms) /\ AllAnswered(ms) /\ SaidBefore(ms, runs, step + 1)
      /\ ms \in Seq(Messages) /\ step \in Nat /\ runs \in Nat /\ turn \in Seq(CallSet) /\ SavedTalk
  BY DEF Final, TalkInv, Running, Talk, SavedTalk
<1>2. UNCHANGED <<turn, runs, saved>>
  BY DEF Final, round, disk, task
<1>3. PICK x : x = Says(<<>>)
  OBVIOUS
<1>4. x \in Messages /\ x.calls = <<>> /\ x.role # "tool"
  <2>1. <<>> \in Seq(CallSet)
    OBVIOUS
  <2> QED
    BY <1>3, <2>1, MessageKinds
<1>5. PICK m : m = Append(ms, x)
  OBVIOUS
<1>6. Talk(m) /\ AllAnswered(m)
  BY <1>1, <1>4, <1>5, PlainGrows
<1>7. SaidBefore(m, runs, step + 1)
  BY <1>1, <1>4, <1>5, SaidGrows
<1>8. m \in Seq(Messages) /\ Extends(m, ms)
  BY <1>1, <1>4, <1>5, AppendExtends
<1>9. CASE pc' \in {"finish", "leave"} /\ ms' = m /\ step' = step
  BY <1>1, <1>2, <1>6, <1>7, <1>8, <1>9 DEF TalkInv, Running, SavedTalk
<1>10. CASE pc' = "head" /\ ms' = ms \o <<x, Plain("note")>> /\ step' = step + 1
  <2>1. PICK y : y = Plain("note")
    OBVIOUS
  <2>2. y \in Messages /\ y.calls = <<>> /\ y.role # "tool"
    BY <2>1, MessageKinds
  <2>3. ms \o <<x, y>> = Append(Append(ms, x), y)
    BY <1>1, <1>4, <2>2
  <2>4. ms' = Append(m, y)
    BY <1>5, <1>10, <2>1, <2>3
  <2>5. Talk(ms') /\ AllAnswered(ms')
    BY <1>6, <2>2, <2>4, PlainGrows
  <2>6. SaidBefore(ms', runs, step + 1)
    BY <1>1, <1>7, <1>8, <2>2, <2>4, SaidGrows
  <2>7. ms' \in Seq(Messages) /\ Extends(ms', m)
    BY <1>8, <2>2, <2>4, AppendExtends
  <2>8. SaidBefore(ms', runs, step + 1 + 1)
    BY <1>1, <2>6, <2>7, SaidLater
  <2>9. Extends(ms', ms)
    BY <1>1, <1>8, <2>7 DEF Extends
  <2> QED
    BY <1>1, <1>2, <1>10, <2>5, <2>6, <2>8, <2>9 DEF TalkInv, Running, SavedTalk
<1> QED
  BY <1>3, <1>5, <1>9, <1>10 DEF Final

LEMMA TalkAtCall ==
  ASSUME TalkInv, Call
  PROVE  TalkInv' /\ Extends(ms', ms)
<1>1. /\ pc = "request" /\ Talk(ms) /\ AllAnswered(ms) /\ SaidBefore(ms, runs, step)
      /\ SaidBefore(ms, runs, step + 1)
      /\ ms \in Seq(Messages) /\ step \in Nat /\ runs \in Nat /\ SavedTalk
  BY DEF Call, TalkInv, Running, Talk, SavedTalk
<1>2. pc' = "tools" /\ UNCHANGED <<step, runs, saved>>
  BY DEF Call, disk, task
<1>3. PICK kinds \in Replies : turn' = Calls(kinds) /\ ms' = Append(ms, Says(Calls(kinds)))
  BY DEF Call
<1>4. PICK c : c = Calls(kinds)
  OBVIOUS
<1>5. /\ c \in Seq(CallSet)
      /\ \A k \in DOMAIN c : c[k].run = runs /\ c[k].step = step /\ c[k].place = k
  <2>1. kinds \in Seq({"tool", "agent"})
    BY RunAssumption
  <2>2. \A k \in DOMAIN kinds :
          [run |-> runs, step |-> step, place |-> k, kind |-> kinds[k]] \in CallSet
    BY <1>1, <2>1 DEF CallSet
  <2> QED
    BY <1>4, <2>1, <2>2 DEF Calls
<1>6. PICK x : x = Says(c)
  OBVIOUS
<1>7. x \in Messages /\ x.calls = c
  BY <1>5, <1>6, MessageKinds
<1>8. turn' = c /\ ms' = Append(ms, x)
  BY <1>3, <1>4, <1>6
<1>9. Talk(ms')
  BY <1>1, <1>5, <1>6, <1>8, CallsGrow
<1>10. SaidBefore(ms', runs, step + 1)
  <2>1. \A k \in DOMAIN x.calls : x.calls[k].run = runs /\ x.calls[k].step < step + 1
    BY <1>1, <1>5, <1>7
  <2> QED
    BY <1>1, <1>7, <1>8, <2>1, SaidGrows
<1>11. Extends(ms', ms)
  BY <1>1, <1>7, <1>8, AppendExtends
<1>12. AnsweringTurn'
  <2>1. /\ ms' \in Seq(Messages) /\ Len(ms') = Len(ms) + 1 /\ Len(ms) \in Nat
        /\ DOMAIN ms' = DOMAIN ms \cup {Len(ms) + 1} /\ DOMAIN ms = 1 .. Len(ms)
        /\ \A i \in DOMAIN ms : ms'[i] = ms[i]
        /\ ms'[Len(ms) + 1] = x
    BY <1>1, <1>7, <1>8, Appending
  <2>2. ASSUME NEW i \in DOMAIN ms' \ {Len(ms) + 1}
        PROVE  i + Len(ms'[i].calls) <= Len(ms')
    <3>1. i \in DOMAIN ms /\ ms'[i] = ms[i]
      BY <2>1
    <3>2. i + Len(ms[i].calls) <= Len(ms) /\ Len(ms[i].calls) \in Nat /\ i \in Nat
      BY <1>1, <3>1, CallsOf DEF AllAnswered
    <3> QED
      BY <2>1, <3>1, <3>2
  <2>3. ms'[Len(ms) + 1].calls = turn'
    BY <1>7, <1>8, <2>1
  <2>4. Len(ms') <= Len(ms) + 1 + Len(turn')
    BY <1>5, <1>8, <2>1
  <2> QED
    BY <2>1, <2>2, <2>3, <2>4 DEF AnsweringTurn
<1> QED
  BY <1>1, <1>2, <1>5, <1>8, <1>9, <1>10, <1>11, <1>12 DEF TalkInv, SavedTalk, Running

LEMMA TalkAtAnswer ==
  ASSUME TalkInv, Answer
  PROVE  TalkInv' /\ ms' \in Seq(Messages) /\ Extends(ms', ms)
<1>1. /\ pc = "answer" /\ Talk(ms) /\ SaidBefore(ms, runs, step + 1) /\ AnsweringTurn /\ Running
      /\ ms \in Seq(Messages) /\ step \in Nat /\ runs \in Nat /\ turn \in Seq(CallSet) /\ SavedTalk
  BY DEF Answer, TalkInv, Running, Talk, SavedTalk
<1>2. UNCHANGED <<turn, step, runs, saved>>
  BY DEF Answer, round, disk, task
<1>3. CASE Throw(stopped) /\ UNCHANGED ms
  <2>1. TalkInv'
    BY <1>1, <1>2, <1>3, TalkRests DEF Throw, Asking
  <2> QED
    BY <1>1, <1>3, <2>1 DEF Extends
<1>4. CASE pc' = pc /\ ms' = Append(ms, Answers(turn[Cardinality(Given) + 1]))
  <2>1. PICK j \in DOMAIN ms :
          /\ ms[j].calls = turn /\ Len(ms) <= j + Len(turn)
          /\ \A i \in DOMAIN ms \ {j} : i + Len(ms[i].calls) <= Len(ms)
    BY <1>1 DEF AnsweringTurn
  <2>2. PICK l, t : l = Len(ms) /\ t = Len(turn)
    OBVIOUS
  <2>3. l \in Nat /\ t \in Nat /\ j \in 1 .. l /\ DOMAIN ms = 1 .. l
    BY <1>1, <2>2
  <2>4. Given = 1 .. l - j /\ Cardinality(Given) = l - j /\ DOMAIN turn = 1 .. t
    BY <1>1, <2>1, <2>2, GivenIs
  <2>5. Given # DOMAIN turn
    BY DEF Answer
  <2>6. l < j + t
    <3>1. l - j # t /\ l <= j + t
      BY <2>1, <2>2, <2>4, <2>5
    <3> QED
      BY <2>3, <3>1
  <2>7. l - j + 1 = l + 1 - j
    BY <2>3
  <2>8. l + 1 - j \in DOMAIN turn /\ Talk(Append(ms, Answers(turn[l + 1 - j])))
    BY <1>1, <2>1, <2>2, <2>6, AnswersGrow
  <2>9. PICK x : x = Answers(turn[l + 1 - j])
    OBVIOUS
  <2>10. x \in Messages /\ x.calls = <<>>
    <3>1. turn[l + 1 - j] \in CallSet
      BY <1>1, <2>8
    <3> QED
      BY <2>9, <3>1, MessageKinds
  <2>11. ms' = Append(ms, x) /\ Talk(ms')
    BY <1>4, <2>4, <2>7, <2>8, <2>9
  <2>12. SaidBefore(ms', runs, step + 1)
    BY <1>1, <2>10, <2>11, SaidGrows
  <2>13. ms' \in Seq(Messages) /\ Extends(ms', ms)
    BY <1>1, <2>10, <2>11, AppendExtends
  <2>14. AnsweringTurn'
    <3>1. /\ Len(ms') = l + 1 /\ DOMAIN ms' = 1 .. l + 1
          /\ \A i \in 1 .. l : ms'[i] = ms[i]
          /\ ms'[l + 1] = x
      BY <1>1, <2>2, <2>3, <2>10, <2>11, Appending
    <3>2. ASSUME NEW i \in DOMAIN ms' \ {j}
          PROVE  i + Len(ms'[i].calls) <= Len(ms')
      <4>1. CASE i \in 1 .. l
        <5>1. i + Len(ms[i].calls) <= l /\ Len(ms[i].calls) \in Nat
          BY <1>1, <2>1, <2>2, <2>3, <4>1, CallsOf
        <5> QED
          BY <2>3, <3>1, <4>1, <5>1
      <4>2. CASE i = l + 1
        <5>1. ms'[i].calls = <<>>
          BY <2>10, <3>1, <4>2
        <5>2. PICK q : q = Len(ms'[i].calls)
          OBVIOUS
        <5>3. q = 0
          BY <5>1, <5>2
        <5>4. i + q <= l + 1
          BY <2>3, <4>2, <5>3
        <5> QED
          BY <3>1, <5>2, <5>4
      <4> QED
        BY <2>3, <3>1, <4>1, <4>2
    <3>3. ms'[j].calls = turn' /\ Len(ms') <= j + Len(turn') /\ j \in DOMAIN ms'
      BY <1>2, <2>1, <2>2, <2>3, <2>6, <3>1
    <3> QED
      BY <3>2, <3>3 DEF AnsweringTurn
  <2> QED
    BY <1>1, <1>2, <1>4, <2>11, <2>12, <2>13, <2>14 DEF TalkInv, SavedTalk, Running
<1> QED
  BY <1>3, <1>4 DEF Answer

LEMMA TalkAtEndStep ==
  ASSUME TalkInv, EndStep
  PROVE  TalkInv' /\ ms' \in Seq(Messages) /\ Extends(ms', ms)
<1>1. /\ pc = "answer" /\ Talk(ms) /\ SaidBefore(ms, runs, step + 1) /\ AnsweringTurn
      /\ ms \in Seq(Messages) /\ step \in Nat /\ runs \in Nat /\ turn \in Seq(CallSet) /\ SavedTalk
  BY DEF EndStep, TalkInv, Running, Talk, SavedTalk
<1>2. pc' \in {"leave", "write"} /\ turn' = <<>> /\ UNCHANGED <<step, runs, saved>>
  BY DEF EndStep, disk, task
<1>3. AllAnswered(ms)
  <2>1. PICK j \in DOMAIN ms :
          /\ ms[j].calls = turn /\ Len(ms) <= j + Len(turn)
          /\ \A i \in DOMAIN ms \ {j} : i + Len(ms[i].calls) <= Len(ms)
    BY <1>1 DEF AnsweringTurn
  <2>2. PICK l, t : l = Len(ms) /\ t = Len(turn)
    OBVIOUS
  <2>3. l \in Nat /\ t \in Nat /\ j \in 1 .. l
    BY <1>1, <2>2
  <2>4. Given = 1 .. l - j /\ DOMAIN turn = 1 .. t /\ l - j \in Nat
    BY <1>1, <2>1, <2>2, GivenIs
  <2>5. 1 .. l - j = 1 .. t
    BY <2>4 DEF EndStep
  <2>6. j + t <= l
    <3>1. CASE t = 0
      BY <2>3, <3>1
    <3>2. CASE t > 0
      <4>1. t \in 1 .. l - j
        BY <2>3, <2>5, <3>2
      <4> QED
        BY <2>3, <4>1
    <3> QED
      BY <2>3, <3>1, <3>2
  <2> QED
    BY <2>1, <2>2, <2>6 DEF AllAnswered
<1>4. CASE ms' = ms
  BY <1>1, <1>2, <1>3, <1>4 DEF TalkInv, SavedTalk, Running, Extends
<1>5. CASE ms' = Append(ms, Plain("note"))
  <2>1. PICK x : x = Plain("note")
    OBVIOUS
  <2>2. x \in Messages /\ x.calls = <<>> /\ x.role # "tool"
    BY <2>1, MessageKinds
  <2>3. Talk(ms') /\ AllAnswered(ms')
    BY <1>1, <1>3, <1>5, <2>1, <2>2, PlainGrows
  <2>4. SaidBefore(ms', runs, step + 1)
    BY <1>1, <1>5, <2>1, <2>2, SaidGrows
  <2>5. ms' \in Seq(Messages) /\ Extends(ms', ms)
    BY <1>1, <1>5, <2>1, <2>2, AppendExtends
  <2> QED
    BY <1>1, <1>2, <2>3, <2>4, <2>5 DEF TalkInv, SavedTalk, Running
<1> QED
  BY <1>4, <1>5 DEF EndStep

LEMMA TalkAtWrite ==
  ASSUME TalkInv, Write
  PROVE  TalkInv'
<1>1. /\ pc = "write" /\ Running /\ Talk(ms) /\ SaidBefore(ms, runs, step + 1) /\ AllAnswered(ms)
      /\ ms \in Seq(Messages) /\ step \in Nat /\ runs \in Nat /\ turn \in Seq(CallSet)
  BY DEF Write, TalkInv, Running, Talk
<1>2. UNCHANGED <<ms, turn, runs>>
  BY DEF Write, conv, round, task
<1>3. CASE (Saved \/ Downgraded) /\ pc' = "head" /\ step' = step + 1
  <2>1. SavedTalk'
    BY <1>1, <1>2, <1>3, TalkIsSaved
  <2>2. SaidBefore(ms, runs, step + 1 + 1)
    BY <1>1, SaidLater
  <2> QED
    BY <1>1, <1>2, <1>3, <2>1, <2>2 DEF TalkInv, SavedTalk, Running
<1>4. CASE Throw(stopped) /\ UNCHANGED <<step, disk>>
  BY <1>1, <1>2, <1>4, TalkRests DEF Throw, Asking, disk
<1> QED
  BY <1>3, <1>4 DEF Write

LEMMA TalkAtResume ==
  ASSUME TalkInv, ContextInv, Resume
  PROVE  TalkInv' /\ ContextInv'
<1>1. /\ saved # None /\ saved.step \in Nat /\ Talk(saved.ms) /\ SaidBefore(saved.ms, runs + 1, 0)
      /\ runs \in Nat /\ ContextOf(saved.ctx, saved.ms) /\ Len(saved.ctx.live) = Len(saved.ms)
  BY DEF Resume, TalkInv, ContextInv
<1>2. /\ pc' = "head" /\ runs' = runs + 1 /\ step' = saved.step + 1 /\ turn' = <<>>
      /\ saved' = saved /\ ms' = Repaired(saved.ms)
  BY DEF Resume, disk
<1>3. PICK m : m = saved.ms
  OBVIOUS
<1>4. m \in Seq(Messages)
  BY <1>1, <1>3 DEF Talk
<1>5. Talk(ms') /\ AllAnswered(ms') /\ Extends(ms', m) /\ SaidBefore(ms', runs + 1, 0)
  BY <1>1, <1>2, <1>3, RepairedKeeps
<1>6. ms' \in Seq(Messages)
  BY <1>5 DEF Talk
<1>7. SaidBefore(ms', runs', step') /\ SaidBefore(ms', runs', step' + 1)
  BY <1>1, <1>2, <1>5, <1>6, SaidLater
<1>8. SaidBefore(m, runs' + 1, 0)
  BY <1>1, <1>2, <1>3, <1>4, SaidLater
<1>9. TalkInv'
  BY <1>1, <1>2, <1>3, <1>5, <1>7, <1>8 DEF TalkInv, Running
<1>10. PICK c : c \in {saved.ctx, [NewContext EXCEPT !.prefix = FirstPrefix(ms')]}
                /\ ctx' = Sync(c, ms')
  BY DEF Resume
<1>11. ContextOf(c, ms')
  <2>1. CASE c = saved.ctx
    BY <1>1, <1>3, <1>4, <1>5, <1>6, <2>1, ContextGrows
  <2>2. CASE c = [NewContext EXCEPT !.prefix = FirstPrefix(ms')]
    BY <1>5, <1>6, <2>2, FirstIsBehindTheTask, FreshContext
  <2> QED
    BY <1>10, <2>1, <2>2
<1>12. ContextOf(ctx', ms')
  BY <1>6, <1>10, <1>11, SyncKeeps
<1>13. ContextInv'
  BY <1>1, <1>2, <1>12 DEF ContextInv
<1> QED
  BY <1>9, <1>13

(* The steps of a run and the record of its context.                         *)
LEMMA ContextRests ==
  ASSUME ContextInv, UNCHANGED ctx, saved' \in {saved, None}, Running' => Running,
         ms \in Seq(Messages), Running' => ms' \in Seq(Messages) /\ Extends(ms', ms)
  PROVE  ContextInv'
<1>1. Running' => ContextOf(ctx', ms')
  BY ContextGrows DEF ContextInv
<1> QED
  BY <1>1 DEF ContextInv

LEMMA SyncedIsSaved ==
  ASSUME ContextInv, Running, ms \in Seq(Messages), Saved \/ Downgraded
  PROVE  saved' # None =>
           ContextOf(saved'.ctx, saved'.ms) /\ Len(saved'.ctx.live) = Len(saved'.ms)
<1>1. CASE Saved
  <2>1. saved'.ctx = Sync(ctx, ms) /\ saved'.ms = ms
    BY <1>1 DEF Saved, Snapshot
  <2> QED
    BY <2>1, SyncKeeps DEF ContextInv
<1>2. CASE Downgraded
  BY <1>2 DEF Downgraded, ContextInv
<1> QED
  BY <1>1, <1>2

LEMMA Untouched ==
  ASSUME ms \in Seq(Messages), UNCHANGED ms
  PROVE  ms' \in Seq(Messages) /\ Extends(ms', ms)
BY DEF Extends

LEMMA ContextAtEnds ==
  ASSUME ContextInv, ms \in Seq(Messages), Leave \/ Fail \/ Finish \/ Clear \/ Crash
  PROVE  ContextInv'
<1> USE DEF conv, round, stops, counts, facts, disk
<1>1. \A how \in {"ended", "down"} : Over(how) => ~Running'
  BY DEF Over, Running
<1>2. saved # None => ContextOf(saved.ctx, saved.ms) /\ Len(saved.ctx.live) = Len(saved.ms)
  BY DEF ContextInv
<1>3. CASE Leave
  <2>1. Running
    BY <1>3 DEF Leave, Running
  <2>2. CASE (Saved \/ Downgraded) /\ Over("ended")
    BY <1>1, <2>1, <2>2, SyncedIsSaved DEF ContextInv
  <2>3. CASE UNCHANGED <<step, limit, conv, round, stops, counts, facts, disk, told>>
    BY <2>1, <2>3, Untouched, ContextRests
  <2> QED
    BY <1>3, <2>2, <2>3 DEF Leave
<1>4. CASE Fail
  <2>1. Running /\ Over("ended")
    BY <1>4 DEF Fail, Running
  <2>2. CASE Saved \/ Downgraded
    BY <1>1, <2>1, <2>2, SyncedIsSaved DEF ContextInv
  <2>3. CASE UNCHANGED disk
    BY <1>1, <1>2, <2>1, <2>3 DEF ContextInv
  <2> QED
    BY <1>4, <2>2, <2>3 DEF Fail
<1>5. CASE Finish
  <2>1. Running
    BY <1>5 DEF Finish, Running
  <2>2. CASE UNCHANGED <<step, limit, conv, round, stops, counts, facts, disk, told>>
    BY <2>1, <2>2, Untouched, ContextRests
  <2>3. CASE Over("ended") /\ UNCHANGED disk
    BY <1>1, <1>2, <2>3 DEF ContextInv
  <2>4. CASE /\ saved' = None
             /\ UNCHANGED <<step, limit, conv, round, stops, counts, facts, marker, told>>
    BY <2>1, <2>4, Untouched, ContextRests
  <2> QED
    BY <1>5, <2>2, <2>3, <2>4 DEF Finish
<1>6. CASE Clear
  <2>1. Over("ended") /\ saved' = saved
    BY <1>6 DEF Clear
  <2> QED
    BY <1>1, <1>2, <2>1 DEF ContextInv
<1>7. CASE Crash
  <2>1. Over("down") /\ saved' = saved
    BY <1>7 DEF Crash
  <2> QED
    BY <1>1, <1>2, <2>1 DEF ContextInv
<1> QED
  BY <1>3, <1>4, <1>5, <1>6, <1>7

LEMMA ContextInLoop ==
  ASSUME ContextInv, ms \in Seq(Messages),
         \/ Turn \/ Decline \/ Grant \/ NoReply \/ Unkept \/ Settle \/ Abort \/ Spend
         \/ \E i \in DOMAIN turn : Begin(i) \/ Return(i)
  PROVE  ContextInv'
<1> USE DEF conv, round, stops, counts, facts, disk, task, loop
<1>1. UNCHANGED <<ms, ctx, saved>>
  BY DEF Turn, Decline, Grant, NoReply, Unkept, Settle, Abort, Spend, Begin, Return
<1>2. Running
  BY DEF Turn, Decline, Grant, NoReply, Unkept, Settle, Abort, Spend, Begin, Return, Running
<1> QED
  BY <1>1, <1>2, Untouched, ContextRests

LEMMA TalkStep == TalkInv /\ ContextInv /\ [Next]_vars => TalkInv' /\ ContextInv'
<1> SUFFICES ASSUME TalkInv, ContextInv, [Next]_vars PROVE TalkInv' /\ ContextInv'
  OBVIOUS
<1>1. Running => Talk(ms) /\ ms \in Seq(Messages)
  BY DEF TalkInv, Talk
<1>2. CASE \/ Turn \/ Decline \/ Grant \/ NoReply \/ Unkept \/ Settle \/ Abort \/ Spend
           \/ \E i \in DOMAIN turn : Begin(i) \/ Return(i)
  <2>1. Running
    BY <1>2 DEF Turn, Decline, Grant, NoReply, Unkept, Settle, Abort, Spend, Begin, Return, Running
  <2> QED
    BY <1>1, <1>2, <2>1, TalkInLoop, ContextInLoop
<1>3. CASE Send
  <2>1. Running /\ ctx' = Sync(ctx, ms) /\ UNCHANGED <<ms, saved>>
    BY <1>3 DEF Send, Running, disk
  <2>2. ContextOf(ctx', ms')
    BY <1>1, <2>1, SyncKeeps DEF ContextInv
  <2>3. ContextInv'
    BY <2>1, <2>2 DEF ContextInv
  <2> QED
    BY <1>3, <2>3, TalkInLoop
<1>4. CASE Compact
  BY <1>4, TalkAtCompact
<1>5. CASE Final
  <2>1. Running /\ UNCHANGED <<ctx, saved>>
    BY <1>5 DEF Final, Running, disk
  <2>2. TalkInv' /\ Extends(ms', ms)
    BY <1>5, TalkAtFinal
  <2>3. Running' => ms' \in Seq(Messages)
    BY <2>2 DEF TalkInv, Talk
  <2> QED
    BY <1>1, <2>1, <2>2, <2>3, ContextRests
<1>6. CASE Call
  <2>1. Running /\ UNCHANGED <<ctx, saved>>
    BY <1>6 DEF Call, Running, disk
  <2>2. TalkInv' /\ Extends(ms', ms)
    BY <1>6, TalkAtCall
  <2>3. Running' => ms' \in Seq(Messages)
    BY <2>2 DEF TalkInv, Talk
  <2> QED
    BY <1>1, <2>1, <2>2, <2>3, ContextRests
<1>7. CASE Answer
  <2>1. Running /\ UNCHANGED <<ctx, saved>>
    BY <1>7 DEF Answer, Running, disk
  <2> QED
    BY <1>1, <1>7, <2>1, TalkAtAnswer, ContextRests
<1>8. CASE EndStep
  <2>1. Running /\ UNCHANGED <<ctx, saved>>
    BY <1>8 DEF EndStep, Running, disk
  <2> QED
    BY <1>1, <1>8, <2>1, TalkAtEndStep, ContextRests
<1>9. CASE Write
  <2>1. Running /\ UNCHANGED <<ms, ctx>>
    BY <1>9 DEF Write, Running, conv
  <2>5. ms \in Seq(Messages) /\ ContextOf(ctx', ms')
    BY <1>1, <2>1 DEF ContextInv
  <2>2. ASSUME Saved \/ Downgraded PROVE ContextInv'
    <3>1. saved' # None =>
            ContextOf(saved'.ctx, saved'.ms) /\ Len(saved'.ctx.live) = Len(saved'.ms)
      BY <2>1, <2>2, <2>5, SyncedIsSaved
    <3> QED
      BY <2>5, <3>1 DEF ContextInv
  <2>3. ASSUME UNCHANGED disk PROVE ContextInv'
    <3>1. saved' = saved
      BY <2>3 DEF disk
    <3> QED
      BY <2>5, <3>1 DEF ContextInv
  <2>4. ContextInv'
    BY <1>9, <2>2, <2>3 DEF Write
  <2> QED
    BY <1>9, <2>4, TalkAtWrite
<1>10. CASE Leave \/ Fail \/ Finish \/ Clear \/ Crash
  <2>1. Running
    BY <1>10 DEF Leave, Fail, Finish, Clear, Crash, Running
  <2> QED
    BY <1>1, <1>10, <2>1, TalkAtEnds, ContextAtEnds
<1>11. CASE Resume
  BY <1>11, TalkAtResume
<1>12. CASE UNCHANGED vars
  <2>1. UNCHANGED <<pc, step, ms, ctx, turn, saved, runs>>
    BY <1>12 DEF vars, loop, conv, round, disk, task
  <2>2. Running' <=> Running
    BY <2>1 DEF Running
  <2>3. AnsweringTurn' <=> AnsweringTurn
    BY <2>1 DEF AnsweringTurn
  <2>4. TalkInv'
    BY <2>1, <2>2, <2>3 DEF TalkInv
  <2>5. ContextInv'
    BY <2>1, <2>2 DEF ContextInv
  <2> QED
    BY <2>4, <2>5
<1> QED
  BY <1>2, <1>3, <1>4, <1>5, <1>6, <1>7, <1>8, <1>9, <1>10, <1>11, <1>12 DEF Next, Program

LEMMA InitTalk == Init => TalkInv /\ ContextInv
<1> SUFFICES ASSUME Init PROVE TalkInv /\ ContextInv
  OBVIOUS
<1>1. /\ ms = Opening /\ ctx = Sync([NewContext EXCEPT !.prefix = Len(Opening)], Opening)
      /\ step = 1 /\ pc = "head" /\ turn = <<>> /\ saved = None /\ runs = 1
  BY DEF Init
<1>2. PICK a, b : a = Plain("system") /\ b = Plain("task")
  OBVIOUS
<1>3. a \in Messages /\ a.calls = <<>> /\ a.role # "tool"
      /\ b \in Messages /\ b.calls = <<>> /\ b.role # "tool"
  BY <1>2, MessageKinds
<1>4. ms = <<a, b>>
  BY <1>1, <1>2 DEF Opening
<1>5. ms \in Seq(Messages) /\ Len(ms) = 2 /\ DOMAIN ms = 1 .. 2 /\ ms[1] = a /\ ms[2] = b
  BY <1>3, <1>4
<1>6. \A i \in DOMAIN ms : ms[i].calls = <<>> /\ ms[i].role # "tool"
  BY <1>3, <1>5
<1>7. \A i \in DOMAIN ms : DOMAIN ms[i].calls = {} /\ Len(ms[i].calls) = 0
  BY <1>6
<1>8. Talk(ms)
  BY <1>2, <1>5, <1>6, <1>7 DEF Talk, Opens, AnswersFollow, AnswersBelong, Distinct
<1>9. AllAnswered(ms) /\ \A r, s : SaidBefore(ms, r, s)
  BY <1>5, <1>7 DEF AllAnswered, SaidBefore
<1>10. TalkInv
  BY <1>1, <1>8, <1>9 DEF TalkInv
<1>11. ContextOf(ctx, ms)
  <2>1. ctx = Sync([NewContext EXCEPT !.prefix = 2], ms)
    BY <1>1, <1>5
  <2>2. ContextOf([NewContext EXCEPT !.prefix = 2], ms)
    <3>1. PICK p, m : p = 2 /\ m = ms
      OBVIOUS
    <3>2. p \in Nat /\ p >= 2 /\ m \in Seq(Messages)
      BY <1>5, <3>1
    <3>3. ContextOf([NewContext EXCEPT !.prefix = p], m)
      BY <3>2, FreshContext
    <3> QED
      BY <3>1, <3>3
  <2> QED
    BY <1>5, <2>1, <2>2, SyncKeeps
<1> QED
  BY <1>1, <1>10, <1>11 DEF ContextInv

(* At all times the conversation of a run, and the saved one, is the         *)
(* beginning of one a provider accepts and is what the record of its context *)
(* says (runAgent, applyContextCompaction, prepareCheckpointResume).         *)
THEOREM TalkInvariant == Spec => [](TalkInv /\ ContextInv)
<1>1. TalkInv /\ ContextInv /\ [Next]_vars => (TalkInv /\ ContextInv)'
  BY TalkStep
<1> QED
  BY InitTalk, <1>1, PTL DEF Spec

(* However often the conversation was compacted, repaired or continued, each *)
(* request begins with the task and every call in it is answered at once and *)
(* in order (isBalancedContextBoundary, prepareCheckpointResume).            *)
THEOREM RequestCorrect == Spec => []RequestAccepted
<1>1. TalkInv => RequestAccepted
  BY Accepted DEF TalkInv, RequestAccepted, Running
<1> QED
  BY <1>1, TalkInvariant, PTL

(* No checkpoint is left that a run could not continue from                  *)
(* (serializeRunState, prepareCheckpointResume).                             *)
THEOREM SavedCorrect == Spec => []SavedContinues
<1>1. TalkInv /\ ContextInv => SavedContinues
  <2> SUFFICES ASSUME TalkInv, ContextInv, saved # None
               PROVE  /\ WellFormed(Repaired(saved.ms))
                      /\ Captured(saved.ctx, Repaired(saved.ms))
    BY DEF SavedContinues
  <2>1. PICK m, w : m = saved.ms /\ w = Repaired(m)
    OBVIOUS
  <2>2. Talk(m) /\ ContextOf(saved.ctx, m)
    BY <2>1 DEF TalkInv, ContextInv
  <2>3. Talk(w) /\ AllAnswered(w) /\ Extends(w, m)
    BY <2>1, <2>2, RepairedKeeps
  <2>4. WellFormed(w)
    BY <2>3, Accepted
  <2>5. ContextOf(saved.ctx, w)
    BY <2>2, <2>3, ContextGrows DEF Talk
  <2> QED
    BY <2>1, <2>4, <2>5 DEF ContextOf
<1> QED
  BY <1>1, TalkInvariant, PTL

-----------------------------------------------------------------------------
(* Nothing said is forgotten: the records, in their order, and what each of  *)
(* them stands for. F and L give the first and the last message of a record, *)
(* as SpansOf does; they are named by what they satisfy until Chosen shows   *)
(* that nothing else does.                                                   *)
Gap(r, a, b) == a < b /\ \A n \in a + 1 .. b - 1 : r[n].from # <<>>

InRow(r, F, L, p) == \A i \in 1 .. Len(p) - 1 : Gap(r, L[p[i]], F[p[i + 1]])

Stands(f, n, F, L) ==
  IF f = <<>> THEN F[n] = n /\ L[n] = n ELSE F[n] = F[f[1]] /\ L[n] = L[f[Len(f)]]

TellsOf(r, F, L, n) ==
  /\ F[n] \in 1 .. n /\ L[n] \in 1 .. n
  /\ \A i \in DOMAIN r[n].from : r[n].from[i] \in 1 .. n - 1
  /\ Stands(r[n].from, n, F, L)
  /\ InRow(r, F, L, r[n].from)

Tells(r, F, L) ==
  /\ DOMAIN F = 1 .. Len(r) /\ DOMAIN L = 1 .. Len(r)
  /\ \A n \in 1 .. Len(r) : TellsOf(r, F, L, n)

Spans(r, F, L, p) ==
  IF p = <<>> THEN Len(r) = 0
  ELSE /\ \A i \in DOMAIN p : p[i] \in 1 .. Len(r)
       /\ Gap(r, 0, F[p[1]]) /\ Gap(r, L[p[Len(p)]], Len(r) + 1)

Whole(c) ==
  \E F, L : /\ Tells(c.records, F, L)
            /\ InRow(c.records, F, L, c.live)
            /\ Spans(c.records, F, L, c.live)

WholeInv ==
  /\ Running => Whole(ctx)
  /\ pc = "request" => Len(ctx.live) = Len(ms)
  /\ saved # None => Whole(saved.ctx)

(* New records do not change what the earlier ones stand for.                *)
Grown(r2, F2, L2, r, F, L) ==
  /\ Len(r) <= Len(r2)
  /\ \A n \in 1 .. Len(r) : r2[n] = r[n] /\ F2[n] = F[n] /\ L2[n] = L[n]

LEMMA GapGrows ==
  ASSUME NEW r \in Seq(Records), NEW r2 \in Seq(Records), NEW F, NEW L, NEW F2, NEW L2,
         Grown(r2, F2, L2, r, F, L), NEW a \in Nat, NEW b \in Nat, b <= Len(r) + 1, Gap(r, a, b)
  PROVE  Gap(r2, a, b)
<1>1. ASSUME NEW n \in a + 1 .. b - 1
      PROVE  r2[n].from # <<>>
  <2>1. n \in 1 .. Len(r)
    OBVIOUS
  <2> QED
    BY <2>1 DEF Gap, Grown
<1> QED
  BY <1>1 DEF Gap

LEMMA RowGrows ==
  ASSUME NEW r \in Seq(Records), NEW r2 \in Seq(Records), NEW F, NEW L, NEW F2, NEW L2,
         Grown(r2, F2, L2, r, F, L), Tells(r, F, L),
         NEW p \in Seq(Nat), \A i \in DOMAIN p : p[i] \in 1 .. Len(r), InRow(r, F, L, p)
  PROVE  InRow(r2, F2, L2, p)
<1>1. ASSUME NEW i \in 1 .. Len(p) - 1
      PROVE  Gap(r2, L2[p[i]], F2[p[i + 1]])
  <2>1. i \in DOMAIN p /\ i + 1 \in DOMAIN p
    OBVIOUS
  <2>2. PICK x, y : x = p[i] /\ y = p[i + 1]
    OBVIOUS
  <2>3. x \in 1 .. Len(r) /\ y \in 1 .. Len(r)
    BY <2>1, <2>2
  <2>4. F2[y] = F[y] /\ L2[x] = L[x]
    BY <2>3 DEF Grown
  <2>5. F[y] \in 1 .. y /\ L[x] \in 1 .. x
    BY <2>3 DEF Tells, TellsOf
  <2>6. Gap(r, L[x], F[y])
    BY <2>2 DEF InRow
  <2>7. L[x] \in Nat /\ F[y] \in Nat /\ F[y] <= Len(r) + 1
    BY <2>3, <2>5
  <2>8. Gap(r2, L[x], F[y])
    BY <2>6, <2>7, GapGrows
  <2> QED
    BY <2>2, <2>4, <2>8
<1> QED
  BY <1>1 DEF InRow

LEMMA TellsGrows ==
  ASSUME NEW r \in Seq(Records), NEW r2 \in Seq(Records), NEW F, NEW L, NEW F2, NEW L2,
         Grown(r2, F2, L2, r, F, L), Tells(r, F, L),
         DOMAIN F2 = 1 .. Len(r2), DOMAIN L2 = 1 .. Len(r2),
         \A n \in Len(r) + 1 .. Len(r2) : TellsOf(r2, F2, L2, n)
  PROVE  Tells(r2, F2, L2)
<1>1. ASSUME NEW n \in 1 .. Len(r)
      PROVE  TellsOf(r2, F2, L2, n)
  <2>1. PICK f : f = r[n].from
    OBVIOUS
  <2>2. r2[n].from = f /\ F2[n] = F[n] /\ L2[n] = L[n]
    BY <2>1 DEF Grown
  <2>3. f \in Seq(Nat)
    <3>1. r[n] \in Records
      OBVIOUS
    <3> QED
      BY <2>1, <3>1 DEF Records
  <2>4. TellsOf(r, F, L, n)
    BY DEF Tells
  <2>5. \A i \in DOMAIN f : f[i] \in 1 .. n - 1
    BY <2>1, <2>4 DEF TellsOf
  <2>6. \A i \in DOMAIN f : f[i] \in 1 .. Len(r)
    BY <2>5
  <2>7. InRow(r2, F2, L2, f)
    <3>1. InRow(r, F, L, f)
      BY <2>1, <2>4 DEF TellsOf
    <3> QED
      BY <2>3, <2>6, <3>1, RowGrows
  <2>8. Stands(f, n, F2, L2)
    <3>1. Stands(f, n, F, L)
      BY <2>1, <2>4 DEF TellsOf
    <3>2. f # <<>> => 1 \in DOMAIN f /\ Len(f) \in DOMAIN f
      BY <2>3
    <3>3. f # <<>> => F2[f[1]] = F[f[1]] /\ L2[f[Len(f)]] = L[f[Len(f)]]
      BY <2>6, <3>2 DEF Grown
    <3> QED
      BY <2>2, <3>1, <3>3 DEF Stands
  <2>9. F2[n] \in 1 .. n /\ L2[n] \in 1 .. n
    BY <2>2, <2>4 DEF TellsOf
  <2> QED
    BY <2>2, <2>5, <2>7, <2>8, <2>9 DEF TellsOf
<1>2. \A n \in 1 .. Len(r2) : n \in 1 .. Len(r) \/ n \in Len(r) + 1 .. Len(r2)
  OBVIOUS
<1> QED
  BY <1>1, <1>2 DEF Tells

(* Every new message becomes a record that stands for itself.                *)
LEMMA SyncWhole ==
  ASSUME NEW c, NEW m \in Seq(Messages), ContextOf(c, m), Whole(c)
  PROVE  Whole(Sync(c, m))
<1>1. PICK a \in Nat, k \in Nat, d \in Nat :
        a = Len(c.live) /\ k = Len(c.records) /\ a + d = Len(m)
  <2>1. Len(c.live) \in Nat /\ Len(c.records) \in Nat /\ Len(m) \in Nat /\ Len(c.live) <= Len(m)
    BY DEF ContextOf, Contexts, Captured
  <2>2. Len(m) - Len(c.live) \in Nat /\ Len(c.live) + (Len(m) - Len(c.live)) = Len(m)
    BY <2>1
  <2> QED
    BY <2>1, <2>2
<1>2. PICK f : f = SubSeq(m, Len(c.live) + 1, Len(m))
  OBVIOUS
<1>3. f \in Seq(Messages) /\ Len(f) = d /\ DOMAIN f = 1 .. d
  <2>1. f = SubSeq(m, a + 1, a + d) /\ Len(m) = a + d
    BY <1>1, <1>2
  <2> QED
    BY <2>1
<1>4. PICK u, v : u = [i \in DOMAIN f |-> Len(c.records) + i] /\ v = [i \in DOMAIN f |-> Source(f[i])]
  OBVIOUS
<1>5. /\ u \in Seq(Nat) /\ Len(u) = d /\ \A i \in 1 .. d : u[i] = k + i
      /\ v \in Seq(Records) /\ Len(v) = d /\ \A i \in 1 .. d : v[i].from = <<>>
  <2>1. u = [i \in 1 .. d |-> k + i]
    BY <1>1, <1>3, <1>4
  <2>2. v = [i \in 1 .. d |-> Source(f[i])]
    BY <1>3, <1>4
  <2>3. \A i \in 1 .. d : Source(f[i]) \in Records /\ Source(f[i]).from = <<>>
    BY <1>3 DEF Source, Records
  <2>4. u \in Seq(Nat) /\ Len(u) = d /\ \A i \in 1 .. d : u[i] = k + i
    BY <2>1
  <2>5. v \in Seq(Records) /\ Len(v) = d /\ \A i \in 1 .. d : v[i].from = <<>>
    BY <2>2, <2>3
  <2> QED
    BY <2>4, <2>5
<1>6. PICK b, r, x, y : b = c.live /\ r = c.records /\ x = b \o u /\ y = r \o v
  OBVIOUS
<1>7. /\ b \in Seq(Nat) /\ Len(b) = a /\ r \in Seq(Records) /\ Len(r) = k
      /\ \A i \in 1 .. a : b[i] \in 1 .. k
  BY SMTT(30), <1>1, <1>6 DEF ContextOf, Contexts
<1>8. /\ x \in Seq(Nat) /\ Len(x) = a + d /\ DOMAIN x = 1 .. a + d
      /\ (\A i \in 1 .. a : x[i] = b[i]) /\ (\A i \in 1 .. d : x[a + i] = k + i)
  <2>1. Joined(Nat, b \o u, b, u)
    BY <1>5, <1>7, Concat
  <2> QED
    BY <1>5, <1>6, <1>7, <2>1 DEF Joined
<1>9. /\ y \in Seq(Records) /\ Len(y) = k + d /\ DOMAIN y = 1 .. k + d
      /\ (\A i \in 1 .. k : y[i] = r[i]) /\ (\A i \in 1 .. d : y[k + i].from = <<>>)
  <2>1. Joined(Records, r \o v, r, v)
    BY <1>5, <1>7, Concat
  <2> QED
    BY <1>5, <1>6, <1>7, <2>1 DEF Joined
<1>10. PICK z : z = Sync(c, m)
  OBVIOUS
<1>11. z.live = x /\ z.records = y
  <2>1. z = [c EXCEPT !.live = x, !.records = y]
    BY <1>2, <1>4, <1>6, <1>10 DEF Sync
  <2> QED
    BY <2>1 DEF ContextOf, Contexts
<1>12. PICK F, L : Tells(r, F, L) /\ InRow(r, F, L, b) /\ Spans(r, F, L, b)
  BY <1>6 DEF Whole
<1>13. PICK G, H : /\ G = [n \in 1 .. k + d |-> IF n <= k THEN F[n] ELSE n]
                   /\ H = [n \in 1 .. k + d |-> IF n <= k THEN L[n] ELSE n]
  OBVIOUS
<1>14. /\ DOMAIN G = 1 .. k + d /\ DOMAIN H = 1 .. k + d
       /\ \A n \in 1 .. k : G[n] = F[n] /\ H[n] = L[n]
       /\ \A n \in k + 1 .. k + d : G[n] = n /\ H[n] = n
  BY <1>13
<1>15. Grown(y, G, H, r, F, L)
  BY <1>7, <1>9, <1>14 DEF Grown
<1>16. ASSUME NEW n \in k + 1 .. k + d
       PROVE  TellsOf(y, G, H, n)
  <2>1. PICK i \in 1 .. d : n = k + i
    <3>1. n - k \in 1 .. d /\ n = k + (n - k)
      OBVIOUS
    <3> QED
      BY <3>1
  <2>2. y[n].from = <<>>
    BY <1>9, <2>1
  <2>3. G[n] = n /\ H[n] = n
    BY <1>14
  <2> QED
    BY <2>2, <2>3 DEF TellsOf, Stands, InRow
<1>17. Tells(y, G, H)
  BY <1>7, <1>9, <1>12, <1>14, <1>15, <1>16, TellsGrows
<1>18. InRow(y, G, H, b)
  BY <1>7, <1>9, <1>12, <1>15, RowGrows
<1>19. a > 0 => /\ b # <<>> /\ F[b[1]] \in 1 .. b[1] /\ L[b[a]] \in 1 .. b[a]
                /\ b[1] \in 1 .. k /\ b[a] \in 1 .. k
                /\ Gap(y, 0, F[b[1]]) /\ Gap(y, L[b[a]], k + 1)
  <2> SUFFICES ASSUME a > 0
               PROVE  /\ b # <<>> /\ F[b[1]] \in 1 .. b[1] /\ L[b[a]] \in 1 .. b[a]
                      /\ b[1] \in 1 .. k /\ b[a] \in 1 .. k
                      /\ Gap(y, 0, F[b[1]]) /\ Gap(y, L[b[a]], k + 1)
    OBVIOUS
  <2>1. b # <<>> /\ 1 \in 1 .. a /\ a \in 1 .. a
    BY <1>7
  <2>2. PICK p, q : p = b[1] /\ q = b[a]
    OBVIOUS
  <2>3. p \in 1 .. k /\ q \in 1 .. k
    BY <1>7, <2>1, <2>2
  <2>4. F[p] \in 1 .. p /\ L[q] \in 1 .. q
    BY <1>7, <1>12, <2>3 DEF Tells, TellsOf
  <2>5. Gap(r, 0, F[p]) /\ Gap(r, L[q], k + 1)
    BY <1>7, <1>12, <2>1, <2>2 DEF Spans
  <2>6. 0 \in Nat /\ F[p] \in Nat /\ F[p] <= Len(r) + 1 /\ L[q] \in Nat /\ k + 1 \in Nat
        /\ k + 1 <= Len(r) + 1
    BY <1>7, <2>3, <2>4
  <2>7. Gap(y, 0, F[p])
    BY <1>7, <1>9, <1>15, <2>5, <2>6, GapGrows
  <2>8. Gap(y, L[q], k + 1)
    BY <1>7, <1>9, <1>15, <2>5, <2>6, GapGrows
  <2> QED
    BY <2>1, <2>2, <2>3, <2>4, <2>7, <2>8
<1>20. a = 0 => k = 0
  BY <1>7, <1>12 DEF Spans
<1>21. ASSUME NEW i \in 1 .. a + d - 1
       PROVE  Gap(y, H[x[i]], G[x[i + 1]])
  <2>1. CASE i < a
    <3>1. x[i] = b[i] /\ x[i + 1] = b[i + 1] /\ i \in 1 .. Len(b) - 1
      BY <1>7, <1>8, <2>1
    <3> QED
      BY <1>18, <3>1 DEF InRow
  <2>2. CASE i = a
    <3>1. x[i] = b[a] /\ x[i + 1] = k + 1
      BY <1>8, <2>2
    <3>2. G[k + 1] = k + 1 /\ H[b[a]] = L[b[a]]
      BY <1>14, <1>19, <2>2
    <3> QED
      BY <1>19, <2>2, <3>1, <3>2
  <2>3. CASE i > a
    <3>1. PICK j \in 1 .. d : i = a + j /\ j + 1 \in 1 .. d
      <4>1. i - a \in 1 .. d /\ i = a + (i - a) /\ (i - a) + 1 \in 1 .. d
        BY <2>3
      <4> QED
        BY <4>1
    <3>2. x[i] = k + j /\ x[i + 1] = k + (j + 1)
      <4>1. i + 1 = a + (j + 1)
        BY <3>1
      <4> QED
        BY <1>8, <3>1, <4>1
    <3>3. H[k + j] = k + j /\ G[k + (j + 1)] = k + (j + 1)
      BY <1>14, <3>1
    <3>4. Gap(y, k + j, k + (j + 1))
      BY DEF Gap
    <3> QED
      BY <3>2, <3>3, <3>4
  <2> QED
    BY <2>1, <2>2, <2>3
<1>22. InRow(y, G, H, x)
  BY <1>8, <1>21 DEF InRow
<1>23. Spans(y, G, H, x)
  <2>1. CASE a + d = 0
    <3>1. x = <<>> /\ Len(y) = 0
      BY <1>8, <1>9, <1>20, <2>1
    <3> QED
      BY <3>1 DEF Spans
  <2>2. CASE a + d > 0
    <3>1. x # <<>> /\ Len(x) = a + d
      BY <1>8, <2>2
    <3>2. \A i \in DOMAIN x : x[i] \in 1 .. k + d
      <4>1. ASSUME NEW i \in 1 .. a + d PROVE x[i] \in 1 .. k + d
        <5>1. CASE i <= a
          BY <1>7, <1>8, <5>1
        <5>2. CASE i > a
          <6>1. i - a \in 1 .. d /\ i = a + (i - a)
            BY <5>2
          <6>2. x[i] = k + (i - a)
            BY <1>8, <6>1
          <6> QED
            BY <6>1, <6>2
        <5> QED
          BY <5>1, <5>2
      <4> QED
        BY <1>8, <4>1
    <3>3. Gap(y, 0, G[x[1]])
      <4>1. CASE a > 0
        BY SMTT(30), <1>8, <1>14, <1>19, <4>1
      <4>2. CASE a = 0
        <5>1. x[1] = 1 /\ G[1] = 1
          BY <1>8, <1>14, <1>20, <2>2, <4>2
        <5> QED
          BY <5>1 DEF Gap
      <4> QED
        BY <4>1, <4>2
    <3>4. Gap(y, H[x[a + d]], k + d + 1)
      <4>1. CASE d = 0
        BY <1>8, <1>14, <1>19, <2>2, <4>1
      <4>2. CASE d > 0
        <5>1. x[a + d] = k + d /\ H[k + d] = k + d
          BY <1>8, <1>14, <4>2
        <5> QED
          BY <5>1 DEF Gap
      <4> QED
        BY <4>1, <4>2
    <3> QED
      BY <1>9, <3>1, <3>2, <3>3, <3>4 DEF Spans
  <2> QED
    BY <2>1, <2>2
<1> QED
  BY <1>10, <1>11, <1>17, <1>22, <1>23 DEF Whole

(* A summary stands for the row of messages it replaces.                     *)
LEMMA CompactedWhole ==
  ASSUME NEW c, NEW m \in Seq(Messages), ContextOf(c, m), Len(c.live) = Len(m), Whole(c),
         NEW s \in Nat, NEW e \in Nat, s < e, e <= Len(m)
  PROVE  Whole(Compacted(c, s, e))
<1>1. PICK a, k, b, r : a = Len(m) /\ k = Len(c.records) /\ b = c.live /\ r = c.records
  OBVIOUS
<1>2. /\ a \in Nat /\ k \in Nat /\ e <= a
      /\ b \in Seq(Nat) /\ Len(b) = a /\ r \in Seq(Records) /\ Len(r) = k
      /\ \A i \in 1 .. a : b[i] \in 1 .. k
  BY <1>1 DEF ContextOf, Contexts, Captured
<1>3. PICK f : f = SubSeq(b, s + 1, e)
  OBVIOUS
<1>4. /\ f \in Seq(Nat) /\ Len(f) = e - s /\ f # <<>>
      /\ \A i \in 1 .. e - s : f[i] = b[s + i]
  <2>1. PICK d \in Nat : s + d = e /\ d > 0
    <3>1. e - s \in Nat /\ s + (e - s) = e /\ e - s > 0
      OBVIOUS
    <3> QED
      BY <3>1
  <2>2. f = SubSeq(b, s + 1, s + d) /\ s + d <= Len(b)
    BY <1>2, <1>3, <2>1
  <2>3. f \in Seq(Nat) /\ Len(f) = d /\ \A i \in 1 .. d : f[i] = b[s + i]
    BY <1>2, <2>2
  <2>4. d = e - s /\ f # <<>>
    BY <2>1, <2>3
  <2> QED
    BY <2>3, <2>4
<1>5. PICK q, y : q = [message |-> Summary, from |-> f] /\ y = Append(r, q)
  OBVIOUS
<1>6. q \in Records /\ q.from = f
  <2>1. Summary \in Messages
    BY MessageKinds DEF Summary
  <2> QED
    BY <1>4, <1>5, <2>1 DEF Records
<1>7. /\ y \in Seq(Records) /\ Len(y) = k + 1 /\ (\A i \in 1 .. k : y[i] = r[i]) /\ y[k + 1] = q
  BY <1>2, <1>5, <1>6
<1>8. PICK x : x = Splice(b, s, e, k + 1)
  OBVIOUS
<1>9. /\ x \in Seq(Nat) /\ Len(x) = a - (e - s) + 1 /\ DOMAIN x = 1 .. a - (e - s) + 1
      /\ (\A i \in 1 .. s : x[i] = b[i]) /\ x[s + 1] = k + 1
      /\ \A i \in e + 1 .. a : x[i - (e - s) + 1] = b[i]
  <2>1. PICK n : n = k + 1
    OBVIOUS
  <2>2. n \in Nat
    BY <1>2, <2>1
  <2>3. Spliced(Nat, Splice(b, s, e, n), b, s, e, n)
    BY <1>2, <2>2, Splicing
  <2> QED
    BY <1>2, <1>8, <2>1, <2>3 DEF Spliced
<1>10. PICK z : z = Compacted(c, s, e)
  OBVIOUS
<1>11. z.live = x /\ z.records = y
  <2>1. z = [c EXCEPT !.live = x, !.records = y]
    BY <1>1, <1>3, <1>5, <1>8, <1>10 DEF Compacted, Splice
  <2> QED
    BY <2>1 DEF ContextOf, Contexts
<1>12. PICK F, L : Tells(r, F, L) /\ InRow(r, F, L, b) /\ Spans(r, F, L, b)
  BY <1>1 DEF Whole
<1>13. PICK g, h : g = F[b[s + 1]] /\ h = L[b[e]]
  OBVIOUS
<1>14. \A i \in 1 .. a : F[b[i]] \in 1 .. k /\ L[b[i]] \in 1 .. k
  <2>1. ASSUME NEW i \in 1 .. a PROVE F[b[i]] \in 1 .. k /\ L[b[i]] \in 1 .. k
    <3>1. PICK p : p = b[i]
      OBVIOUS
    <3>2. p \in 1 .. k
      BY <1>2, <3>1
    <3>3. F[p] \in 1 .. p /\ L[p] \in 1 .. p
      BY <1>2, <1>12, <3>2 DEF Tells, TellsOf
    <3> QED
      BY <1>2, <3>1, <3>2, <3>3
  <2> QED
    BY <2>1
<1>15. g \in 1 .. k /\ h \in 1 .. k
  BY <1>2, <1>13, <1>14
<1>16. PICK G, H : /\ G = [n \in 1 .. k + 1 |-> IF n <= k THEN F[n] ELSE g]
                   /\ H = [n \in 1 .. k + 1 |-> IF n <= k THEN L[n] ELSE h]
  OBVIOUS
<1>17. /\ DOMAIN G = 1 .. k + 1 /\ DOMAIN H = 1 .. k + 1
       /\ \A n \in 1 .. k : G[n] = F[n] /\ H[n] = L[n]
       /\ G[k + 1] = g /\ H[k + 1] = h
  BY <1>2, <1>16
<1>18. Grown(y, G, H, r, F, L)
  BY <1>2, <1>7, <1>17 DEF Grown
<1>19. InRow(y, G, H, b)
  BY <1>2, <1>7, <1>12, <1>18, RowGrows
<1>20. InRow(y, G, H, f)
  <2>1. ASSUME NEW i \in 1 .. Len(f) - 1
        PROVE  Gap(y, H[f[i]], G[f[i + 1]])
    <3>1. f[i] = b[s + i] /\ f[i + 1] = b[s + (i + 1)]
      BY <1>4
    <3>2. s + i \in 1 .. Len(b) - 1 /\ s + (i + 1) = (s + i) + 1
      BY <1>2, <1>4
    <3> QED
      BY <1>19, <3>1, <3>2 DEF InRow
  <2> QED
    BY <2>1 DEF InRow
<1>21. TellsOf(y, G, H, k + 1)
  <2>1. ASSUME NEW i \in 1 .. e - s PROVE f[i] \in 1 .. k
    <3>1. s + i \in 1 .. a
      BY <1>2
    <3> QED
      BY <1>2, <1>4, <3>1
  <2>2. DOMAIN f = 1 .. e - s
    BY <1>4
  <2>3. G[f[1]] = g /\ H[f[Len(f)]] = h
    <3>1. 1 \in 1 .. e - s /\ e - s \in 1 .. e - s /\ s + (e - s) = e
      OBVIOUS
    <3>2. f[1] = b[s + 1] /\ f[e - s] = b[e]
      BY <1>4, <3>1
    <3>3. f[1] \in 1 .. k /\ f[e - s] \in 1 .. k
      BY <2>1, <3>1
    <3> QED
      BY <1>4, <1>13, <1>17, <3>2, <3>3
  <2>4. Stands(f, k + 1, G, H)
    BY <1>4, <1>17, <2>3 DEF Stands
  <2>5. g \in 1 .. k + 1 /\ h \in 1 .. k + 1 /\ (k + 1) - 1 = k
    BY <1>2, <1>15
  <2> QED
    BY <1>6, <1>7, <1>17, <1>20, <2>1, <2>2, <2>4, <2>5 DEF TellsOf
<1>22. Tells(y, G, H)
  <2>1. \A n \in Len(r) + 1 .. Len(y) : n = k + 1
    BY <1>2, <1>7
  <2>2. \A n \in Len(r) + 1 .. Len(y) : TellsOf(y, G, H, n)
    BY <1>21, <2>1
  <2> QED
    BY <1>2, <1>7, <1>12, <1>17, <1>18, <2>2, TellsGrows
<1>23. ASSUME NEW i \in 1 .. a - (e - s)
       PROVE  Gap(y, H[x[i]], G[x[i + 1]])
  <2>1. CASE i < s
    <3>1. i \in 1 .. s /\ i + 1 \in 1 .. s /\ i \in 1 .. Len(b) - 1
      BY <1>2, <2>1
    <3>2. x[i] = b[i] /\ x[i + 1] = b[i + 1]
      BY <1>9, <3>1
    <3> QED
      BY <1>19, <3>1, <3>2 DEF InRow
  <2>2. CASE i = s
    <3>1. s \in 1 .. s /\ s \in 1 .. Len(b) - 1 /\ s + 1 \in 1 .. a
      BY <1>2, <2>2
    <3>2. x[s] = b[s] /\ x[s + 1] = k + 1
      BY <1>9, <3>1
    <3>3. G[b[s + 1]] = g
      BY <1>2, <1>13, <1>17, <3>1
    <3>4. Gap(y, H[b[s]], G[b[s + 1]])
      BY <1>19, <3>1 DEF InRow
    <3> QED
      BY <1>17, <2>2, <3>2, <3>3, <3>4
  <2>3. CASE i = s + 1
    <3>1. e \in 1 .. Len(b) - 1 /\ e \in 1 .. a /\ e + 1 \in e + 1 .. a
          /\ (e + 1) - (e - s) + 1 = i + 1
      BY <1>2, <2>3
    <3>2. x[i] = k + 1 /\ x[i + 1] = b[e + 1]
      BY <1>9, <2>3, <3>1
    <3>3. H[b[e]] = h
      BY <1>2, <1>13, <1>17, <3>1
    <3>4. Gap(y, H[b[e]], G[b[e + 1]])
      BY <1>19, <3>1 DEF InRow
    <3> QED
      BY <1>17, <3>2, <3>3, <3>4
  <2>4. CASE i > s + 1
    <3>1. PICK p \in e + 1 .. a - 1 : i = p - (e - s) + 1
      <4>1. i + (e - s) - 1 \in e + 1 .. a - 1 /\ i = (i + (e - s) - 1) - (e - s) + 1
        BY <1>2, <2>4
      <4> QED
        BY <4>1
    <3>2. p \in e + 1 .. a /\ p + 1 \in e + 1 .. a /\ i + 1 = (p + 1) - (e - s) + 1
          /\ p \in 1 .. Len(b) - 1
      BY <1>2, <3>1
    <3>3. x[i] = b[p] /\ x[i + 1] = b[p + 1]
      BY <1>9, <3>1, <3>2
    <3> QED
      BY <1>19, <3>2, <3>3 DEF InRow
  <2> QED
    BY <2>1, <2>2, <2>3, <2>4
<1>24. InRow(y, G, H, x)
  <2>1. Len(x) - 1 = a - (e - s)
    BY <1>2, <1>9
  <2> QED
    BY <1>23, <2>1 DEF InRow
<1>25. x # <<>> /\ \A i \in DOMAIN x : x[i] \in 1 .. k + 1
  <2>1. ASSUME NEW i \in 1 .. a - (e - s) + 1 PROVE x[i] \in 1 .. k + 1
    <3>1. CASE i <= s
      <4>1. i \in 1 .. s /\ i \in 1 .. a
        BY <1>2, <3>1
      <4>2. x[i] = b[i] /\ b[i] \in 1 .. k
        BY <1>2, <1>9, <4>1
      <4> QED
        BY <1>2, <4>2
    <3>2. CASE i = s + 1
      <4>1. x[i] = k + 1
        BY <1>9, <3>2
      <4>2. k + 1 \in 1 .. k + 1
        BY <1>2
      <4> QED
        BY <4>1, <4>2
    <3>3. CASE i > s + 1
      <4>1. PICK p \in e + 1 .. a : i = p - (e - s) + 1
        <5>1. i + (e - s) - 1 \in e + 1 .. a /\ i = (i + (e - s) - 1) - (e - s) + 1
          BY <1>2, <3>3
        <5> QED
          BY <5>1
      <4>2. x[i] = b[p] /\ p \in 1 .. a
        BY <1>2, <1>9, <4>1
      <4>3. b[p] \in 1 .. k
        BY <1>2, <4>2
      <4> QED
        BY <1>2, <4>2, <4>3
    <3> QED
      BY <3>1, <3>2, <3>3
  <2>2. x # <<>>
    <3>1. Len(x) > 0
      BY <1>2, <1>9
    <3> QED
      BY <3>1
  <2> QED
    BY <1>9, <2>1, <2>2
<1>26. Gap(r, 0, F[b[1]]) /\ Gap(r, L[b[a]], k + 1)
  <2>1. b # <<>>
    BY <1>2
  <2> QED
    BY <1>2, <1>12, <2>1 DEF Spans
<1>27. Gap(y, 0, G[x[1]])
  <2>1. G[x[1]] = F[b[1]]
    <3>1. CASE s = 0
      BY <1>9, <1>13, <1>17, <3>1
    <3>2. CASE s > 0
      <4>1. 1 \in 1 .. s /\ 1 \in 1 .. a
        BY <1>2, <3>2
      <4>2. x[1] = b[1] /\ b[1] \in 1 .. k
        BY <1>2, <1>9, <4>1
      <4> QED
        BY <1>17, <4>2
    <3> QED
      BY <3>1, <3>2
  <2>2. F[b[1]] \in 1 .. k
    BY <1>2, <1>14
  <2>3. PICK p : p = F[b[1]]
    OBVIOUS
  <2>4. p \in Nat /\ p <= Len(r) + 1 /\ 0 \in Nat /\ Gap(r, 0, p)
    BY <1>2, <1>26, <2>2, <2>3
  <2>5. Gap(y, 0, p)
    BY <1>2, <1>7, <1>18, <2>4, GapGrows
  <2> QED
    BY <2>1, <2>3, <2>5
<1>28. Gap(y, H[x[Len(x)]], k + 2)
  <2>1. H[x[Len(x)]] = L[b[a]]
    <3>1. CASE e = a
      <4>1. Len(x) = s + 1
        BY <1>2, <1>9, <3>1
      <4> QED
        BY <1>9, <1>13, <1>17, <3>1, <4>1
    <3>2. CASE e < a
      <4>1. a \in e + 1 .. a /\ a \in 1 .. a
        BY <1>2, <3>2
      <4>2. x[Len(x)] = b[a] /\ b[a] \in 1 .. k
        BY <1>2, <1>9, <4>1
      <4> QED
        BY <1>17, <4>2
    <3> QED
      BY <1>2, <3>1, <3>2
  <2>2. L[b[a]] \in 1 .. k
    BY <1>2, <1>14
  <2>3. PICK p : p = L[b[a]]
    OBVIOUS
  <2>4. p \in Nat /\ k + 1 \in Nat /\ k + 1 <= Len(r) + 1 /\ Gap(r, p, k + 1)
    BY <1>2, <1>26, <2>2, <2>3
  <2>5. Gap(y, p, k + 1)
    BY <1>2, <1>7, <1>18, <2>4, GapGrows
  <2>6. p < k + 2 /\ \A n \in p + 1 .. (k + 2) - 1 : n = k + 1 \/ n \in p + 1 .. (k + 1) - 1
    BY <1>2, <2>2, <2>3
  <2>7. Gap(y, p, k + 2)
    BY <1>4, <1>6, <1>7, <2>5, <2>6 DEF Gap
  <2> QED
    BY <2>1, <2>3, <2>7
<1>29. Spans(y, G, H, x)
  <2>1. Len(y) + 1 = k + 2
    BY <1>2, <1>7
  <2> QED
    BY <1>7, <1>25, <1>27, <1>28, <2>1 DEF Spans
<1> QED
  BY <1>10, <1>11, <1>22, <1>24, <1>29 DEF Whole

LEMMA LeastOne ==
  ASSUME NEW S, S \subseteq Nat, S # {}
  PROVE  \E x \in S : \A y \in S : x <= y
<1>1. PICK x \in S : \A y \in S : ~(<<y, x>> \in OpToRel(<, Nat))
  BY WFMin, NatLessThanWellFounded
<1>2. \A y \in S : ~(y < x)
  BY <1>1 DEF OpToRel
<1> QED
  BY <1>2

(* What the records stand for is determined by them.                         *)
SpansAre(c, F, L) == \A n \in 1 .. Len(c.records) : SpansOf(c)[n] = <<F[n], L[n]>>

LEMMA Chosen ==
  ASSUME NEW c, c.records \in Seq(Records), NEW F, NEW L, Tells(c.records, F, L)
  PROVE  SpansAre(c, F, L)
<1> DEFINE r == c.records
           At(g, n) == IF r[n].from = <<>> THEN <<n, n>>
                       ELSE <<g[r[n].from[1]][1], g[r[n].from[Len(r[n].from)]][2]>>
           Rec(g) == g = [n \in DOMAIN r |-> At(g, n)]
           T == [n \in DOMAIN r |-> <<F[n], L[n]>>]
           S == CHOOSE g : Rec(g)
<1>1. Len(r) \in Nat /\ DOMAIN r = 1 .. Len(r)
  OBVIOUS
<1>2. ASSUME NEW n \in 1 .. Len(r), r[n].from # <<>>
      PROVE  /\ r[n].from[1] \in 1 .. n - 1 /\ r[n].from[Len(r[n].from)] \in 1 .. n - 1
             /\ F[n] = F[r[n].from[1]] /\ L[n] = L[r[n].from[Len(r[n].from)]]
  <2>1. PICK f : f = r[n].from
    OBVIOUS
  <2>2. f \in Seq(Nat) /\ f # <<>>
    <3>1. r[n] \in Records
      OBVIOUS
    <3> QED
      BY <1>2, <2>1, <3>1 DEF Records
  <2>3. 1 \in DOMAIN f /\ Len(f) \in DOMAIN f
    BY <2>2
  <2>4. TellsOf(r, F, L, n)
    BY DEF Tells
  <2>5. Stands(f, n, F, L) /\ \A i \in DOMAIN f : f[i] \in 1 .. n - 1
    BY <2>1, <2>4 DEF TellsOf
  <2> QED
    BY <2>1, <2>2, <2>3, <2>5 DEF Stands
<1>3. \A n \in 1 .. Len(r) : r[n].from = <<>> => F[n] = n /\ L[n] = n
  BY DEF Tells, TellsOf, Stands
<1>4. Rec(T)
  <2>1. ASSUME NEW n \in DOMAIN r
        PROVE  At(T, n) = <<F[n], L[n]>>
    <3>1. CASE r[n].from = <<>>
      BY <1>1, <1>3, <3>1
    <3>2. CASE r[n].from # <<>>
      <4>1. PICK p, q : p = r[n].from[1] /\ q = r[n].from[Len(r[n].from)]
        OBVIOUS
      <4>2. p \in 1 .. n - 1 /\ q \in 1 .. n - 1 /\ F[n] = F[p] /\ L[n] = L[q]
        BY <1>1, <1>2, <3>2, <4>1
      <4>3. p \in DOMAIN r /\ q \in DOMAIN r
        BY <1>1, <4>2
      <4>4. T[p][1] = F[p] /\ T[q][2] = L[q]
        BY <4>3
      <4>5. At(T, n) = <<T[p][1], T[q][2]>>
        BY <3>2, <4>1
      <4> QED
        BY <4>2, <4>4, <4>5
    <3> QED
      BY <3>1, <3>2
  <2> QED
    BY <2>1
<1>5. Rec(S)
  BY <1>4
<1>6. SpansOf(c) = S
  BY DEF SpansOf
<1>7. \A n \in 1 .. Len(r) : S[n] = At(S, n) /\ T[n] = At(T, n)
  <2> HIDE DEF S, T, At
  <2> QED
    BY <1>1, <1>4, <1>5
<1> HIDE DEF S, T
<1>8. ASSUME NEW n \in 1 .. Len(r), \A k \in 1 .. n - 1 : S[k] = T[k]
      PROVE  S[n] = T[n]
  <2>1. CASE r[n].from = <<>>
    BY <1>7, <2>1
  <2>2. CASE r[n].from # <<>>
    <3>1. PICK p, q : p = r[n].from[1] /\ q = r[n].from[Len(r[n].from)]
      OBVIOUS
    <3>2. p \in 1 .. n - 1 /\ q \in 1 .. n - 1
      BY <1>2, <2>2, <3>1
    <3>3. S[p] = T[p] /\ S[q] = T[q]
      BY <1>8, <3>2
    <3>4. S[n] = <<S[p][1], S[q][2]>> /\ T[n] = <<T[p][1], T[q][2]>>
      BY <1>7, <2>2, <3>1
    <3> QED
      BY <3>3, <3>4
  <2> QED
    BY <2>1, <2>2
<1>9. \A n \in 1 .. Len(r) : S[n] = T[n]
  <2> DEFINE Wrong == {n \in 1 .. Len(r) : S[n] # T[n]}
  <2> SUFFICES ASSUME Wrong # {} PROVE FALSE
    OBVIOUS
  <2>1. Wrong \subseteq Nat
    OBVIOUS
  <2>3. PICK n \in Wrong : \A k \in Wrong : n <= k
    <3> HIDE DEF Wrong
    <3> QED
      BY <2>1, LeastOne
  <2>4. \A k \in 1 .. n - 1 : S[k] = T[k]
    BY <1>1, <2>3
  <2> QED
    BY <1>8, <2>4
<1> QED
  BY <1>1, <1>6, <1>9 DEF T, SpansAre

LEMMA WholeIsComplete ==
  ASSUME NEW c, NEW m, ContextOf(c, m), c.live # <<>>, Whole(c)
  PROVE  Complete(c)
<1>1. PICK r, b : r = c.records /\ b = c.live
  OBVIOUS
<1>2. /\ r \in Seq(Records) /\ Len(r) \in Nat /\ DOMAIN r = 1 .. Len(r)
      /\ b \in Seq(Nat) /\ b # <<>> /\ \A i \in DOMAIN b : b[i] \in 1 .. Len(r)
  BY <1>1 DEF ContextOf, Contexts
<1>3. PICK F, L : Tells(r, F, L) /\ InRow(r, F, L, b) /\ Spans(r, F, L, b)
  BY <1>1 DEF Whole
<1>4. \A n \in 1 .. Len(r) : SpansOf(c)[n] = <<F[n], L[n]>>
  <2>1. c.records \in Seq(Records) /\ Tells(c.records, F, L)
    BY <1>1, <1>2, <1>3
  <2>2. SpansAre(c, F, L)
    BY <2>1, Chosen
  <2> QED
    BY <1>1, <2>2 DEF SpansAre
<1>5. \A x, y : Adjoin(c, x, y) <=> Gap(r, x, y)
  BY <1>1 DEF Adjoin, Gap
<1>6. ASSUME NEW p \in Seq(Nat), \A i \in DOMAIN p : p[i] \in 1 .. Len(r), InRow(r, F, L, p)
      PROVE  Unbroken(c, p)
  <2>1. ASSUME NEW i \in 1 .. Len(p) - 1
        PROVE  Adjoin(c, SpansOf(c)[p[i]][2], SpansOf(c)[p[i + 1]][1])
    <3>1. i \in DOMAIN p /\ i + 1 \in DOMAIN p
      OBVIOUS
    <3>2. SpansOf(c)[p[i]][2] = L[p[i]] /\ SpansOf(c)[p[i + 1]][1] = F[p[i + 1]]
      BY <1>4, <1>6, <3>1
    <3>3. Gap(r, L[p[i]], F[p[i + 1]])
      BY <1>6 DEF InRow
    <3> QED
      BY <1>5, <3>2, <3>3
  <2> QED
    BY <2>1 DEF Unbroken
<1>7. ASSUME NEW n \in 1 .. Len(r)
      PROVE  Unbroken(c, r[n].from)
  <2>1. PICK f : f = r[n].from
    OBVIOUS
  <2>2. f \in Seq(Nat)
    <3>1. r[n] \in Records
      BY <1>2
    <3> QED
      BY <2>1, <3>1 DEF Records
  <2>3. InRow(r, F, L, f) /\ \A i \in DOMAIN f : f[i] \in 1 .. n - 1
    BY <1>3, <2>1 DEF Tells, TellsOf
  <2>4. \A i \in DOMAIN f : f[i] \in 1 .. Len(r)
    BY <1>2, <2>3
  <2> QED
    BY <1>6, <2>1, <2>2, <2>3, <2>4
<1>8. Unbroken(c, b)
  BY <1>2, <1>3, <1>6
<1>9. 1 \in DOMAIN b /\ Len(b) \in DOMAIN b
  BY <1>2
<1>10. SpansOf(c)[b[1]][1] = F[b[1]] /\ SpansOf(c)[b[Len(b)]][2] = L[b[Len(b)]]
  BY <1>2, <1>4, <1>9
<1>11. Gap(r, 0, F[b[1]]) /\ Gap(r, L[b[Len(b)]], Len(r) + 1)
  BY <1>2, <1>3 DEF Spans
<1> QED
  BY <1>1, <1>2, <1>5, <1>7, <1>8, <1>10, <1>11 DEF Complete

LEMMA FreshWhole ==
  ASSUME NEW p
  PROVE  Whole([NewContext EXCEPT !.prefix = p])
<1>1. PICK c : c = [NewContext EXCEPT !.prefix = p]
  OBVIOUS
<1>2. c.live = <<>> /\ c.records = <<>>
  BY <1>1 DEF NewContext
<1>3. Len(c.records) = 0 /\ 1 .. Len(c.records) = {} /\ 1 .. Len(c.live) - 1 = {}
  BY <1>2
<1>4. PICK F : F = [n \in {} |-> n]
  OBVIOUS
<1>5. Tells(c.records, F, F) /\ InRow(c.records, F, F, c.live) /\ Spans(c.records, F, F, c.live)
  BY <1>2, <1>3, <1>4 DEF Tells, InRow, Spans
<1> QED
  BY <1>1, <1>5 DEF Whole

(* The steps of a run and what its context tells.                            *)
LEMMA SyncIsWhole ==
  ASSUME ContextInv, WholeInv, Running, ms \in Seq(Messages), ctx' = Sync(ctx, ms)
  PROVE  Whole(ctx') /\ Len(ctx'.live) = Len(ms)
BY SyncWhole, SyncKeeps DEF ContextInv, WholeInv

LEMMA SavedIsWhole ==
  ASSUME ContextInv, WholeInv, Running, ms \in Seq(Messages),
         Saved \/ Downgraded \/ saved' \in {saved, None}
  PROVE  saved' # None => Whole(saved'.ctx)
<1>1. CASE Saved
  <2>1. saved'.ctx = Sync(ctx, ms)
    BY <1>1 DEF Saved, Snapshot
  <2> QED
    BY <2>1, SyncWhole DEF ContextInv, WholeInv
<1>2. CASE Downgraded \/ saved' \in {saved, None}
  BY <1>2 DEF Downgraded, WholeInv
<1> QED
  BY <1>1, <1>2

LEMMA WholeAtCompact ==
  ASSUME ContextInv, WholeInv, TalkInv, Compact
  PROVE  Whole(ctx')
<1>1. Running /\ Talk(ms) /\ ms \in Seq(Messages) /\ ContextOf(ctx, ms) /\ Whole(ctx)
  BY DEF Compact, Running, TalkInv, Talk, ContextInv, WholeInv
<1>2. PICK all, start, end :
        /\ all = Sync(ctx, ms) /\ start = SafePrefix(all, ms) /\ end \in Ends(all, ms, Recent)
        /\ ctx' = Compacted(all, start, end)
  BY DEF Compact
<1>3. ContextOf(all, ms) /\ Len(all.live) = Len(ms) /\ Whole(all)
  BY <1>1, <1>2, SyncKeeps, SyncWhole
<1>4. start \in Nat
  BY <1>1, <1>2, <1>3, PrefixProtects DEF ContextOf, Contexts
<1>5. end \in Nat /\ start < end /\ end <= Len(ms)
  BY <1>1, <1>2, <1>4 DEF Ends
<1> QED
  BY <1>1, <1>2, <1>3, <1>4, <1>5, CompactedWhole

LEMMA WholeStep == TalkInv /\ ContextInv /\ WholeInv /\ [Next]_vars => WholeInv'
<1> SUFFICES ASSUME TalkInv, ContextInv, WholeInv, [Next]_vars PROVE WholeInv'
  OBVIOUS
<1> USE DEF conv, round, stops, counts, facts, disk, task, loop
<1>1. Running => ms \in Seq(Messages)
  BY DEF TalkInv, Talk
<1>2. CASE \/ Turn \/ Decline \/ Grant \/ NoReply \/ Unkept \/ Settle \/ Abort \/ Spend
           \/ Final \/ Call \/ Answer \/ EndStep
           \/ \E i \in DOMAIN turn : Begin(i) \/ Return(i)
  <2>1. Running /\ UNCHANGED <<ctx, saved>>
    BY <1>2 DEF Turn, Decline, Grant, NoReply, Unkept, Settle, Abort, Spend, Final, Call, Answer,
                EndStep, Begin, Return, Running
  <2>2. pc' = "request" => pc = "request" /\ ms' = ms
    BY <1>2 DEF Turn, Decline, Grant, NoReply, Unkept, Settle, Abort, Spend, Final, Call, Answer,
                EndStep, Begin, Return, Throw
  <2> QED
    BY <2>1, <2>2 DEF WholeInv
<1>3. CASE Send
  <2>1. Running /\ ctx' = Sync(ctx, ms) /\ UNCHANGED <<ms, saved>>
    BY <1>3 DEF Send, Running
  <2> QED
    BY <1>1, <2>1, SyncIsWhole DEF WholeInv
<1>4. CASE Compact
  <2>1. pc' = "prepare" /\ saved' = saved
    BY <1>4 DEF Compact
  <2> QED
    BY <1>4, <2>1, WholeAtCompact DEF WholeInv
<1>5. CASE Write
  <2>1. Running /\ UNCHANGED <<ms, ctx>> /\ pc' # "request"
        /\ (Saved \/ Downgraded \/ saved' \in {saved, None})
    BY <1>5 DEF Write, Running, Throw
  <2>2. saved' # None => Whole(saved'.ctx)
    BY <1>1, <2>1, SavedIsWhole
  <2> QED
    BY <2>1, <2>2 DEF WholeInv
<1>6. CASE Leave \/ Fail \/ Finish \/ Clear \/ Crash
  <2>1. Running /\ (Saved \/ Downgraded \/ saved' \in {saved, None})
    BY <1>6 DEF Leave, Fail, Finish, Clear, Crash, Running
  <2>2. saved' # None => Whole(saved'.ctx)
    BY <1>1, <2>1, SavedIsWhole
  <2>3. pc' # "request" /\ (Running' => ctx' = ctx)
    BY <1>6 DEF Leave, Fail, Finish, Clear, Crash, Over, Running
  <2> QED
    BY <2>1, <2>2, <2>3 DEF WholeInv
<1>7. CASE Resume
  <2>1. PICK c : /\ c \in {saved.ctx, [NewContext EXCEPT !.prefix = FirstPrefix(ms')]}
                 /\ ctx' = Sync(c, ms')
    BY <1>7 DEF Resume
  <2>2. saved # None /\ ms' = Repaired(saved.ms) /\ saved' = saved /\ pc' = "head"
    BY <1>7 DEF Resume
  <2>3. PICK m : m = saved.ms
    OBVIOUS
  <2>4. Talk(m) /\ m \in Seq(Messages) /\ ContextOf(saved.ctx, m) /\ Whole(saved.ctx)
    BY <2>2, <2>3 DEF TalkInv, Talk, ContextInv, WholeInv
  <2>5. Talk(ms') /\ ms' \in Seq(Messages) /\ Extends(ms', m)
    BY <2>2, <2>3, <2>4, RepairedKeeps DEF Talk
  <2>6. ContextOf(c, ms') /\ Whole(c)
    <3>1. CASE c = saved.ctx
      BY <2>4, <2>5, <3>1, ContextGrows
    <3>2. CASE c = [NewContext EXCEPT !.prefix = FirstPrefix(ms')]
      BY <2>5, <3>2, FirstIsBehindTheTask, FreshContext, FreshWhole
    <3> QED
      BY <2>1, <3>1, <3>2
  <2>7. Whole(ctx')
    BY <2>1, <2>5, <2>6, SyncWhole
  <2> QED
    BY <2>2, <2>4, <2>7 DEF WholeInv
<1>8. CASE UNCHANGED vars
  BY <1>8 DEF vars, WholeInv, Running
<1> QED
  BY <1>2, <1>3, <1>4, <1>5, <1>6, <1>7, <1>8 DEF Next, Program

LEMMA InitWhole == Init => WholeInv
<1> SUFFICES ASSUME Init PROVE WholeInv
  OBVIOUS
<1>1. /\ ms = Opening /\ ctx = Sync([NewContext EXCEPT !.prefix = Len(Opening)], Opening)
      /\ pc = "head" /\ saved = None
  BY DEF Init
<1>2. ms \in Seq(Messages) /\ Len(ms) = 2
  <2>1. Plain("system") \in Messages /\ Plain("task") \in Messages
    BY MessageKinds
  <2> QED
    BY <1>1, <2>1 DEF Opening
<1>3. PICK p, m : p = 2 /\ m = ms
  OBVIOUS
<1>4. ContextOf([NewContext EXCEPT !.prefix = p], m)
  <2>1. p \in Nat /\ p >= 2 /\ m \in Seq(Messages)
    BY <1>2, <1>3
  <2> QED
    BY <2>1, FreshContext
<1>5. Whole(Sync([NewContext EXCEPT !.prefix = p], m))
  BY <1>2, <1>3, <1>4, FreshWhole, SyncWhole
<1> QED
  BY <1>1, <1>2, <1>3, <1>5 DEF WholeInv

(* The messages of a request are those of the context, and unfolding its     *)
(* summaries gives back every message said, once and in order, however often *)
(* it was compacted or continued (syncContextState, applyContextCompaction). *)
THEOREM ForgottenCorrect == Spec => []NothingForgotten
<1>1. TalkInv /\ ContextInv /\ WholeInv => NothingForgotten
  <2> SUFFICES ASSUME TalkInv, ContextInv, WholeInv, pc = "request"
               PROVE  /\ Captured(ctx, ms) /\ Len(ctx.live) = Len(ms)
                      /\ Complete(ctx)
    BY DEF NothingForgotten
  <2>1. Talk(ms) /\ ContextOf(ctx, ms) /\ Whole(ctx) /\ Len(ctx.live) = Len(ms)
    BY DEF TalkInv, ContextInv, WholeInv, Running
  <2>2. ctx.live # <<>>
    BY <2>1 DEF Talk, Opens
  <2> QED
    BY <2>1, <2>2, WholeIsComplete DEF ContextOf
<1>2. TalkInv /\ ContextInv /\ WholeInv /\ [Next]_vars => (TalkInv /\ ContextInv /\ WholeInv)'
  BY TalkStep, WholeStep
<1>3. Init => TalkInv /\ ContextInv /\ WholeInv
  BY InitTalk, InitWhole
<1> QED
  BY <1>1, <1>2, <1>3, PTL DEF Spec
=============================================================================
