------------------------------- MODULE TaskRun -------------------------------
(* One task from its first request to its end (runAgent of                   *)
(* src/agent/loop.js, the end of a task in src/agent/taskRunner.js, the      *)
(* checkpoint writer of src/harness/checkpoints.js with the store behind it, *)
(* src/session/store.js), through aborts, budget stops, failed requests and  *)
(* saves, a process that dies and runs that continue from the checkpoint.    *)
(*                                                                           *)
(* pc names the wait the run is in. A step of the module is the code from    *)
(* one wait to the next; the user's abort, the task's deadline and a worker  *)
(* that uses up the shared budget come in between.                           *)
EXTENDS Integers, FiniteSets, Sequences, SequencesExt

CONSTANTS
  None,           \* no call, no record
  Replies,        \* what the model may answer: the kinds of calls, in order
  MaxSteps,       \* step budget of a run (maxSteps)
  MaxExtensions,  \* bound: how often the user grants a run another budget
  MaxRuns,        \* bound: runs of the task, the first one included
  MaxRepairs,     \* maxRepairAttempts of the validator
  MaxIdle,        \* MAX_NO_PROGRESS_STEPS
  MaxParallel,    \* MAX_PARALLEL_DISPATCH
  Recent          \* RECENT_LIVE_MESSAGES

ASSUME RunAssumption ==
  /\ {MaxSteps, MaxRuns, MaxIdle, MaxParallel} \subseteq Nat \ {0}
  /\ {MaxExtensions, MaxRepairs, Recent} \subseteq Nat
  /\ Replies \subseteq Seq({"tool", "agent"})
  /\ None \notin Nat

(* The replies of the instance that is checked.                              *)
SomeReplies == {<<>>, <<"agent", "tool", "agent">>}

-----------------------------------------------------------------------------
(* The messages a run sends to the model and the record kept beside them     *)
(* (src/context/compaction.js, compactLiveMessages of src/agent/loop.js, the *)
(* repair of src/harness/checkpoints.js).                                    *)
(*                                                                           *)
(* A message is its role, the calls it makes and the call it answers; texts  *)
(* are left out. The roles "task" and "summary" tell two of the user's       *)
(* messages apart, "note" stands for every other one (a repair prompt, a     *)
(* nudge, the continuation notice).                                          *)
(*                                                                           *)
(* A context is the append-only transcript with, for each message now sent,  *)
(* the place of its record: identities are given out in the order of the     *)
(* transcript, so that a record's place is its identity.                     *)

Plain(role) == [role |-> role, calls |-> <<>>, call |-> None]
Says(calls) == [role |-> "assistant", calls |-> calls, call |-> None]
Answers(c) == [role |-> "tool", calls |-> <<>>, call |-> c]

Opening == <<Plain("system"), Plain("task")>>

Summary == Plain("summary")

(* The last of the answers that follow message i without a gap.              *)
GroupEnd(ms, i) ==
  CHOOSE j \in i .. Len(ms) : /\ \A k \in i + 1 .. j : ms[k].role = "tool"
                              /\ j = Len(ms) \/ ms[j + 1].role # "tool"

Unanswered(ms, i) ==
  ToSet(ms[i].calls) \ {ms[k].call : k \in i + 1 .. GroupEnd(ms, i)}

(* May the context be cut behind its first n messages?                       *)
Boundary(ms, n) ==
  /\ n \in 0 .. Len(ms)
  /\ n < Len(ms) => ms[n + 1].role # "tool"
  /\ \A i \in 1 .. n :
       ms[i].calls # <<>> =>
         /\ n >= GroupEnd(ms, i)
         /\ n = GroupEnd(ms, i) => Unanswered(ms, i) = {}

(* No span may hold a call whose answer lies outside of it.                  *)
Closed(ms, start, end) ==
  \A i \in start + 1 .. end :
    ToSet(ms[i].calls) \subseteq
      {ms[k].call : k \in {l \in i + 1 .. end : ms[l].role = "tool"}}

(* Messages start + 1 to end are replaced by a summary.                      *)
Cut(ms, start, end) ==
  SubSeq(ms, 1, start) \o <<Summary>> \o SubSeq(ms, end + 1, Len(ms))

NewContext == [live |-> <<>>, records |-> <<>>, prefix |-> 0]

Source(m) == [message |-> m, from |-> <<>>]

(* Are the messages those the context was taken from, with new ones behind?  *)
Captured(ctx, ms) ==
  /\ Len(ctx.live) <= Len(ms)
  /\ \A i \in DOMAIN ctx.live : ctx.records[ctx.live[i]].message = ms[i]

(* Every message not yet recorded becomes a record of its own.               *)
Sync(ctx, ms) ==
  LET fresh == SubSeq(ms, Len(ctx.live) + 1, Len(ms)) IN
  [ctx EXCEPT
    !.live = @ \o [i \in DOMAIN fresh |-> Len(ctx.records) + i],
    !.records = @ \o [i \in DOMAIN fresh |-> Source(fresh[i])]]

CompactedButLast(ctx, start, end) ==
  [ctx EXCEPT
    !.live = SubSeq(@, 1, start) \o <<Len(ctx.records) + 1>>
               \o SubSeq(@, end + 1, Len(@)),
    !.records = Append(@, [message |-> Summary,
                           from |-> SubSeq(ctx.live, start + 1, end - 1)])]

(* The replaced records stay in the transcript, the summary names them.      *)
Compacted(ctx, start, end) ==
  [ctx EXCEPT
    !.live = SubSeq(@, 1, start) \o <<Len(ctx.records) + 1>>
               \o SubSeq(@, end + 1, Len(@)),
    !.records = Append(@, [message |-> Summary,
                           from |-> SubSeq(ctx.live, start + 1, end)])]

(* The protected messages, cut back to a boundary.                           *)
SafePrefix(ctx, ms) ==
  LET most == IF ctx.prefix < Len(ms) THEN ctx.prefix ELSE Len(ms)
  IN  CHOOSE p \in 1 .. most :
        /\ p = 1 \/ Boundary(ms, p)
        /\ \A q \in p + 1 .. most : ~Boundary(ms, q)

(* The ends a compaction tries: the last boundary that leaves the recent     *)
(* messages alone, then each later one. Sizes decide between them.           *)
Ends(ctx, ms, recent) ==
  LET p == SafePrefix(ctx, ms)
      most == IF Len(ms) - recent > p THEN Len(ms) - recent ELSE p
      first == CHOOSE e \in p .. most :
                 /\ e = p \/ Boundary(ms, e)
                 /\ \A q \in e + 1 .. most : ~Boundary(ms, q)
  IN  {e \in p + 1 .. Len(ms) :
         /\ e >= first
         /\ Boundary(ms, p) /\ Boundary(ms, e)
         /\ Closed(ms, p, e)}

SystemPrefix(ms) == 1

(* The prefix a run protects: its opening or, for a saved conversation       *)
(* whose context is lost, all that comes before the first assistant.         *)
FirstPrefix(ms) ==
  LET said == {i \in DOMAIN ms : ms[i].role = "assistant"} IN
  IF said = {} THEN Len(ms)
  ELSE LET i == CHOOSE i \in said : \A j \in said : i <= j
       IN  IF i = 1 THEN 1 ELSE i - 1

AnsweredIn(ms) == {ms[i].call : i \in {k \in DOMAIN ms : ms[k].role = "tool"}}

(* Where a call without an answer stands: its message and its place there.   *)
Open(ms) ==
  UNION {{<<j, k>> : k \in {l \in DOMAIN ms[j].calls : ms[j].calls[l] \notin AnsweredIn(ms)}} :
           j \in DOMAIN ms}
Before(p, q) == p[1] < q[1] \/ (p[1] = q[1] /\ p[2] < q[2])
OpenCall(ms, i) ==
  LET p == CHOOSE p \in Open(ms) : Cardinality({q \in Open(ms) : Before(q, p)}) = i - 1
  IN  ms[p[1]].calls[p[2]]
Missing(ms) == [i \in 1 .. Cardinality(Open(ms)) |-> Answers(OpenCall(ms, i))]

RepairedBehindNotice(ms) == Append(ms, Plain("note")) \o Missing(ms)

(* A saved conversation is completed before it continues: each call without  *)
(* an answer gets one that says its outcome is unknown, and a notice follows.*)
Repaired(ms) == Append(ms \o Missing(ms), Plain("note"))

-----------------------------------------------------------------------------
(* What a provider accepts: every call of an assistant's message is answered *)
(* directly behind it, in order, and nothing else is an answer.              *)
WellFormed(ms) ==
  /\ \A j \in DOMAIN ms : \A k \in DOMAIN ms[j].calls :
       /\ j + k \in DOMAIN ms
       /\ ms[j + k] = Answers(ms[j].calls[k])
  /\ \A i \in DOMAIN ms :
       ms[i].role = "tool" =>
         \E j \in 1 .. i - 1 : i - j \in DOMAIN ms[j].calls

(* The first and the last message that a record stands for: its own or those *)
(* of the records its summary names.                                         *)
SpansOf(ctx) ==
  LET S[n \in DOMAIN ctx.records] ==
        LET from == ctx.records[n].from IN
        IF from = <<>> THEN <<n, n>> ELSE <<S[from[1]][1], S[from[Len(from)]][2]>>
  IN  S

(* No message was said after a and before b.                                 *)
Adjoin(ctx, a, b) ==
  a < b /\ \A n \in a + 1 .. b - 1 : ctx.records[n].from # <<>>

Unbroken(ctx, places) ==
  \A i \in 1 .. Len(places) - 1 :
    Adjoin(ctx, SpansOf(ctx)[places[i]][2], SpansOf(ctx)[places[i + 1]][1])

(* Unfolding the summaries gives back every message ever said, once and in   *)
(* order: what is sent reaches from the first to the last without a gap, and *)
(* so does what each summary names.                                          *)
Complete(ctx) ==
  /\ \A n \in DOMAIN ctx.records : Unbroken(ctx, ctx.records[n].from)
  /\ Unbroken(ctx, ctx.live)
  /\ Adjoin(ctx, 0, SpansOf(ctx)[ctx.live[1]][1])
  /\ Adjoin(ctx, SpansOf(ctx)[ctx.live[Len(ctx.live)]][2], Len(ctx.records) + 1)

-----------------------------------------------------------------------------
(* The run.                                                                  *)

VARIABLES
  pc, step, limit,           \* the loop and its step budget
  ms, ctx, shrinks,          \* messages, their record, compactions of a step
  turn, exec,                \* the calls of a reply and how far each one is
  aborted, stopped,          \* the signal; the shared budget is used up
  repairs, idle,             \* finalValidationAttempt, noProgressSteps
  begun, recorded,           \* calls that may have changed something; those
                             \* whose outcome the run knows
  saved, marker,             \* checkpoint and downgrade files
  unsaved,                   \* history: the store refused later progress
  told,                      \* the continued run was told so
  runs, granted              \* runs begun, budgets granted

loop == <<pc, step, limit>>
conv == <<ms, ctx, shrinks>>
round == <<turn, exec>>
stops == <<aborted, stopped>>
counts == <<repairs, idle>>
facts == <<begun, recorded>>
disk == <<saved, marker, unsaved>>
task == <<told, runs, granted>>
vars == <<loop, conv, round, stops, counts, facts, disk, task>>

Running == pc \notin {"ended", "down"}

Init ==
  /\ ms = Opening
  /\ ctx = Sync([NewContext EXCEPT !.prefix = Len(Opening)], Opening)
  /\ step = 1 /\ limit = MaxSteps
  /\ pc = "head" /\ granted = 0 /\ shrinks = 0
  /\ turn = <<>> /\ exec = <<>>
  /\ aborted = FALSE /\ stopped = FALSE
  /\ repairs = 0 /\ idle = 0
  /\ begun = {} /\ recorded = {}
  /\ saved = None /\ marker = None /\ unsaved = FALSE
  /\ told = FALSE /\ runs = 1

(* The catch of runAgent: with the shared budget used up the run returns as  *)
(* stopped, any other error leaves it with a snapshot.                       *)
Throw(spent) == pc' = IF spent THEN "leave" ELSE "fail"

-----------------------------------------------------------------------------
(* The head of the loop and the request.                                     *)

(* The shared budget comes first, then the run's own: steps, tokens, cost,   *)
(* deadline. The signal is looked at behind them.                            *)
Turn ==
  /\ pc = "head"
  /\ pc' \in CASE stopped      -> {"leave"}
               [] step > limit -> {"leave", "ask"}
               [] aborted      -> {"leave", "fail"}
               [] OTHER        -> {"leave", "prepare"}
  /\ shrinks' = 0
  /\ UNCHANGED <<step, limit, ms, ctx, round, stops, counts, facts,
                 disk, task>>

Decline ==
  /\ pc = "ask"
  /\ pc' = "leave"
  /\ UNCHANGED <<step, limit, conv, round, stops, counts, facts,
                 disk, task>>

Grant ==
  /\ pc = "ask"
  /\ granted < MaxExtensions
  /\ IF aborted
     THEN pc' = "fail" /\ UNCHANGED <<limit, granted>>
     ELSE /\ pc' \in {"leave", "prepare"}
          /\ limit' = limit + MaxSteps
          /\ granted' = granted + 1
  /\ UNCHANGED <<step, conv, round, stops, counts, facts, disk, told, runs>>

(* Before the request and again when the prepared one is too large.          *)
Compact ==
  /\ pc = "prepare"
  /\ shrinks < 2
  /\ LET all == Sync(ctx, ms)
         start == SafePrefix(all, ms)
     IN  \E end \in Ends(all, ms, Recent) :
           /\ ms' = Cut(ms, start, end)
           /\ ctx' = Compacted(all, start, end)
  /\ shrinks' = shrinks + 1
  /\ UNCHANGED <<loop, round, stops, counts, facts, disk, task>>

Send ==
  /\ pc = "prepare"
  /\ pc' = "request"
  /\ ctx' = Sync(ctx, ms)
  /\ UNCHANGED <<step, limit, ms, shrinks, round, stops, counts,
                 facts, disk, task>>

(* Preparation fails or the context stays too large; the request fails after *)
(* its retries, perhaps with a usage that ends the budget.                   *)
NoReply ==
  /\ pc \in {"prepare", "request"}
  /\ stopped' \in {stopped, pc = "request"}
  /\ Throw(stopped')
  /\ UNCHANGED <<step, limit, conv, round, aborted, counts, facts,
                 disk, task>>

(* A reply that ends the budget, or comes after an abort, is not kept.       *)
Unkept ==
  /\ pc = "request"
  /\ stopped' \in BOOLEAN
  /\ stopped' \/ aborted
  /\ Throw(stopped')
  /\ UNCHANGED <<step, limit, conv, round, aborted, counts, facts,
                 disk, task>>

MayRepair == repairs < MaxRepairs

(* A reply without calls is validated at once.                               *)
Final ==
  /\ pc = "request"
  /\ ~aborted /\ ~stopped
  /\ <<>> \in Replies
  /\ \/ /\ pc' \in {"finish", "leave"}
        /\ ms' = Append(ms, Says(<<>>))
        /\ UNCHANGED <<step, repairs>>
     \/ /\ MayRepair
        /\ pc' = "head"
        /\ ms' = ms \o <<Says(<<>>), Plain("note")>>
        /\ repairs' = repairs + 1
        /\ step' = step + 1
  /\ UNCHANGED <<limit, ctx, shrinks, round, stops, idle, facts, disk,
                 task>>

(* The calls of a reply; no two calls of a task are the same.                *)
Calls(kinds) == [i \in DOMAIN kinds |-> [run |-> runs, step |-> step,
                                         place |-> i, kind |-> kinds[i]]]

Call ==
  /\ pc = "request"
  /\ ~aborted /\ ~stopped
  /\ \E kinds \in Replies \ {<<>>} :
       /\ turn' = Calls(kinds)
       /\ exec' = [i \in DOMAIN kinds |-> "waits"]
       /\ ms' = Append(ms, Says(Calls(kinds)))
  /\ pc' = "tools"
  /\ UNCHANGED <<step, limit, ctx, shrinks, stops, counts, facts,
                 disk, task>>

-----------------------------------------------------------------------------
(* The calls of a step: the serial ones in order, then the workers.          *)

Serial == {i \in DOMAIN turn : turn[i].kind = "tool"}
Workers == DOMAIN turn \ Serial
In(states) == {i \in DOMAIN exec : exec[i] \in states}
Active == In({"runs"})

(* A runner takes the next worker call until one of its calls throws.        *)
FreeRunners ==
  LET all == IF Cardinality(Workers) < MaxParallel
             THEN Cardinality(Workers) ELSE MaxParallel
  IN  all - Cardinality(Workers \cap (Active \cup In({"threw"})))

Ready(i) ==
  /\ exec[i] = "waits"
  /\ IF i \in Serial
     THEN \A j \in Serial : j < i => exec[j] = "done"
     ELSE /\ \A j \in Serial : exec[j] = "done"
          /\ \A j \in Workers : j < i => exec[j] # "waits"
          /\ FreeRunners > 0

Begin(i) ==
  /\ pc = "tools"
  /\ Ready(i)
  /\ IF aborted \/ stopped
     THEN exec' = [exec EXCEPT ![i] = "threw"] /\ begun' = begun
     ELSE /\ exec' = [exec EXCEPT ![i] = "runs"]
          /\ begun' = begun \cup {turn[i]}
  /\ UNCHANGED <<loop, conv, turn, stops, counts, recorded, disk, task>>

(* The result is recorded before the signal is looked at again.              *)
Return(i) ==
  /\ pc = "tools"
  /\ i \in Active
  /\ recorded' = recorded \cup {turn[i]}
  /\ exec' = [exec EXCEPT ![i] = IF aborted \/ stopped THEN "threw" ELSE "done"]
  /\ UNCHANGED <<loop, conv, turn, stops, counts, begun, disk, task>>

SettledWhenAllBegan == Active \cup In({"waits"}) = {}

(* No call runs and none will be begun.                                      *)
Settled == Active = {} /\ \A i \in DOMAIN turn : ~Ready(i)

Settle ==
  /\ pc = "tools"
  /\ Settled
  /\ IF In({"threw"}) = {} THEN pc' = "answer" ELSE Throw(stopped)
  /\ UNCHANGED <<step, limit, conv, round, stops, counts, facts, disk, task>>

Given == {i \in DOMAIN turn : Answers(turn[i]) \in ToSet(ms)}

(* One answer per call, in the order of the calls. Each waits for the output *)
(* store or a plugin, which may fail.                                        *)
Answer ==
  /\ pc = "answer"
  /\ Given # DOMAIN turn
  /\ \/ /\ ms' = Append(ms, Answers(turn[Cardinality(Given) + 1]))
        /\ UNCHANGED pc
     \/ Throw(stopped) /\ UNCHANGED ms
  /\ UNCHANGED <<step, limit, ctx, shrinks, round, stops, counts,
                 facts, disk, task>>

(* Steps that only repeat earlier ones end the run; else a nudge may follow. *)
EndStep ==
  /\ pc = "answer"
  /\ Given = DOMAIN turn
  /\ \E repeated \in BOOLEAN :
       idle' = IF repeated THEN idle + 1 ELSE 0
  /\ \/ idle' >= MaxIdle /\ pc' = "leave" /\ ms' = ms
     \/ idle' < MaxIdle /\ pc' = "write" /\ ms' \in {ms, Append(ms, Plain("note"))}
  /\ turn' = <<>> /\ exec' = <<>>
  /\ UNCHANGED <<step, limit, ctx, shrinks, stops, repairs, facts,
                 disk, task>>

-----------------------------------------------------------------------------
(* Checkpoints and the end of a task.                                        *)

Snapshot == [step |-> step, ms |-> ms, ctx |-> Sync(ctx, ms), effects |-> recorded]

Saved ==
  /\ saved' = Snapshot
  /\ unsaved' = FALSE
  /\ UNCHANGED marker

(* The store is full: the last checkpoint stays, a marker names its step, if *)
(* there is room for one.                                                    *)
Downgraded ==
  /\ \/ /\ marker' = IF saved = None THEN None ELSE saved.step
        /\ unsaved' = TRUE
     \/ UNCHANGED <<marker, unsaved>>
  /\ UNCHANGED saved

Write ==
  /\ pc = "write"
  /\ \/ /\ Saved \/ Downgraded
        /\ pc' = "head"
        /\ step' = step + 1
     \/ /\ Throw(stopped) /\ UNCHANGED <<step, disk>>
  /\ UNCHANGED <<limit, conv, round, stops, counts, facts, task>>

(* What the run held in memory is gone.                                      *)
Over(how) ==
  /\ pc' = how
  /\ step' = 0 /\ limit' = 0
  /\ ms' = <<>> /\ ctx' = NewContext /\ shrinks' = 0
  /\ turn' = <<>> /\ exec' = <<>>
  /\ aborted' = FALSE /\ stopped' = FALSE
  /\ repairs' = 0 /\ idle' = 0
  /\ begun' = {} /\ recorded' = {}
  /\ told' = FALSE

(* A run that returned unfinished is saved; a save that fails is an error of *)
(* the task, whose snapshot is saved once more.                              *)
Leave ==
  /\ pc = "leave"
  /\ \/ /\ Saved \/ Downgraded
        /\ Over("ended")
     \/ /\ pc' = "fail"
        /\ UNCHANGED <<step, limit, conv, round, stops, counts, facts,
                       disk, told>>
  /\ UNCHANGED <<runs, granted>>

Fail ==
  /\ pc = "fail"
  /\ Saved \/ Downgraded \/ UNCHANGED disk
  /\ Over("ended")
  /\ UNCHANGED <<runs, granted>>

(* A finished run: a plugin that cannot be cleaned up makes it unfinished,   *)
(* a record that cannot be written fails the task, else its checkpoint goes. *)
Finish ==
  /\ pc = "finish"
  /\ \/ /\ pc' = "leave"
        /\ UNCHANGED <<step, limit, conv, round, stops, counts, facts,
                       disk, told>>
     \/ Over("ended") /\ UNCHANGED disk
     \/ /\ pc' = "clear"
        /\ saved' = None /\ unsaved' = FALSE
        /\ UNCHANGED <<step, limit, conv, round, stops, counts, facts,
                       marker, told>>
  /\ UNCHANGED <<runs, granted>>

Clear ==
  /\ pc = "clear"
  /\ marker' = None
  /\ Over("ended")
  /\ UNCHANGED <<saved, unsaved, runs, granted>>

Marked == marker # None
Degraded == marker = saved.step

(* A run continues from the checkpoint, with or without the archived part of *)
(* its context; a marker counts while it names the step of the checkpoint.   *)
(* A budget that was not raised is used up at once.                          *)
Resume ==
  /\ ~Running /\ saved # None /\ runs < MaxRuns
  /\ runs' = runs + 1
  /\ ms' = Repaired(saved.ms)
  /\ \E context \in {saved.ctx, [NewContext EXCEPT !.prefix = FirstPrefix(ms')]} :
       ctx' = Sync(context, ms')
  /\ step' = saved.step + 1
  /\ limit' = saved.step + MaxSteps
  /\ told' = Degraded
  /\ recorded' = saved.effects
  /\ stopped' \in BOOLEAN /\ aborted' = FALSE
  /\ pc' = "head"
  /\ shrinks' = 0 /\ repairs' = 0 /\ idle' = 0
  /\ turn' = <<>> /\ exec' = <<>> /\ begun' = saved.effects
  /\ UNCHANGED <<disk, granted>>

-----------------------------------------------------------------------------
(* What comes from outside.                                                  *)

Abort ==
  /\ Running /\ ~aborted
  /\ aborted' = TRUE
  /\ UNCHANGED <<loop, conv, round, stopped, counts, facts, disk, task>>

(* A worker's requests use up the budget while its call runs.                *)
Spend ==
  /\ pc = "tools" /\ ~stopped
  /\ Active \cap Workers # {}
  /\ stopped' = TRUE
  /\ UNCHANGED <<loop, conv, round, aborted, counts, facts, disk, task>>

Crash ==
  /\ Running
  /\ Over("down")
  /\ UNCHANGED <<disk, runs, granted>>

Program ==
  \/ Turn \/ Decline \/ Grant \/ Compact \/ Send \/ NoReply \/ Unkept \/ Final
  \/ Call \/ Settle \/ Answer \/ EndStep \/ Write \/ Leave \/ Fail \/ Finish
  \/ Clear
  \/ \E i \in DOMAIN turn : Begin(i) \/ Return(i)

Next == Program \/ Resume \/ Abort \/ Spend \/ Crash

Spec == Init /\ [][Next]_vars

-----------------------------------------------------------------------------
TypeOK ==
  /\ pc \in {"head", "ask", "prepare", "request", "tools", "answer", "write",
             "leave", "fail", "finish", "clear", "ended", "down"}
  /\ {step, limit, runs} \subseteq Nat
  /\ granted \in 0 .. MaxExtensions /\ shrinks \in 0 .. 2
  /\ repairs \in 0 .. MaxRepairs /\ idle \in 0 .. MaxIdle
  /\ {aborted, stopped, unsaved, told} \subseteq BOOLEAN
  /\ DOMAIN exec = DOMAIN turn
  /\ In({"waits", "runs", "done", "threw"}) = DOMAIN exec

(* Whatever was compacted, repaired or continued before: a request begins    *)
(* with the task, and every call in it is answered at once and in order      *)
(* (runAgent, isBalancedContextBoundary, prepareCheckpointResume).           *)
RequestAccepted ==
  pc = "request" => WellFormed(ms) /\ IsPrefix(Opening, ms)

(* The messages of a request are those of the context, and unfolding its     *)
(* summaries gives back every message said, once and in order                *)
(* (syncContextState, applyContextCompaction).                               *)
NothingForgotten ==
  pc = "request" =>
    /\ Captured(ctx, ms) /\ Len(ctx.live) = Len(ms)
    /\ Complete(ctx)

(* At no moment does a dying process leave a checkpoint that a run could not *)
(* continue from: completed, its messages are a request and they extend the  *)
(* context saved with them (serializeRunState, prepareCheckpointResume).     *)
SavedContinues ==
  saved # None =>
    LET next == Repaired(saved.ms)
    IN  WellFormed(next) /\ Captured(saved.ctx, next)

(* No call is left running when its step is over, and whatever a call of it  *)
(* may have changed is known to the run, even if an abort or the budget      *)
(* stopped the step midway (runOne, mapWithConcurrency).                     *)
EffectsAccounted ==
  pc # "tools" => Active = {} /\ begun \subseteq recorded

(* A run that continues is told of lost progress exactly when the store      *)
(* refused, and recorded, a save later than the checkpoint                   *)
(* (recordCheckpointDowngrade, loadCheckpoint).                              *)
ResumeTells == [][runs' # runs => (told' <=> unsaved)]_vars

(* What a run did is told: no call of it ends without its effects on record, *)
(* and the run that continues knows what was not saved (agent/loop.js,       *)
(* taskRunner.js).                                                           *)
StateIsTold == [](TypeOK /\ EffectsAccounted) /\ ResumeTells

(* However its calls and requests are interrupted, a run never waits for     *)
(* something that will not come (mapWithConcurrency, runAgent).              *)
NeverStuck == Running => ENABLED Program
=============================================================================
