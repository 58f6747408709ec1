------------------------------ MODULE ModelGate ------------------------------
(***************************************************************************)
(* The path of a model request from its caller to the provider:            *)
(*   budgetClient (harness/budget.js)  - one ledger for the whole task; with*)
(*       a budget set, requests run one at a time on a FIFO promise chain; *)
(*   rateLimitClient (llm/rateLimiter.js) - slots, FIFO waiters, cooldown; *)
(*   withRetries (llm/retry.js) - the attempts of one admitted request.    *)
(* A step is what the code does between two waits (a timer, the network,   *)
(* a promise of another request): JavaScript runs it without interruption. *)
(* Durations are the time that is left of them and Tick lets it pass, so a *)
(* timer is due at 0 and may fire late.                                    *)
(***************************************************************************)
EXTENDS Integers, Sequences, FiniteSets, SequencesExt

CONSTANTS
  Requests,       \* the model requests of one task: main agent and workers
  TokenBudget,    \* the task's token budget; 0 means that none is set
  MaxUsage,       \* the most tokens one provider reply reports (bound)
  ResumedUsage,   \* the most usage a resumed task starts from (bound)
  MaxConcurrent,  \* createRateLimiter's maxConcurrent
  MinInterval,    \* createRateLimiter's minIntervalMs
  MaxAttempts,    \* retryAttempts(config)
  MaxWait         \* the longest Retry-After, cooldown and back-off (bound)

ASSUME GateAssumption ==
  /\ TokenBudget \in Nat /\ MaxUsage \in Nat /\ ResumedUsage \in Nat
  /\ MaxConcurrent \in Nat \ {0} /\ MaxAttempts \in Nat \ {0}
  /\ MinInterval \in Nat /\ MaxWait \in Nat

VARIABLES
  pc,          \* where each request is
  aborted,     \* the requests whose caller's signal is aborted
  ticket,      \* a request's place in the ledger's promise chain
  nextTicket,  \* the place the next call gets (budget.js `tail`)
  served,      \* the last place whose promise is settled
  usage,       \* the ledger's totalTokens
  active,      \* rateLimiter `active`
  waiters,     \* rateLimiter `waiters`
  cooldown,    \* time left until cooldownUntil
  pause,       \* time left until lastStart + minIntervalMs
  pumpTimer,   \* time left of pumpTimer, NoTimer when unset
  attempts,    \* attempts started for each request
  emitted,     \* the requests whose current attempt streamed output
  backoff,     \* time left of a request's wait before its next attempt
  owed         \* history: time left of the last Retry-After it was told

chain   == <<ticket, nextTicket, served>>
limiter == <<active, waiters, cooldown, pause, pumpTimer>>
retry   == <<attempts, emitted, backoff, owed>>
vars    == <<pc, aborted, chain, usage, limiter, retry>>

NoTimer == -1
Waits == 0..MaxWait
Settled == {"done", "failed", "aborted", "stopped"}
Holding == {"admitted", "sending", "backoff"}   \* a limiter slot is taken
Executing == Holding \cup {"waiting"}           \* inside budget.js execute()
Location == {"idle", "queued"} \cup Executing \cup Settled

Larger(a, b) == IF a > b THEN a ELSE b
Smaller(a, b) == IF a < b THEN a ELSE b

Limited == TokenBudget > 0
Stopped == Limited /\ usage >= TokenBudget

(***************************************************************************)
(* pump(): from w waiting requests, a taken slots and program counters p,  *)
(* admit from the front while slots are free and no cooldown or interval   *)
(* is running; when only time is in the way, arm the timer.                *)
(***************************************************************************)
Admissible(w, a, cool, gap) ==
  IF Larger(cool, gap) > 0 THEN 0
  ELSE Smaller(Len(w), IF MinInterval = 0 THEN MaxConcurrent - a
                       ELSE Smaller(1, MaxConcurrent - a))

PumpDelay(cool, gap) == Larger(cool, gap)

Pump(w, a, p, cool, gap) ==
  LET n == Admissible(w, a, cool, gap)
      front == {w[i] : i \in 1..n}
      rest == SubSeq(w, n + 1, Len(w))
      gapAfter == IF n > 0 THEN MinInterval ELSE gap
  IN /\ waiters' = rest
     /\ active' = a + n
     /\ pc' = [r \in Requests |-> IF r \in front THEN "admitted" ELSE p[r]]
     /\ pause' = gapAfter
     /\ pumpTimer' = IF rest = <<>> \/ a + n >= MaxConcurrent THEN NoTimer
                     ELSE PumpDelay(cool, gapAfter)

(***************************************************************************)
(* A call settles: its place in the chain frees the next one and the usage *)
(* the provider reported is recorded.  LeaveSlot is release(), with the    *)
(* cooldown a last 429 has just set.                                       *)
(***************************************************************************)
Recorded(u) == usage + u

\* `tail` swallows the outcome, so a failed call frees its successor too.
PassChainOnSuccess(r) ==
  /\ served' = IF Limited /\ pc'[r] = "done" THEN ticket[r] ELSE served
  /\ UNCHANGED <<ticket, nextTicket>>

PassChain(r) ==
  /\ served' = IF Limited THEN ticket[r] ELSE served
  /\ UNCHANGED <<ticket, nextTicket>>

SlotsAfterRelease(a) == Larger(0, a - 1)

LeaveSlot(r, outcome, cool) ==
  /\ Pump(waiters, SlotsAfterRelease(active), [pc EXCEPT ![r] = outcome], cool, pause)
  /\ cooldown' = cool

(***************************************************************************)
(* budget.run: without a budget the call executes at once, with one it     *)
(* takes the next place of the chain.                                      *)
(***************************************************************************)
Enter(r) ==
  /\ Pump(Append(waiters, r), active, [pc EXCEPT ![r] = "waiting"], cooldown, pause)
  /\ UNCHANGED cooldown

Refuse(r, outcome) ==
  /\ pc' = [pc EXCEPT ![r] = outcome]
  /\ UNCHANGED limiter

Issue(r) ==
  /\ pc[r] = "idle"
  /\ \/ /\ Limited
        /\ pc' = [pc EXCEPT ![r] = "queued"]
        /\ ticket' = [ticket EXCEPT ![r] = nextTicket]
        /\ nextTicket' = nextTicket + 1
        /\ UNCHANGED <<served, limiter>>
     \/ /\ ~Limited
        /\ IF r \in aborted THEN Refuse(r, "aborted") ELSE Enter(r)
        /\ UNCHANGED chain
  /\ UNCHANGED <<aborted, usage, retry>>

\* execute() of the call whose predecessors are all settled.
AnyTurn(r) == TRUE
MyTurn(r) == ticket[r] = served + 1

MayStartAlways(r) == TRUE
MayStart(r) == ~Stopped

Execute(r) ==
  /\ pc[r] = "queued" /\ MyTurn(r)
  /\ IF ~MayStart(r) THEN Refuse(r, "stopped") /\ PassChain(r)
     ELSE IF r \in aborted THEN Refuse(r, "aborted") /\ PassChain(r)
     ELSE Enter(r) /\ UNCHANGED chain
  /\ UNCHANGED <<aborted, usage, retry>>

PumpTimerFires ==
  /\ pumpTimer = 0
  /\ Pump(waiters, active, pc, cooldown, pause)
  /\ UNCHANGED <<cooldown, aborted, chain, usage, retry>>

(***************************************************************************)
(* withRetries on an admitted request: waitForCooldown, the attempt, its   *)
(* outcome, the wait before the next attempt.                              *)
(***************************************************************************)
StartAttempt(r) ==
  /\ pc[r] = "admitted" /\ r \notin aborted /\ cooldown = 0
  /\ pc' = [pc EXCEPT ![r] = "sending"]
  /\ attempts' = [attempts EXCEPT ![r] = @ + 1]
  /\ emitted' = emitted \ {r}
  /\ UNCHANGED <<aborted, chain, usage, limiter, backoff, owed>>

\* progress.delta(): from now on the attempt is never repeated.
Stream(r) ==
  /\ pc[r] = "sending" /\ r \notin emitted /\ r \notin aborted
  /\ emitted' = emitted \cup {r}
  /\ UNCHANGED <<pc, aborted, chain, usage, limiter, attempts, backoff, owed>>

\* The reply, or a failure that is not transient (an incomplete response, a
\* refusal), with the usage it reports.
Finish(r, u) ==
  /\ pc[r] = "sending"
  /\ \E outcome \in {"done", "failed"} : LeaveSlot(r, outcome, cooldown)
  /\ usage' = Recorded(u)
  /\ PassChain(r)
  /\ UNCHANGED <<aborted, retry>>

RepeatableAfterOutput(r) == r \notin aborted /\ attempts[r] < MaxAttempts
Repeatable(r) == r \notin aborted /\ r \notin emitted /\ attempts[r] < MaxAttempts

\* noteRateLimit never shortens the cooldown other callers already respect.
NotedCooldown(wait) == Larger(cooldown, wait)

\* The attempt fails; transient is isTransientError, cool the cooldown after
\* it, wait the delay before the next attempt.
AttemptFails(r, transient, wait, cool) ==
  /\ pc[r] = "sending"
  /\ \/ /\ transient /\ Repeatable(r)
        /\ pc' = [pc EXCEPT ![r] = "backoff"]
        /\ backoff' = [backoff EXCEPT ![r] = wait]
        /\ cooldown' = cool
        /\ UNCHANGED <<chain, active, waiters, pause, pumpTimer>>
     \/ /\ ~(transient /\ Repeatable(r))
        /\ LeaveSlot(r, IF r \in aborted THEN "aborted" ELSE "failed", cool)
        /\ PassChain(r)
        /\ UNCHANGED backoff
  /\ UNCHANGED <<aborted, usage, attempts, emitted>>

FailTransient(r, wait) ==
  AttemptFails(r, TRUE, wait, cooldown) /\ UNCHANGED owed

\* A 429, or an error that only its text calls a rate limit: with Retry-After
\* both waits are the server's, without it the cooldown is cooldownMs.
FailRateLimited(r, transient, wait, told) ==
  /\ AttemptFails(r, transient, wait, NotedCooldown(told))
  /\ owed' = [owed EXCEPT ![r] = told]

BackoffEnds(r) ==
  /\ pc[r] = "backoff" /\ backoff[r] = 0 /\ r \notin aborted
  /\ pc' = [pc EXCEPT ![r] = "admitted"]
  /\ UNCHANGED <<aborted, chain, usage, limiter, retry>>

(***************************************************************************)
(* The caller's signal.  A request waiting for a slot leaves the queue; one *)
(* asleep in waitForCooldown or between attempts gives its slot back; one  *)
(* in its attempt fails through FailTransient, or still finishes; one in   *)
(* the chain notices when its turn comes.                                  *)
(***************************************************************************)
WaitersWithout(r) ==
  RemoveAt(waiters, CHOOSE i \in DOMAIN waiters : waiters[i] = r)

Abort(r) ==
  /\ r \notin aborted /\ pc[r] \notin Settled
  /\ aborted' = aborted \cup {r}
  /\ \/ /\ pc[r] = "waiting"
        /\ Pump(WaitersWithout(r), active, [pc EXCEPT ![r] = "aborted"], cooldown, pause)
        /\ PassChain(r)
        /\ UNCHANGED cooldown
     \/ /\ pc[r] \in {"admitted", "backoff"}
        /\ LeaveSlot(r, "aborted", cooldown)
        /\ PassChain(r)
     \/ /\ pc[r] \in {"idle", "queued", "sending"}
        /\ UNCHANGED <<pc, chain, limiter>>
  /\ UNCHANGED <<usage, retry>>

Elapsed(t) == IF t > 0 THEN t - 1 ELSE t

Tick ==
  /\ \/ cooldown > 0 \/ pause > 0 \/ pumpTimer > 0
     \/ \E r \in Requests : backoff[r] > 0 \/ owed[r] > 0
  /\ cooldown' = Elapsed(cooldown)
  /\ pause' = Elapsed(pause)
  /\ pumpTimer' = Elapsed(pumpTimer)
  /\ backoff' = [r \in Requests |-> Elapsed(backoff[r])]
  /\ owed' = [r \in Requests |-> Elapsed(owed[r])]
  /\ UNCHANGED <<pc, aborted, chain, usage, active, waiters, attempts, emitted>>

-----------------------------------------------------------------------------

Init ==
  /\ pc = [r \in Requests |-> "idle"]
  /\ aborted = {}
  /\ ticket = [r \in Requests |-> 0] /\ nextTicket = 1 /\ served = 0
  /\ usage \in 0..ResumedUsage
  /\ active = 0 /\ waiters = <<>> /\ cooldown = 0 /\ pause = 0
  /\ pumpTimer = NoTimer
  /\ attempts = [r \in Requests |-> 0] /\ emitted = {}
  /\ backoff = [r \in Requests |-> 0] /\ owed = [r \in Requests |-> 0]

Answer(r) ==
  \/ \E u \in 0..MaxUsage : Finish(r, u)
  \/ \E wait \in Waits : FailTransient(r, wait)
  \/ \E transient \in BOOLEAN, wait, told \in Waits :
        FailRateLimited(r, transient, wait, told)

Step(r) == Execute(r) \/ StartAttempt(r) \/ BackoffEnds(r)

Next ==
  \/ \E r \in Requests : Issue(r) \/ Step(r) \/ Stream(r) \/ Answer(r) \/ Abort(r)
  \/ PumpTimerFires
  \/ Tick

\* Timers fire and promises continue; the idle timeout of withRetries makes
\* every attempt answer.  No caller has to issue or to abort anything.
Fairness ==
  /\ WF_vars(Tick) /\ WF_vars(PumpTimerFires)
  /\ \A r \in Requests : WF_vars(Step(r)) /\ WF_vars(Answer(r))

Spec == Init /\ [][Next]_vars /\ Fairness

-----------------------------------------------------------------------------

TypeOK ==
  /\ pc \in [Requests -> Location]
  /\ aborted \subseteq Requests /\ emitted \subseteq Requests
  /\ ticket \in [Requests -> Nat] /\ nextTicket \in Nat /\ served \in Nat
  /\ usage \in Nat
  /\ active \in Nat /\ waiters \in Seq(Requests)
  /\ cooldown \in Nat /\ pause \in Nat /\ pumpTimer \in Nat \cup {NoTimer}
  /\ attempts \in [Requests -> Nat]
  /\ backoff \in [Requests -> Nat] /\ owed \in [Requests -> Nat]

\* The slots the limiter counts are exactly the requests that hold one, and
\* never more than maxConcurrent: no exit of run() leaks or double-frees one.
SlotAccounting ==
  /\ active = Cardinality({r \in Requests : pc[r] \in Holding})
  /\ active <= MaxConcurrent

\* A waiter facing a free slot always has a pump coming: the timer is armed,
\* and not for later than the time that is left.  pump() runs only on a call,
\* a release, an abort or the timer, so a missed re-arm would strand it.
NoStrandedWaiter ==
  waiters # <<>> /\ active < MaxConcurrent =>
    pumpTimer \in 0..Larger(cooldown, pause)

\* The waiter list and the requests' own state agree; an aborted caller is
\* never left in the list to be admitted later.
WaitersAreWaiting ==
  /\ {waiters[i] : i \in 1..Len(waiters)} = {r \in Requests : pc[r] = "waiting"}
  /\ \A i, j \in 1..Len(waiters) : waiters[i] = waiters[j] => i = j

\* With a budget, calls are serialized: one at most is past the chain.
OneInFlight ==
  Limited => \A r, q \in Requests : pc[r] \in Executing /\ pc[q] \in Executing => r = q

\* At most the one request already in flight overshoots the budget
\* (budget.js:3-5), however many workers share the ledger.
OvershootBounded ==
  Limited => usage <= Larger(ResumedUsage, TokenBudget - 1 + MaxUsage)

Starts(r) == pc[r] # "sending" /\ pc'[r] = "sending"

\* Once the ledger has reached the budget no attempt starts any more, the
\* retries of the request in flight included.
NoAttemptOverBudget == [][Stopped => \A r \in Requests : ~Starts(r)]_vars

\* A Retry-After told to one caller holds for every caller of the task: no
\* attempt starts while the time any of them was told is still running.
SharedCooldown ==
  [][\A r, q \in Requests : Starts(r) => owed[q] = 0]_vars

\* Output already streamed to the caller is never requested, and billed,
\* a second time.
NoRepeatAfterOutput ==
  [][\A r \in Requests : r \in emitted => ~Starts(r)]_vars

\* What the callers of one task share holds all along: the slots add up, a
\* waiter is never stranded, a Retry-After told to one is respected by all and
\* output already billed is not asked for again (rateLimiter.js, retry.js).
SlotsAreShared ==
  /\ [](SlotAccounting /\ NoStrandedWaiter /\ WaitersAreWaiting)
  /\ SharedCooldown
  /\ NoRepeatAfterOutput

\* The budget holds for the whole task: its calls go one at a time, the last
\* one is all that overshoots, and nothing starts after it (budget.js).
BudgetHolds ==
  /\ [](TypeOK /\ OneInFlight /\ OvershootBounded)
  /\ NoAttemptOverBudget

\* Every call settles: no slot, chain place or timer is lost on any path.
EveryCallSettles ==
  \A r \in Requests : pc[r] = "queued" \/ pc[r] \in Executing ~> pc[r] \in Settled
=============================================================================
