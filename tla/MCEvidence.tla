----------------------------- MODULE MCEvidence -----------------------------
(* What the agent takes for known: its evidence, its memory of calls and     *)
(* whether it still gets on. Parts that are checked side by side, in each    *)
(* behaviour the one that Init picks.                                        *)
EXTENDS Verification

CONSTANTS
  Parts,   \* those that are checked
  Files, Tools, Window, MaxFailures, Streak, Cooldown, MaxPeriod,   \* of the memory of calls
  MaxCalls, MaxEffects,
  Shells, Statuses, StallLimit, MaxBatch, MaxChanges,   \* of the progress
  None

ASSUME GuardAssumption ==
  /\ MaxPeriod \in Nat /\ Streak \in Nat /\ Streak >= 4
  /\ None \notin Nat
ASSUME ProgressAssumption == {StallLimit, MaxBatch, MaxChanges} \subseteq Nat

VARIABLES
  part,
  \* memory of calls
  effect, known, revision, foreign, step, pc, now, seenRevision, observations, calls,
  lastMutation, pinned, listed, searched, lastNudge, own,
  \* progress
  content, visible, changes, last, batch, streak, stopped, told, news, quiet

G == INSTANCE DuplicateGuard WITH
  clock <- effect, history <- calls, MaxClock <- MaxEffects
P == INSTANCE Progress WITH
  revision <- changes, ledger <- last, Commands <- Shells, Limit <- StallLimit

guardVars == <<effect, known, revision, foreign, step, pc, now, seenRevision, observations,
               calls, lastMutation, pinned, listed, searched, lastNudge, own>>
progressVars == <<content, visible, changes, last, batch, streak, stopped, told, news, quiet>>

EvidenceInit ==
  /\ part \in Parts
  /\ Init /\ G!Init /\ P!Init
  /\ part = "verification" \/ required = {}

EvidenceNext ==
  /\ UNCHANGED part
  /\ IF part = "verification" THEN Next /\ UNCHANGED required ELSE UNCHANGED vars
  /\ IF part = "guard" THEN G!Next ELSE UNCHANGED guardVars
  /\ IF part = "progress" THEN P!Next ELSE UNCHANGED progressVars

EvidenceSpec == EvidenceInit /\ [][EvidenceNext]_<<part, vars, guardVars, progressVars>>

-----------------------------------------------------------------------------
(* What the memory of calls answers and pins is current, and the agent is    *)
(* told that it goes in circles only if it makes no progress                 *)
(* (harness/processController.js).                                           *)
MemoryIsHonest ==
  /\ []G!PinnedAfterOwnChange
  /\ G!MemoryIsCurrent
  /\ G!NudgedWithoutProgress

(* A task stopped as stalled had no news for so many steps (agent/loop.js,   *)
(* harness/workspaceFingerprint.js).                                         *)
StalledMeansQuiet == P!StalledMeansQuiet
=============================================================================
