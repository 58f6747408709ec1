------------------------------ MODULE Lifetime ------------------------------
(***************************************************************************)
(* What a plugin scope promises: it takes resources and work until it is   *)
(* closed, gives each resource back once, and has ended only when nothing  *)
(* is held and no work it took is unsettled.                               *)
(***************************************************************************)
CONSTANTS Things, Tasks

VARIABLES
  open,     \* the scope takes resources and work
  held,     \* resources that are not given back
  taken,    \* resources it ever took
  busy,     \* work that is not settled
  admitted, \* work it ever took
  ended     \* disposal has reported its end

lifeVars == <<open, held, taken, busy, admitted, ended>>

Take(t) ==
  /\ open /\ t \notin taken
  /\ held' = held \cup {t} /\ taken' = taken \cup {t}
  /\ UNCHANGED <<open, busy, admitted, ended>>

GiveBack(t) ==
  /\ t \in held
  /\ held' = held \ {t}
  /\ UNCHANGED <<open, taken, busy, admitted, ended>>

Admit(k) ==
  /\ open /\ k \notin admitted
  /\ busy' = busy \cup {k} /\ admitted' = admitted \cup {k}
  /\ UNCHANGED <<open, held, taken, ended>>

Leave(k) ==
  /\ k \in busy
  /\ busy' = busy \ {k}
  /\ UNCHANGED <<open, held, taken, admitted, ended>>

Close ==
  /\ open
  /\ open' = FALSE
  /\ UNCHANGED <<held, taken, busy, admitted, ended>>

End ==
  /\ ~open /\ ~ended /\ held = {} /\ busy = {}
  /\ ended' = TRUE
  /\ UNCHANGED <<open, held, taken, busy, admitted>>

LifeInit ==
  /\ open = TRUE /\ ended = FALSE
  /\ held = {} /\ taken = {} /\ busy = {} /\ admitted = {}

LifeNext ==
  \/ \E t \in Things : Take(t) \/ GiveBack(t)
  \/ \E k \in Tasks : Admit(k) \/ Leave(k)
  \/ Close
  \/ End

LifeSpec == LifeInit /\ [][LifeNext]_lifeVars
=============================================================================
