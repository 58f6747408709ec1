---------------------------- MODULE Conversations ----------------------------
(* The interactive loop (runInteractiveSession of src/cli.js) with the       *)
(* commands that change which conversation it is in                          *)
(* (src/commands/dispatcher.js, src/commands/actions.js): several processes  *)
(* over the sessions of one project, or each over its own in ephemeral mode, *)
(* where nothing is written.                                                 *)
(*                                                                           *)
(* A conversation is the set of its turns; their order, summaries and limits *)
(* are SessionHistory's, the files of a task SessionFiles'. Menus show what  *)
(* was stored when they were opened. Commands that leave the conversation    *)
(* alone are left out.                                                       *)
EXTENDS Integers, FiniteSets

CONSTANTS
  Processes,
  MaxSessions, MaxTurns,  \* bounds: conversations created, turns asked
  None

VARIABLES
  ephemeral,   \* is nothing written (privacyMode)?
  sessions, turns,   \* conversations created, turns asked so far
  stored,      \* of each place, the turns of each conversation, or None
  markers,     \* of the disk: conversations that were deleted
  checkpoints, \* of each place and conversation: the turn interrupted, or None
  owner,       \* of each conversation: the process whose task has it
  phase,       \* what a process does
  active,      \* the conversation it is in: its id and the turns it knows
  menu,        \* of each process: conversations an open menu shows
  chosen,      \* the one to be deleted, or the turn that is asked
  gone, home   \* history: conversations deleted in each place; where a turn belongs

files == <<stored, markers, checkpoints, owner>>
history == <<gone, home>>
vars == <<ephemeral, sessions, turns, files, phase, active, menu, chosen, history>>

Ids == 1 .. MaxSessions
Disk == "disk"
Place(p) == IF ephemeral THEN p ELSE Disk
Places == Processes \cup {Disk}
Sessions == [id : Ids, turns : SUBSET (1 .. MaxTurns)]

Init ==
  /\ ephemeral \in BOOLEAN
  /\ sessions = 0 /\ turns = 0
  /\ stored = [q \in Places |-> [i \in Ids |-> None]]
  /\ checkpoints = [q \in Places |-> [i \in Ids |-> None]]
  /\ owner = [i \in Ids |-> None] /\ markers = {}
  /\ phase = [p \in Processes |-> "prompt"]
  /\ active = [p \in Processes |-> None]
  /\ menu = [p \in Processes |-> {}]
  /\ chosen = [p \in Processes |-> None]
  /\ gone = [q \in Places |-> {}] /\ home = [t \in 1 .. MaxTurns |-> None]

-----------------------------------------------------------------------------
(* The store.                                                                *)

Alive(p) == phase[p] # "over"
Owned(id) == owner[id] # None /\ Alive(owner[id])
Deleting(id) == \E q \in Processes : phase[q] = "deletes" /\ chosen[q] = id /\ ~ephemeral
Listed(p) ==   \* conversations with a turn or a checkpoint
  {s \in Sessions : /\ stored[Place(p)][s.id] = s.turns
                    /\ s.turns # {} \/ checkpoints[Place(p)][s.id] # None \/ ephemeral}

(* A save adds what is stored and not known, and is refused if the           *)
(* conversation was deleted.                                                 *)
Refused(id) == ~ephemeral /\ id \in markers
Merged(p, session) ==
  session.turns \cup
  (IF stored[Place(p)][session.id] = None THEN {} ELSE stored[Place(p)][session.id])

Goes(p, to) == phase' = [phase EXCEPT ![p] = to]
Enters(p, session) == active' = [active EXCEPT ![p] = session]
Created(p) == [id |-> sessions + 1, turns |-> {}]
Create(p) ==
  /\ sessions < MaxSessions /\ sessions' = sessions + 1
  /\ stored' = [stored EXCEPT ![Place(p)][sessions + 1] = {}]
  /\ Enters(p, Created(p))

-----------------------------------------------------------------------------
(* Commands. /new is also what the first task of a process does.             *)

New(p) ==
  /\ phase[p] = "prompt" /\ Create(p)
  /\ UNCHANGED <<turns, markers, checkpoints, owner, phase, menu, chosen, history>>

Open(p) ==
  /\ phase[p] = "prompt" /\ Listed(p) # {}
  /\ \E to \in {"resumes", "chooses"} : Goes(p, to)
  /\ menu' = [menu EXCEPT ![p] = Listed(p)]
  /\ UNCHANGED <<sessions, turns, files, active, chosen, history>>

Cancel(p) ==
  /\ phase[p] \in {"resumes", "chooses"} /\ Goes(p, "prompt")
  /\ menu' = [menu EXCEPT ![p] = {}]
  /\ UNCHANGED <<sessions, turns, files, active, chosen, history>>

Resume(p) ==
  /\ phase[p] = "resumes" /\ Goes(p, "prompt")
  /\ \E s \in menu[p] : Enters(p, s)
  /\ menu' = [menu EXCEPT ![p] = {}]
  /\ UNCHANGED <<sessions, turns, files, chosen, history>>

(* Confirmed. A conversation another task has is not deleted: the error ends *)
(* the process.                                                              *)
Confirm(p) ==
  /\ phase[p] = "chooses"
  /\ \E s \in menu[p] :
       /\ ~Deleting(s.id)
       /\ IF ~ephemeral /\ Owned(s.id) THEN Goes(p, "over") /\ UNCHANGED chosen
          ELSE Goes(p, "deletes") /\ chosen' = [chosen EXCEPT ![p] = s.id]
  /\ menu' = [menu EXCEPT ![p] = {}]
  /\ UNCHANGED <<sessions, turns, files, active, history>>

Remove(p, id) ==
  /\ stored' = [stored EXCEPT ![Place(p)][id] = None]
  /\ checkpoints' = [checkpoints EXCEPT ![Place(p)][id] = None]
  /\ markers' = IF ephemeral THEN markers ELSE markers \cup {id}
  /\ owner' = [owner EXCEPT ![id] = None]
  /\ gone' = [gone EXCEPT ![Place(p)] = @ \cup {id}]

(* Who deletes the conversation it is in gets a new one.                     *)
StaysIn(p, id) == FALSE
Leaves(p, id) == active[p] # None /\ active[p].id = id
Delete(p) ==
  /\ phase[p] = "deletes"
  /\ Remove(p, chosen[p])
  /\ Goes(p, IF Leaves(p, chosen[p]) THEN "renews" ELSE "prompt")
  /\ chosen' = [chosen EXCEPT ![p] = None]
  /\ UNCHANGED <<sessions, turns, active, menu, home>>
Renew(p) ==
  /\ phase[p] = "renews" /\ Create(p) /\ Goes(p, "prompt")
  /\ UNCHANGED <<turns, markers, checkpoints, owner, menu, chosen, history>>

(* A fork begins with the answer of one turn, as a turn of its own.          *)
Fork(p) ==
  /\ phase[p] = "prompt" /\ active[p] # None /\ active[p].turns # {}
  /\ sessions < MaxSessions /\ turns < MaxTurns
  /\ sessions' = sessions + 1 /\ turns' = turns + 1
  /\ stored' = [stored EXCEPT ![Place(p)][sessions + 1] = {turns + 1}]
  /\ Enters(p, [id |-> sessions + 1, turns |-> {turns + 1}])
  /\ home' = [home EXCEPT ![turns + 1] = sessions + 1]
  /\ UNCHANGED <<markers, checkpoints, owner, phase, menu, chosen, gone>>

-----------------------------------------------------------------------------
(* Tasks. One that cannot have the conversation fails and leaves no turn.    *)

Ask(p) ==
  /\ phase[p] = "prompt" /\ active[p] # None /\ turns < MaxTurns
  /\ turns' = turns + 1
  /\ chosen' = [chosen EXCEPT ![p] = turns + 1]
  /\ home' = [home EXCEPT ![turns + 1] = active[p].id]
  /\ Goes(p, "claims")
  /\ UNCHANGED <<sessions, files, active, menu, gone>>

Continue(p) ==
  /\ phase[p] = "prompt" /\ active[p] # None
  /\ checkpoints[Place(p)][active[p].id] # None
  /\ chosen' = [chosen EXCEPT ![p] = checkpoints[Place(p)][active[p].id]]
  /\ Goes(p, "claims")
  /\ UNCHANGED <<sessions, turns, files, active, menu, history>>

Claim(p) ==
  /\ phase[p] = "claims"
  /\ IF ~ephemeral /\ Owned(active[p].id)
     THEN Goes(p, "prompt") /\ chosen' = [chosen EXCEPT ![p] = None] /\ UNCHANGED owner
     ELSE /\ Goes(p, "runs") /\ UNCHANGED chosen
          /\ owner' = IF ephemeral THEN owner ELSE [owner EXCEPT ![active[p].id] = p]
  /\ UNCHANGED <<sessions, turns, stored, markers, checkpoints, active, menu, history>>

(* The end of a task: its turn is saved, the checkpoint removed or left for  *)
(* /continue, the conversation released.                                     *)
End(p) ==
  LET id == active[p].id
      session == [active[p] EXCEPT !.turns = @ \cup {chosen[p]}]
      merged == Merged(p, session) IN
  /\ phase[p] = "runs" /\ ~Deleting(id)
  /\ IF Refused(id) THEN Enters(p, session) /\ UNCHANGED stored
     ELSE /\ stored' = [stored EXCEPT ![Place(p)][id] = merged]
          /\ Enters(p, [session EXCEPT !.turns = merged])
  /\ checkpoints' \in {[checkpoints EXCEPT ![Place(p)][id] = c] : c \in {None, chosen[p]}}
  /\ owner' = IF owner[id] = p THEN [owner EXCEPT ![id] = None] ELSE owner
  /\ Goes(p, "prompt") /\ chosen' = [chosen EXCEPT ![p] = None]
  /\ UNCHANGED <<sessions, turns, markers, menu, history>>

(* The user leaves, a signal ends the process, or it crashes.                *)
Exit(p) ==
  /\ Alive(p) /\ Goes(p, "over")
  /\ UNCHANGED <<sessions, turns, files, active, menu, chosen, history>>

Next ==
  /\ UNCHANGED ephemeral
  /\ \E p \in Processes :
       \/ New(p) \/ Open(p) \/ Cancel(p) \/ Resume(p) \/ Confirm(p) \/ Delete(p) \/ Renew(p)
       \/ Fork(p) \/ Ask(p) \/ Continue(p) \/ Claim(p) \/ End(p) \/ Exit(p)

Spec == Init /\ [][Next]_vars

-----------------------------------------------------------------------------
(* A conversation the user deleted is gone: no process that is still in it,  *)
(* or resumes it from a menu opened before, brings it back; in ephemeral     *)
(* mode, where no marker is left, not even its checkpoint. And a turn is in  *)
(* the conversation it was asked in, in no other, however often the process  *)
(* changed between them (the loop of src/cli.js, save and deleteSession).    *)
DeletedIsGone ==
  \A place \in Places :
    /\ \A id \in gone[place] : /\ stored[place][id] = None
                               /\ ephemeral => checkpoints[place][id] = None
    /\ \A id \in Ids : stored[place][id] # None =>
         \A t \in stored[place][id] : home[t] = id
=============================================================================
