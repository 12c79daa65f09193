----------------------------- MODULE DurableLog -----------------------------
(***************************************************************************)
(* What the recovery workspace promises its callers, with files, locks and *)
(* crashes left out: one log of workflow events that only ever grows by a  *)
(* legal event under a command id not used before, acknowledgements that   *)
(* name an event already in the log, and a seal after which nothing grows. *)
(* RecoveryLedger implements this specification.                           *)
(***************************************************************************)
EXTENDS WorkflowEvents

CONSTANT Seeds   \* the histories a run may already have

VARIABLES log, sealed, acked

vars == <<log, sealed, acked>>

-----------------------------------------------------------------------------
Init ==
  /\ log \in Seeds
  /\ sealed = FALSE
  /\ acked = {}

\* The new last event is read off log': Event is infinite.
Commit ==
  /\ ~sealed
  /\ Len(log') = Len(log) + 1
  /\ LET e == log'[Len(log')] IN
       /\ log' = Append(log, e)
       /\ e \in Event
       /\ \A i \in DOMAIN log : log[i].cmd # e.cmd
       /\ Extends(log, e)
  /\ UNCHANGED <<sealed, acked>>

Acknowledge ==
  /\ \E i \in DOMAIN log : acked' = acked \cup {[cmd |-> log[i].cmd, at |-> i]}
  /\ UNCHANGED <<log, sealed>>

Seal ==
  /\ ~sealed
  /\ sealed' = TRUE
  /\ UNCHANGED <<log, acked>>

Next == Commit \/ Acknowledge \/ Seal

Spec == Init /\ [][Next]_vars
=============================================================================
