--------------------------- MODULE WorkflowEvents ---------------------------
(***************************************************************************)
(* The lines of the workflow ledger, and which line may follow which.      *)
(***************************************************************************)
EXTENDS Integers, Sequences, WorkflowStates

CONSTANTS
  Actions,      \* exact action contracts, up to the ledger head they bind
  NoAction,     \* of an event that reserves nothing
  MaxRevision   \* bound: case revisions

EventTypes ==
  NonTransitionEventTypes \cup RevisionEventTypes \cup DirectNoActionEvents
    \cup {"CASE_RECEIVED", "STATE_ADVANCED", "ACTION_AUTHORITY_RESERVED"}

(***************************************************************************)
(* One ledger line.  cmd: the command id (a caller's id, 0 for prepare, a  *)
(* negative id for the recovery commands the workspace derives itself).    *)
(* rev: the case revision after the event.  act and at: the action         *)
(* contract a reservation consumes, and how many events the ledger head    *)
(* bound by that contract covers.  Its previous digest is not a field: a   *)
(* SHA-256 head is taken as collision free, so the head of a ledger is the *)
(* ledger itself.                                                          *)
(***************************************************************************)
Event ==
  [cmd  : Int,
   type : EventTypes,
   to   : WorkflowState,
   rev  : 1..MaxRevision,
   act  : Actions \cup {NoAction},
   at   : Nat]

StateOf(l) == IF l = <<>> THEN Start ELSE l[Len(l)].to
RevOf(l)   == IF l = <<>> THEN 1 ELSE l[Len(l)].rev

\* e is a legal next event after l.
Extends(l, e) ==
  /\ CanApply(StateOf(l), e.to, e.type)
  /\ e.rev = IF e.type \in RevisionEventTypes THEN RevOf(l) + 1 ELSE RevOf(l)
=============================================================================
