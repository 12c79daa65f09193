--------------------------- MODULE SimulatedRemedy ---------------------------
(***************************************************************************)
(* What the local adapter promises, with journals, markers and crashes     *)
(* left out: an action is opened at most while nothing of it has happened, *)
(* its effects happen at most once each and only while it is open, two     *)
(* remedies of one eligible quantity never both take effect, and only a    *)
(* complete remedy is answered.  A remedy that was stopped half way is     *)
(* never opened again: it stays partial.  ActionAdapter implements this.   *)
(***************************************************************************)
CONSTANTS Actions, NoAction, Required(_), BusinessKey

VARIABLES
  done,      \* [Actions -> the sources its effect is committed in]
  open,      \* the action being executed, or NoAction
  answered   \* the actions callers hold a receipt for

Init ==
  /\ done = [a \in Actions |-> {}]
  /\ open = NoAction
  /\ answered = {}

Start(a) ==
  /\ open = NoAction
  /\ done[a] = {}
  /\ \A b \in Actions \ {a} : BusinessKey[b] = BusinessKey[a] => done[b] = {}
  /\ open' = a
  /\ UNCHANGED <<done, answered>>

Effect(a) ==
  /\ open = a
  /\ \E s \in Required(a) \ done[a] : done' = [done EXCEPT ![a] = @ \cup {s}]
  /\ open' \in {a, NoAction}
  /\ UNCHANGED answered

Stop ==
  /\ open' = NoAction
  /\ UNCHANGED <<done, answered>>

Answer(a) ==
  /\ done[a] = Required(a)
  /\ answered' = answered \cup {a}
  /\ UNCHANGED <<done, open>>

Next == Stop \/ \E a \in Actions : Start(a) \/ Effect(a) \/ Answer(a)

Spec == Init /\ [][Next]_<<done, open, answered>>
=============================================================================
