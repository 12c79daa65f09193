-------------------------- MODULE MCRecoveryLedger --------------------------
(***************************************************************************)
(* Instances of RecoveryLedger for TLC: histories to start from, and the   *)
(* contracts of the reservation runs.                                      *)
(***************************************************************************)
EXTENDS RecoveryLedger, TLC

MCSymmetry == Permutations(Procs)

\* Seed command ids are above every caller's.
Seeded(n, type, to, rev) ==
  [cmd |-> IF n = 1 THEN 0 ELSE 90 + n, type |-> type, to |-> to,
   rev |-> rev, act |-> NoAction, at |-> 0]

Prepared == <<Seeded(1, "CASE_RECEIVED", "RECEIVED", 1)>>

\* Past its first transition, so that a recovery has a state to keep.
Deduplicated == Append(Prepared, Seeded(2, "STATE_ADVANCED", "DEDUPLICATED", 1))

\* As far as a recommendation.
Recommended ==
  Deduplicated \o <<Seeded(3, "STATE_ADVANCED", "CONTEXT_READY", 1),
                    Seeded(4, "STATE_ADVANCED", "RECOMMENDATION_READY", 1)>>

ActionPrepared ==
  Recommended \o <<Seeded(5, "STATE_ADVANCED", "ACTION_PREPARED", 1)>>

\* The direct no-action path, closed.
Closed ==
  Recommended \o <<Seeded(5, "VERIFIED_NO_NEW_ACTION", "COMMUNICATION_READY", 1),
                   Seeded(6, "STATE_ADVANCED", "CLOSED", 1)>>

\* The same, after a revision that came in while evidence was assembled.
RevisedThenClosed ==
  Deduplicated \o
  <<Seeded(3, "STATE_ADVANCED", "CONTEXT_READY", 1),
    Seeded(4, SourceRevised, "EVIDENCE_BLOCKED", 2),
    Seeded(5, "STATE_ADVANCED", "CONTEXT_READY", 2),
    Seeded(6, "STATE_ADVANCED", "RECOMMENDATION_READY", 2),
    Seeded(7, "VERIFIED_NO_NEW_ACTION", "COMMUNICATION_READY", 2),
    Seeded(8, "COMMUNICATION_RECORDED", "COMMUNICATION_READY", 2),
    Seeded(9, "STATE_ADVANCED", "CLOSED", 2)>>

\* Action b1 was reserved for revision 1; a source revision came in, and the
\* case is at a recommendation again.
ReservedThenRevised ==
  ActionPrepared \o
  <<[Seeded(6, "ACTION_AUTHORITY_RESERVED", "ACTION_RESERVED", 1)
       EXCEPT !.act = "b1", !.at = 5],
    Seeded(7, SourceRevised, "EVIDENCE_BLOCKED", 2),
    Seeded(8, "STATE_ADVANCED", "CONTEXT_READY", 2),
    Seeded(9, "STATE_ADVANCED", "RECOMMENDATION_READY", 2)>>

\* The direct no-action path, with its message recorded.
Communicated ==
  Recommended \o
  <<Seeded(5, "VERIFIED_NO_NEW_ACTION", "COMMUNICATION_READY", 1),
    Seeded(6, "COMMUNICATION_RECORDED", "COMMUNICATION_READY", 1)>>

MCDeduplicatedSeeds == {Deduplicated}
MCWriterSeeds == {ReservedThenRevised, RevisedThenClosed}
MCRevisionSeeds == {Communicated, Closed}

MCIntake == {<<"STATE_ADVANCED", "CONTEXT_READY">>}
MCPlanning == {<<"STATE_ADVANCED", "ACTION_PREPARED">>}
MCMessages == {<<"COMMUNICATION_RECORDED", "COMMUNICATION_READY">>,
               <<"STATE_ADVANCED", "CLOSED">>}

\* b1 and b2 are rival remedies for one order line, b1 and b3 spend the same
\* authority; b4 is independent.  b1 for a new ledger head is another
\* contract under the same idempotency key.
MCActions == {"b1", "b2", "b3", "b4"}
MCIdempotencyKey == [a \in MCActions |-> a]
MCBusinessKey    == [a \in MCActions |-> IF a = "b2" THEN "b1" ELSE a]
MCAuthority      == [a \in MCActions |-> IF a = "b3" THEN "b1" ELSE a]

\* Runs without reservations.
MCNoKeys == [a \in {} |-> a]
=============================================================================
