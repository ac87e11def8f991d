---------------------------- MODULE JournalContract ----------------------------
(***************************************************************************)
(* What the router promises to its clients about transactions: the state   *)
(* machine of the journal that docs/AGENT_CONTRACT.md gives,               *)
(*                                                                         *)
(*   armed -> applied_unconfirmed -> confirmed | rolled_back | needs_manual,*)
(*                                                                         *)
(* as the code of the agent keeps it.  At most one transaction is open; it *)
(* never disappears without a verdict on it; it is confirmed only from     *)
(* applied_unconfirmed; and needs_manual is ended by an operator's --clear *)
(* or by a rollback.  The two share no lock, so that while one of them     *)
(* attends to such a transaction its verdict may be given twice and the    *)
(* transaction be left behind again, but nothing else changes until they   *)
(* are through.  RouterAgent implements this module.                       *)
(***************************************************************************)
CONSTANTS Plans, Null

VARIABLES
  txn,      \* the open transaction, what active.json says of it
  verdict,  \* the last verdict, what last.json says
  attended  \* the plan in needs_manual that a --clear or a rollback has read

vars == <<txn, verdict, attended>>

OpenStates == {"armed", "applied_unconfirmed"}
Transactions == [plan : Plans, state : OpenStates \cup {"needs_manual"}]
Verdicts ==
  [plan : Plans, state : {"confirmed", "rolled_back", "cleared_manually"}]

TypeOK ==
  /\ txn \in Transactions \cup {Null}
  /\ verdict \in Verdicts \cup {Null}
  /\ attended \in Plans \cup {Null}

Init == txn = Null /\ verdict = Null /\ attended = Null

Arm(p) ==
  /\ txn = Null
  /\ attended = Null
  /\ txn' = [plan |-> p, state |-> "armed"]
  /\ UNCHANGED <<verdict, attended>>

Open == txn # Null /\ txn.state \in OpenStates

Applied ==
  /\ Open /\ txn.state = "armed"
  /\ txn' = [txn EXCEPT !.state = "applied_unconfirmed"]
  /\ UNCHANGED <<verdict, attended>>

Escalate ==
  /\ Open
  /\ txn' = [txn EXCEPT !.state = "needs_manual"]
  /\ UNCHANGED <<verdict, attended>>

\* A verdict is recorded before the transaction is closed; a crash between the
\* two leaves the transaction open, and its next verdict counts.
Record(v) ==
  /\ Open
  /\ v = "confirmed" => txn.state = "applied_unconfirmed"
  /\ verdict' = [plan |-> txn.plan, state |-> v]
  /\ UNCHANGED <<txn, attended>>

Close ==
  /\ Open
  /\ verdict # Null
  /\ verdict.plan = txn.plan
  /\ verdict.state \in {"confirmed", "rolled_back"}
  /\ txn' = Null
  /\ UNCHANGED <<verdict, attended>>

Attend ==
  /\ txn # Null
  /\ txn.state = "needs_manual"
  /\ attended' = txn.plan
  /\ UNCHANGED <<txn, verdict>>

\* Those who attend end, in front of their next write or with it.
Through == attended' \in {attended, Null}

Judge(v) ==
  /\ attended # Null
  /\ verdict' = [plan |-> attended, state |-> v]
  /\ Through
  /\ UNCHANGED txn

Remove ==
  /\ attended # Null
  /\ verdict # Null
  /\ verdict.plan = attended
  /\ txn' = Null
  /\ Through
  /\ UNCHANGED verdict

Return ==
  /\ attended # Null
  /\ txn' = [plan |-> attended, state |-> "needs_manual"]
  /\ Through
  /\ UNCHANGED verdict

Leave == attended' = Null /\ UNCHANGED <<txn, verdict>>

Next ==
  \/ \E p \in Plans : Arm(p)
  \/ \E v \in {"confirmed", "rolled_back"} : Record(v)
  \/ \E v \in {"rolled_back", "cleared_manually"} : Judge(v)
  \/ Applied \/ Escalate \/ Close \/ Attend \/ Remove \/ Return \/ Leave

Spec == Init /\ [][Next]_vars
===============================================================================
