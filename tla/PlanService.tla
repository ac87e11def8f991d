------------------------------ MODULE PlanService ------------------------------
(***************************************************************************)
(* The workstation side of a change to the router: the owrt_plan tools     *)
(* (tools/plans.py) as concurrent coroutines over the SQLite store         *)
(* (store/db.py), calling the router's agent over ssh                      *)
(* (router/transport.py, router/agent_client.py).                          *)
(*                                                                         *)
(* The router is the one of JournalContract, which RouterAgent implements: *)
(* its journal moves by the contract's actions only.  What is abstracted:  *)
(*  - a coroutine gives way at an await and nowhere else, so what it does  *)
(*    from one await to the next is one step;                              *)
(*  - inspect and the probes read the router: what they find is a choice,  *)
(*    and so are the refusals of the agent that depend on configuration,   *)
(*    grant and clock (RouterAgent has them);                              *)
(*  - a call that is refused before it writes or awaits anything is no     *)
(*    step; the local verify_deadline has passed or not, by choice;        *)
(*  - one server process; the approve command is a second one, whose only  *)
(*    write is Approve.                                                    *)
(*  - no apply arrives at the router while an operator's --clear runs      *)
(*    there: RouterAgent shows what such a --clear does to its journal     *)
(*    (ApplyDuringClear); everything else may come in between its writes.  *)
(***************************************************************************)
EXTENDS Naturals

CONSTANTS
  Calls,                 \* tool calls that can be in progress at a time
  Plans, Grants,         \* plan ids; grant nonces
  PlanOf,                \* [Grants -> Plans], the plan a grant is bound to
  FaultKinds, MaxFaults, \* what may go wrong, and how often
  Null

ASSUME ServiceAssumption ==
  /\ PlanOf \in [Grants -> Plans]
  /\ MaxFaults \in Nat
  /\ Null \notin Calls \cup Plans \cup Grants

VARIABLES
  row,       \* status of each plan in the store
  lock,      \* the plan that has the router's row in locks, or Null
  granted,   \* grants in the store
  consumed,  \* ... with consumed_at set
  calls,     \* where each tool call is
  requests,  \* requests the agent has not started on
  replies,   \* what the transport has for each waiting call
  running,   \* the agent's invocation that holds the flock, or Null
  clearing,  \* the --clear that runs, which takes no lock
  txn,       \* active.json, as in JournalContract
  verdict,   \* last.json, as in JournalContract
  due,       \* the open transaction's deadline has passed
  outcome,   \* history: what became of each plan on the router
  faults     \* faults so far

\* The plan of the transaction in needs_manual that a --clear, or an invocation,
\* has read; `manual' says that an invocation has read such a one.
Attended ==
  IF clearing.at # "idle" THEN clearing.plan
  ELSE IF running # Null /\ running.manual THEN running.plan ELSE Null

Journal == INSTANCE JournalContract WITH attended <- Attended

store == <<row, lock, granted, consumed>>
wire == <<requests, replies>>
router == <<running, clearing, txn, verdict, due, outcome>>
vars == <<store, calls, wire, router, faults>>

ActiveStates == {"applying", "pending_confirmation", "unknown"}
TerminalStates ==
  {"confirmed", "rolled_back", "failed", "expired", "needs_manual"}
Statuses == {"none", "planned"} \cup ActiveStates \cup TerminalStates

\* The awaits of each tool, and those of them that wait for a reply.
ApplyAwaits == {"inspecting", "applying", "probing", "undoing"}
ReplyAwaits == {"status", "syncing", "applying", "undoing",
                "confirming", "rolling_back"}
CallStates ==
  [at : {"idle", "verifying"} \cup ApplyAwaits \cup ReplyAwaits,
   plan : Plans \cup {Null}, seen : Statuses, grant : Grants \cup {Null}]
Returned == [at |-> "idle", plan |-> Null, seen |-> "none", grant |-> Null]

Operations == {"status", "apply", "confirm", "rollback"}
Requests == [op : Operations, plan : Plans, by : Calls \cup {Null}]
Invocations ==
  [op : {"apply", "confirm", "rollback", "tick"}, plan : Plans,
   by : Calls \cup {Null}, verdict : {"confirmed", "rolled_back", Null},
   manual : BOOLEAN]
Clearings == [at : {"idle", "write", "unlink"}, plan : Plans \cup {Null}]
NotClearing == [at |-> "idle", plan |-> Null]

\* A state of the journal; or an error: REFUSED for the codes the client maps
\* to an exception of its own, ERROR for those it leaves a RouterError, LOST
\* for no reply at all.
JournalStates == {"armed", "applied_unconfirmed", "needs_manual", "confirmed",
                  "rolled_back", "cleared_manually"}
Errors == {"NOT_FOUND", "NEEDS_MANUAL", "REFUSED", "ERROR", "LOST"}
ASSUME NullAssumption ==
  Null \notin Journal!Transactions \cup Journal!Verdicts \cup Invocations
             \cup JournalStates \cup Errors

TypeOK ==
  /\ row \in [Plans -> Statuses]
  /\ lock \in Plans \cup {Null}
  /\ granted \subseteq Grants /\ consumed \subseteq granted
  /\ calls \in [Calls -> CallStates]
  /\ requests \subseteq Requests
  /\ replies \in [Calls -> JournalStates \cup Errors \cup {Null}]
  /\ running \in Invocations \cup {Null}
  /\ clearing \in Clearings
  /\ txn \in Journal!Transactions \cup {Null}
  /\ verdict \in Journal!Verdicts \cup {Null}
  /\ due \in BOOLEAN
  /\ outcome \in [Plans -> {"none", "open", "confirmed", "rolled_back",
                            "cleared_manually"}]
  /\ faults \in 0 .. MaxFaults

Init ==
  /\ row = [p \in Plans |-> "none"] /\ lock = Null
  /\ granted = {} /\ consumed = {}
  /\ calls = [c \in Calls |-> Returned]
  /\ requests = {} /\ replies = [c \in Calls |-> Null]
  /\ running = Null /\ clearing = NotClearing /\ Journal!Init /\ due = FALSE
  /\ outcome = [p \in Plans |-> "none"]
  /\ faults = 0

Fault(kind) ==
  /\ kind \in FaultKinds
  /\ faults < MaxFaults
  /\ faults' = faults + 1

-------------------------------------------------------------------------------
(* Plans and approvals.                                                    *)

CreatePlan(p) ==
  /\ row[p] = "none"
  /\ row' = [row EXCEPT ![p] = "planned"]
  /\ UNCHANGED <<lock, granted, consumed, calls, wire, router, faults>>

\* `openwrt-mcp-approve approve', a process of its own.  It waits for its
\* operator between looking at the plan and storing the grant; a grant stored
\* when the plan is planned no longer serves nothing, and is no step.
Approve(g) ==
  /\ row[PlanOf[g]] = "planned"
  /\ g \notin granted
  /\ granted' = granted \cup {g}
  /\ UNCHANGED <<row, lock, consumed, calls, wire, router, faults>>

\* A status or an apply, a call that returns at once, finds that expires_at has
\* passed; until one does, the plan's age makes no difference.
FindExpired(p) ==
  /\ \E c \in Calls : calls[c].at = "idle"
  /\ row[p] = "planned"
  /\ row' = [row EXCEPT ![p] = "expired"]
  /\ UNCHANGED <<lock, granted, consumed, calls, wire, router, faults>>

-------------------------------------------------------------------------------
(* What the steps of a tool call are made of.                              *)

Goto(c, at) == calls' = [calls EXCEPT ![c].at = at]
Return(c) == calls' = [calls EXCEPT ![c] = Returned]

\* The call has read the plan's row and awaits something for it.
Enter(c, at, p, g) ==
  /\ calls[c].at = "idle"
  /\ calls' = [calls EXCEPT ![c] =
                 [at |-> at, plan |-> p, seen |-> row[p], grant |-> g]]

Send(c, op, p) ==
  requests' = requests \cup {[op |-> op, plan |-> p, by |-> c]}

\* The call resumes with the reply to what it awaits at `at'.
Receive(c, at) ==
  /\ calls[c].at = at
  /\ replies[c] # Null
  /\ replies' = [replies EXCEPT ![c] = Null]

Mark(p, status) == row' = [row EXCEPT ![p] = status]
Release(p) == lock' = IF lock = p THEN Null ELSE lock

\* Mutant of PlanState: needs_manual is left out.
PlanStateAutomatic ==
  [armed |-> "applying", applied_unconfirmed |-> "pending_confirmation",
   confirmed |-> "confirmed", rolled_back |-> "rolled_back"]

\* _ROUTER_TO_PLAN_STATE
PlanState ==
  [armed |-> "applying", applied_unconfirmed |-> "pending_confirmation",
   confirmed |-> "confirmed", rolled_back |-> "rolled_back",
   needs_manual |-> "needs_manual"]

\* What _sync_from_router makes of a reply, for a plan it had read as `seen'.
Synced(seen, reply) ==
  IF reply = "NOT_FOUND" /\ seen \in {"applying", "unknown"} THEN "failed"
  ELSE IF reply \in DOMAIN PlanState THEN PlanState[reply]
  ELSE seen

\* Mutant of Sync: it forgets the lock.
SyncKeepsLock(p, seen, reply) ==
  /\ row' = IF Synced(seen, reply) = seen THEN row
            ELSE [row EXCEPT ![p] = Synced(seen, reply)]
  /\ UNCHANGED lock

\* It compares with the status it had read, and writes over the present one.
Sync(p, seen, reply) ==
  LET new == Synced(seen, reply) IN
  /\ row' = IF new = seen THEN row ELSE [row EXCEPT ![p] = new]
  /\ IF new # seen /\ new \in TerminalStates THEN Release(p)
                                            ELSE UNCHANGED lock

-------------------------------------------------------------------------------
(* The tools: status, confirm and rollback.                                *)

\* Also a confirm after verify_deadline, which syncs and then refuses.
StatusCall(c, p) ==
  /\ row[p] \in ActiveStates
  /\ Enter(c, "status", p, Null)
  /\ Send(c, "status", p)
  /\ UNCHANGED <<store, replies, router, faults>>

StatusReturn(c) ==
  /\ Receive(c, "status")
  /\ Sync(calls[c].plan, calls[c].seen, replies[c])
  /\ Return(c)
  /\ UNCHANGED <<granted, consumed, requests, router, faults>>

\* A confirm of a plan that is not pending asks the router first.
ConfirmSync(c, p) ==
  /\ row[p] \in {"applying", "unknown"}
  /\ Enter(c, "syncing", p, Null)
  /\ Send(c, "status", p)
  /\ UNCHANGED <<store, replies, router, faults>>

ConfirmSynced(c) ==
  LET new == Synced(calls[c].seen, replies[c]) IN
  /\ Receive(c, "syncing")
  /\ Sync(calls[c].plan, calls[c].seen, replies[c])
  /\ IF new = "pending_confirmation" THEN Goto(c, "verifying") ELSE Return(c)
  /\ UNCHANGED <<granted, consumed, requests, router, faults>>

\* ... and again, when verify_deadline turns out to have passed.
ConfirmOverdue(c) ==
  LET p == calls[c].plan IN
  /\ Synced(calls[c].seen, replies[c]) = "pending_confirmation"
  /\ Receive(c, "syncing")
  /\ Sync(p, calls[c].seen, replies[c])
  /\ calls' = [calls EXCEPT ![c] =
                 [at |-> "status", plan |-> p, seen |-> "pending_confirmation",
                  grant |-> Null]]
  /\ Send(c, "status", p)
  /\ UNCHANGED <<granted, consumed, router, faults>>

ConfirmVerify(c, p) ==
  /\ row[p] = "pending_confirmation"
  /\ Enter(c, "verifying", p, Null)
  /\ UNCHANGED <<store, wire, router, faults>>

ConfirmVerified(c) ==
  /\ calls[c].at = "verifying"
  /\ Goto(c, "confirming")
  /\ Send(c, "confirm", calls[c].plan)
  /\ UNCHANGED <<store, replies, router, faults>>

ConfirmRefused(c) ==
  /\ calls[c].at = "verifying"
  /\ Return(c)
  /\ UNCHANGED <<store, wire, router, faults>>

\* Mutant of ConfirmReturn: a lost reply counts as a confirmation.
ConfirmReturnAnyway(c) ==
  /\ Receive(c, "confirming")
  /\ IF replies[c] \in {"confirmed", "LOST"}
       THEN Mark(calls[c].plan, "confirmed") /\ Release(calls[c].plan)
       ELSE UNCHANGED <<row, lock>>
  /\ Return(c)
  /\ UNCHANGED <<granted, consumed, requests, router, faults>>

ConfirmReturn(c) ==
  /\ Receive(c, "confirming")
  /\ IF replies[c] = "confirmed"
       THEN Mark(calls[c].plan, "confirmed") /\ Release(calls[c].plan)
       ELSE UNCHANGED <<row, lock>>
  /\ Return(c)
  /\ UNCHANGED <<granted, consumed, requests, router, faults>>

\* Mutant of RollbackCall: a plan that is over can be rolled back too.
RollbackCallAny(c, p) ==
  /\ row[p] \in ActiveStates \cup TerminalStates
  /\ Enter(c, "rolling_back", p, Null)
  /\ Send(c, "rollback", p)
  /\ UNCHANGED <<store, replies, router, faults>>

RollbackCall(c, p) ==
  /\ row[p] \in ActiveStates
  /\ Enter(c, "rolling_back", p, Null)
  /\ Send(c, "rollback", p)
  /\ UNCHANGED <<store, replies, router, faults>>

RollbackReturn(c) ==
  /\ Receive(c, "rolling_back")
  /\ IF replies[c] \in {"rolled_back", "NEEDS_MANUAL"}
       THEN /\ Mark(calls[c].plan, IF replies[c] = "rolled_back"
                                    THEN "rolled_back" ELSE "needs_manual")
            /\ Release(calls[c].plan)
       ELSE UNCHANGED <<row, lock>>
  /\ Return(c)
  /\ UNCHANGED <<granted, consumed, requests, router, faults>>

-------------------------------------------------------------------------------
(* The tool apply.                                                         *)

\* Mutant of ApplyCall: any grant bound to the plan will do, stored or not.
ApplyCallUnapproved(c, g) ==
  LET p == PlanOf[g] IN
  /\ row[p] = "planned"
  /\ g \notin consumed
  /\ lock \in {Null, p}
  /\ lock' = p
  /\ Enter(c, "inspecting", p, g)
  /\ UNCHANGED <<row, granted, consumed, wire, router, faults>>

\* get_valid_grant, which takes the newest (here any), and acquire_lock, which
\* lets a plan in that has the lock.
ApplyCall(c, g) ==
  LET p == PlanOf[g] IN
  /\ row[p] = "planned"
  /\ g \in granted \ consumed
  /\ lock \in {Null, p}
  /\ lock' = p
  /\ Enter(c, "inspecting", p, g)
  /\ UNCHANGED <<row, granted, consumed, wire, router, faults>>

\* inspect fails, finds another revision, or the grant has been consumed
\* meanwhile.
ApplyStopped(c) ==
  /\ calls[c].at = "inspecting"
  /\ Release(calls[c].plan)
  /\ Return(c)
  /\ UNCHANGED <<row, granted, consumed, wire, router, faults>>

\* Mutant of ApplyStart: whether the grant is still there is not checked again.
ApplyStartUnchecked(c) ==
  /\ calls[c].at = "inspecting"
  /\ consumed' = consumed \cup {calls[c].grant}
  /\ Mark(calls[c].plan, "applying")
  /\ Goto(c, "applying")
  /\ Send(c, "apply", calls[c].plan)
  /\ UNCHANGED <<lock, granted, replies, router, faults>>

ApplyStart(c) ==
  /\ calls[c].at = "inspecting"
  /\ calls[c].grant \notin consumed
  /\ consumed' = consumed \cup {calls[c].grant}
  /\ Mark(calls[c].plan, "applying")
  /\ Goto(c, "applying")
  /\ Send(c, "apply", calls[c].plan)
  /\ UNCHANGED <<lock, granted, replies, router, faults>>

ApplySucceeds(c) ==
  /\ replies[c] = "applied_unconfirmed"
  /\ Receive(c, "applying")
  /\ Mark(calls[c].plan, "pending_confirmation")
  /\ Goto(c, "probing")
  /\ UNCHANGED <<lock, granted, consumed, requests, router, faults>>

\* Mutant of ApplyLost: an error like the others.
ApplyLostReleases(c) ==
  /\ replies[c] = "LOST"
  /\ Receive(c, "applying")
  /\ Mark(calls[c].plan, "unknown")
  /\ Release(calls[c].plan)
  /\ Return(c)
  /\ UNCHANGED <<granted, consumed, requests, router, faults>>

\* The router may have applied: the plan keeps the lock.
ApplyLost(c) ==
  /\ replies[c] = "LOST"
  /\ Receive(c, "applying")
  /\ Mark(calls[c].plan, "unknown")
  /\ Return(c)
  /\ UNCHANGED <<lock, granted, consumed, requests, router, faults>>

ApplyRejected(c) ==
  /\ replies[c] = "REFUSED"
  /\ Receive(c, "applying")
  /\ Mark(calls[c].plan, "failed")
  /\ Release(calls[c].plan)
  /\ Return(c)
  /\ UNCHANGED <<granted, consumed, requests, router, faults>>

\* Any other RouterError leaves the status as it is and frees the lock.
ApplyErrs(c) ==
  /\ replies[c] \in {"ERROR", "NEEDS_MANUAL"}
  /\ Receive(c, "applying")
  /\ Release(calls[c].plan)
  /\ Return(c)
  /\ UNCHANGED <<row, granted, consumed, requests, router, faults>>

ProbesPass(c) ==
  /\ calls[c].at = "probing"
  /\ Return(c)
  /\ UNCHANGED <<store, wire, router, faults>>

ProbesFail(c) ==
  /\ calls[c].at = "probing"
  /\ Goto(c, "undoing")
  /\ Send(c, "rollback", calls[c].plan)
  /\ UNCHANGED <<store, replies, router, faults>>

\* After an error the lock is kept: the watchdog will recover.
UndoReturn(c) ==
  /\ Receive(c, "undoing")
  /\ IF replies[c] = "rolled_back"
       THEN Mark(calls[c].plan, "rolled_back") /\ Release(calls[c].plan)
       ELSE UNCHANGED <<row, lock>>
  /\ Return(c)
  /\ UNCHANGED <<granted, consumed, requests, router, faults>>

-------------------------------------------------------------------------------
(* The router: one invocation at a time, as JournalContract allows.        *)

Answer(by, reply) ==
  replies' = IF by = Null THEN replies ELSE [replies EXCEPT ![by] = reply]

\* op_status takes no lock; the active journal comes before last.json.
StatusAnswer(r) ==
  LET found == IF txn # Null /\ txn.plan = r.plan THEN txn.state
               ELSE IF verdict # Null /\ verdict.plan = r.plan
                 THEN verdict.state
               ELSE "NOT_FOUND"
  IN
  /\ r.op = "status"
  /\ requests' = requests \ {r}
  /\ Answer(r.by, found)
  /\ UNCHANGED <<store, calls, router, faults>>

\* The invocation of r ends without touching the journal.
Decline(r, reply) ==
  /\ requests' = requests \ {r}
  /\ Answer(r.by, reply)
  /\ UNCHANGED <<store, calls, router, faults>>

Opened(p) == txn # Null /\ txn.plan = p

\* apply and confirm do not wait for the lock; an apply has more reasons.
Refuse(r) ==
  \/ /\ r.op = "apply"
     /\ \E reply \in {"REFUSED", "ERROR"} : Decline(r, reply)
  \/ /\ r.op = "confirm"
     /\ \/ running # Null
        \/ Opened(r.plan) /\ txn.state # "applied_unconfirmed"
     /\ Decline(r, "REFUSED")

NoTransaction(r) ==
  /\ r.op \in {"confirm", "rollback"}
  /\ running = Null
  /\ ~Opened(r.plan)
  /\ Decline(r, "NOT_FOUND")

\* r's invocation holds the lock from here on.
Run(r, decided) ==
  /\ running = Null
  /\ running' = [op |-> r.op, plan |-> r.plan, by |-> r.by,
                 verdict |-> decided,
                 manual |-> txn # Null /\ txn.state = "needs_manual"]
  /\ requests' = requests \ {r}

ApplyArms(r) ==
  /\ r.op = "apply"
  /\ txn = Null
  /\ Run(r, Null)
  /\ clearing' = clearing
  /\ Journal!Arm(r.plan)
  /\ due' = FALSE
  /\ outcome' = [outcome EXCEPT ![r.plan] = "open"]
  /\ UNCHANGED <<store, calls, replies, faults>>

RollbackRuns(r) ==
  /\ r.op = "rollback"
  /\ Opened(r.plan)
  /\ Run(r, Null)
  /\ UNCHANGED <<store, calls, replies, clearing, txn, verdict, due, outcome,
                 faults>>

\* In time it decides for the change, else it goes on as a rollback.
ConfirmRuns(r) ==
  /\ r.op = "confirm"
  /\ Opened(r.plan)
  /\ txn.state = "applied_unconfirmed"
  /\ UNCHANGED <<store, calls, replies, clearing, txn, due, outcome, faults>>
  /\ IF due THEN Run(r, Null) /\ UNCHANGED verdict
            ELSE Run(r, "confirmed") /\ Journal!Record("confirmed")

WatchdogRuns ==
  /\ running = Null
  /\ txn # Null
  /\ txn.state \in Journal!OpenStates
  /\ due
  /\ running' = [op |-> "tick", plan |-> txn.plan, by |-> Null,
                 verdict |-> Null, manual |-> FALSE]
  /\ UNCHANGED <<store, calls, wire, clearing, txn, verdict, due, outcome,
                 faults>>

Finish(reply) ==
  /\ running' = Null
  /\ Answer(running.by, reply)
  /\ UNCHANGED <<store, calls, requests, clearing, outcome>>

Undecided == running # Null /\ running.verdict = Null

ApplyDone ==
  /\ Undecided
  /\ running.op = "apply"
  /\ due' = FALSE
  /\ Finish("applied_unconfirmed")
  /\ Journal!Applied
  /\ UNCHANGED faults

\* stage_ops refuses after the journal was armed.
ApplyStuck ==
  /\ Undecided
  /\ running.op = "apply"
  /\ Finish("REFUSED")
  /\ UNCHANGED <<txn, verdict, due, faults>>

\* A rollback, by whichever operation, or a rejected candidate.  A --clear may
\* have removed the transaction meanwhile: the change is undone all the same.
Undo ==
  /\ Undecided
  /\ running' = [running EXCEPT !.verdict = "rolled_back"]
  /\ outcome' = IF txn = Null THEN [outcome EXCEPT ![running.plan] = "rolled_back"]
                             ELSE outcome
  /\ UNCHANGED <<store, calls, wire, clearing, txn, due, faults>>
  /\ IF running.manual THEN Journal!Judge("rolled_back")
                       ELSE Journal!Record("rolled_back")

\* The configuration is neither the old nor the new one.
Drift ==
  /\ Fault("drift")
  /\ Undecided
  /\ UNCHANGED due
  /\ Finish("NEEDS_MANUAL")
  /\ IF running.manual THEN Journal!Return ELSE Journal!Escalate

\* The restore fails and the journal stays.
RestoreFails ==
  /\ Fault("restore")
  /\ Undecided
  /\ Finish("ERROR")
  /\ UNCHANGED <<txn, verdict, due>>

\* VALIDATION_FAILED or APPLY_FAILED for an apply that was undone.
Replies(op) ==
  CASE op = "apply" -> {"REFUSED", "ERROR"}
    [] op = "confirm" -> {"REFUSED"}
    [] OTHER -> {"rolled_back"}

CloseJournal ==
  /\ running # Null
  /\ running.verdict # Null
  /\ outcome' = [outcome EXCEPT ![running.plan] = running.verdict]
  /\ running' = Null
  /\ due' = FALSE
  /\ \E reply \in IF running.verdict = "confirmed" THEN {"confirmed"}
                                                   ELSE Replies(running.op) :
       Answer(running.by, reply)
  /\ UNCHANGED <<store, calls, requests, clearing, faults>>
  /\ IF running.manual THEN Journal!Remove ELSE Journal!Close

Deadline ==
  /\ txn # Null
  /\ ~due
  /\ due' = TRUE
  /\ UNCHANGED <<store, calls, wire, running, clearing, txn, verdict, outcome,
                 faults>>

\* The invocation dies; ssh ends without output.
AgentDies ==
  /\ Fault("kill")
  /\ running # Null
  /\ Finish("LOST")
  /\ UNCHANGED <<txn, verdict, due>>

\* `openwrt-mcp-agent --clear' beside it: what it has read it archives, and it
\* unlinks what there is by then.
ClearRead ==
  /\ "clear" \in FaultKinds
  /\ clearing = NotClearing
  /\ txn # Null /\ txn.state = "needs_manual"
  /\ clearing' = [at |-> "write", plan |-> txn.plan]
  /\ UNCHANGED <<store, calls, wire, running, txn, verdict, due, outcome, faults>>

ClearWrite ==
  /\ clearing.at = "write"
  /\ clearing' = [clearing EXCEPT !.at = "unlink"]
  /\ UNCHANGED <<store, calls, wire, running, txn, due, outcome, faults>>
  /\ Journal!Judge("cleared_manually")

\* What was undone meanwhile stays undone.
ClearUnlink ==
  /\ clearing.at = "unlink"
  /\ clearing' = NotClearing
  /\ outcome' = IF outcome[clearing.plan] = "rolled_back" THEN outcome
                ELSE [outcome EXCEPT ![clearing.plan] = verdict.state]
  /\ due' = FALSE
  /\ UNCHANGED <<store, calls, wire, running, faults>>
  /\ Journal!Remove

OperatorClears == ClearRead \/ ClearWrite \/ ClearUnlink

ClearKilled ==
  /\ Fault("kill")
  /\ clearing.at # "idle"
  /\ clearing' = NotClearing
  /\ UNCHANGED <<store, calls, wire, running, txn, verdict, due, outcome>>

-------------------------------------------------------------------------------
(* Failures on the way and of the service.                                 *)

\* Nobody waits any longer for what these calls asked: the agent goes on with
\* what it has started, and the rest never arrives, or arrives late.
Abandon(cs) ==
  LET theirs == {r \in requests : r.by \in cs}
      orphans == {[r EXCEPT !.by = Null] :
                    r \in {q \in theirs : q.op # "status"}}
  IN
  /\ \/ requests' = requests \ theirs
     \/ /\ "late" \in FaultKinds
        /\ requests' = (requests \ theirs) \cup orphans
  /\ running' = IF running # Null /\ running.by \in cs
                THEN [running EXCEPT !.by = Null] ELSE running
  /\ UNCHANGED <<clearing, txn, verdict, due, outcome>>

\* A timeout, or an answer that is no JSON.
TransportFails(c) ==
  /\ Fault("lost")
  /\ calls[c].at \in ReplyAwaits
  /\ replies[c] # "LOST"
  /\ Abandon({c})
  /\ replies' = [replies EXCEPT ![c] = "LOST"]
  /\ UNCHANGED <<store, calls>>

\* The client cancels the call; an apply's finally clause frees the lock.
Cancel(c) ==
  /\ Fault("cancel")
  /\ calls[c].at # "idle"
  /\ Abandon({c})
  /\ replies' = [replies EXCEPT ![c] = Null]
  /\ IF calls[c].at \in ApplyAwaits THEN Release(calls[c].plan)
                                    ELSE UNCHANGED lock
  /\ Return(c)
  /\ UNCHANGED <<row, granted, consumed>>

\* The server process ends and is started again: nothing is reconciled.
Crash ==
  /\ Fault("crash")
  /\ \E c \in Calls : calls[c].at # "idle"
  /\ Abandon(Calls)
  /\ replies' = [c \in Calls |-> Null]
  /\ calls' = [c \in Calls |-> Returned]
  /\ UNCHANGED store

-------------------------------------------------------------------------------
Begin(c) ==
  \/ \E p \in Plans :
       StatusCall(c, p) \/ ConfirmSync(c, p) \/ ConfirmVerify(c, p)
         \/ RollbackCall(c, p)
  \/ \E g \in Grants : ApplyCall(c, g)

Resume(c) ==
  \/ StatusReturn(c) \/ ConfirmSynced(c) \/ ConfirmOverdue(c)
  \/ ConfirmVerified(c) \/ ConfirmRefused(c) \/ ConfirmReturn(c)
  \/ RollbackReturn(c)
  \/ ApplyStopped(c) \/ ApplyStart(c) \/ ApplySucceeds(c) \/ ApplyLost(c)
  \/ ApplyRejected(c) \/ ApplyErrs(c) \/ ProbesPass(c) \/ ProbesFail(c)
  \/ UndoReturn(c)

Serve ==
  \E r \in requests :
    \/ StatusAnswer(r) \/ Refuse(r) \/ NoTransaction(r) \/ ApplyArms(r)
    \/ RollbackRuns(r) \/ ConfirmRuns(r)

Work == ApplyDone \/ ApplyStuck \/ Undo \/ CloseJournal

Failure ==
  \/ Drift \/ RestoreFails \/ AgentDies \/ ClearKilled \/ Crash
  \/ \E c \in Calls : TransportFails(c) \/ Cancel(c)

Next ==
  \/ \E p \in Plans : CreatePlan(p) \/ FindExpired(p)
  \/ \E g \in Grants : Approve(g)
  \/ \E c \in Calls : Begin(c) \/ Resume(c)
  \/ Serve \/ Work \/ WatchdogRuns \/ Deadline \/ OperatorClears \/ Failure

\* The event loop resumes every coroutine whose await is over, run_subprocess
\* gives every call a timeout, the router's kernel runs what it has started,
\* its deadline passes and its watchdog runs.
Fairness ==
  /\ \A c \in Calls : WF_vars(Resume(c))
  /\ WF_vars(\E r \in requests : r.by # Null /\ StatusAnswer(r))
  /\ WF_vars(\E r \in requests :
       r.by # Null /\ (Refuse(r) \/ NoTransaction(r) \/ ApplyArms(r)
                         \/ RollbackRuns(r) \/ ConfirmRuns(r)))
  /\ WF_vars(Work) /\ WF_vars(Deadline) /\ WF_vars(WatchdogRuns)

Spec == Init /\ [][Next]_vars
FairSpec == Spec /\ Fairness

-------------------------------------------------------------------------------
(* Properties.                                                             *)

\* A plan the store calls confirmed or rolled_back is what the router made of
\* it, whichever calls overlapped and whichever replies were lost, late or
\* out of date (plans.py writes both from replies that it awaited).
RowsAgree ==
  \A p \in Plans : row[p] \in {"confirmed", "rolled_back"} =>
                     outcome[p] = row[p]

\* With one grant a plan, the router never opens a second transaction for a
\* plan it is done with: two overlapping applies of it, which may both have
\* found the grant valid, do not both send it.
AppliedOnce ==
  [][\A p \in Plans : outcome[p] \in {"confirmed", "rolled_back",
                                      "cleared_manually"} =>
                        outcome'[p] # "open"]_vars

\* The router's row in locks never stays with a plan that nothing will take
\* further, refusing every other plan: its plan is in flight, or a call is at
\* work on it (release_lock wherever a plan settles, the finally clause of
\* apply).
LockNotStranded ==
  lock # Null => \/ row[lock] \in ActiveStates
                 \/ \E c \in Calls : calls[c].plan = lock

\* A plan that the store has as pending_confirmation or unknown, or that waits
\* for its confirmation on the router while the store has it as applying, has
\* the lock, which keeps every other plan from being applied (keep_lock in
\* apply).  It does not say so of every change that is on the router: an apply
\* that ends in an error of the agent, not a lost reply, frees the lock with its
\* row at applying, and when the agent's own restore had failed before, the
\* change is still there and its journal armed.
InFlightHoldsLock ==
  \A p \in Plans :
    \/ row[p] \in {"pending_confirmation", "unknown"}
    \/ row[p] = "applying" /\ Opened(p) /\ txn.state = "applied_unconfirmed"
    => lock = p

\* A terminal status (TERMINAL_STATES in store/db.py) is never overwritten, by
\* whatever a call had read before or receives after the plan ended.
TerminalIsFinal ==
  [][\A p \in Plans : row[p] \in TerminalStates => row'[p] = row[p]]_vars

\* A plan reported as failed because the router has no journal of it
\* (_sync_from_router) is not applied by the router after that.
FailedIsNotApplied ==
  [][\A p \in Plans : row[p] = "failed" /\ outcome[p] = "none" =>
                        outcome'[p] # "open"]_vars

\* A plan that is in flight and whose status somebody keeps asking for reaches
\* a final status, whatever an operator does and whatever arrives late.
StatusSettles ==
  (\A p \in Plans :
     \/ []<><<\E c \in Calls : StatusReturn(c) /\ calls[c].plan = p>>_vars
     \/ <>[](row[p] \notin ActiveStates))
  => \A p \in Plans : row[p] \in ActiveStates ~> row[p] \notin ActiveStates

\* It does so if no journal is cleared by hand and no request comes late: the
\* watchdog recovers, and the sync finds out.
PolledPlansSettle ==
  []((verdict # Null => verdict.state # "cleared_manually")
      /\ \A r \in requests : r.by # Null)
  => StatusSettles

-------------------------------------------------------------------------------
(* The inductive invariants behind TypeOK, LockNotStranded and RowsAgree.  *)

\* An operator approves a plan once (cmd_approve does not check that).
OneGrant == \A g, h \in Grants : PlanOf[g] = PlanOf[h] => g = h

\* What a call holds at each await.
Grounded ==
  \A c \in Calls :
    /\ calls[c].at # "idle" => calls[c].plan \in Plans
    /\ calls[c].at = "inspecting" =>
         calls[c].grant \in granted /\ PlanOf[calls[c].grant] = calls[c].plan

\* The lock of a plan that is not in flight is that of an apply that awaits
\* inspect.
LockAnswered ==
  lock # Null => \/ row[lock] \in ActiveStates
                 \/ \E c \in Calls : /\ calls[c].at = "inspecting"
                                     /\ calls[c].plan = lock

\* Who is still asked for c's plan p is asked by nobody else, and c waits.
Awaited(c, p) ==
  /\ calls[c].at \in ReplyAwaits
  /\ calls[c].plan = p
  /\ replies[c] = Null

Asked ==
  /\ \A c \in Calls : calls[c].at \notin ReplyAwaits => replies[c] = Null
  /\ \A r \in requests : r.by # Null => Awaited(r.by, r.plan)
  /\ \A r, q \in requests : r.by # Null /\ r.by = q.by => r = q
  /\ running # Null /\ running.by # Null =>
       /\ Awaited(running.by, running.plan)
       /\ \A r \in requests : r.by # running.by

\* An apply on its way to the router is the first and only one of its plan.
OneApply ==
  /\ \A r, q \in requests :
       r.op = "apply" /\ q.op = "apply" /\ r.plan = q.plan => r = q
  /\ \A r \in requests : r.op = "apply" => outcome[r.plan] = "none"
  /\ \A r \in requests : r.op = "apply" =>
       \E g \in consumed : PlanOf[g] = r.plan
  /\ \A p \in Plans : outcome[p] # "none" => \E g \in consumed : PlanOf[g] = p

\* What an invocation and a --clear hold: the transaction, unless both of them
\* attend to it, when it may be there or not.
Held ==
  /\ running # Null =>
       IF running.manual
       THEN txn # Null => txn = [plan |-> running.plan, state |-> "needs_manual"]
       ELSE txn # Null /\ txn.plan = running.plan /\ txn.state \in Journal!OpenStates
  /\ clearing.at # "idle" =>
       /\ clearing.plan \in Plans
       /\ running # Null => running.manual /\ running.plan = clearing.plan
       /\ txn # Null => txn = [plan |-> clearing.plan, state |-> "needs_manual"]

\* What the router's files say of a plan is what became of it; a transaction in
\* needs_manual may have been ended before, and a plan that was undone may be
\* archived as cleared.
Recorded ==
  /\ Held
  /\ txn # Null =>
       \/ outcome[txn.plan] = "open"
       \/ /\ txn.state = "needs_manual"
          /\ outcome[txn.plan] \in {"cleared_manually", "rolled_back"}
  /\ Attended # Null /\ txn = Null =>
       outcome[Attended] \in {"cleared_manually", "rolled_back"}
  /\ running # Null /\ running.verdict # Null =>
       /\ verdict # Null /\ verdict.plan = running.plan
       /\ running.manual => running.verdict = "rolled_back"
       /\ \/ verdict.state = running.verdict
          \/ running.manual /\ verdict.state = "cleared_manually"
  /\ clearing.at = "unlink" =>
       /\ verdict # Null /\ verdict.plan = clearing.plan
       /\ verdict.state \in {"cleared_manually", "rolled_back"}
  /\ verdict # Null /\ (txn = Null \/ txn.plan # verdict.plan) =>
       \/ outcome[verdict.plan] = verdict.state
       \/ verdict.state = "cleared_manually" /\ outcome[verdict.plan] = "rolled_back"

\* So does a reply.
Reported ==
  \A c \in Calls : replies[c] \in {"confirmed", "rolled_back"} =>
                     outcome[calls[c].plan] = replies[c]

-------------------------------------------------------------------------------
(* The inductive invariants behind TerminalIsFinal and InFlightHoldsLock,  *)
(* which hold when the client does not overlap its tool calls.             *)

OneCallAtATime == \A c, d \in Calls : c = d

\* A call finds its plan's row as it read or wrote it before its await.
Fresh ==
  \A c \in Calls : LET p == calls[c].plan  at == calls[c].at IN
    /\ at = "inspecting" => row[p] = "planned"
    /\ at = "applying" => row[p] = "applying"
    /\ at \in {"probing", "undoing", "verifying", "confirming"} =>
         row[p] = "pending_confirmation"
    /\ at \in {"status", "syncing"} =>
         row[p] = calls[c].seen /\ row[p] \in ActiveStates
    /\ at = "rolling_back" => row[p] \in ActiveStates

NoApplySent(p) == \A r \in requests : ~(r.op = "apply" /\ r.plan = p)

\* Only one apply of a plan is ever sent: it is planned until then.
SentOnce ==
  /\ \A p \in Plans : row[p] \in {"none", "planned", "expired"} =>
       outcome[p] = "none" /\ NoApplySent(p)
  /\ \A r, q \in requests :
       r.op = "apply" /\ q.op = "apply" /\ r.plan = q.plan => r = q
  /\ \A r \in requests : r.op = "apply" => outcome[r.plan] = "none"

\* An apply that runs has not applied yet, and what an apply awaits is its own
\* apply.
Begun ==
  /\ running # Null /\ running.op = "apply" =>
       txn # Null /\ txn.state = "armed"
  /\ \A c \in Calls : calls[c].at = "applying" =>
       /\ \A r \in requests : r.by = c => r.op = "apply"
       /\ running # Null /\ running.by = c => running.op = "apply"

\* Plan p is not applied and unconfirmed on the router, nor said to be, nor
\* will it be.
NotPending(p) ==
  /\ NoApplySent(p)
  /\ ~(running # Null /\ running.op = "apply" /\ running.plan = p)
  /\ ~(Opened(p) /\ txn.state = "applied_unconfirmed")
  /\ \A c \in Calls : calls[c].plan = p => replies[c] # "applied_unconfirmed"

\* What the store has as pending or unknown has the lock.
PendingHoldsLock ==
  \A p \in Plans : row[p] \in {"pending_confirmation", "unknown"} => lock = p

\* The lock goes before the plan has ended only when the agent answered an
\* apply with an error.
LockKept ==
  /\ PendingHoldsLock
  /\ \A p \in Plans : row[p] = "applying" => lock = p \/ NotPending(p)
  /\ \A c \in Calls :
       calls[c].at \in {"inspecting", "applying"} => lock = calls[c].plan
  /\ \A c \in Calls :
       calls[c].at = "applying" /\ replies[c] \in {"ERROR", "NEEDS_MANUAL"} =>
         NotPending(calls[c].plan)
===============================================================================
