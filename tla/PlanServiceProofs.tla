--------------------------- MODULE PlanServiceProofs ---------------------------
(***************************************************************************)
(* Proofs about PlanService, for any number of calls, plans, grants and    *)
(* faults.                                                                 *)
(*                                                                         *)
(* That the store agrees with the router (RowsAgree) is inductive only     *)
(* together with what the replies under way say (Reported).  That a        *)
(* verdict in a reply is that of the call's own plan needs that requests   *)
(* and replies belong to calls that wait for them (Asked), and that the    *)
(* verdict of a plan is final needs that no second apply of it can arrive  *)
(* (OneApply) and that the router's files say what became of their plans   *)
(* (Recorded).  The lock's argument is separate: LockAnswered.             *)
(***************************************************************************)
EXTENDS PlanService, TLAPS

-------------------------------------------------------------------------------
(* Types: what the parts of a tool call do to the types of what they write. *)

\* A fault leaves the number of faults in its bound.
LEMMA FaultCount ==
  ASSUME TypeOK, NEW kind, Fault(kind)
  PROVE  faults' \in 0 .. MaxFaults
BY ServiceAssumption DEF TypeOK, Fault

\* Goto moves a call to an await.
LEMMA GotoType ==
  ASSUME TypeOK, NEW c \in Calls,
         NEW at \in {"idle", "verifying"} \cup ApplyAwaits \cup ReplyAwaits,
         Goto(c, at)
  PROVE  calls' \in [Calls -> CallStates]
BY DEF TypeOK, Goto, CallStates

\* Return ends a call.
LEMMA ReturnType ==
  ASSUME TypeOK, NEW c \in Calls, Return(c)
  PROVE  calls' \in [Calls -> CallStates]
BY DEF TypeOK, Return, Returned, CallStates, Statuses

\* Send adds a request.
LEMMA SendType ==
  ASSUME TypeOK, NEW c \in Calls, NEW op \in Operations, NEW p \in Plans,
         Send(c, op, p)
  PROVE  requests' \subseteq Requests
BY DEF TypeOK, Send, Requests

\* Sync writes a status, and the lock.
LEMMA SyncType ==
  ASSUME TypeOK, NEW p \in Plans, NEW seen \in Statuses, NEW reply,
         Sync(p, seen, reply)
  PROVE  row' \in [Plans -> Statuses] /\ lock' \in Plans \cup {Null}
<1>1. Synced(seen, reply) \in Statuses
  BY DEF Synced, PlanState, Statuses, ActiveStates, TerminalStates
<1>2. row' \in [Plans -> Statuses]
  BY <1>1 DEF TypeOK, Sync
<1>3. lock' \in Plans \cup {Null}
  BY DEF TypeOK, Sync, Release
<1> QED
  BY <1>2, <1>3

\* Mark writes a status.
LEMMA MarkType ==
  ASSUME TypeOK, NEW p, NEW status \in Statuses, Mark(p, status)
  PROVE  row' \in [Plans -> Statuses]
BY DEF TypeOK, Mark

\* Abandon takes the caller out of requests and of the invocation.
LEMMA AbandonType ==
  ASSUME TypeOK, NEW cs, Abandon(cs)
  PROVE  requests' \subseteq Requests /\ running' \in Invocations \cup {Null}
<1> DEFINE theirs == {r \in requests : r.by \in cs}
           orphans == {[r EXCEPT !.by = Null] :
                         r \in {q \in theirs : q.op # "status"}}
<1>1. orphans \subseteq Requests
  BY DEF TypeOK, Requests
<1>2. requests' \subseteq requests \cup orphans
  BY DEF Abandon
<1>3. running' \in Invocations \cup {Null}
  BY DEF TypeOK, Abandon, Invocations
<1> QED
  BY <1>1, <1>2, <1>3 DEF TypeOK

\* Whoever attends to a transaction, it is that of a plan.
LEMMA AttendedType ==
  ASSUME TypeOK
  PROVE  Attended \in Plans \cup {Null}
BY DEF TypeOK, Attended, Invocations, Clearings

\* Every step keeps the types, given what the calls are known to hold.
LEMMA TypeStep ==
  ASSUME TypeOK, Grounded, [Next]_vars
  PROVE  TypeOK'
<1>0. Attended \in Plans \cup {Null}
  BY AttendedType
<1> USE ServiceAssumption
    DEF TypeOK, CallStates, Statuses, ActiveStates, TerminalStates,
        ApplyAwaits, ReplyAwaits, Requests, Operations, JournalStates, Errors,
        store, wire, router
<1>1. ASSUME NEW p \in Plans, CreatePlan(p)
      PROVE  TypeOK'
  BY <1>1 DEF CreatePlan
<1>2. ASSUME NEW p \in Plans, FindExpired(p)
      PROVE  TypeOK'
  BY <1>2 DEF FindExpired
<1>3. ASSUME NEW g \in Grants, Approve(g)
      PROVE  TypeOK'
  BY <1>3 DEF Approve
<1>4. ASSUME NEW c \in Calls, NEW p \in Plans, StatusCall(c, p)
      PROVE  TypeOK'
  BY <1>4 DEF StatusCall, Enter, Send
<1>5. ASSUME NEW c \in Calls, NEW p \in Plans, ConfirmSync(c, p)
      PROVE  TypeOK'
  BY <1>5 DEF ConfirmSync, Enter, Send
<1>6. ASSUME NEW c \in Calls, NEW p \in Plans, ConfirmVerify(c, p)
      PROVE  TypeOK'
  BY <1>6 DEF ConfirmVerify, Enter
<1>7. ASSUME NEW c \in Calls, NEW p \in Plans, RollbackCall(c, p)
      PROVE  TypeOK'
  BY <1>7 DEF RollbackCall, Enter, Send
<1>8. ASSUME NEW c \in Calls, NEW g \in Grants, ApplyCall(c, g)
      PROVE  TypeOK'
  BY <1>8 DEF ApplyCall, Enter
<1>9. ASSUME NEW c \in Calls, StatusReturn(c)
      PROVE  TypeOK'
  <2>1. calls[c].plan \in Plans
    BY <1>9 DEF StatusReturn, Receive, Grounded
  <2>2. row' \in [Plans -> Statuses] /\ lock' \in Plans \cup {Null}
    BY <1>9, <2>1, SyncType DEF StatusReturn
  <2>3. calls' \in [Calls -> CallStates]
    BY <1>9, ReturnType DEF StatusReturn
  <2> QED
    BY <1>9, <2>1, <2>2, <2>3 DEF StatusReturn, Receive
<1>10. ASSUME NEW c \in Calls, ConfirmSynced(c)
      PROVE  TypeOK'
  <2>1. calls[c].plan \in Plans
    BY <1>10 DEF ConfirmSynced, Receive, Grounded
  <2>2. row' \in [Plans -> Statuses] /\ lock' \in Plans \cup {Null}
    BY <1>10, <2>1, SyncType DEF ConfirmSynced
  <2>3. calls' \in [Calls -> CallStates]
    BY <1>10, ReturnType, GotoType DEF ConfirmSynced
  <2> QED
    BY <1>10, <2>1, <2>2, <2>3 DEF ConfirmSynced, Receive
<1>11. ASSUME NEW c \in Calls, ConfirmOverdue(c)
      PROVE  TypeOK'
  <2>1. calls[c].plan \in Plans
    BY <1>11 DEF ConfirmOverdue, Receive, Grounded
  <2>2. row' \in [Plans -> Statuses] /\ lock' \in Plans \cup {Null}
    BY <1>11, <2>1, SyncType DEF ConfirmOverdue
  <2>3. calls' \in [Calls -> CallStates]
    BY <1>11 DEF ConfirmOverdue
  <2>4. requests' \subseteq Requests
    BY <1>11, <2>1, SendType DEF ConfirmOverdue
  <2> QED
    BY <1>11, <2>1, <2>2, <2>3, <2>4 DEF ConfirmOverdue, Receive
<1>12. ASSUME NEW c \in Calls, ConfirmVerified(c)
      PROVE  TypeOK'
  <2>1. calls[c].plan \in Plans
    BY <1>12 DEF ConfirmVerified, Grounded
  <2>2. calls' \in [Calls -> CallStates]
    BY <1>12, GotoType DEF ConfirmVerified
  <2>3. requests' \subseteq Requests
    BY <1>12, <2>1, SendType DEF ConfirmVerified
  <2> QED
    BY <1>12, <2>1, <2>2, <2>3 DEF ConfirmVerified
<1>13. ASSUME NEW c \in Calls, ConfirmRefused(c)
      PROVE  TypeOK'
  BY <1>13, ReturnType DEF ConfirmRefused
<1>14. ASSUME NEW c \in Calls, ConfirmReturn(c)
      PROVE  TypeOK'
  BY <1>14, ReturnType DEF ConfirmReturn, Receive, Mark, Release
<1>15. ASSUME NEW c \in Calls, RollbackReturn(c)
      PROVE  TypeOK'
  BY <1>15, ReturnType DEF RollbackReturn, Receive, Mark, Release
<1>16. ASSUME NEW c \in Calls, ApplyStopped(c)
      PROVE  TypeOK'
  BY <1>16, ReturnType DEF ApplyStopped, Release
<1>17. ASSUME NEW c \in Calls, ApplyStart(c)
      PROVE  TypeOK'
  <2>1. calls[c].plan \in Plans /\ calls[c].grant \in granted
    BY <1>17 DEF ApplyStart, Grounded
  <2>2. calls' \in [Calls -> CallStates]
    BY <1>17, GotoType DEF ApplyStart
  <2>3. requests' \subseteq Requests
    BY <1>17, <2>1, SendType DEF ApplyStart
  <2>4. row' \in [Plans -> Statuses]
    BY <1>17, MarkType DEF ApplyStart
  <2> QED
    BY <1>17, <2>1, <2>2, <2>3, <2>4 DEF ApplyStart
<1>18. ASSUME NEW c \in Calls, ApplySucceeds(c)
      PROVE  TypeOK'
  <2>1. calls' \in [Calls -> CallStates]
    BY <1>18, GotoType DEF ApplySucceeds
  <2>2. row' \in [Plans -> Statuses]
    BY <1>18, MarkType DEF ApplySucceeds
  <2> QED
    BY <1>18, <2>1, <2>2 DEF ApplySucceeds, Receive
<1>19. ASSUME NEW c \in Calls, ApplyLost(c)
      PROVE  TypeOK'
  BY <1>19, ReturnType, MarkType DEF ApplyLost, Receive
<1>20. ASSUME NEW c \in Calls, ApplyRejected(c)
      PROVE  TypeOK'
  BY <1>20, ReturnType, MarkType DEF ApplyRejected, Receive, Release
<1>21. ASSUME NEW c \in Calls, ApplyErrs(c)
      PROVE  TypeOK'
  BY <1>21, ReturnType DEF ApplyErrs, Receive, Release
<1>22. ASSUME NEW c \in Calls, ProbesPass(c)
      PROVE  TypeOK'
  BY <1>22, ReturnType DEF ProbesPass
<1>23. ASSUME NEW c \in Calls, ProbesFail(c)
      PROVE  TypeOK'
  <2>1. calls[c].plan \in Plans
    BY <1>23 DEF ProbesFail, Grounded
  <2>2. calls' \in [Calls -> CallStates]
    BY <1>23, GotoType DEF ProbesFail
  <2>3. requests' \subseteq Requests
    BY <1>23, <2>1, SendType DEF ProbesFail
  <2> QED
    BY <1>23, <2>1, <2>2, <2>3 DEF ProbesFail
<1>24. ASSUME NEW c \in Calls, UndoReturn(c)
      PROVE  TypeOK'
  BY <1>24, ReturnType DEF UndoReturn, Receive, Mark, Release
<1>25. ASSUME NEW r \in requests, StatusAnswer(r)
      PROVE  TypeOK'
  <2>1. txn # Null => txn.state \in JournalStates
    BY DEF Journal!Transactions, Journal!OpenStates
  <2>2. verdict # Null => verdict.state \in JournalStates
    BY DEF Journal!Verdicts
  <2> QED
    BY <1>25, <2>1, <2>2 DEF StatusAnswer, Answer
<1>26. ASSUME NEW r \in requests, Refuse(r)
      PROVE  TypeOK'
  BY <1>26 DEF Refuse, Decline, Answer
<1>27. ASSUME NEW r \in requests, NoTransaction(r)
      PROVE  TypeOK'
  BY <1>27 DEF NoTransaction, Decline, Answer
<1>28. ASSUME NEW r \in requests, ApplyArms(r)
      PROVE  TypeOK'
  BY <1>28 DEF Invocations, Journal!Transactions, Journal!OpenStates, ApplyArms, Run, Journal!Arm
<1>29. ASSUME NEW r \in requests, RollbackRuns(r)
      PROVE  TypeOK'
  BY <1>29 DEF Invocations, RollbackRuns, Run
<1>30. ASSUME NEW r \in requests, ConfirmRuns(r)
      PROVE  TypeOK'
  <2>1. r \in Requests /\ txn \in Journal!Transactions /\ requests' = requests \ {r}
    BY <1>30 DEF ConfirmRuns, Opened, Run
  <2>2. verdict' \in Journal!Verdicts \cup {Null}
    BY <1>30, <2>1 DEF ConfirmRuns, Journal!Record, Journal!Verdicts,
                       Journal!Transactions
  <2>3. running' \in Invocations
    <3>1. (txn # Null /\ txn.state = "needs_manual") \in BOOLEAN
      OBVIOUS
    <3>2. \E decided \in {"confirmed", Null} : r.op = "confirm" /\ Run(r, decided)
      BY <1>30 DEF ConfirmRuns
    <3> QED
      BY <2>1, <3>1, <3>2 DEF Run, Invocations
  <2> QED
    BY <1>30, <2>1, <2>2, <2>3 DEF ConfirmRuns
<1>31. CASE WatchdogRuns
  BY <1>31 DEF Invocations, Journal!Transactions, WatchdogRuns
<1>32. CASE ApplyDone
  <2>1. txn' \in Journal!Transactions /\ verdict' = verdict
    BY <1>32 DEF Journal!Transactions, Journal!OpenStates, ApplyDone,
                 Journal!Applied, Journal!Open
  <2> QED
    BY <1>32, <2>1 DEF ApplyDone, Finish, Answer, Undecided
<1>33. CASE ApplyStuck
  BY <1>33 DEF ApplyStuck, Finish, Answer, Undecided
<1>34. CASE Undo
  <2>1. verdict' \in Journal!Verdicts
    <3>1. CASE running.manual
      BY <1>0, <1>34, <3>1 DEF Undo, Journal!Judge, Journal!Verdicts
    <3>2. CASE ~running.manual
      BY <1>34, <3>2 DEF Undo, Journal!Record, Journal!Open, Journal!Verdicts,
                         Journal!Transactions
    <3> QED
      BY <3>1, <3>2
  <2>2. running' \in Invocations
    BY <1>34 DEF Invocations, Journal!Verdicts, Journal!Transactions, Undo, Undecided
  <2>3. outcome' \in [Plans -> {"none", "open", "confirmed", "rolled_back",
                              "cleared_manually"}]
    BY <1>34 DEF Invocations, Journal!Verdicts, Journal!Transactions, Undo
  <2> QED
    BY <1>34, <2>1, <2>2, <2>3 DEF Invocations, Journal!Verdicts, Journal!Transactions, Undo, Journal!Record, Journal!Judge
<1>35. CASE CloseJournal
  <2>1. replies' \in [Calls -> JournalStates \cup Errors \cup {Null}]
    BY <1>35 DEF Invocations, Journal!Verdicts, Journal!Transactions, CloseJournal, Answer, Replies
  <2>2. outcome' \in [Plans -> {"none", "open", "confirmed", "rolled_back",
                             "cleared_manually"}]
    BY <1>35 DEF Invocations, Journal!Verdicts, Journal!Transactions, CloseJournal
  <2> QED
    BY <1>35, <2>1, <2>2 DEF Invocations, Journal!Verdicts, Journal!Transactions, CloseJournal, Journal!Close, Journal!Remove
<1>36. CASE Deadline
  BY <1>36 DEF Deadline
<1>37. CASE OperatorClears \/ ClearKilled
  <2>1. CASE ClearRead
    BY <2>1 DEF Clearings, Journal!Verdicts, Journal!Transactions, ClearRead
  <2>2. CASE ClearWrite
    <3>1. verdict' \in Journal!Verdicts /\ txn' = txn
      BY <1>0, <2>2 DEF Clearings, Journal!Verdicts, Journal!Transactions, ClearWrite, Journal!Judge
    <3> QED
      BY <2>2, <3>1 DEF Clearings, Journal!Verdicts, Journal!Transactions, ClearWrite
  <2>3. CASE ClearUnlink
    <3>1. verdict # Null /\ verdict' = verdict /\ txn' = Null
      BY <2>3 DEF Clearings, Journal!Verdicts, Journal!Transactions, ClearUnlink, Journal!Remove
    <3>2. outcome' \in [Plans -> {"none", "open", "confirmed", "rolled_back",
                                "cleared_manually"}]
      BY <2>3, <3>1 DEF Clearings, Journal!Verdicts, Journal!Transactions, ClearUnlink
    <3> QED
      BY <2>3, <3>1, <3>2 DEF Clearings, Journal!Verdicts, Journal!Transactions, ClearUnlink, NotClearing
  <2>4. CASE ClearKilled
    BY <2>4, FaultCount DEF Clearings, Journal!Verdicts, Journal!Transactions, ClearKilled, NotClearing
  <2> QED
    BY <1>37, <2>1, <2>2, <2>3, <2>4 DEF Clearings, Journal!Verdicts, Journal!Transactions, OperatorClears
<1>38. CASE Drift
  <2>1. txn' \in Journal!Transactions /\ verdict' = verdict
    BY <1>0, <1>38 DEF Invocations, Journal!Transactions, Drift, Journal!Escalate, Journal!Return, Journal!Open
  <2> QED
    BY <1>38, <2>1, FaultCount DEF Invocations, Journal!Transactions, Drift, Finish, Answer, Undecided
<1>39. CASE RestoreFails
  BY <1>39, FaultCount DEF RestoreFails, Finish, Answer, Undecided
<1>40. CASE AgentDies
  BY <1>40, FaultCount DEF AgentDies, Finish, Answer
<1>41. ASSUME NEW c \in Calls, TransportFails(c)
      PROVE  TypeOK'
  <2>1. requests' \subseteq Requests /\ running' \in Invocations \cup {Null}
    BY <1>41, AbandonType DEF TransportFails
  <2>2. faults' \in 0 .. MaxFaults
    BY <1>41, FaultCount DEF TransportFails
  <2> QED
    BY <1>41, <2>1, <2>2 DEF TransportFails, Abandon
<1>42. ASSUME NEW c \in Calls, Cancel(c)
      PROVE  TypeOK'
  <2>1. requests' \subseteq Requests /\ running' \in Invocations \cup {Null}
    BY <1>42, AbandonType DEF Cancel
  <2>2. faults' \in 0 .. MaxFaults
    BY <1>42, FaultCount DEF Cancel
  <2>3. calls' \in [Calls -> CallStates]
    BY <1>42, ReturnType DEF Cancel
  <2> QED
    BY <1>42, <2>1, <2>2, <2>3 DEF Cancel, Abandon, Release
<1>43. CASE Crash
  <2>1. requests' \subseteq Requests /\ running' \in Invocations \cup {Null}
    BY <1>43, AbandonType DEF Crash
  <2>2. faults' \in 0 .. MaxFaults
    BY <1>43, FaultCount DEF Crash
  <2> QED
    BY <1>43, <2>1, <2>2 DEF Crash, Abandon, Returned
<1>44. CASE UNCHANGED vars
  BY <1>44 DEF vars
<1> QED
  BY <1>1, <1>2, <1>3, <1>4, <1>5, <1>6, <1>7, <1>8, <1>9, <1>10, <1>11, <1>12,
    <1>13, <1>14, <1>15, <1>16, <1>17, <1>18, <1>19, <1>20, <1>21, <1>22,
    <1>23, <1>24, <1>25, <1>26, <1>27, <1>28, <1>29, <1>30, <1>31, <1>32,
    <1>33, <1>34, <1>35, <1>36, <1>37, <1>38, <1>39, <1>40, <1>41, <1>42,
    <1>43, <1>44 DEF Next, Begin, Resume, Serve, Work, Failure

-------------------------------------------------------------------------------
(* What a call holds.                                                      *)

\* The router's steps leave the store and the calls alone.
LEMMA RouterFrame ==
  ASSUME \/ Serve \/ Work \/ WatchdogRuns \/ Deadline \/ OperatorClears
         \/ Drift \/ RestoreFails \/ AgentDies \/ ClearKilled
  PROVE  UNCHANGED <<store, calls>>
BY DEF Serve, Work, StatusAnswer, Refuse, NoTransaction, Decline, ApplyArms,
       RollbackRuns, ConfirmRuns, WatchdogRuns, ApplyDone, ApplyStuck, Undo,
       CloseJournal, Finish, Deadline, OperatorClears, ClearRead, ClearWrite,
       ClearUnlink, Drift, RestoreFails, AgentDies, ClearKilled

\* Every call goes on with a plan and, until it has inspected the router, with
\* a grant of that plan.
LEMMA GroundedStep ==
  ASSUME TypeOK, Grounded, [Next]_vars
  PROVE  Grounded'
<1> USE DEF TypeOK, Grounded, Returned, store, ApplyAwaits, ReplyAwaits
<1>1. ASSUME NEW p \in Plans, CreatePlan(p)
      PROVE  Grounded'
  BY <1>1 DEF CreatePlan
<1>2. ASSUME NEW p \in Plans, FindExpired(p)
      PROVE  Grounded'
  BY <1>2 DEF FindExpired
<1>3. ASSUME NEW g \in Grants, Approve(g)
      PROVE  Grounded'
  BY <1>3 DEF Approve
<1>4. ASSUME NEW c \in Calls, NEW p \in Plans, StatusCall(c, p)
      PROVE  Grounded'
  BY <1>4 DEF StatusCall, Enter, Send
<1>5. ASSUME NEW c \in Calls, NEW p \in Plans, ConfirmSync(c, p)
      PROVE  Grounded'
  BY <1>5 DEF ConfirmSync, Enter, Send
<1>6. ASSUME NEW c \in Calls, NEW p \in Plans, ConfirmVerify(c, p)
      PROVE  Grounded'
  BY <1>6 DEF ConfirmVerify, Enter
<1>7. ASSUME NEW c \in Calls, NEW p \in Plans, RollbackCall(c, p)
      PROVE  Grounded'
  BY <1>7 DEF RollbackCall, Enter, Send
<1>8. ASSUME NEW c \in Calls, NEW g \in Grants, ApplyCall(c, g)
      PROVE  Grounded'
  BY <1>8, ServiceAssumption DEF ApplyCall, Enter
<1>9. ASSUME NEW c \in Calls, StatusReturn(c)
      PROVE  Grounded'
  BY <1>9 DEF StatusReturn, Receive, Return, Sync, Mark, Release
<1>10. ASSUME NEW c \in Calls, ConfirmSynced(c)
      PROVE  Grounded'
  <2>1. Goto(c, "verifying") \/ Return(c)
    BY <1>10 DEF ConfirmSynced
  <2>2. calls[c].at = "syncing" /\ UNCHANGED granted
    BY <1>10 DEF ConfirmSynced, Receive
  <2> QED
    BY <2>1, <2>2 DEF Goto, Return, CallStates
<1>11. ASSUME NEW c \in Calls, ConfirmOverdue(c)
      PROVE  Grounded'
  BY <1>11 DEF ConfirmOverdue, Receive, Send, Sync, Release
<1>12. ASSUME NEW c \in Calls, ConfirmVerified(c)
      PROVE  Grounded'
  BY <1>12 DEF ConfirmVerified, Goto, Send
<1>13. ASSUME NEW c \in Calls, ConfirmRefused(c)
      PROVE  Grounded'
  BY <1>13 DEF ConfirmRefused, Return
<1>14. ASSUME NEW c \in Calls, ConfirmReturn(c)
      PROVE  Grounded'
  BY <1>14 DEF ConfirmReturn, Receive, Return, Mark, Release
<1>15. ASSUME NEW c \in Calls, RollbackReturn(c)
      PROVE  Grounded'
  BY <1>15 DEF RollbackReturn, Receive, Return, Mark, Release
<1>16. ASSUME NEW c \in Calls, ApplyStopped(c)
      PROVE  Grounded'
  BY <1>16 DEF ApplyStopped, Return, Release
<1>17. ASSUME NEW c \in Calls, ApplyStart(c)
      PROVE  Grounded'
  BY <1>17 DEF ApplyStart, Goto, Send, Mark
<1>18. ASSUME NEW c \in Calls, ApplySucceeds(c)
      PROVE  Grounded'
  BY <1>18 DEF ApplySucceeds, Receive, Goto, Mark
<1>19. ASSUME NEW c \in Calls, ApplyLost(c)
      PROVE  Grounded'
  BY <1>19 DEF ApplyLost, Receive, Return, Mark
<1>20. ASSUME NEW c \in Calls, ApplyRejected(c)
      PROVE  Grounded'
  BY <1>20 DEF ApplyRejected, Receive, Return, Mark, Release
<1>21. ASSUME NEW c \in Calls, ApplyErrs(c)
      PROVE  Grounded'
  BY <1>21 DEF ApplyErrs, Receive, Return, Release
<1>22. ASSUME NEW c \in Calls, ProbesPass(c)
      PROVE  Grounded'
  BY <1>22 DEF ProbesPass, Return
<1>23. ASSUME NEW c \in Calls, ProbesFail(c)
      PROVE  Grounded'
  BY <1>23 DEF ProbesFail, Goto, Send
<1>24. ASSUME NEW c \in Calls, UndoReturn(c)
      PROVE  Grounded'
  BY <1>24 DEF UndoReturn, Receive, Return, Mark, Release
<1>25. CASE \/ Serve \/ Work \/ WatchdogRuns \/ Deadline \/ OperatorClears
          \/ Drift \/ RestoreFails \/ AgentDies \/ ClearKilled
  BY <1>25, RouterFrame DEF store
<1>26. ASSUME NEW c \in Calls, TransportFails(c)
      PROVE  Grounded'
  BY <1>26 DEF TransportFails, Abandon
<1>27. ASSUME NEW c \in Calls, Cancel(c)
      PROVE  Grounded'
  BY <1>27 DEF Cancel, Abandon, Return, Release
<1>28. CASE Crash
  BY <1>28 DEF Crash
<1>29. CASE UNCHANGED vars
  BY <1>29 DEF vars
<1> QED
  BY <1>1, <1>2, <1>3, <1>4, <1>5, <1>6, <1>7, <1>8, <1>9, <1>10, <1>11, <1>12,
    <1>13, <1>14, <1>15, <1>16, <1>17, <1>18, <1>19, <1>20, <1>21, <1>22,
    <1>23, <1>24, <1>25, <1>26, <1>27, <1>28, <1>29 DEF Next, Begin, Resume,
    Serve, Work, Failure

-------------------------------------------------------------------------------
(* The lock.                                                               *)

\* A sync that lets a plan end releases its lock.
LEMMA SyncLock ==
  ASSUME TypeOK, NEW p \in Plans, NEW seen, NEW reply, Sync(p, seen, reply),
         lock' # Null
  PROVE  /\ lock' = lock
         /\ row'[lock] = row[lock] \/ row'[lock] \in ActiveStates
<1> DEFINE new == Synced(seen, reply)
<1>1. new = seen \/ new \in ActiveStates \cup TerminalStates
  BY DEF Synced, PlanState, ActiveStates, TerminalStates
<1>2. CASE new = seen
  BY <1>2 DEF Sync
<1>3. CASE new # seen /\ new \in TerminalStates
  <2>1. lock' = lock /\ lock # p /\ lock \in Plans
    BY <1>3 DEF Sync, Release, TypeOK
  <2> QED
    BY <1>3, <2>1 DEF Sync, TypeOK
<1>4. CASE new # seen /\ new \notin TerminalStates
  BY <1>1, <1>4 DEF Sync, TypeOK
<1> QED
  BY <1>2, <1>3, <1>4

\* The lock of a plan that has ended is freed by the apply that still awaits
\* inspect, or there is none.
LEMMA LockStep ==
  ASSUME TypeOK, Grounded, LockAnswered, [Next]_vars, "crash" \notin FaultKinds
  PROVE  LockAnswered'
<1> USE DEF TypeOK, LockAnswered, Returned, store, ApplyAwaits, ReplyAwaits,
           ActiveStates, TerminalStates, CallStates
<1>1. ASSUME NEW p \in Plans, CreatePlan(p)
      PROVE  LockAnswered'
  BY <1>1 DEF CreatePlan
<1>2. ASSUME NEW p \in Plans, FindExpired(p)
      PROVE  LockAnswered'
  BY <1>2 DEF FindExpired
<1>3. ASSUME NEW g \in Grants, Approve(g)
      PROVE  LockAnswered'
  BY <1>3 DEF Approve
<1>4. ASSUME NEW c \in Calls, NEW p \in Plans, StatusCall(c, p)
      PROVE  LockAnswered'
  BY <1>4 DEF StatusCall, Enter, Send
<1>5. ASSUME NEW c \in Calls, NEW p \in Plans, ConfirmSync(c, p)
      PROVE  LockAnswered'
  BY <1>5 DEF ConfirmSync, Enter, Send
<1>6. ASSUME NEW c \in Calls, NEW p \in Plans, ConfirmVerify(c, p)
      PROVE  LockAnswered'
  BY <1>6 DEF ConfirmVerify, Enter
<1>7. ASSUME NEW c \in Calls, NEW p \in Plans, RollbackCall(c, p)
      PROVE  LockAnswered'
  BY <1>7 DEF RollbackCall, Enter, Send
<1>8. ASSUME NEW c \in Calls, NEW g \in Grants, ApplyCall(c, g)
      PROVE  LockAnswered'
  BY <1>8 DEF ApplyCall, Enter
<1>9. ASSUME NEW c \in Calls, StatusReturn(c)
      PROVE  LockAnswered'
  <2>1. calls[c].plan \in Plans /\ calls[c].at # "inspecting"
    BY <1>9 DEF StatusReturn, Receive, Grounded
  <2>2. lock' # Null => /\ lock' = lock
                        /\ \/ row'[lock] = row[lock]
                           \/ row'[lock] \in ActiveStates
    BY <1>9, <2>1, SyncLock DEF StatusReturn
  <2>3. \A d \in Calls : calls[d].at = "inspecting" => calls'[d] = calls[d]
    BY <1>9, <2>1 DEF StatusReturn, Return
  <2> QED
    BY <2>2, <2>3
<1>10. ASSUME NEW c \in Calls, ConfirmSynced(c)
      PROVE  LockAnswered'
  <2>1. calls[c].plan \in Plans /\ calls[c].at # "inspecting"
    BY <1>10 DEF ConfirmSynced, Receive, Grounded
  <2>2. lock' # Null => /\ lock' = lock
                        /\ \/ row'[lock] = row[lock]
                           \/ row'[lock] \in ActiveStates
    BY <1>10, <2>1, SyncLock DEF ConfirmSynced
  <2>3. \A d \in Calls : calls[d].at = "inspecting" => calls'[d] = calls[d]
    BY <1>10, <2>1 DEF ConfirmSynced, Goto, Return
  <2> QED
    BY <2>2, <2>3
<1>11. ASSUME NEW c \in Calls, ConfirmOverdue(c)
      PROVE  LockAnswered'
  <2>1. calls[c].plan \in Plans /\ calls[c].at # "inspecting"
    BY <1>11 DEF ConfirmOverdue, Receive, Grounded
  <2>2. lock' # Null => /\ lock' = lock
                        /\ \/ row'[lock] = row[lock]
                           \/ row'[lock] \in ActiveStates
    BY <1>11, <2>1, SyncLock DEF ConfirmOverdue
  <2>3. \A d \in Calls : calls[d].at = "inspecting" => calls'[d] = calls[d]
    BY <1>11, <2>1 DEF ConfirmOverdue
  <2> QED
    BY <2>2, <2>3
<1>12. ASSUME NEW c \in Calls, ConfirmVerified(c)
      PROVE  LockAnswered'
  BY <1>12 DEF ConfirmVerified, Goto, Send
<1>13. ASSUME NEW c \in Calls, ConfirmRefused(c)
      PROVE  LockAnswered'
  BY <1>13 DEF ConfirmRefused, Return
<1>14. ASSUME NEW c \in Calls, ConfirmReturn(c)
      PROVE  LockAnswered'
  BY <1>14 DEF ConfirmReturn, Receive, Return, Mark, Release, Grounded
<1>15. ASSUME NEW c \in Calls, RollbackReturn(c)
      PROVE  LockAnswered'
  BY <1>15 DEF RollbackReturn, Receive, Return, Mark, Release, Grounded
<1>16. ASSUME NEW c \in Calls, ApplyStopped(c)
      PROVE  LockAnswered'
  BY <1>16 DEF ApplyStopped, Return, Release, Grounded
<1>17. ASSUME NEW c \in Calls, ApplyStart(c)
      PROVE  LockAnswered'
  BY <1>17 DEF ApplyStart, Goto, Send, Mark, Grounded
<1>18. ASSUME NEW c \in Calls, ApplySucceeds(c)
      PROVE  LockAnswered'
  BY <1>18 DEF ApplySucceeds, Receive, Goto, Mark, Grounded
<1>19. ASSUME NEW c \in Calls, ApplyLost(c)
      PROVE  LockAnswered'
  BY <1>19 DEF ApplyLost, Receive, Return, Mark, Grounded
<1>20. ASSUME NEW c \in Calls, ApplyRejected(c)
      PROVE  LockAnswered'
  BY <1>20 DEF ApplyRejected, Receive, Return, Mark, Release, Grounded
<1>21. ASSUME NEW c \in Calls, ApplyErrs(c)
      PROVE  LockAnswered'
  BY <1>21 DEF ApplyErrs, Receive, Return, Release, Grounded
<1>22. ASSUME NEW c \in Calls, ProbesPass(c)
      PROVE  LockAnswered'
  BY <1>22 DEF ProbesPass, Return
<1>23. ASSUME NEW c \in Calls, ProbesFail(c)
      PROVE  LockAnswered'
  BY <1>23 DEF ProbesFail, Goto, Send
<1>24. ASSUME NEW c \in Calls, UndoReturn(c)
      PROVE  LockAnswered'
  BY <1>24 DEF UndoReturn, Receive, Return, Mark, Release, Grounded
<1>25. CASE \/ Serve \/ Work \/ WatchdogRuns \/ Deadline \/ OperatorClears
          \/ Drift \/ RestoreFails \/ AgentDies \/ ClearKilled
  BY <1>25, RouterFrame DEF store
<1>26. ASSUME NEW c \in Calls, TransportFails(c)
      PROVE  LockAnswered'
  BY <1>26 DEF TransportFails
<1>27. ASSUME NEW c \in Calls, Cancel(c)
      PROVE  LockAnswered'
  BY <1>27 DEF Cancel, Return, Release
<1>28. CASE Crash
  BY <1>28 DEF Crash, Fault
<1>29. CASE UNCHANGED vars
  BY <1>29 DEF vars
<1> QED
  BY <1>1, <1>2, <1>3, <1>4, <1>5, <1>6, <1>7, <1>8, <1>9, <1>10, <1>11, <1>12,
    <1>13, <1>14, <1>15, <1>16, <1>17, <1>18, <1>19, <1>20, <1>21, <1>22,
    <1>23, <1>24, <1>25, <1>26, <1>27, <1>28, <1>29 DEF Next, Begin, Resume,
    Serve, Work, Failure

-------------------------------------------------------------------------------
(* Requests and replies.                                                   *)

\* What Abandon leaves of the requests and of the invocation.
LEMMA AbandonedRequests ==
  ASSUME TypeOK, NEW cs \in SUBSET Calls, Abandon(cs)
  PROVE  /\ \A r \in requests' : \E q \in requests :
              /\ r.op = q.op /\ r.plan = q.plan
              /\ q.by \in cs => r.by = Null
              /\ q.by \notin cs => r = q
         /\ \A r, q \in requests' :
              r.op = q.op /\ r.plan = q.plan /\ r.by = q.by => r = q
<1> DEFINE theirs == {r \in requests : r.by \in cs}
           orphans == {[r EXCEPT !.by = Null] :
                         r \in {q \in theirs : q.op # "status"}}
<1>1. requests' \subseteq (requests \ theirs) \cup orphans
  BY DEF Abandon
<1>2. \A r \in requests' : r \in Requests
  BY AbandonType
<1>3. ASSUME NEW r \in requests'
      PROVE  \E q \in requests : /\ r.op = q.op /\ r.plan = q.plan
                                 /\ q.by \in cs => r.by = Null
                                 /\ q.by \notin cs => r = q
  <2>1. CASE r \in requests \ theirs
    BY <2>1
  <2>2. CASE r \in orphans
    <3>1. PICK q \in theirs : r = [q EXCEPT !.by = Null]
      BY <2>2
    <3>2. q \in requests /\ q \in Requests /\ q.by \in cs
      BY <3>1 DEF TypeOK
    <3>3. r.op = q.op /\ r.plan = q.plan /\ r.by = Null
      BY <3>1, <3>2 DEF Requests
    <3> QED
      BY <3>2, <3>3
  <2> QED
    BY <1>1, <2>1, <2>2
<1>4. \A r, q \in Requests :
         r.op = q.op /\ r.plan = q.plan /\ r.by = q.by => r = q
  BY DEF Requests
<1>5. \A r, q \in requests' : /\ r.op = q.op
                               /\ r.plan = q.plan
                               /\ r.by = q.by => r = q
  BY <1>2, <1>4
<1>6. \A r \in requests' : \E q \in requests :
         /\ r.op = q.op /\ r.plan = q.plan
         /\ q.by \in cs => r.by = Null
         /\ q.by \notin cs => r = q
  BY <1>3
<1> QED
  BY <1>5, <1>6

\* ... and its caller is all it takes from the invocation.
LEMMA AbandonedRun ==
  ASSUME TypeOK, NEW cs \in SUBSET Calls, Abandon(cs), running' # Null
  PROVE  /\ running # Null
         /\ running'.op = running.op /\ running'.plan = running.plan
         /\ running'.verdict = running.verdict
         /\ running'.manual = running.manual
         /\ running.by \in cs => running'.by = Null
         /\ running.by \notin cs => running' = running
BY DEF Abandon, TypeOK, Invocations

\* A call that somebody is asked for waits, for one answer only.
LEMMA AskedStep ==
  ASSUME TypeOK, Grounded, Asked, [Next]_vars
  PROVE  Asked'
<1> USE DEF TypeOK, Asked, Awaited, Returned, ReplyAwaits, ApplyAwaits,
           CallStates, Requests, store, wire, router
<1> USE ServiceAssumption
<1>1. ASSUME NEW p \in Plans, CreatePlan(p)
      PROVE  Asked'
  BY <1>1 DEF CreatePlan
<1>2. ASSUME NEW p \in Plans, FindExpired(p)
      PROVE  Asked'
  BY <1>2 DEF FindExpired
<1>3. ASSUME NEW g \in Grants, Approve(g)
      PROVE  Asked'
  BY <1>3 DEF Approve
<1>4. ASSUME NEW c \in Calls, NEW p \in Plans, StatusCall(c, p)
      PROVE  Asked'
  BY <1>4 DEF StatusCall, Enter, Send
<1>5. ASSUME NEW c \in Calls, NEW p \in Plans, ConfirmSync(c, p)
      PROVE  Asked'
  BY <1>5 DEF ConfirmSync, Enter, Send
<1>6. ASSUME NEW c \in Calls, NEW p \in Plans, ConfirmVerify(c, p)
      PROVE  Asked'
  BY <1>6 DEF ConfirmVerify, Enter
<1>7. ASSUME NEW c \in Calls, NEW p \in Plans, RollbackCall(c, p)
      PROVE  Asked'
  BY <1>7 DEF RollbackCall, Enter, Send
<1>8. ASSUME NEW c \in Calls, NEW g \in Grants, ApplyCall(c, g)
      PROVE  Asked'
  BY <1>8 DEF ApplyCall, Enter
<1>9. ASSUME NEW c \in Calls, StatusReturn(c)
      PROVE  Asked'
  BY <1>9 DEF StatusReturn, Receive, Return, Sync, Mark, Release
<1>10. ASSUME NEW c \in Calls, ConfirmSynced(c)
      PROVE  Asked'
  <2>1. Goto(c, "verifying") \/ Return(c)
    BY <1>10 DEF ConfirmSynced
  <2>2. /\ calls[c].at = "syncing" /\ replies[c] # Null
        /\ replies' = [replies EXCEPT ![c] = Null]
        /\ UNCHANGED <<requests, running>>
    BY <1>10 DEF ConfirmSynced, Receive
  <2>3. \A d \in Calls : Awaited(d, calls[d].plan) =>
          d # c /\ calls'[d] = calls[d] /\ replies'[d] = replies[d]
    BY <2>1, <2>2 DEF Goto, Return
  <2>4. \A d \in Calls : calls'[d].at \notin ReplyAwaits => replies'[d] = Null
    BY <2>1, <2>2 DEF Goto, Return
  <2>5. \A d \in Calls, p \in Plans : Awaited(d, p) => Awaited(d, p)'
    BY <2>3
  <2> QED
    BY <2>2, <2>4, <2>5 DEF Invocations
<1>11. ASSUME NEW c \in Calls, ConfirmOverdue(c)
      PROVE  Asked'
  BY <1>11 DEF ConfirmOverdue, Receive, Send, Sync, Release
<1>12. ASSUME NEW c \in Calls, ConfirmVerified(c)
      PROVE  Asked'
  BY <1>12 DEF ConfirmVerified, Goto, Send
<1>13. ASSUME NEW c \in Calls, ConfirmRefused(c)
      PROVE  Asked'
  BY <1>13 DEF ConfirmRefused, Return
<1>14. ASSUME NEW c \in Calls, ConfirmReturn(c)
      PROVE  Asked'
  BY <1>14 DEF ConfirmReturn, Receive, Return, Mark, Release
<1>15. ASSUME NEW c \in Calls, RollbackReturn(c)
      PROVE  Asked'
  BY <1>15 DEF RollbackReturn, Receive, Return, Mark, Release
<1>16. ASSUME NEW c \in Calls, ApplyStopped(c)
      PROVE  Asked'
  BY <1>16 DEF ApplyStopped, Return, Release
<1>17. ASSUME NEW c \in Calls, ApplyStart(c)
      PROVE  Asked'
  BY <1>17 DEF ApplyStart, Goto, Send, Mark
<1>18. ASSUME NEW c \in Calls, ApplySucceeds(c)
      PROVE  Asked'
  BY <1>18 DEF ApplySucceeds, Receive, Goto, Mark
<1>19. ASSUME NEW c \in Calls, ApplyLost(c)
      PROVE  Asked'
  BY <1>19 DEF ApplyLost, Receive, Return, Mark
<1>20. ASSUME NEW c \in Calls, ApplyRejected(c)
      PROVE  Asked'
  BY <1>20 DEF ApplyRejected, Receive, Return, Mark, Release
<1>21. ASSUME NEW c \in Calls, ApplyErrs(c)
      PROVE  Asked'
  BY <1>21 DEF ApplyErrs, Receive, Return, Release
<1>22. ASSUME NEW c \in Calls, ProbesPass(c)
      PROVE  Asked'
  BY <1>22 DEF ProbesPass, Return
<1>23. ASSUME NEW c \in Calls, ProbesFail(c)
      PROVE  Asked'
  BY <1>23 DEF ProbesFail, Goto, Send
<1>24. ASSUME NEW c \in Calls, UndoReturn(c)
      PROVE  Asked'
  BY <1>24 DEF UndoReturn, Receive, Return, Mark, Release
<1>25. ASSUME NEW r \in requests, StatusAnswer(r)
      PROVE  Asked'
  BY <1>25 DEF StatusAnswer, Answer
<1>26. ASSUME NEW r \in requests, Refuse(r)
      PROVE  Asked'
  <2>1. PICK reply \in {"REFUSED", "ERROR"} : Decline(r, reply)
    BY <1>26 DEF Refuse
  <2> QED
    BY <2>1 DEF Decline, Answer
<1>27. ASSUME NEW r \in requests, NoTransaction(r)
      PROVE  Asked'
  BY <1>27 DEF NoTransaction, Decline, Answer
<1>28. ASSUME NEW r \in requests, ApplyArms(r)
      PROVE  Asked'
  BY <1>28 DEF ApplyArms, Run, Journal!Arm
<1>29. ASSUME NEW r \in requests, RollbackRuns(r)
      PROVE  Asked'
  BY <1>29 DEF RollbackRuns, Run
<1>30. ASSUME NEW r \in requests, ConfirmRuns(r)
      PROVE  Asked'
  BY <1>30 DEF ConfirmRuns, Run, Journal!Record
<1>31. CASE WatchdogRuns
  BY <1>31 DEF WatchdogRuns
<1>32. CASE ApplyDone
  BY <1>32 DEF ApplyDone, Finish, Answer, Undecided, Journal!Applied
<1>33. CASE ApplyStuck
  BY <1>33 DEF ApplyStuck, Finish, Answer, Undecided
<1>34. CASE Undo
  BY <1>34 DEF Undo, Undecided, Journal!Record, Journal!Judge
<1>35. CASE CloseJournal
  BY <1>35 DEF CloseJournal, Answer, Replies, Journal!Close,
         Journal!Remove
<1>36. CASE Deadline
  BY <1>36 DEF Deadline
<1>37. CASE OperatorClears \/ ClearKilled
  BY <1>37 DEF OperatorClears, ClearRead, ClearWrite, ClearUnlink, ClearKilled,
         Journal!Judge, Journal!Remove
<1>38. CASE Drift
  BY <1>38 DEF Drift, Finish, Answer, Undecided, Journal!Escalate, Journal!Return
<1>39. CASE RestoreFails
  BY <1>39 DEF RestoreFails, Finish, Answer, Undecided
<1>40. CASE AgentDies
  BY <1>40 DEF AgentDies, Finish, Answer
<1>41. ASSUME NEW c \in Calls, TransportFails(c)
      PROVE  Asked'
  <2> DEFINE cs == {c}
  <2>1. /\ Abandon(cs) /\ cs \in SUBSET Calls
        /\ \A d \in cs : calls'[d] = calls[d] /\ calls[d].at \in ReplyAwaits
        /\ \A d \in Calls \ cs : /\ calls'[d] = calls[d]
                                /\ replies'[d] = replies[d]
    BY <1>41 DEF TransportFails
  <2> HIDE DEF cs
  <2>2. ASSUME NEW r \in requests', r.by # Null
        PROVE  r \in requests /\ r.by \in Calls \ cs
    <3>1. PICK q \in requests :
            /\ q.by \in cs => r.by = Null
            /\ q.by \notin cs => r = q
      BY <2>1, AbandonedRequests
    <3>2. q.by \in Calls \cup {Null}
      BY DEF TypeOK, Requests
    <3>3. q.by \notin cs
      BY <2>2, <3>1
    <3> QED
      BY <2>2, <3>1, <3>2, <3>3
  <2>3. ASSUME running' # Null, running'.by # Null
        PROVE  running' = running /\ running.by \in Calls \ cs
    BY <2>1, <2>3, AbandonedRun DEF Invocations
  <2>4. \A d \in Calls : calls'[d].at \notin ReplyAwaits => replies'[d] = Null
    BY <2>1
  <2>5. \A r \in requests' : r.by # Null => Awaited(r.by, r.plan)'
    BY <2>1, <2>2
  <2>6. \A r, q \in requests' : r.by # Null /\ r.by = q.by => r = q
    BY <2>2
  <2>7. running' # Null /\ running'.by # Null =>
          /\ Awaited(running.by, running.plan)'
          /\ \A r \in requests' : r.by # running'.by
    BY <2>1, <2>2, <2>3
  <2> QED
    BY <2>4, <2>5, <2>6, <2>7, <2>3
<1>42. ASSUME NEW c \in Calls, Cancel(c)
      PROVE  Asked'
  <2> DEFINE cs == {c}
  <2>1. /\ Abandon(cs) /\ cs \in SUBSET Calls
        /\ \A d \in cs : replies'[d] = Null
        /\ \A d \in Calls \ cs : /\ calls'[d] = calls[d]
                                /\ replies'[d] = replies[d]
    BY <1>42 DEF Cancel, Return
  <2> HIDE DEF cs
  <2>2. ASSUME NEW r \in requests', r.by # Null
        PROVE  r \in requests /\ r.by \in Calls \ cs
    <3>1. PICK q \in requests :
            /\ q.by \in cs => r.by = Null
            /\ q.by \notin cs => r = q
      BY <2>1, AbandonedRequests
    <3>2. q.by \in Calls \cup {Null}
      BY DEF TypeOK, Requests
    <3>3. q.by \notin cs
      BY <2>2, <3>1
    <3> QED
      BY <2>2, <3>1, <3>2, <3>3
  <2>3. ASSUME running' # Null, running'.by # Null
        PROVE  running' = running /\ running.by \in Calls \ cs
    BY <2>1, <2>3, AbandonedRun DEF Invocations
  <2>4. \A d \in Calls : calls'[d].at \notin ReplyAwaits => replies'[d] = Null
    BY <2>1
  <2>5. \A r \in requests' : r.by # Null => Awaited(r.by, r.plan)'
    BY <2>1, <2>2
  <2>6. \A r, q \in requests' : r.by # Null /\ r.by = q.by => r = q
    BY <2>2
  <2>7. running' # Null /\ running'.by # Null =>
          /\ Awaited(running.by, running.plan)'
          /\ \A r \in requests' : r.by # running'.by
    BY <2>1, <2>2, <2>3
  <2> QED
    BY <2>4, <2>5, <2>6, <2>7, <2>3
<1>43. CASE Crash
  <2> DEFINE cs == Calls
  <2>1. /\ Abandon(cs) /\ cs \in SUBSET Calls
        /\ \A d \in cs : replies'[d] = Null
        /\ \A d \in Calls \ cs : /\ calls'[d] = calls[d]
                                /\ replies'[d] = replies[d]
    BY <1>43 DEF Crash
  <2> HIDE DEF cs
  <2>2. ASSUME NEW r \in requests', r.by # Null
        PROVE  r \in requests /\ r.by \in Calls \ cs
    <3>1. PICK q \in requests :
            /\ q.by \in cs => r.by = Null
            /\ q.by \notin cs => r = q
      BY <2>1, AbandonedRequests
    <3>2. q.by \in Calls \cup {Null}
      BY DEF TypeOK, Requests
    <3>3. q.by \notin cs
      BY <2>2, <3>1
    <3> QED
      BY <2>2, <3>1, <3>2, <3>3
  <2>3. ASSUME running' # Null, running'.by # Null
        PROVE  running' = running /\ running.by \in Calls \ cs
    BY <2>1, <2>3, AbandonedRun DEF Invocations
  <2>4. \A d \in Calls : calls'[d].at \notin ReplyAwaits => replies'[d] = Null
    BY <2>1
  <2>5. \A r \in requests' : r.by # Null => Awaited(r.by, r.plan)'
    BY <2>1, <2>2
  <2>6. \A r, q \in requests' : r.by # Null /\ r.by = q.by => r = q
    BY <2>2
  <2>7. running' # Null /\ running'.by # Null =>
          /\ Awaited(running.by, running.plan)'
          /\ \A r \in requests' : r.by # running'.by
    BY <2>1, <2>2, <2>3
  <2> QED
    BY <2>4, <2>5, <2>6, <2>7, <2>3
<1>44. CASE UNCHANGED vars
  BY <1>44 DEF vars
<1> QED
  BY <1>1, <1>2, <1>3, <1>4, <1>5, <1>6, <1>7, <1>8, <1>9, <1>10, <1>11, <1>12,
    <1>13, <1>14, <1>15, <1>16, <1>17, <1>18, <1>19, <1>20, <1>21, <1>22,
    <1>23, <1>24, <1>25, <1>26, <1>27, <1>28, <1>29, <1>30, <1>31, <1>32,
    <1>33, <1>34, <1>35, <1>36, <1>37, <1>38, <1>39, <1>40, <1>41, <1>42,
    <1>43, <1>44 DEF Next, Begin, Resume, Serve, Work, Failure

-------------------------------------------------------------------------------
(* The router's files and what became of its plans.                        *)

\* The steps of the service leave the router alone.
LEMMA ServiceFrame ==
  ASSUME \/ \E p \in Plans : CreatePlan(p) \/ FindExpired(p)
         \/ \E g \in Grants : Approve(g)
         \/ \E c \in Calls : Begin(c) \/ Resume(c)
  PROVE  UNCHANGED router
BY DEF Begin, Resume, CreatePlan, FindExpired, Approve, StatusCall,
       ConfirmSync, ConfirmVerify, RollbackCall, ApplyCall, StatusReturn,
       ConfirmSynced, ConfirmOverdue, ConfirmVerified, ConfirmRefused, ConfirmReturn,
       RollbackReturn, ApplyStopped, ApplyStart, ApplySucceeds, ApplyLost,
       ApplyRejected, ApplyErrs, ProbesPass, ProbesFail, UndoReturn

\* An abandoned call changes nothing on the router but whom it answers.
LEMMA FailureFrame ==
  ASSUME TypeOK, \/ \E c \in Calls : TransportFails(c) \/ Cancel(c)
                 \/ Crash
  PROVE  \E cs \in SUBSET Calls : Abandon(cs)
<1>1. ASSUME NEW c \in Calls, TransportFails(c) \/ Cancel(c)
      PROVE  \E cs \in SUBSET Calls : Abandon(cs)
  BY <1>1 DEF TransportFails, Cancel
<1>2. CASE Crash
  BY <1>2 DEF Crash
<1> QED
  BY <1>1, <1>2

\* Whose transaction it is that an invocation or a --clear attends to.
LEMMA AttendedIs ==
  ASSUME TypeOK, Held
  PROVE  /\ running # Null => running \in Invocations /\ running.plan \in Plans
         /\ running # Null /\ running.manual => Attended = running.plan
         /\ clearing.at # "idle" => Attended = clearing.plan
         /\ Attended # Null => \/ running # Null /\ running.manual
                               \/ clearing.at # "idle"
BY ServiceAssumption DEF TypeOK, Held, Attended, Invocations, NotClearing

\* What the router's files are told when an invocation decides, ...
LEMMA UndoIs ==
  ASSUME TypeOK, Held, Undo
  PROVE  /\ running # Null /\ running.verdict = Null
         /\ running.plan \in Plans
         /\ running' # Null /\ running'.verdict = "rolled_back"
         /\ running'.plan = running.plan /\ running'.op = running.op
         /\ running'.manual = running.manual /\ running'.by = running.by
         /\ verdict' # Null
         /\ verdict' = [plan |-> running.plan, state |-> "rolled_back"]
         /\ running.manual \/ (txn # Null /\ txn.plan = running.plan)
         /\ UNCHANGED <<txn, clearing>>
         /\ outcome' = IF txn = Null
                       THEN [outcome EXCEPT ![running.plan] = "rolled_back"]
                       ELSE outcome
<1>1. /\ running # Null /\ running.verdict = Null
      /\ running \in Invocations /\ running.plan \in Plans
  BY AttendedIs DEF Undo, Undecided
<1>2. /\ running' = [running EXCEPT !.verdict = "rolled_back"]
      /\ running' \in Invocations /\ running' # Null
  BY <1>1, NullAssumption DEF Undo, Invocations
<1>3. verdict' = [plan |-> running.plan, state |-> "rolled_back"]
      /\ (running.manual \/ (txn # Null /\ txn.plan = running.plan))
  <2>1. CASE running.manual
    BY <1>1, <2>1, AttendedIs DEF Undo, Journal!Judge
  <2>2. CASE ~running.manual
    BY <1>1, <2>2 DEF Undo, Journal!Record, Held
  <2> QED
    BY <2>1, <2>2
<1>4. verdict' # Null
  BY <1>1, <1>3, NullAssumption DEF Journal!Verdicts
<1>5. /\ running'.verdict = "rolled_back"
      /\ running'.plan = running.plan /\ running'.op = running.op
      /\ running'.manual = running.manual /\ running'.by = running.by
  BY <1>1, <1>2 DEF Invocations
<1> QED
  BY <1>1, <1>2, <1>3, <1>4, <1>5 DEF Undo

\* ... when it closes the journal, ...
LEMMA CloseIs ==
  ASSUME TypeOK, Held, CloseJournal
  PROVE  /\ running # Null /\ running.verdict # Null /\ running' = Null
         /\ txn' = Null
         /\ UNCHANGED <<verdict, clearing>>
         /\ outcome' = [outcome EXCEPT ![running.plan] = running.verdict]
BY DEF CloseJournal, Journal!Close, Journal!Remove

\* ... and when it finds a drifted configuration.
LEMMA DriftIs ==
  ASSUME TypeOK, Held, Drift
  PROVE  /\ running # Null /\ running' = Null
         /\ txn' = [plan |-> running.plan, state |-> "needs_manual"]
         /\ running.manual \/ txn # Null
         /\ UNCHANGED <<verdict, clearing, outcome>>
<1>1. running # Null
  BY DEF Drift, Undecided
<1>2. CASE running.manual
  BY <1>1, <1>2, AttendedIs DEF Drift, Finish, Journal!Return
<1>3. CASE ~running.manual
  <2>1. txn \in Journal!Transactions /\ txn.plan = running.plan
    BY <1>1, <1>3 DEF TypeOK, Held
  <2>2. txn' = [txn EXCEPT !.state = "needs_manual"]
    BY <1>3 DEF Drift, Journal!Escalate
  <2>3. txn' = [plan |-> running.plan, state |-> "needs_manual"]
    BY <2>1, <2>2 DEF Journal!Transactions
  <2> QED
    BY <1>1, <1>3, <2>3 DEF Drift, Finish, Held, Journal!Escalate
<1> QED
  BY <1>2, <1>3

\* What an operator's --clear tells them.
LEMMA ClearIs ==
  ASSUME TypeOK, Held, OperatorClears \/ ClearKilled
  PROVE  /\ UNCHANGED <<store, calls, wire, running>>
         /\ \/ /\ clearing = NotClearing
               /\ txn # Null /\ txn.state = "needs_manual"
               /\ clearing' = [at |-> "write", plan |-> txn.plan]
               /\ UNCHANGED <<txn, verdict, outcome>>
            \/ /\ clearing.at = "write"
               /\ clearing' = [clearing EXCEPT !.at = "unlink"]
               /\ verdict' = [plan |-> clearing.plan, state |-> "cleared_manually"]
               /\ UNCHANGED <<txn, outcome>>
            \/ /\ clearing.at = "unlink"
               /\ clearing' = NotClearing
               /\ txn' = Null /\ verdict' = verdict
               /\ outcome' = IF outcome[clearing.plan] = "rolled_back" THEN outcome
                             ELSE [outcome EXCEPT ![clearing.plan] = verdict.state]
            \/ /\ clearing' = NotClearing
               /\ UNCHANGED <<txn, verdict, outcome>>
<1>1. CASE ClearRead
  BY <1>1 DEF ClearRead, wire
<1>2. CASE ClearWrite
  <2>1. Attended = clearing.plan
    BY <1>2, AttendedIs DEF ClearWrite
  <2> QED
    BY <1>2, <2>1 DEF ClearWrite, Journal!Judge
<1>3. CASE ClearUnlink
  BY <1>3 DEF ClearUnlink, Journal!Remove
<1>4. CASE ClearKilled
  BY <1>4 DEF ClearKilled
<1> QED
  BY <1>1, <1>2, <1>3, <1>4 DEF OperatorClears

\* The open transaction.
LEMMA TxnIs ==
  ASSUME TypeOK, txn # Null
  PROVE  /\ txn.plan \in Plans
         /\ txn.state \in Journal!OpenStates \cup {"needs_manual"}
         /\ txn = [plan |-> txn.plan, state |-> txn.state]
BY DEF TypeOK, Journal!Transactions

\* No step but those of the invocations that follow, and of a --clear, writes
\* the router's files.
FilesKept ==
  /\ UNCHANGED <<clearing, txn, verdict, outcome>>
  /\ running' # Null => /\ running # Null /\ running'.plan = running.plan
                        /\ running'.op = running.op
                        /\ running'.verdict = running.verdict
                        /\ running'.manual = running.manual

\* They are the steps of a service, the answers that refuse, and the failures.
LEMMA FilesFrom ==
  ASSUME TypeOK, [Next]_vars,
         \A r \in requests : ~ApplyArms(r) /\ ~RollbackRuns(r) /\ ~ConfirmRuns(r),
         ~WatchdogRuns, ~ApplyDone, ~Undo, ~CloseJournal, ~Drift,
         ~(OperatorClears \/ ClearKilled)
  PROVE  FilesKept
<1>1. CASE
        \/ \E p \in Plans : CreatePlan(p) \/ FindExpired(p)
        \/ \E g \in Grants : Approve(g)
        \/ \E c \in Calls : Begin(c) \/ Resume(c)
  BY <1>1, ServiceFrame DEF FilesKept, router
<1>2. ASSUME NEW r \in requests, StatusAnswer(r) \/ Refuse(r) \/ NoTransaction(r)
      PROVE  FilesKept
  BY <1>2 DEF StatusAnswer, Refuse, NoTransaction, Decline, FilesKept, router
<1>3. CASE Deadline
  BY <1>3 DEF Deadline, FilesKept
<1>4. CASE ApplyStuck \/ RestoreFails \/ AgentDies
  BY <1>4 DEF ApplyStuck, RestoreFails, AgentDies, Finish, FilesKept
<1>5. CASE
        \/ \E c \in Calls : TransportFails(c) \/ Cancel(c)
        \/ Crash
  <2>1. PICK cs \in SUBSET Calls : Abandon(cs)
    BY <1>5, FailureFrame
  <2>2. UNCHANGED <<clearing, txn, verdict, outcome>>
    BY <2>1 DEF Abandon
  <2> QED
    BY <2>1, <2>2, AbandonedRun DEF FilesKept
<1>6. CASE UNCHANGED vars
  BY <1>6 DEF vars, router, FilesKept
<1> QED
  BY <1>1, <1>2, <1>3, <1>4, <1>5, <1>6 DEF Next, Serve, Work, Failure

\* An invocation that starts notes what it has read.
LEMMA RunIs ==
  ASSUME TypeOK, NEW r \in requests, NEW decided \in {"confirmed", Null},
         r.op \in {"apply", "confirm", "rollback"}, Run(r, decided)
  PROVE  /\ running = Null /\ running' # Null
         /\ r.plan \in Plans
         /\ running'.op = r.op /\ running'.plan = r.plan
         /\ running'.verdict = decided
         /\ running'.manual = (txn # Null /\ txn.state = "needs_manual")
<1>1. running' = [op |-> r.op, plan |-> r.plan, by |-> r.by, verdict |-> decided,
                  manual |-> txn # Null /\ txn.state = "needs_manual"]
      /\ running = Null
  BY DEF Run
<1>2. running' \in Invocations
  BY <1>1 DEF TypeOK, Requests, Invocations
<1>3. running' # Null
  BY <1>2, NullAssumption
<1> QED
  BY <1>1, <1>3 DEF TypeOK, Requests

\* A confirm is one of a transaction that is applied.
LEMMA ConfirmIs ==
  ASSUME TypeOK, NEW r \in requests, ConfirmRuns(r)
  PROVE  /\ txn # Null /\ txn.plan = r.plan /\ txn.state = "applied_unconfirmed"
         /\ running' # Null /\ running'.plan = r.plan /\ ~running'.manual
         /\ UNCHANGED <<clearing, txn, outcome>>
         /\ \/ running'.verdict = Null /\ verdict' = verdict
            \/ /\ running'.verdict = "confirmed"
               /\ verdict' = [plan |-> r.plan, state |-> "confirmed"]
<1>1. /\ txn # Null /\ txn.plan = r.plan /\ txn.state = "applied_unconfirmed"
      /\ r.op = "confirm"
  BY DEF ConfirmRuns, Opened
<1>2. CASE due
  BY <1>1, <1>2, RunIs DEF ConfirmRuns
<1>3. CASE ~due
  BY <1>1, <1>3, RunIs DEF ConfirmRuns, Journal!Record
<1> QED
  BY <1>1, <1>2, <1>3

\* An apply starts when nothing is open and nobody clears.
LEMMA ArmIs ==
  ASSUME TypeOK, Held, NEW r \in requests, ApplyArms(r)
  PROVE  /\ txn = Null /\ clearing.at = "idle" /\ UNCHANGED <<clearing, verdict>>
         /\ txn' = [plan |-> r.plan, state |-> "armed"] /\ txn' # Null
         /\ r.plan \in Plans
         /\ running' # Null /\ running'.plan = r.plan /\ ~running'.manual
         /\ running'.verdict = Null
         /\ outcome' = [outcome EXCEPT ![r.plan] = "open"]
<1>1. txn = Null /\ Attended = Null /\ r.op = "apply" /\ Run(r, Null)
  BY DEF ApplyArms, Journal!Arm
<1>2. clearing.at = "idle"
  BY <1>1, AttendedIs, ServiceAssumption DEF Held
<1>3. txn' = [plan |-> r.plan, state |-> "armed"] /\ UNCHANGED <<clearing, verdict>>
  BY DEF ApplyArms, Journal!Arm
<1>4. r.plan \in Plans
  BY <1>1, RunIs
<1>5. txn' # Null
  BY <1>3, <1>4, NullAssumption DEF Journal!Transactions, Journal!OpenStates
<1> QED
  BY <1>1, <1>2, <1>3, <1>4, <1>5, RunIs DEF ApplyArms

\* An apply that has applied its plan.
LEMMA ApplyDoneIs ==
  ASSUME TypeOK, ApplyDone
  PROVE  /\ running' = Null /\ txn # Null /\ txn.state = "armed" /\ txn' # Null
         /\ txn' = [plan |-> txn.plan, state |-> "applied_unconfirmed"]
         /\ UNCHANGED <<clearing, verdict, outcome>>
<1>1. /\ txn # Null /\ txn.state = "armed" /\ running' = Null
      /\ txn' = [txn EXCEPT !.state = "applied_unconfirmed"]
      /\ UNCHANGED <<clearing, verdict, outcome>>
  BY DEF ApplyDone, Finish, Journal!Applied, Journal!Open
<1>2. txn' = [plan |-> txn.plan, state |-> "applied_unconfirmed"]
  BY <1>1 DEF TypeOK, Journal!Transactions
<1>3. txn' # Null
  BY <1>1, <1>2, TxnIs, NullAssumption DEF Journal!Transactions, Journal!OpenStates
<1> QED
  BY <1>1, <1>2, <1>3

\* An invocation and a --clear attend to the same transaction, or the invocation
\* has its transaction to itself.
LEMMA HeldStep ==
  ASSUME TypeOK, Held, [Next]_vars
  PROVE  Held'
<1> USE DEF Held, Journal!OpenStates
<1>1. ASSUME NEW r \in requests, ApplyArms(r)
      PROVE  Held'
  <2>1. txn'.plan = r.plan /\ txn'.state = "armed"
    BY <1>1, ArmIs
  <2> QED
    BY <1>1, <2>1, ArmIs
<1>2. ASSUME NEW r \in requests, RollbackRuns(r)
      PROVE  Held'
  <2>1. /\ txn # Null /\ txn.plan = r.plan /\ UNCHANGED <<clearing, txn>>
        /\ r.op = "rollback" /\ Run(r, Null)
    BY <1>2 DEF RollbackRuns, Opened
  <2>2. /\ running = Null /\ running' # Null /\ running'.plan = txn.plan
        /\ running'.manual = (txn.state = "needs_manual")
    BY <2>1, RunIs
  <2>3. /\ txn = [plan |-> txn.plan, state |-> txn.state]
        /\ txn.state \in {"armed", "applied_unconfirmed", "needs_manual"}
    BY <2>1, TxnIs
  <2>4. clearing.at # "idle" =>
          txn = [plan |-> clearing.plan, state |-> "needs_manual"]
          /\ txn.state = "needs_manual" /\ txn.plan = clearing.plan
    BY <2>1
  <2> QED
    BY <2>1, <2>2, <2>3, <2>4
<1>3. ASSUME NEW r \in requests, ConfirmRuns(r)
      PROVE  Held'
  BY <1>3, ConfirmIs
<1>4. CASE WatchdogRuns
  <2>1. /\ txn # Null /\ txn.state \in {"armed", "applied_unconfirmed"}
        /\ UNCHANGED <<clearing, txn>>
        /\ running' = [op |-> "tick", plan |-> txn.plan, by |-> Null,
                       verdict |-> Null, manual |-> FALSE]
    BY <1>4 DEF WatchdogRuns
  <2> QED
    BY <2>1
<1>5. CASE ApplyDone
  BY <1>5, ApplyDoneIs
<1>6. CASE Undo
  BY <1>6, UndoIs
<1>7. CASE CloseJournal
  BY <1>7, CloseIs
<1>8. CASE Drift
  BY <1>8, DriftIs
<1>9. CASE OperatorClears \/ ClearKilled
  <2>1. running' = running
    BY <1>9, ClearIs
  <2>2. CASE clearing' = NotClearing /\ (txn' = txn \/ txn' = Null)
    <3>1. clearing'.at = "idle"
      BY <2>2 DEF NotClearing
    <3>2. CASE txn' = txn
      BY <2>1, <3>1, <3>2
    <3>3. CASE txn' = Null /\ clearing.at = "unlink"
      BY <2>1, <3>1, <3>3
    <3> QED
      BY <1>9, <2>2, <3>2, <3>3, ClearIs DEF NotClearing
  <2>3. CASE /\ txn # Null /\ txn.state = "needs_manual" /\ txn' = txn
             /\ clearing' = [at |-> "write", plan |-> txn.plan]
    BY <2>1, <2>3, TxnIs
  <2>4. CASE clearing' = [clearing EXCEPT !.at = "unlink"] /\ clearing.at = "write"
             /\ txn' = txn
    <3>1. clearing'.plan = clearing.plan
      BY <2>4 DEF TypeOK
    <3> QED
      BY <2>1, <2>4, <3>1
  <2> QED
    BY <1>9, <2>2, <2>3, <2>4, ClearIs
<1>10. CASE FilesKept
  BY <1>10 DEF FilesKept
<1> QED
  BY <1>1, <1>2, <1>3, <1>4, <1>5, <1>6, <1>7, <1>8, <1>9, <1>10, FilesFrom

\* The journal and the verdict say what became of their plans.
LEMMA RecordedStep ==
  ASSUME TypeOK, Recorded, [Next]_vars
  PROVE  Recorded'
<1>0. Held /\ Held'
  BY HeldStep DEF Recorded
<1>a. \A at \in {"idle", "write", "unlink"} : \A p :
        [at |-> at, plan |-> p].at = at /\ [at |-> at, plan |-> p].plan = p
  OBVIOUS
<1> USE <1>0, ServiceAssumption DEF Recorded, Attended
<1>1. ASSUME NEW r \in requests, ApplyArms(r)
      PROVE  Recorded'
  <2>1. txn'.plan = r.plan /\ txn'.state = "armed"
    BY <1>1, ArmIs
  <2>2. outcome'[r.plan] = "open"
        /\ \A p \in Plans \ {r.plan} : outcome'[p] = outcome[p]
    BY <1>1, ArmIs DEF TypeOK
  <2>3. verdict # Null => verdict.plan \in Plans
    BY DEF TypeOK, Journal!Verdicts
  <2> QED
    BY <1>1, <2>1, <2>2, <2>3, ArmIs
<1>2. ASSUME NEW r \in requests, RollbackRuns(r)
      PROVE  Recorded'
  <2>1. /\ txn # Null /\ txn.plan = r.plan /\ r.op = "rollback" /\ Run(r, Null)
        /\ UNCHANGED <<clearing, txn, verdict, outcome>>
    BY <1>2 DEF RollbackRuns, Opened
  <2> QED
    BY <2>1, RunIs
<1>3. ASSUME NEW r \in requests, ConfirmRuns(r)
      PROVE  Recorded'
  <2>1. clearing.at = "idle"
    BY <1>3, ConfirmIs DEF Held
  <2>2. /\ txn # Null /\ running' # Null /\ running'.plan = txn.plan
        /\ ~running'.manual /\ UNCHANGED <<clearing, txn, outcome>>
    BY <1>3, ConfirmIs
  <2>3. CASE running'.verdict = Null /\ verdict' = verdict
    BY <2>1, <2>2, <2>3
  <2>4. CASE running'.verdict = "confirmed"
             /\ verdict' = [plan |-> txn.plan, state |-> "confirmed"]
    <3>1. verdict' # Null /\ verdict'.plan = txn.plan /\ verdict'.state = "confirmed"
      BY <2>2, <2>4, TxnIs, NullAssumption DEF Journal!Verdicts
    <3> QED
      BY <2>1, <2>2, <2>4, <3>1
  <2> QED
    BY <1>3, <2>3, <2>4, ConfirmIs
<1>4. CASE WatchdogRuns
  <2>1. /\ txn # Null /\ UNCHANGED <<clearing, txn, verdict, outcome>>
        /\ running' = [op |-> "tick", plan |-> txn.plan, by |-> Null,
                       verdict |-> Null, manual |-> FALSE]
    BY <1>4 DEF WatchdogRuns
  <2> QED
    BY <2>1
<1>5. CASE ApplyDone
  <2>1. txn'.plan = txn.plan /\ outcome[txn.plan] = "open"
    BY <1>5, ApplyDoneIs
  <2> QED
    BY <1>5, <2>1, ApplyDoneIs
<1>6. CASE Undo
  <2>1. /\ running # Null /\ running.plan \in Plans
        /\ running' # Null /\ running'.plan = running.plan
        /\ running'.manual = running.manual /\ running'.verdict = "rolled_back"
    BY <1>6, UndoIs
  <2>2. verdict' # Null /\ verdict'.plan = running.plan
        /\ verdict'.state = "rolled_back"
    BY <1>6, UndoIs
  <2>3. clearing' = clearing /\ txn' = txn
    BY <1>6, UndoIs
  <2>4. clearing.at # "idle" => running.plan = clearing.plan
    BY <2>1 DEF Held
  <2>5. CASE txn = Null
    <3>1. outcome'[running.plan] = "rolled_back"
      BY <1>6, <2>1, <2>5, UndoIs DEF TypeOK
    <3> QED
      BY <2>1, <2>2, <2>3, <2>4, <2>5, <3>1
  <2>6. CASE txn # Null
    <3>1. txn.plan = running.plan
      BY <2>1, <2>6 DEF Held
    <3>2. outcome' = outcome
      BY <1>6, <2>6, UndoIs
    <3> QED
      BY <2>1, <2>2, <2>3, <2>4, <2>6, <3>1, <3>2
  <2> QED
    BY <2>5, <2>6
<1>7. CASE CloseJournal
  <2>1. /\ running # Null /\ running' = Null /\ running.plan \in Plans
        /\ txn' = Null /\ UNCHANGED <<verdict, clearing>>
        /\ verdict # Null /\ verdict.plan = running.plan
        /\ outcome'[running.plan] = running.verdict
        /\ \/ verdict.state = running.verdict
           \/ verdict.state = "cleared_manually" /\ running.verdict = "rolled_back"
    BY <1>7, CloseIs, AttendedIs DEF TypeOK
  <2>2. clearing.at # "idle" =>
          running.plan = clearing.plan /\ running.verdict = "rolled_back"
    BY <1>7, <2>1, CloseIs DEF Held
  <2> QED
    BY <2>1, <2>2
<1>8. CASE Drift
  <2>1. /\ running # Null /\ running' = Null /\ running.plan \in Plans
        /\ txn' # Null /\ txn'.plan = running.plan /\ txn'.state = "needs_manual"
        /\ UNCHANGED <<verdict, clearing, outcome>>
    BY <1>8, DriftIs, AttendedIs, NullAssumption DEF Journal!Transactions
  <2>2. outcome[running.plan] \in {"open", "cleared_manually", "rolled_back"}
    BY <1>8, <2>1, DriftIs, AttendedIs DEF Held
  <2>3. txn # Null => txn.plan = running.plan
    BY <2>1 DEF Held
  <2> QED
    BY <1>8, <2>1, <2>2, <2>3, DriftIs
<1>9. CASE OperatorClears \/ ClearKilled
  <2>1. running' = running
    BY <1>9, ClearIs
  <2>2. CASE /\ clearing = NotClearing
             /\ txn # Null /\ txn.state = "needs_manual"
             /\ clearing' = [at |-> "write", plan |-> txn.plan]
             /\ UNCHANGED <<txn, verdict, outcome>>
    BY <2>1, <2>2
  <2>3. CASE /\ clearing.at = "write"
             /\ clearing' = [clearing EXCEPT !.at = "unlink"]
             /\ verdict' = [plan |-> clearing.plan, state |-> "cleared_manually"]
             /\ UNCHANGED <<txn, outcome>>
    <3>1. clearing'.at = "unlink" /\ clearing'.plan = clearing.plan
          /\ clearing.plan \in Plans
      BY <2>3 DEF TypeOK, Held
    <3>2. verdict' # Null /\ verdict'.plan = clearing.plan
          /\ verdict'.state = "cleared_manually"
      BY <2>3, <3>1, NullAssumption DEF Journal!Verdicts
    <3>3. running # Null => running.manual /\ running.plan = clearing.plan
      BY <2>3 DEF Held
    <3>4. txn # Null => txn.plan = clearing.plan
      BY <2>3 DEF Held
    <3>5. txn = Null => outcome[clearing.plan] \in {"cleared_manually", "rolled_back"}
      BY <2>3, <3>1
    <3> QED
      BY <2>1, <2>3, <3>1, <3>2, <3>3, <3>4, <3>5
  <2>4. CASE /\ clearing.at = "unlink"
             /\ clearing' = NotClearing
             /\ txn' = Null /\ verdict' = verdict
             /\ outcome' = IF outcome[clearing.plan] = "rolled_back" THEN outcome
                           ELSE [outcome EXCEPT ![clearing.plan] = verdict.state]
    <3>1. /\ verdict # Null /\ verdict.plan = clearing.plan
          /\ clearing.plan \in Plans
          /\ verdict.state \in {"cleared_manually", "rolled_back"}
      BY <2>4 DEF Held
    <3>2. \/ outcome'[clearing.plan] = verdict.state
          \/ outcome'[clearing.plan] = "rolled_back" /\ outcome' = outcome
      BY <2>4, <3>1 DEF TypeOK
    <3>3. outcome'[clearing.plan] = "rolled_back" \/ outcome'[clearing.plan] = verdict.state
      BY <3>2
    <3>4. outcome[clearing.plan] = "rolled_back" =>
            outcome'[clearing.plan] = "rolled_back"
      BY <2>4
    <3>5. running # Null => running.manual /\ running.plan = clearing.plan
      BY <2>4 DEF Held
    <3>6. clearing'.at = "idle"
      BY <2>4 DEF NotClearing
    <3>7. \/ outcome'[clearing.plan] = verdict.state
          \/ /\ verdict.state = "cleared_manually"
             /\ outcome'[clearing.plan] = "rolled_back"
      BY <3>1, <3>2
    <3> QED
      BY <2>1, <2>4, <3>1, <3>3, <3>5, <3>6, <3>7
  <2>5. CASE clearing' = NotClearing /\ UNCHANGED <<txn, verdict, outcome>>
    <3>1. clearing'.at = "idle"
      BY <2>5 DEF NotClearing
    <3>2. running # Null /\ running.manual => Attended = running.plan
      BY AttendedIs
    <3> QED
      BY <2>1, <2>5, <3>1, <3>2
  <2> QED
    BY <1>9, <2>2, <2>3, <2>4, <2>5, ClearIs
<1>10. CASE FilesKept
  <2>1. /\ UNCHANGED <<clearing, txn, verdict, outcome>>
        /\ running' # Null => /\ running # Null /\ running'.plan = running.plan
                              /\ running'.verdict = running.verdict
                              /\ running'.manual = running.manual
    BY <1>10 DEF FilesKept
  <2> QED
    BY <2>1
<1> QED
  BY <1>1, <1>2, <1>3, <1>4, <1>5, <1>6, <1>7, <1>8, <1>9, <1>10, FilesFrom

\* Neither the end of a transaction nor a --clear lets an outcome begin.
LEMMA OutcomeBegun ==
  ASSUME TypeOK, Recorded, Undo \/ CloseJournal \/ OperatorClears \/ ClearKilled
  PROVE  \A p \in Plans : (outcome'[p] = "none") <=> (outcome[p] = "none")
<1>1. Held
  BY DEF Recorded
<1>2. CASE Undo
  <2>1. running # Null /\ running.plan \in Plans
        /\ (txn = Null => running.manual)
    BY <1>1, <1>2, UndoIs
  <2>2. txn = Null => outcome[running.plan] # "none"
    BY <1>1, <2>1, AttendedIs, ServiceAssumption DEF Recorded
  <2> QED
    BY <1>1, <1>2, <2>1, <2>2, UndoIs DEF TypeOK
<1>3. CASE CloseJournal
  <2>1. /\ running.plan \in Plans
        /\ running.verdict \in {"confirmed", "rolled_back"}
    BY <1>1, <1>3, CloseIs, AttendedIs DEF Invocations
  <2>2. outcome[running.plan] # "none"
    BY <1>1, <1>3, CloseIs, AttendedIs DEF Recorded, Held
  <2> QED
    BY <1>1, <1>3, <2>1, <2>2, CloseIs DEF TypeOK
<1>4. CASE clearing.at = "unlink" /\ (OperatorClears \/ ClearKilled)
  <2>1. /\ clearing.plan \in Plans
        /\ verdict.state \in {"cleared_manually", "rolled_back"}
    BY <1>1, <1>4 DEF Recorded, Held
  <2>2. outcome[clearing.plan] # "none"
    BY <1>1, <1>4, <2>1, AttendedIs, ServiceAssumption DEF Recorded, Held
  <2>3. \/ outcome' = outcome
        \/ outcome' = [outcome EXCEPT ![clearing.plan] = verdict.state]
    BY <1>1, <1>4, ClearIs
  <2> QED
    BY <2>1, <2>2, <2>3 DEF TypeOK
<1>5. CASE clearing.at # "unlink" /\ (OperatorClears \/ ClearKilled)
  BY <1>1, <1>5, ClearIs
<1> QED
  BY <1>2, <1>3, <1>4, <1>5

\* Only one apply of a plan is ever sent, with the plan's one grant.
LEMMA OneApplyStep ==
  ASSUME TypeOK, Grounded, Recorded, OneApply, OneGrant, [Next]_vars
  PROVE  OneApply'
<1> USE DEF TypeOK, OneApply, Requests, store, wire, router
<1>1. ASSUME NEW p \in Plans, CreatePlan(p)
      PROVE  OneApply'
  BY <1>1 DEF CreatePlan
<1>2. ASSUME NEW p \in Plans, FindExpired(p)
      PROVE  OneApply'
  BY <1>2 DEF FindExpired
<1>3. ASSUME NEW g \in Grants, Approve(g)
      PROVE  OneApply'
  BY <1>3 DEF Approve
<1>4. ASSUME NEW c \in Calls, NEW p \in Plans, StatusCall(c, p)
      PROVE  OneApply'
  BY <1>4 DEF StatusCall, Enter, Send
<1>5. ASSUME NEW c \in Calls, NEW p \in Plans, ConfirmSync(c, p)
      PROVE  OneApply'
  BY <1>5 DEF ConfirmSync, Enter, Send
<1>6. ASSUME NEW c \in Calls, NEW p \in Plans, ConfirmVerify(c, p)
      PROVE  OneApply'
  BY <1>6 DEF ConfirmVerify, Enter
<1>7. ASSUME NEW c \in Calls, NEW p \in Plans, RollbackCall(c, p)
      PROVE  OneApply'
  BY <1>7 DEF RollbackCall, Enter, Send
<1>8. ASSUME NEW c \in Calls, NEW g \in Grants, ApplyCall(c, g)
      PROVE  OneApply'
  BY <1>8 DEF ApplyCall, Enter
<1>9. ASSUME NEW c \in Calls, StatusReturn(c)
      PROVE  OneApply'
  BY <1>9 DEF StatusReturn, Receive, Return, Sync, Mark, Release
<1>10. ASSUME NEW c \in Calls, ConfirmSynced(c)
      PROVE  OneApply'
  BY <1>10 DEF ConfirmSynced, Receive, Return, Goto, Sync, Release
<1>11. ASSUME NEW c \in Calls, ConfirmOverdue(c)
      PROVE  OneApply'
  BY <1>11 DEF ConfirmOverdue, Receive, Send, Sync, Release
<1>12. ASSUME NEW c \in Calls, ConfirmVerified(c)
      PROVE  OneApply'
  BY <1>12 DEF ConfirmVerified, Goto, Send
<1>13. ASSUME NEW c \in Calls, ConfirmRefused(c)
      PROVE  OneApply'
  BY <1>13 DEF ConfirmRefused, Return
<1>14. ASSUME NEW c \in Calls, ConfirmReturn(c)
      PROVE  OneApply'
  BY <1>14 DEF ConfirmReturn, Receive, Return, Mark, Release
<1>15. ASSUME NEW c \in Calls, RollbackReturn(c)
      PROVE  OneApply'
  BY <1>15 DEF RollbackReturn, Receive, Return, Mark, Release
<1>16. ASSUME NEW c \in Calls, ApplyStopped(c)
      PROVE  OneApply'
  BY <1>16 DEF ApplyStopped, Return, Release
<1>17. ASSUME NEW c \in Calls, ApplyStart(c)
      PROVE  OneApply'
  <2> DEFINE p == calls[c].plan
  <2>1. /\ calls[c].grant \in granted /\ calls[c].grant \in Grants
        /\ p \in Plans /\ PlanOf[calls[c].grant] = p
    BY <1>17 DEF ApplyStart, Grounded
  <2>2. /\ calls[c].grant \notin consumed
        /\ consumed' = consumed \cup {calls[c].grant}
        /\ requests' = requests \cup {[op |-> "apply", plan |-> p, by |-> c]}
        /\ outcome' = outcome
    BY <1>17 DEF ApplyStart, Send
  <2>3. \A g \in consumed : PlanOf[g] # p
    BY <2>1, <2>2 DEF OneGrant
  <2>4. outcome[p] = "none" /\ \A r \in requests : r.op = "apply" => r.plan # p
    BY <2>1, <2>3
  <2> HIDE DEF p
  <2>5. \A r \in requests' : \/ r \in requests
                             \/ r = [op |-> "apply", plan |-> p, by |-> c]
    BY <2>2
  <2>6. \A r, q \in requests' :
          r.op = "apply" /\ q.op = "apply" /\ r.plan = q.plan => r = q
    BY <2>4, <2>5
  <2>7. \A r \in requests' : r.op = "apply" => outcome'[r.plan] = "none"
    BY <2>2, <2>4, <2>5
  <2>8. \A r \in requests' :
          r.op = "apply" => \E g \in consumed' : PlanOf[g] = r.plan
    BY <2>1, <2>2, <2>5
  <2> QED
    BY <2>2, <2>6, <2>7, <2>8
<1>18. ASSUME NEW c \in Calls, ApplySucceeds(c)
      PROVE  OneApply'
  BY <1>18 DEF ApplySucceeds, Receive, Goto, Mark
<1>19. ASSUME NEW c \in Calls, ApplyLost(c)
      PROVE  OneApply'
  BY <1>19 DEF ApplyLost, Receive, Return, Mark
<1>20. ASSUME NEW c \in Calls, ApplyRejected(c)
      PROVE  OneApply'
  BY <1>20 DEF ApplyRejected, Receive, Return, Mark, Release
<1>21. ASSUME NEW c \in Calls, ApplyErrs(c)
      PROVE  OneApply'
  BY <1>21 DEF ApplyErrs, Receive, Return, Release
<1>22. ASSUME NEW c \in Calls, ProbesPass(c)
      PROVE  OneApply'
  BY <1>22 DEF ProbesPass, Return
<1>23. ASSUME NEW c \in Calls, ProbesFail(c)
      PROVE  OneApply'
  BY <1>23 DEF ProbesFail, Goto, Send
<1>24. ASSUME NEW c \in Calls, UndoReturn(c)
      PROVE  OneApply'
  BY <1>24 DEF UndoReturn, Receive, Return, Mark, Release
<1>25. ASSUME NEW r \in requests, StatusAnswer(r)
      PROVE  OneApply'
  BY <1>25 DEF StatusAnswer, Answer
<1>26. ASSUME NEW r \in requests, Refuse(r)
      PROVE  OneApply'
  BY <1>26 DEF Refuse, Decline, Answer
<1>27. ASSUME NEW r \in requests, NoTransaction(r)
      PROVE  OneApply'
  BY <1>27 DEF NoTransaction, Decline, Answer
<1>28. ASSUME NEW r \in requests, ApplyArms(r)
      PROVE  OneApply'
  BY <1>28 DEF ApplyArms, Run, Journal!Arm
<1>29. ASSUME NEW r \in requests, RollbackRuns(r)
      PROVE  OneApply'
  BY <1>29 DEF RollbackRuns, Run
<1>30. ASSUME NEW r \in requests, ConfirmRuns(r)
      PROVE  OneApply'
  BY <1>30 DEF ConfirmRuns, Run, Journal!Record
<1>31. CASE WatchdogRuns
  BY <1>31 DEF WatchdogRuns
<1>32. CASE ApplyDone
  BY <1>32 DEF ApplyDone, Finish, Answer, Undecided, Journal!Applied
<1>33. CASE ApplyStuck
  BY <1>33 DEF ApplyStuck, Finish, Answer, Undecided
<1>34. CASE Undo \/ CloseJournal
  <2>1. /\ UNCHANGED <<consumed, requests>>
        /\ \A p \in Plans : outcome[p] = "none" => outcome'[p] = "none"
        /\ \A p \in Plans : outcome'[p] # "none" => outcome[p] # "none"
    BY <1>34, OutcomeBegun DEF Undo, CloseJournal
  <2> QED
    BY <2>1
<1>36. CASE Deadline
  BY <1>36 DEF Deadline
<1>37. CASE OperatorClears \/ ClearKilled
  <2>1. /\ UNCHANGED <<consumed, requests>>
        /\ \A p \in Plans : outcome[p] = "none" => outcome'[p] = "none"
        /\ \A p \in Plans : outcome'[p] # "none" => outcome[p] # "none"
    BY <1>37, OutcomeBegun, ClearIs DEF Recorded
  <2> QED
    BY <2>1
<1>38. CASE Drift
  BY <1>38 DEF Drift, Finish
<1>39. CASE RestoreFails
  BY <1>39 DEF RestoreFails, Finish, Answer, Undecided
<1>40. CASE AgentDies
  BY <1>40 DEF AgentDies, Finish, Answer
<1>41. CASE
        \/ \E c \in Calls : TransportFails(c) \/ Cancel(c)
        \/ Crash
  <2>1. PICK cs \in SUBSET Calls : Abandon(cs)
    BY <1>41, FailureFrame
  <2>2. outcome' = outcome
    BY <2>1 DEF Abandon
  <2>3. consumed' = consumed
    BY <1>41 DEF TransportFails, Cancel, Crash
  <2>4. \A r \in requests' : \E q \in requests : /\ r.op = q.op
                                                 /\ r.plan = q.plan
    BY <2>1, AbandonedRequests
  <2>5. \A r, q \in requests' :
          r.op = "apply" /\ q.op = "apply" /\ r.plan = q.plan => r = q
    <3>1. SUFFICES ASSUME NEW r \in requests', NEW q \in requests',
                          r.op = "apply", q.op = "apply", r.plan = q.plan
                   PROVE  r = q
      OBVIOUS
    <3>2. PICK s \in requests : /\ r.op = s.op /\ r.plan = s.plan
                                /\ s.by \in cs => r.by = Null
                                /\ s.by \notin cs => r = s
      BY <2>1, AbandonedRequests
    <3>3. PICK t \in requests : /\ q.op = t.op /\ q.plan = t.plan
                                /\ t.by \in cs => q.by = Null
                                /\ t.by \notin cs => q = t
      BY <2>1, AbandonedRequests
    <3>4. s = t
      <4>1. s.op = "apply" /\ t.op = "apply" /\ s.plan = t.plan
        BY <3>1, <3>2, <3>3
      <4> QED
        BY <4>1 DEF OneApply
    <3>5. r.by = q.by
      BY <3>2, <3>3, <3>4
    <3> QED
      BY <2>1, <3>1, <3>5, AbandonedRequests
  <2> QED
    BY <2>2, <2>3, <2>4, <2>5
<1>42. CASE UNCHANGED vars
  BY <1>42 DEF vars
<1> QED
  BY <1>1, <1>2, <1>3, <1>4, <1>5, <1>6, <1>7, <1>8, <1>9, <1>10, <1>11, <1>12,
    <1>13, <1>14, <1>15, <1>16, <1>17, <1>18, <1>19, <1>20, <1>21, <1>22,
    <1>23, <1>24, <1>25, <1>26, <1>27, <1>28, <1>29, <1>30, <1>31, <1>32,
    <1>33, <1>34, <1>36, <1>37, <1>38, <1>39, <1>40, <1>41, <1>42 DEF
    Next, Begin, Resume, Serve, Work, Failure

\* What became of a plan on the router stays so, but that one which was cleared
\* may be undone yet.
LEMMA OutcomeFinal ==
  ASSUME TypeOK, Recorded, OneApply, [Next]_vars
  PROVE  \A p \in Plans :
           /\ outcome[p] \in {"confirmed", "rolled_back"} => outcome'[p] = outcome[p]
           /\ outcome[p] = "cleared_manually" => outcome'[p] # "open"
<1> USE DEF TypeOK, Requests, store, wire, router
<1>0. Held
  BY DEF Recorded
<1>1. ASSUME NEW r \in requests, ApplyArms(r)
      PROVE  \A p \in Plans : outcome[p] # "none" => outcome'[p] = outcome[p]
  BY <1>1 DEF ApplyArms, OneApply
<1>2. CASE CloseJournal
  <2>1. /\ running.plan \in Plans
        /\ running.verdict \in {"confirmed", "rolled_back"}
        /\ outcome' = [outcome EXCEPT ![running.plan] = running.verdict]
    BY <1>0, <1>2, CloseIs, AttendedIs DEF Invocations
  <2>2. \/ outcome[running.plan] = "open"
        \/ running.verdict = "rolled_back" /\
             outcome[running.plan] \in {"cleared_manually", "rolled_back"}
    BY <1>0, <1>2, CloseIs, AttendedIs DEF Recorded, Held, Journal!OpenStates
  <2> QED
    BY <2>1, <2>2
<1>3. CASE OperatorClears \/ ClearKilled
  <2>1. CASE outcome' = outcome
    BY <2>1
  <2>2. CASE /\ clearing.at = "unlink"
             /\ outcome' = IF outcome[clearing.plan] = "rolled_back" THEN outcome
                           ELSE [outcome EXCEPT ![clearing.plan] = verdict.state]
    <3>1. /\ clearing.plan \in Plans
          /\ verdict.state \in {"cleared_manually", "rolled_back"}
      BY <1>0, <2>2 DEF Recorded, Held
    <3>2. outcome[clearing.plan] \in {"open", "cleared_manually", "rolled_back"}
      BY <1>0, <2>2, <3>1, AttendedIs, ServiceAssumption DEF Recorded, Held
    <3> QED
      BY <2>2, <3>1, <3>2
  <2> QED
    BY <1>0, <1>3, <2>1, <2>2, ClearIs
<1>9. CASE Undo
  <2>1. /\ running.plan \in Plans
        /\ outcome' = IF txn = Null
                      THEN [outcome EXCEPT ![running.plan] = "rolled_back"]
                      ELSE outcome
    BY <1>0, <1>9, UndoIs, AttendedIs
  <2>2. txn = Null => outcome[running.plan] \in {"cleared_manually", "rolled_back"}
    BY <1>0, <1>9, UndoIs, AttendedIs, ServiceAssumption DEF Recorded
  <2> QED
    BY <2>1, <2>2
<1>4. ASSUME NEW r \in requests,
             StatusAnswer(r) \/ Refuse(r) \/ NoTransaction(r)
               \/ RollbackRuns(r) \/ ConfirmRuns(r)
      PROVE  outcome' = outcome
  BY <1>4 DEF StatusAnswer, Refuse, NoTransaction, Decline, RollbackRuns,
              ConfirmRuns
<1>5. ASSUME \/ ApplyDone \/ ApplyStuck \/ WatchdogRuns \/ Deadline
             \/ Drift \/ RestoreFails \/ AgentDies
      PROVE  outcome' = outcome
  BY <1>5 DEF ApplyDone, ApplyStuck, WatchdogRuns, Deadline, Drift,
              RestoreFails, AgentDies, Finish
<1>6. ASSUME (\E c \in Calls : TransportFails(c) \/ Cancel(c)) \/ Crash
      PROVE  outcome' = outcome
  BY <1>6, FailureFrame DEF Abandon
<1>7. ASSUME \/ \E p \in Plans : CreatePlan(p) \/ FindExpired(p)
             \/ \E g \in Grants : Approve(g)
             \/ \E c \in Calls : Begin(c) \/ Resume(c)
      PROVE  outcome' = outcome
  BY <1>7, ServiceFrame
<1>8. CASE UNCHANGED vars
  BY <1>8 DEF vars
<1> QED
  BY <1>1, <1>2, <1>3, <1>4, <1>5, <1>6, <1>7, <1>8, <1>9
  DEF Next, Serve, Work, Failure

\* A verdict that reaches a call is what became of the call's plan.

-------------------------------------------------------------------------------
(* Verdicts: in the replies, and in the store.                             *)

\* A step that answers nobody with a verdict.
VerdictsKept ==
  \A c \in Calls : replies'[c] \in {"confirmed", "rolled_back"} =>
                     replies'[c] = replies[c] /\ calls'[c].plan = calls[c].plan

\* Only status and the end of an invocation answer with one.
LEMMA VerdictsFrom ==
  ASSUME TypeOK, Grounded, Asked, [Next]_vars,
         ~CloseJournal, \A r \in requests : ~StatusAnswer(r)
  PROVE  VerdictsKept
<1> USE DEF TypeOK, Asked, VerdictsKept, ReplyAwaits, ApplyAwaits, CallStates,
           Returned, JournalStates, Errors, store, wire, router
<1> USE ServiceAssumption, NullAssumption
<1>1. ASSUME NEW p \in Plans, CreatePlan(p)
      PROVE  VerdictsKept
  BY <1>1 DEF CreatePlan
<1>2. ASSUME NEW p \in Plans, FindExpired(p)
      PROVE  VerdictsKept
  BY <1>2 DEF FindExpired
<1>3. ASSUME NEW g \in Grants, Approve(g)
      PROVE  VerdictsKept
  BY <1>3 DEF Approve
<1>4. ASSUME NEW c \in Calls, NEW p \in Plans, StatusCall(c, p)
      PROVE  VerdictsKept
  BY <1>4 DEF StatusCall, Enter, Send
<1>5. ASSUME NEW c \in Calls, NEW p \in Plans, ConfirmSync(c, p)
      PROVE  VerdictsKept
  BY <1>5 DEF ConfirmSync, Enter, Send
<1>6. ASSUME NEW c \in Calls, NEW p \in Plans, ConfirmVerify(c, p)
      PROVE  VerdictsKept
  BY <1>6 DEF ConfirmVerify, Enter
<1>7. ASSUME NEW c \in Calls, NEW p \in Plans, RollbackCall(c, p)
      PROVE  VerdictsKept
  BY <1>7 DEF RollbackCall, Enter, Send
<1>8. ASSUME NEW c \in Calls, NEW g \in Grants, ApplyCall(c, g)
      PROVE  VerdictsKept
  BY <1>8 DEF ApplyCall, Enter
<1>9. ASSUME NEW c \in Calls, StatusReturn(c)
      PROVE  VerdictsKept
  BY <1>9 DEF StatusReturn, Receive, Return, Sync, Mark, Release
<1>10. ASSUME NEW c \in Calls, ConfirmSynced(c)
      PROVE  VerdictsKept
  <2>1. Goto(c, "verifying") \/ Return(c)
    BY <1>10 DEF ConfirmSynced
  <2>2. replies' = [replies EXCEPT ![c] = Null]
    BY <1>10 DEF ConfirmSynced, Receive
  <2> QED
    BY <2>1, <2>2 DEF Goto, Return
<1>11. ASSUME NEW c \in Calls, ConfirmOverdue(c)
      PROVE  VerdictsKept
  BY <1>11 DEF ConfirmOverdue, Receive, Send, Sync, Release
<1>12. ASSUME NEW c \in Calls, ConfirmVerified(c)
      PROVE  VerdictsKept
  BY <1>12 DEF ConfirmVerified, Goto, Send
<1>13. ASSUME NEW c \in Calls, ConfirmRefused(c)
      PROVE  VerdictsKept
  BY <1>13 DEF ConfirmRefused, Return
<1>14. ASSUME NEW c \in Calls, ConfirmReturn(c)
      PROVE  VerdictsKept
  BY <1>14 DEF ConfirmReturn, Receive, Return, Mark, Release
<1>15. ASSUME NEW c \in Calls, RollbackReturn(c)
      PROVE  VerdictsKept
  BY <1>15 DEF RollbackReturn, Receive, Return, Mark, Release
<1>16. ASSUME NEW c \in Calls, ApplyStopped(c)
      PROVE  VerdictsKept
  BY <1>16 DEF ApplyStopped, Return, Release
<1>17. ASSUME NEW c \in Calls, ApplyStart(c)
      PROVE  VerdictsKept
  BY <1>17 DEF ApplyStart, Goto, Send, Mark
<1>18. ASSUME NEW c \in Calls, ApplySucceeds(c)
      PROVE  VerdictsKept
  BY <1>18 DEF ApplySucceeds, Receive, Goto, Mark
<1>19. ASSUME NEW c \in Calls, ApplyLost(c)
      PROVE  VerdictsKept
  BY <1>19 DEF ApplyLost, Receive, Return, Mark
<1>20. ASSUME NEW c \in Calls, ApplyRejected(c)
      PROVE  VerdictsKept
  BY <1>20 DEF ApplyRejected, Receive, Return, Mark, Release
<1>21. ASSUME NEW c \in Calls, ApplyErrs(c)
      PROVE  VerdictsKept
  BY <1>21 DEF ApplyErrs, Receive, Return, Release
<1>22. ASSUME NEW c \in Calls, ProbesPass(c)
      PROVE  VerdictsKept
  BY <1>22 DEF ProbesPass, Return
<1>23. ASSUME NEW c \in Calls, ProbesFail(c)
      PROVE  VerdictsKept
  BY <1>23 DEF ProbesFail, Goto, Send
<1>24. ASSUME NEW c \in Calls, UndoReturn(c)
      PROVE  VerdictsKept
  BY <1>24 DEF UndoReturn, Receive, Return, Mark, Release
<1>25. ASSUME NEW r \in requests, Refuse(r)
      PROVE  VerdictsKept
  <2>1. PICK reply \in {"REFUSED", "ERROR"} : Decline(r, reply)
    BY <1>25 DEF Refuse
  <2> QED
    BY <2>1 DEF Decline, Answer
<1>26. ASSUME NEW r \in requests, NoTransaction(r)
      PROVE  VerdictsKept
  BY <1>26 DEF NoTransaction, Decline, Answer
<1>27. ASSUME NEW r \in requests, ApplyArms(r)
      PROVE  VerdictsKept
  BY <1>27 DEF ApplyArms, Run, Journal!Arm
<1>28. ASSUME NEW r \in requests, RollbackRuns(r)
      PROVE  VerdictsKept
  BY <1>28 DEF RollbackRuns, Run
<1>29. ASSUME NEW r \in requests, ConfirmRuns(r)
      PROVE  VerdictsKept
  BY <1>29 DEF ConfirmRuns, Run, Journal!Record
<1>30. CASE WatchdogRuns
  BY <1>30 DEF WatchdogRuns
<1>31. CASE ApplyDone
  BY <1>31 DEF ApplyDone, Finish, Answer, Undecided, Journal!Applied
<1>32. CASE ApplyStuck
  BY <1>32 DEF ApplyStuck, Finish, Answer, Undecided
<1>33. CASE Undo
  BY <1>33 DEF Undo
<1>34. CASE Deadline
  BY <1>34 DEF Deadline
<1>35. CASE OperatorClears \/ ClearKilled
  BY <1>35 DEF OperatorClears, ClearRead, ClearWrite, ClearUnlink, ClearKilled
<1>36. CASE Drift
  BY <1>36 DEF Drift, Finish, Answer, Undecided
<1>37. CASE RestoreFails
  BY <1>37 DEF RestoreFails, Finish, Answer, Undecided
<1>38. CASE AgentDies
  BY <1>38 DEF AgentDies, Finish, Answer
<1>39. ASSUME NEW c \in Calls, TransportFails(c)
      PROVE  VerdictsKept
  BY <1>39 DEF TransportFails, Abandon
<1>40. ASSUME NEW c \in Calls, Cancel(c)
      PROVE  VerdictsKept
  BY <1>40 DEF Cancel, Abandon, Return, Release
<1>41. CASE Crash
  BY <1>41 DEF Crash, Abandon
<1>42. CASE UNCHANGED vars
  BY <1>42 DEF vars
<1> QED
  BY <1>1, <1>2, <1>3, <1>4, <1>5, <1>6, <1>7, <1>8, <1>9, <1>10, <1>11, <1>12,
    <1>13, <1>14, <1>15, <1>16, <1>17, <1>18, <1>19, <1>20, <1>21, <1>22,
    <1>23, <1>24, <1>25, <1>26, <1>27, <1>28, <1>29, <1>30, <1>31, <1>32,
    <1>33, <1>34, <1>35, <1>36, <1>37, <1>38, <1>39, <1>40, <1>41, <1>42 DEF
    Next, Begin, Resume, Serve, Work, Failure

\* So a call that has a verdict before it has that of its plan.
LEMMA ReportedStep ==
  ASSUME TypeOK, Grounded, Asked, OneApply, Recorded, Reported, [Next]_vars
  PROVE  Reported'
<1>1. \A p \in Plans : outcome[p] \in {"confirmed", "rolled_back"} =>
                         outcome'[p] = outcome[p]
  BY OutcomeFinal
<1>2. CASE VerdictsKept
  <2>1. \A c \in Calls : replies[c] \in {"confirmed", "rolled_back"} =>
                           calls[c].plan \in Plans
    BY NullAssumption DEF Asked, Grounded, ReplyAwaits, JournalStates
  <2> QED
    BY <1>1, <1>2, <2>1 DEF Reported, VerdictsKept
<1>3. CASE CloseJournal
  <2>1. /\ running # Null /\ running.verdict # Null
        /\ running \in Invocations /\ running.plan \in Plans
        /\ outcome' = [outcome EXCEPT ![running.plan] = running.verdict]
        /\ calls' = calls
    BY <1>3 DEF CloseJournal, TypeOK, Invocations, store
  <2>2. PICK reply \in IF running.verdict = "confirmed"
                       THEN {"confirmed"} ELSE Replies(running.op) :
             Answer(running.by, reply)
    BY <1>3 DEF CloseJournal
  <2>3. reply \in {"confirmed", "rolled_back"} => reply = running.verdict
    BY <2>1, <2>2 DEF Replies, Invocations
  <2>4. ASSUME NEW c \in Calls, replies'[c] \in {"confirmed", "rolled_back"}
        PROVE  outcome'[calls'[c].plan] = replies'[c]
    <3>1. CASE running.by = c
      <4>1. replies'[c] = reply
        BY <2>2, <3>1, ServiceAssumption DEF Answer, TypeOK
      <4>2. calls[c].plan = running.plan
        BY <2>1, <3>1, ServiceAssumption DEF Asked, Awaited
      <4> QED
        BY <2>1, <2>3, <2>4, <4>1, <4>2 DEF TypeOK
    <3>2. CASE running.by # c
      <4>1. replies'[c] = replies[c]
        BY <2>2, <3>2 DEF Answer, TypeOK
      <4>2. calls[c].plan \in Plans
        BY <2>4, <4>1, NullAssumption
        DEF Asked, Grounded, ReplyAwaits, JournalStates
      <4> QED
        BY <1>1, <2>1, <2>4, <4>1, <4>2 DEF Reported
    <3> QED
      BY <3>1, <3>2
  <2> QED
    BY <2>4 DEF Reported
<1>4. ASSUME NEW r \in requests, StatusAnswer(r)
      PROVE  Reported'
  <2> DEFINE found ==
        IF txn # Null /\ txn.plan = r.plan THEN txn.state
        ELSE IF verdict # Null /\ verdict.plan = r.plan THEN verdict.state
        ELSE "NOT_FOUND"
  <2>1. Answer(r.by, found) /\ UNCHANGED <<calls, outcome>>
    BY <1>4 DEF StatusAnswer, router
  <2>2. found \in {"confirmed", "rolled_back"} => outcome[r.plan] = found
    <3>1. CASE txn # Null /\ txn.plan = r.plan
      <4>1. found = txn.state
        BY <3>1
      <4> QED
        BY <3>1, <4>1 DEF TypeOK, Journal!Transactions,
                          Journal!OpenStates
    <3>2. CASE ~(txn # Null /\ txn.plan = r.plan)
               /\ verdict # Null /\ verdict.plan = r.plan
      <4>1. found = verdict.state
        BY <3>2
      <4> QED
        BY <3>2, <4>1 DEF Recorded
    <3>3. CASE ~(txn # Null /\ txn.plan = r.plan)
               /\ ~(verdict # Null /\ verdict.plan = r.plan)
      <4>1. found = "NOT_FOUND"
        BY <3>3
      <4> QED
        BY <4>1
    <3> QED
      BY <3>1, <3>2, <3>3
  <2> HIDE DEF found
  <2>3. ASSUME NEW c \in Calls, replies'[c] \in {"confirmed", "rolled_back"}
        PROVE  outcome'[calls'[c].plan] = replies'[c]
    <3>1. CASE r.by = c
      <4>1. replies'[c] = found
        BY <2>1, <3>1, ServiceAssumption DEF Answer, TypeOK
      <4>2. calls[c].plan = r.plan
        BY <3>1, ServiceAssumption DEF Asked, Awaited
      <4> QED
        BY <2>1, <2>2, <2>3, <4>1, <4>2
    <3>2. CASE r.by # c
      <4>1. replies'[c] = replies[c]
        BY <2>1, <3>2 DEF Answer, TypeOK
      <4> QED
        BY <2>1, <2>3, <4>1 DEF Reported
    <3> QED
      BY <3>1, <3>2
  <2> QED
    BY <2>3 DEF Reported
<1> QED
  BY <1>2, <1>3, <1>4, VerdictsFrom

\* A sync writes no verdict but the one it was answered.
LEMMA SyncRows ==
  ASSUME TypeOK, NEW p \in Plans, NEW seen, NEW reply, Sync(p, seen, reply)
  PROVE  \A q \in Plans : row'[q] \in {"confirmed", "rolled_back"} =>
              row'[q] = row[q] \/ (q = p /\ reply = row'[q])
<1> DEFINE new == Synced(seen, reply)
<1>1. new \in {"confirmed", "rolled_back"} => new = seen \/ reply = new
  BY DEF Synced, PlanState
<1>2. row' = IF new = seen THEN row ELSE [row EXCEPT ![p] = new]
  BY DEF Sync
<1> HIDE DEF new
<1> QED
  BY <1>1, <1>2 DEF TypeOK

\* Confirmed and rolled_back are written from verdicts only.
LEMMA RowsStep ==
  ASSUME TypeOK, Grounded, OneApply, Recorded, Reported, RowsAgree,
         [Next]_vars
  PROVE  RowsAgree'
<1> USE DEF TypeOK, RowsAgree, store
<1>0. \A p \in Plans : outcome[p] \in {"confirmed", "rolled_back"} =>
                         outcome'[p] = outcome[p]
  BY OutcomeFinal
<1>1. ASSUME NEW p \in Plans, CreatePlan(p)
      PROVE  RowsAgree'
  BY <1>1, <1>0 DEF CreatePlan
<1>2. ASSUME NEW p \in Plans, FindExpired(p)
      PROVE  RowsAgree'
  BY <1>2, <1>0 DEF FindExpired
<1>3. ASSUME NEW g \in Grants, Approve(g)
      PROVE  RowsAgree'
  BY <1>3, <1>0 DEF Approve
<1>4. ASSUME NEW c \in Calls, NEW p \in Plans, StatusCall(c, p)
      PROVE  RowsAgree'
  BY <1>4, <1>0 DEF StatusCall, Enter, Send
<1>5. ASSUME NEW c \in Calls, NEW p \in Plans, ConfirmSync(c, p)
      PROVE  RowsAgree'
  BY <1>5, <1>0 DEF ConfirmSync, Enter, Send
<1>6. ASSUME NEW c \in Calls, NEW p \in Plans, ConfirmVerify(c, p)
      PROVE  RowsAgree'
  BY <1>6, <1>0 DEF ConfirmVerify, Enter
<1>7. ASSUME NEW c \in Calls, NEW p \in Plans, RollbackCall(c, p)
      PROVE  RowsAgree'
  BY <1>7, <1>0 DEF RollbackCall, Enter, Send
<1>8. ASSUME NEW c \in Calls, NEW g \in Grants, ApplyCall(c, g)
      PROVE  RowsAgree'
  BY <1>8, <1>0 DEF ApplyCall, Enter
<1>9. ASSUME NEW c \in Calls, StatusReturn(c)
      PROVE  RowsAgree'
  <2>1. calls[c].plan \in Plans
    BY <1>9 DEF StatusReturn, Receive, Grounded
  <2>2. \A q \in Plans : row'[q] \in {"confirmed", "rolled_back"} =>
              row'[q] = row[q] \/ (q = calls[c].plan /\ replies[c] = row'[q])
    BY <1>9, <2>1, SyncRows DEF StatusReturn
  <2> QED
    BY <2>2, <1>0 DEF Reported
<1>10. ASSUME NEW c \in Calls, ConfirmSynced(c)
      PROVE  RowsAgree'
  <2>1. calls[c].plan \in Plans
    BY <1>10 DEF ConfirmSynced, Receive, Grounded
  <2>2. \A q \in Plans : row'[q] \in {"confirmed", "rolled_back"} =>
              row'[q] = row[q] \/ (q = calls[c].plan /\ replies[c] = row'[q])
    BY <1>10, <2>1, SyncRows DEF ConfirmSynced
  <2> QED
    BY <2>2, <1>0 DEF Reported
<1>11. ASSUME NEW c \in Calls, ConfirmOverdue(c)
      PROVE  RowsAgree'
  <2>1. calls[c].plan \in Plans
    BY <1>11 DEF ConfirmOverdue, Receive, Grounded
  <2>2. \A q \in Plans : row'[q] \in {"confirmed", "rolled_back"} =>
              row'[q] = row[q] \/ (q = calls[c].plan /\ replies[c] = row'[q])
    BY <1>11, <2>1, SyncRows DEF ConfirmOverdue
  <2> QED
    BY <2>2, <1>0 DEF Reported
<1>12. ASSUME NEW c \in Calls, ConfirmVerified(c)
      PROVE  RowsAgree'
  BY <1>12, <1>0 DEF ConfirmVerified, Goto, Send
<1>13. ASSUME NEW c \in Calls, ConfirmRefused(c)
      PROVE  RowsAgree'
  BY <1>13, <1>0 DEF ConfirmRefused, Return
<1>14. ASSUME NEW c \in Calls, ConfirmReturn(c)
      PROVE  RowsAgree'
  BY <1>14, <1>0 DEF ConfirmReturn, Receive, Return, Mark, Release, Reported
<1>15. ASSUME NEW c \in Calls, RollbackReturn(c)
      PROVE  RowsAgree'
  BY <1>15, <1>0 DEF RollbackReturn, Receive, Return, Mark, Release, Reported
<1>16. ASSUME NEW c \in Calls, ApplyStopped(c)
      PROVE  RowsAgree'
  BY <1>16, <1>0 DEF ApplyStopped, Return, Release
<1>17. ASSUME NEW c \in Calls, ApplyStart(c)
      PROVE  RowsAgree'
  BY <1>17, <1>0 DEF ApplyStart, Goto, Send, Mark
<1>18. ASSUME NEW c \in Calls, ApplySucceeds(c)
      PROVE  RowsAgree'
  BY <1>18, <1>0 DEF ApplySucceeds, Receive, Goto, Mark
<1>19. ASSUME NEW c \in Calls, ApplyLost(c)
      PROVE  RowsAgree'
  BY <1>19, <1>0 DEF ApplyLost, Receive, Return, Mark
<1>20. ASSUME NEW c \in Calls, ApplyRejected(c)
      PROVE  RowsAgree'
  BY <1>20, <1>0 DEF ApplyRejected, Receive, Return, Mark, Release
<1>21. ASSUME NEW c \in Calls, ApplyErrs(c)
      PROVE  RowsAgree'
  BY <1>21, <1>0 DEF ApplyErrs, Receive, Return, Release
<1>22. ASSUME NEW c \in Calls, ProbesPass(c)
      PROVE  RowsAgree'
  BY <1>22, <1>0 DEF ProbesPass, Return
<1>23. ASSUME NEW c \in Calls, ProbesFail(c)
      PROVE  RowsAgree'
  BY <1>23, <1>0 DEF ProbesFail, Goto, Send
<1>24. ASSUME NEW c \in Calls, UndoReturn(c)
      PROVE  RowsAgree'
  BY <1>24, <1>0 DEF UndoReturn, Receive, Return, Mark, Release, Reported
<1>25. CASE \/ Serve \/ Work \/ WatchdogRuns \/ Deadline \/ OperatorClears
          \/ Drift \/ RestoreFails \/ AgentDies \/ ClearKilled
  BY <1>25, <1>0, RouterFrame DEF store
<1>26. ASSUME NEW c \in Calls, TransportFails(c)
      PROVE  RowsAgree'
  BY <1>26, <1>0 DEF TransportFails, Abandon
<1>27. ASSUME NEW c \in Calls, Cancel(c)
      PROVE  RowsAgree'
  BY <1>27, <1>0 DEF Cancel, Abandon, Return, Release
<1>28. CASE Crash
  BY <1>28, <1>0 DEF Crash, Abandon
<1>29. CASE UNCHANGED vars
  BY <1>29, <1>0 DEF vars, router
<1> QED
  BY <1>1, <1>2, <1>3, <1>4, <1>5, <1>6, <1>7, <1>8, <1>9, <1>10, <1>11, <1>12,
    <1>13, <1>14, <1>15, <1>16, <1>17, <1>18, <1>19, <1>20, <1>21, <1>22,
    <1>23, <1>24, <1>25, <1>26, <1>27, <1>28, <1>29 DEF Next, Begin, Resume,
    Serve, Work, Failure

\* Every invariant holds to begin with.
LEMMA InitHolds ==
  ASSUME Init
  PROVE  TypeOK /\ Grounded /\ LockAnswered /\ Asked /\ OneApply /\ Recorded
           /\ Reported /\ RowsAgree
<1>1. TypeOK
  <2>1. Returned \in CallStates
    BY DEF Returned, CallStates, Statuses
  <2>2. 0 \in 0 .. MaxFaults
    BY ServiceAssumption
  <2> QED
    BY <2>1, <2>2
    DEF Init, TypeOK, Statuses, Journal!Init, Clearings, NotClearing
<1>2. Grounded /\ LockAnswered /\ OneApply /\ Recorded /\ RowsAgree
  BY DEF Init, Grounded, LockAnswered, OneApply, Recorded, RowsAgree, Returned,
         Journal!Init, Held, Attended, NotClearing
<1>3. Asked /\ Reported
  BY NullAssumption
  DEF Init, Asked, Reported, Returned, ReplyAwaits, JournalStates
<1> QED
  BY <1>1, <1>2, <1>3

-------------------------------------------------------------------------------
(* The theorems.                                                           *)

\* Every variable keeps to its type, and a call holds at every await the plan
\* and, until it has inspected the router, the grant it goes on with: nothing
\* that another coroutine does takes them away.
THEOREM TypeCorrect == Spec => [](TypeOK /\ Grounded)
<1>1. Init => TypeOK /\ Grounded
  BY InitHolds
<1>2. TypeOK /\ Grounded /\ [Next]_vars => (TypeOK /\ Grounded)'
  BY TypeStep, GroundedStep
<1> QED
  BY <1>1, <1>2, PTL DEF Spec

\* As long as the server does not crash, the row in locks never stays with a
\* plan that nothing takes further, whatever calls overlap, are cancelled or
\* lose their replies.
THEOREM LockIsAnsweredFor ==
  ASSUME "crash" \notin FaultKinds
  PROVE  Spec => []LockNotStranded
<1>1. Init => LockAnswered
  BY InitHolds
<1>2. TypeOK /\ Grounded /\ LockAnswered /\ [Next]_vars => LockAnswered'
  BY LockStep
<1>3. LockAnswered => LockNotStranded
  BY DEF LockAnswered, LockNotStranded
<1> QED
  BY <1>1, <1>2, <1>3, TypeCorrect, PTL DEF Spec

\* No two invocations or requests answer one call, and none answers a call that
\* does not wait for it: a reply never reaches a call that has gone on.
THEOREM RepliesAwaited == Spec => []Asked
<1>1. Init => Asked
  BY InitHolds
<1>2. TypeOK /\ Grounded /\ Asked /\ [Next]_vars => Asked'
  BY AskedStep
<1> QED
  BY <1>1, <1>2, TypeCorrect, PTL DEF Spec

\* With one grant a plan, at most one apply of it ever reaches the router, and
\* the router's files say of every plan what became of it.
LEMMA RouterHistory ==
  ASSUME OneGrant
  PROVE  Spec => [](OneApply /\ Recorded)
<1>1. Init => OneApply /\ Recorded
  BY InitHolds
<1>2. TypeOK /\ Grounded /\ OneApply /\ Recorded /\ [Next]_vars
      => (OneApply /\ Recorded)'
  BY OneApplyStep, RecordedStep
<1> QED
  BY <1>1, <1>2, TypeCorrect, PTL DEF Spec

\* A plan the store calls confirmed or rolled_back is what the router made of
\* it, as long as every plan is approved once: crashes, lost and late replies,
\* cancelled and overlapping calls included.
THEOREM StoreAgrees ==
  ASSUME OneGrant
  PROVE  Spec => []RowsAgree
<1>1. Init => Reported /\ RowsAgree
  BY InitHolds
<1>2. /\ TypeOK /\ Grounded /\ Asked /\ OneApply /\ Recorded
      /\ Reported /\ RowsAgree /\ [Next]_vars
      => (Reported /\ RowsAgree)'
  BY ReportedStep, RowsStep
<1> QED
  BY <1>1, <1>2, TypeCorrect, RepliesAwaited, RouterHistory, PTL DEF Spec

\* With one grant a plan, the router never opens a transaction for a plan it is
\* done with.
THEOREM AppliesOnce ==
  ASSUME OneGrant
  PROVE  Spec => AppliedOnce
<1>1. TypeOK /\ OneApply /\ Recorded /\ [Next]_vars
      => [\A p \in Plans : outcome[p] \in {"confirmed", "rolled_back",
                                            "cleared_manually"} =>
                             outcome'[p] # "open"]_vars
  <2>1. ASSUME TypeOK, OneApply, Recorded, [Next]_vars, NEW p \in Plans,
               outcome[p] \in {"confirmed", "rolled_back", "cleared_manually"}
        PROVE  outcome'[p] # "open"
    <3>1. /\ outcome[p] \in {"confirmed", "rolled_back"} =>
               outcome'[p] = outcome[p]
          /\ outcome[p] = "cleared_manually" => outcome'[p] # "open"
      BY <2>1, OutcomeFinal
    <3> QED
      BY <2>1, <3>1
  <2> QED
    BY <2>1
<1> QED
  BY <1>1, TypeCorrect, RouterHistory, PTL DEF Spec, AppliedOnce

-------------------------------------------------------------------------------
(***************************************************************************)
(* A client that does not overlap its tool calls (OneCallAtATime).         *)
(*                                                                         *)
(* A call that is alone finds the row it read before its await as it left  *)
(* it (Fresh), so no plan is written after it has ended.  That a plan      *)
(* which may be pending on the router has the lock is not inductive: a     *)
(* sync can find pending what the store calls applying, and an apply that  *)
(* the agent answered with an error has given the lock back by then.       *)
(* LockKept adds that such a plan is not pending (NotPending), which needs *)
(* that an apply is sent once (SentOnce) and that one that failed has left *)
(* the journal armed, undone or handed to an operator (Begun).             *)
(***************************************************************************)

-------------------------------------------------------------------------------
(* What a call knows of its plan's row.                                    *)

\* Nothing but the one call writes the row it goes on from.
LEMMA FreshStep ==
  ASSUME TypeOK, Grounded, OneCallAtATime, Fresh, [Next]_vars
  PROVE  Fresh'
<1> USE DEF TypeOK, Grounded, OneCallAtATime, Fresh, CallStates, Returned,
           store, ApplyAwaits, ReplyAwaits, ActiveStates
<1>1. ASSUME NEW p \in Plans, CreatePlan(p)
      PROVE  Fresh'
  BY <1>1 DEF CreatePlan
<1>2. ASSUME NEW p \in Plans, FindExpired(p)
      PROVE  Fresh'
  BY <1>2 DEF FindExpired
<1>3. ASSUME NEW g \in Grants, Approve(g)
      PROVE  Fresh'
  BY <1>3 DEF Approve
<1>4. ASSUME NEW c \in Calls, NEW p \in Plans, StatusCall(c, p)
      PROVE  Fresh'
  BY <1>4 DEF StatusCall, Enter, Send
<1>5. ASSUME NEW c \in Calls, NEW p \in Plans, ConfirmSync(c, p)
      PROVE  Fresh'
  BY <1>5 DEF ConfirmSync, Enter, Send
<1>6. ASSUME NEW c \in Calls, NEW p \in Plans, ConfirmVerify(c, p)
      PROVE  Fresh'
  BY <1>6 DEF ConfirmVerify, Enter
<1>7. ASSUME NEW c \in Calls, NEW p \in Plans, RollbackCall(c, p)
      PROVE  Fresh'
  BY <1>7 DEF RollbackCall, Enter, Send
<1>8. ASSUME NEW c \in Calls, NEW g \in Grants, ApplyCall(c, g)
      PROVE  Fresh'
  BY <1>8 DEF ApplyCall, Enter
<1>9. ASSUME NEW c \in Calls, StatusReturn(c)
      PROVE  Fresh'
  <2>1. \A d \in Calls : calls'[d].at = "idle"
    BY <1>9 DEF StatusReturn, Return
  <2> QED
    BY <2>1
<1>10. ASSUME NEW c \in Calls, ConfirmSynced(c)
      PROVE  Fresh'
  <2> DEFINE new == Synced(calls[c].seen, replies[c])
             p == calls[c].plan
  <2>1. /\ Goto(c, "verifying") /\ new = "pending_confirmation"
        \/ Return(c)
    BY <1>10 DEF ConfirmSynced
  <2>2. /\ calls[c].at = "syncing" /\ p \in Plans /\ row[p] = calls[c].seen
        /\ row' = IF new = calls[c].seen THEN row ELSE [row EXCEPT ![p] = new]
    BY <1>10 DEF ConfirmSynced, Receive, Sync
  <2>3. CASE Return(c)
    BY <2>3 DEF Return
  <2>4. CASE Goto(c, "verifying") /\ new = "pending_confirmation"
    <3>1. row'[p] = "pending_confirmation"
      BY <2>2, <2>4
    <3>2. \A d \in Calls : calls'[d].at = "verifying" /\ calls'[d].plan = p
      BY <2>4 DEF Goto
    <3> QED
      BY <3>1, <3>2
  <2> QED
    BY <2>1, <2>3, <2>4
<1>11. ASSUME NEW c \in Calls, ConfirmOverdue(c)
      PROVE  Fresh'
  <2> DEFINE new == Synced(calls[c].seen, replies[c])
             p == calls[c].plan
  <2>1. /\ new = "pending_confirmation" /\ p \in Plans
        /\ row[p] = calls[c].seen
        /\ row' = IF new = calls[c].seen THEN row ELSE [row EXCEPT ![p] = new]
    BY <1>11 DEF ConfirmOverdue, Receive, Sync
  <2>2. row'[p] = "pending_confirmation"
    BY <2>1
  <2>3. \A d \in Calls : /\ calls'[d].at = "status" /\ calls'[d].plan = p
                         /\ calls'[d].seen = "pending_confirmation"
    BY <1>11 DEF ConfirmOverdue
  <2> QED
    BY <2>2, <2>3
<1>12. ASSUME NEW c \in Calls, ConfirmVerified(c)
      PROVE  Fresh'
  BY <1>12 DEF ConfirmVerified, Goto, Send
<1>13. ASSUME NEW c \in Calls, ConfirmRefused(c)
      PROVE  Fresh'
  BY <1>13 DEF ConfirmRefused, Return
<1>14. ASSUME NEW c \in Calls, ConfirmReturn(c)
      PROVE  Fresh'
  BY <1>14 DEF ConfirmReturn, Receive, Return, Mark, Release
<1>15. ASSUME NEW c \in Calls, RollbackReturn(c)
      PROVE  Fresh'
  BY <1>15 DEF RollbackReturn, Receive, Return, Mark, Release
<1>16. ASSUME NEW c \in Calls, ApplyStopped(c)
      PROVE  Fresh'
  BY <1>16 DEF ApplyStopped, Return, Release
<1>17. ASSUME NEW c \in Calls, ApplyStart(c)
      PROVE  Fresh'
  BY <1>17 DEF ApplyStart, Goto, Send, Mark
<1>18. ASSUME NEW c \in Calls, ApplySucceeds(c)
      PROVE  Fresh'
  BY <1>18 DEF ApplySucceeds, Receive, Goto, Mark
<1>19. ASSUME NEW c \in Calls, ApplyLost(c)
      PROVE  Fresh'
  BY <1>19 DEF ApplyLost, Receive, Return, Mark
<1>20. ASSUME NEW c \in Calls, ApplyRejected(c)
      PROVE  Fresh'
  BY <1>20 DEF ApplyRejected, Receive, Return, Mark, Release
<1>21. ASSUME NEW c \in Calls, ApplyErrs(c)
      PROVE  Fresh'
  BY <1>21 DEF ApplyErrs, Receive, Return, Release
<1>22. ASSUME NEW c \in Calls, ProbesPass(c)
      PROVE  Fresh'
  BY <1>22 DEF ProbesPass, Return
<1>23. ASSUME NEW c \in Calls, ProbesFail(c)
      PROVE  Fresh'
  BY <1>23 DEF ProbesFail, Goto, Send
<1>24. ASSUME NEW c \in Calls, UndoReturn(c)
      PROVE  Fresh'
  BY <1>24 DEF UndoReturn, Receive, Return, Mark, Release
<1>25. CASE \/ Serve \/ Work \/ WatchdogRuns \/ Deadline \/ OperatorClears
          \/ Drift \/ RestoreFails \/ AgentDies \/ ClearKilled
  BY <1>25, RouterFrame DEF store
<1>26. ASSUME NEW c \in Calls, TransportFails(c)
      PROVE  Fresh'
  BY <1>26 DEF TransportFails, Abandon
<1>27. ASSUME NEW c \in Calls, Cancel(c)
      PROVE  Fresh'
  BY <1>27 DEF Cancel, Abandon, Return, Release
<1>28. CASE Crash
  BY <1>28 DEF Crash, Abandon
<1>29. CASE UNCHANGED vars
  BY <1>29 DEF vars
<1> QED
  BY <1>1, <1>2, <1>3, <1>4, <1>5, <1>6, <1>7, <1>8, <1>9, <1>10, <1>11, <1>12,
    <1>13, <1>14, <1>15, <1>16, <1>17, <1>18, <1>19, <1>20, <1>21, <1>22,
    <1>23, <1>24, <1>25, <1>26, <1>27, <1>28, <1>29 DEF Next, Begin, Resume,
    Serve, Work, Failure

\* A sync whose reading still holds writes no row but its plan's.
LEMMA SyncFinal ==
  ASSUME TypeOK, NEW p \in Plans, NEW seen \in ActiveStates, NEW reply,
         Sync(p, seen, reply), row[p] = seen
  PROVE  \A q \in Plans : row[q] \in TerminalStates => row'[q] = row[q]
BY DEF TypeOK, Sync, ActiveStates, TerminalStates

\* A plan that has ended is not written again.
LEMMA EndedStays ==
  ASSUME TypeOK, Grounded, OneCallAtATime, Fresh, [Next]_vars
  PROVE  \A p \in Plans : row[p] \in TerminalStates => row'[p] = row[p]
<1> DEFINE Final == \A p \in Plans :
                      row[p] \in TerminalStates => row'[p] = row[p]
<1> SUFFICES Final
  OBVIOUS
<1> USE DEF TypeOK, Fresh, store, ActiveStates, TerminalStates
<1>1. ASSUME NEW p \in Plans, CreatePlan(p)
      PROVE  Final
  BY <1>1 DEF CreatePlan
<1>2. ASSUME NEW p \in Plans, FindExpired(p)
      PROVE  Final
  BY <1>2 DEF FindExpired
<1>3. ASSUME NEW g \in Grants, Approve(g)
      PROVE  Final
  BY <1>3 DEF Approve
<1>4. ASSUME NEW c \in Calls, NEW p \in Plans, StatusCall(c, p)
      PROVE  Final
  BY <1>4 DEF StatusCall, Enter, Send
<1>5. ASSUME NEW c \in Calls, NEW p \in Plans, ConfirmSync(c, p)
      PROVE  Final
  BY <1>5 DEF ConfirmSync, Enter, Send
<1>6. ASSUME NEW c \in Calls, NEW p \in Plans, ConfirmVerify(c, p)
      PROVE  Final
  BY <1>6 DEF ConfirmVerify, Enter
<1>7. ASSUME NEW c \in Calls, NEW p \in Plans, RollbackCall(c, p)
      PROVE  Final
  BY <1>7 DEF RollbackCall, Enter, Send
<1>8. ASSUME NEW c \in Calls, NEW g \in Grants, ApplyCall(c, g)
      PROVE  Final
  BY <1>8 DEF ApplyCall, Enter
<1>9. ASSUME NEW c \in Calls, StatusReturn(c)
      PROVE  Final
  <2>1. /\ calls[c].plan \in Plans /\ calls[c].seen \in ActiveStates
        /\ row[calls[c].plan] = calls[c].seen
        /\ Sync(calls[c].plan, calls[c].seen, replies[c])
    BY <1>9 DEF StatusReturn, Receive, Grounded
  <2> QED
    BY <2>1, SyncFinal
<1>10. ASSUME NEW c \in Calls, ConfirmSynced(c)
      PROVE  Final
  <2>1. /\ calls[c].plan \in Plans /\ calls[c].seen \in ActiveStates
        /\ row[calls[c].plan] = calls[c].seen
        /\ Sync(calls[c].plan, calls[c].seen, replies[c])
    BY <1>10 DEF ConfirmSynced, Receive, Grounded
  <2> QED
    BY <2>1, SyncFinal
<1>11. ASSUME NEW c \in Calls, ConfirmOverdue(c)
      PROVE  Final
  <2>1. /\ calls[c].plan \in Plans /\ calls[c].seen \in ActiveStates
        /\ row[calls[c].plan] = calls[c].seen
        /\ Sync(calls[c].plan, calls[c].seen, replies[c])
    BY <1>11 DEF ConfirmOverdue, Receive, Grounded
  <2> QED
    BY <2>1, SyncFinal
<1>12. ASSUME NEW c \in Calls, ConfirmVerified(c)
      PROVE  Final
  BY <1>12 DEF ConfirmVerified, Goto, Send
<1>13. ASSUME NEW c \in Calls, ConfirmRefused(c)
      PROVE  Final
  BY <1>13 DEF ConfirmRefused, Return
<1>14. ASSUME NEW c \in Calls, ConfirmReturn(c)
      PROVE  Final
  BY <1>14 DEF ConfirmReturn, Receive, Return, Mark, Release
<1>15. ASSUME NEW c \in Calls, RollbackReturn(c)
      PROVE  Final
  BY <1>15 DEF RollbackReturn, Receive, Return, Mark, Release
<1>16. ASSUME NEW c \in Calls, ApplyStopped(c)
      PROVE  Final
  BY <1>16 DEF ApplyStopped, Return, Release
<1>17. ASSUME NEW c \in Calls, ApplyStart(c)
      PROVE  Final
  BY <1>17 DEF ApplyStart, Goto, Send, Mark
<1>18. ASSUME NEW c \in Calls, ApplySucceeds(c)
      PROVE  Final
  BY <1>18 DEF ApplySucceeds, Receive, Goto, Mark
<1>19. ASSUME NEW c \in Calls, ApplyLost(c)
      PROVE  Final
  BY <1>19 DEF ApplyLost, Receive, Return, Mark
<1>20. ASSUME NEW c \in Calls, ApplyRejected(c)
      PROVE  Final
  BY <1>20 DEF ApplyRejected, Receive, Return, Mark, Release
<1>21. ASSUME NEW c \in Calls, ApplyErrs(c)
      PROVE  Final
  BY <1>21 DEF ApplyErrs, Receive, Return, Release
<1>22. ASSUME NEW c \in Calls, ProbesPass(c)
      PROVE  Final
  BY <1>22 DEF ProbesPass, Return
<1>23. ASSUME NEW c \in Calls, ProbesFail(c)
      PROVE  Final
  BY <1>23 DEF ProbesFail, Goto, Send
<1>24. ASSUME NEW c \in Calls, UndoReturn(c)
      PROVE  Final
  BY <1>24 DEF UndoReturn, Receive, Return, Mark, Release
<1>25. CASE \/ Serve \/ Work \/ WatchdogRuns \/ Deadline \/ OperatorClears
          \/ Drift \/ RestoreFails \/ AgentDies \/ ClearKilled
  BY <1>25, RouterFrame DEF store
<1>26. ASSUME NEW c \in Calls, TransportFails(c)
      PROVE  Final
  BY <1>26 DEF TransportFails, Abandon
<1>27. ASSUME NEW c \in Calls, Cancel(c)
      PROVE  Final
  BY <1>27 DEF Cancel, Abandon, Return, Release
<1>28. CASE Crash
  BY <1>28 DEF Crash, Abandon
<1>29. CASE UNCHANGED vars
  BY <1>29 DEF vars
<1> QED
  BY <1>1, <1>2, <1>3, <1>4, <1>5, <1>6, <1>7, <1>8, <1>9, <1>10, <1>11, <1>12,
    <1>13, <1>14, <1>15, <1>16, <1>17, <1>18, <1>19, <1>20, <1>21, <1>22,
    <1>23, <1>24, <1>25, <1>26, <1>27, <1>28, <1>29 DEF Next, Begin, Resume,
    Serve, Work, Failure

\* No call is under way to begin with.
LEMMA InitFresh ==
  ASSUME Init
  PROVE  Fresh
<1>1. \A c \in Calls : calls[c].at = "idle"
  BY DEF Init, Returned
<1> QED
  BY <1>1 DEF Fresh

\* A plan that has ended, in any way, is never written again, whatever crashes
\* and whichever replies are lost or late, as long as the tool calls do not
\* overlap: _sync_from_router then writes over what it has read.
THEOREM EndedPlansStay ==
  ASSUME OneCallAtATime
  PROVE  Spec => TerminalIsFinal
<1>1. Init => Fresh
  BY InitFresh
<1>2. TypeOK /\ Grounded /\ Fresh /\ [Next]_vars => Fresh'
  BY FreshStep
<1>3. TypeOK /\ Grounded /\ Fresh /\ [Next]_vars
      => [\A p \in Plans : row[p] \in TerminalStates => row'[p] = row[p]]_vars
  BY EndedStays
<1> QED
  BY <1>1, <1>2, <1>3, TypeCorrect, PTL DEF Spec, TerminalIsFinal

-------------------------------------------------------------------------------
(* What is sent to the router.                                             *)

\* A sync makes no plan planned.
LEMMA SyncEarly ==
  ASSUME TypeOK, NEW p \in Plans, NEW seen, NEW reply, Sync(p, seen, reply)
  PROVE  \A q \in Plans : row'[q] \in {"none", "planned", "expired"} =>
                            row'[q] = row[q]
<1> DEFINE new == Synced(seen, reply)
<1>1. new = seen \/ new \notin {"none", "planned", "expired"}
  BY DEF Synced, PlanState
<1>2. row' = IF new = seen THEN row ELSE [row EXCEPT ![p] = new]
  BY DEF Sync
<1> HIDE DEF new
<1> QED
  BY <1>1, <1>2 DEF TypeOK

\* An apply is sent for a plan that is planned, which it is no longer then.
LEMMA SentOnceStep ==
  ASSUME TypeOK, Grounded, Recorded, Fresh, SentOnce, [Next]_vars
  PROVE  SentOnce'
<1> USE DEF TypeOK, SentOnce, NoApplySent, Requests, store, wire, router
<1>1. ASSUME NEW p \in Plans, CreatePlan(p)
      PROVE  SentOnce'
  BY <1>1 DEF CreatePlan
<1>2. ASSUME NEW p \in Plans, FindExpired(p)
      PROVE  SentOnce'
  BY <1>2 DEF FindExpired
<1>3. ASSUME NEW g \in Grants, Approve(g)
      PROVE  SentOnce'
  BY <1>3 DEF Approve
<1>4. ASSUME NEW c \in Calls, NEW p \in Plans, StatusCall(c, p)
      PROVE  SentOnce'
  BY <1>4 DEF StatusCall, Enter, Send
<1>5. ASSUME NEW c \in Calls, NEW p \in Plans, ConfirmSync(c, p)
      PROVE  SentOnce'
  BY <1>5 DEF ConfirmSync, Enter, Send
<1>6. ASSUME NEW c \in Calls, NEW p \in Plans, ConfirmVerify(c, p)
      PROVE  SentOnce'
  BY <1>6 DEF ConfirmVerify, Enter
<1>7. ASSUME NEW c \in Calls, NEW p \in Plans, RollbackCall(c, p)
      PROVE  SentOnce'
  BY <1>7 DEF RollbackCall, Enter, Send
<1>8. ASSUME NEW c \in Calls, NEW g \in Grants, ApplyCall(c, g)
      PROVE  SentOnce'
  BY <1>8 DEF ApplyCall, Enter
<1>9. ASSUME NEW c \in Calls, StatusReturn(c)
      PROVE  SentOnce'
  <2>1. calls[c].plan \in Plans /\ UNCHANGED <<requests, outcome>>
    BY <1>9 DEF StatusReturn, Receive, Grounded
  <2>2. \A q \in Plans : row'[q] \in {"none", "planned", "expired"} =>
                            row'[q] = row[q]
    BY <1>9, <2>1, SyncEarly DEF StatusReturn
  <2> QED
    BY <2>1, <2>2
<1>10. ASSUME NEW c \in Calls, ConfirmSynced(c)
      PROVE  SentOnce'
  <2>1. calls[c].plan \in Plans /\ UNCHANGED <<requests, outcome>>
    BY <1>10 DEF ConfirmSynced, Receive, Grounded
  <2>2. \A q \in Plans : row'[q] \in {"none", "planned", "expired"} =>
                            row'[q] = row[q]
    BY <1>10, <2>1, SyncEarly DEF ConfirmSynced
  <2> QED
    BY <2>1, <2>2
<1>11. ASSUME NEW c \in Calls, ConfirmOverdue(c)
      PROVE  SentOnce'
  <2>1. calls[c].plan \in Plans /\ UNCHANGED outcome
    BY <1>11 DEF ConfirmOverdue, Receive, Grounded
  <2>2. \A q \in Plans : row'[q] \in {"none", "planned", "expired"} =>
                            row'[q] = row[q]
    BY <1>11, <2>1, SyncEarly DEF ConfirmOverdue
  <2>3. \A r \in requests' : r.op = "apply" => r \in requests
    BY <1>11 DEF ConfirmOverdue, Send
  <2> QED
    BY <2>1, <2>2, <2>3
<1>12. ASSUME NEW c \in Calls, ConfirmVerified(c)
      PROVE  SentOnce'
  BY <1>12 DEF ConfirmVerified, Goto, Send
<1>13. ASSUME NEW c \in Calls, ConfirmRefused(c)
      PROVE  SentOnce'
  BY <1>13 DEF ConfirmRefused, Return
<1>14. ASSUME NEW c \in Calls, ConfirmReturn(c)
      PROVE  SentOnce'
  BY <1>14 DEF ConfirmReturn, Receive, Return, Mark, Release
<1>15. ASSUME NEW c \in Calls, RollbackReturn(c)
      PROVE  SentOnce'
  BY <1>15 DEF RollbackReturn, Receive, Return, Mark, Release
<1>16. ASSUME NEW c \in Calls, ApplyStopped(c)
      PROVE  SentOnce'
  BY <1>16 DEF ApplyStopped, Return, Release
<1>17. ASSUME NEW c \in Calls, ApplyStart(c)
      PROVE  SentOnce'
  <2> DEFINE p == calls[c].plan
  <2>1. p \in Plans /\ row[p] = "planned"
    BY <1>17 DEF ApplyStart, Grounded, Fresh
  <2>2. /\ requests' = requests \cup {[op |-> "apply", plan |-> p, by |-> c]}
        /\ outcome' = outcome
        /\ row' = [row EXCEPT ![p] = "applying"]
    BY <1>17 DEF ApplyStart, Send, Mark
  <2>3. outcome[p] = "none" /\ \A r \in requests : r.op = "apply" => r.plan # p
    BY <2>1
  <2> HIDE DEF p
  <2>4. \A r \in requests' : \/ r \in requests
                             \/ r = [op |-> "apply", plan |-> p, by |-> c]
    BY <2>2
  <2>5. \A q \in Plans : row'[q] \in {"none", "planned", "expired"} =>
          q # p /\ row[q] = row'[q]
    BY <2>1, <2>2
  <2>6. ASSUME NEW q \in Plans, row'[q] \in {"none", "planned", "expired"}
        PROVE  outcome'[q] = "none"
               /\ \A r \in requests' : ~(r.op = "apply" /\ r.plan = q)
    BY <2>2, <2>4, <2>5, <2>6
  <2>7. \A r, q \in requests' :
          r.op = "apply" /\ q.op = "apply" /\ r.plan = q.plan => r = q
    BY <2>3, <2>4
  <2>8. \A r \in requests' : r.op = "apply" => outcome'[r.plan] = "none"
    BY <2>2, <2>3, <2>4
  <2> QED
    BY <2>6, <2>7, <2>8
<1>18. ASSUME NEW c \in Calls, ApplySucceeds(c)
      PROVE  SentOnce'
  BY <1>18 DEF ApplySucceeds, Receive, Goto, Mark
<1>19. ASSUME NEW c \in Calls, ApplyLost(c)
      PROVE  SentOnce'
  BY <1>19 DEF ApplyLost, Receive, Return, Mark
<1>20. ASSUME NEW c \in Calls, ApplyRejected(c)
      PROVE  SentOnce'
  BY <1>20 DEF ApplyRejected, Receive, Return, Mark, Release
<1>21. ASSUME NEW c \in Calls, ApplyErrs(c)
      PROVE  SentOnce'
  BY <1>21 DEF ApplyErrs, Receive, Return, Release
<1>22. ASSUME NEW c \in Calls, ProbesPass(c)
      PROVE  SentOnce'
  BY <1>22 DEF ProbesPass, Return
<1>23. ASSUME NEW c \in Calls, ProbesFail(c)
      PROVE  SentOnce'
  BY <1>23 DEF ProbesFail, Goto, Send
<1>24. ASSUME NEW c \in Calls, UndoReturn(c)
      PROVE  SentOnce'
  BY <1>24 DEF UndoReturn, Receive, Return, Mark, Release
<1>25. ASSUME NEW r \in requests, StatusAnswer(r)
      PROVE  SentOnce'
  BY <1>25 DEF StatusAnswer, Answer
<1>26. ASSUME NEW r \in requests, Refuse(r)
      PROVE  SentOnce'
  BY <1>26 DEF Refuse, Decline, Answer
<1>27. ASSUME NEW r \in requests, NoTransaction(r)
      PROVE  SentOnce'
  BY <1>27 DEF NoTransaction, Decline, Answer
<1>28. ASSUME NEW r \in requests, ApplyArms(r)
      PROVE  SentOnce'
  <2>1. /\ r.op = "apply" /\ r.plan \in Plans
        /\ outcome' = [outcome EXCEPT ![r.plan] = "open"]
        /\ requests' = requests \ {r} /\ row' = row
    BY <1>28 DEF ApplyArms, Run
  <2>2. \A q \in requests' : q.op = "apply" => q.plan # r.plan
    BY <2>1
  <2>3. row[r.plan] \notin {"none", "planned", "expired"}
    BY <2>1
  <2> QED
    BY <2>1, <2>2, <2>3
<1>29. ASSUME NEW r \in requests, RollbackRuns(r)
      PROVE  SentOnce'
  BY <1>29 DEF RollbackRuns, Run
<1>30. ASSUME NEW r \in requests, ConfirmRuns(r)
      PROVE  SentOnce'
  BY <1>30 DEF ConfirmRuns, Run, Journal!Record
<1>31. CASE WatchdogRuns
  BY <1>31 DEF WatchdogRuns
<1>32. CASE ApplyDone
  BY <1>32 DEF ApplyDone, Finish, Answer, Undecided, Journal!Applied
<1>33. CASE ApplyStuck
  BY <1>33 DEF ApplyStuck, Finish, Answer, Undecided
<1>34. CASE Undo \/ CloseJournal
  <2>1. /\ UNCHANGED <<row, requests>>
        /\ \A p \in Plans : outcome[p] = "none" => outcome'[p] = "none"
        /\ \A p \in Plans : outcome'[p] # "none" => outcome[p] # "none"
    BY <1>34, OutcomeBegun DEF Undo, CloseJournal
  <2> QED
    BY <2>1
<1>36. CASE Deadline
  BY <1>36 DEF Deadline
<1>37. CASE OperatorClears \/ ClearKilled
  <2>1. /\ UNCHANGED <<row, requests>>
        /\ \A p \in Plans : outcome[p] = "none" => outcome'[p] = "none"
        /\ \A p \in Plans : outcome'[p] # "none" => outcome[p] # "none"
    BY <1>37, OutcomeBegun, ClearIs DEF Recorded
  <2> QED
    BY <2>1
<1>38. CASE Drift
  BY <1>38 DEF Drift, Finish
<1>39. CASE RestoreFails
  BY <1>39 DEF RestoreFails, Finish, Answer, Undecided
<1>40. CASE AgentDies
  BY <1>40 DEF AgentDies, Finish, Answer
<1>41. CASE 
        \/ \E c \in Calls : TransportFails(c) \/ Cancel(c)
        \/ Crash
  <2>1. PICK cs \in SUBSET Calls : Abandon(cs)
    BY <1>41, FailureFrame
  <2>2. outcome' = outcome /\ row' = row
    BY <1>41, <2>1 DEF Abandon, TransportFails, Cancel, Crash
  <2>3. \A r \in requests' : \E q \in requests : /\ r.op = q.op
                                                 /\ r.plan = q.plan
    BY <2>1, AbandonedRequests
  <2>4. \A r, q \in requests' :
          r.op = "apply" /\ q.op = "apply" /\ r.plan = q.plan => r = q
    <3>1. SUFFICES ASSUME NEW r \in requests', NEW q \in requests',
                          r.op = "apply", q.op = "apply", r.plan = q.plan
                   PROVE  r = q
      OBVIOUS
    <3>2. PICK s \in requests : /\ r.op = s.op /\ r.plan = s.plan
                                /\ s.by \in cs => r.by = Null
                                /\ s.by \notin cs => r = s
      BY <2>1, AbandonedRequests
    <3>3. PICK t \in requests : /\ q.op = t.op /\ q.plan = t.plan
                                /\ t.by \in cs => q.by = Null
                                /\ t.by \notin cs => q = t
      BY <2>1, AbandonedRequests
    <3>4. s = t
      <4>1. s.op = "apply" /\ t.op = "apply" /\ s.plan = t.plan
        BY <3>1, <3>2, <3>3
      <4> QED
        BY <4>1
    <3>5. r.by = q.by
      BY <3>2, <3>3, <3>4
    <3> QED
      BY <2>1, <3>1, <3>5, AbandonedRequests
  <2> QED
    BY <2>2, <2>3, <2>4
<1>42. CASE UNCHANGED vars
  BY <1>42 DEF vars
<1> QED
  BY <1>1, <1>2, <1>3, <1>4, <1>5, <1>6, <1>7, <1>8, <1>9, <1>10, <1>11, <1>12,
    <1>13, <1>14, <1>15, <1>16, <1>17, <1>18, <1>19, <1>20, <1>21, <1>22,
    <1>23, <1>24, <1>25, <1>26, <1>27, <1>28, <1>29, <1>30, <1>31, <1>32,
    <1>33, <1>34, <1>36, <1>37, <1>38, <1>39, <1>40, <1>41, <1>42 DEF
    Next, Begin, Resume, Serve, Work, Failure

\* An apply that runs has armed the journal only, and no apply awaits anything
\* but an apply.
LEMMA BegunStep ==
  ASSUME TypeOK, Grounded, Asked, Recorded, Begun, [Next]_vars
  PROVE  Begun'
<1> USE DEF TypeOK, Begun, Requests, CallStates, Returned, ReplyAwaits,
           ApplyAwaits, Invocations, store, wire, router
<1> USE ServiceAssumption
<1>1. ASSUME NEW p \in Plans, CreatePlan(p)
      PROVE  Begun'
  BY <1>1 DEF CreatePlan
<1>2. ASSUME NEW p \in Plans, FindExpired(p)
      PROVE  Begun'
  BY <1>2 DEF FindExpired
<1>3. ASSUME NEW g \in Grants, Approve(g)
      PROVE  Begun'
  BY <1>3 DEF Approve
<1>4. ASSUME NEW c \in Calls, NEW p \in Plans, StatusCall(c, p)
      PROVE  Begun'
  BY <1>4 DEF StatusCall, Enter, Send
<1>5. ASSUME NEW c \in Calls, NEW p \in Plans, ConfirmSync(c, p)
      PROVE  Begun'
  BY <1>5 DEF ConfirmSync, Enter, Send
<1>6. ASSUME NEW c \in Calls, NEW p \in Plans, ConfirmVerify(c, p)
      PROVE  Begun'
  BY <1>6 DEF ConfirmVerify, Enter
<1>7. ASSUME NEW c \in Calls, NEW p \in Plans, RollbackCall(c, p)
      PROVE  Begun'
  BY <1>7 DEF RollbackCall, Enter, Send
<1>8. ASSUME NEW c \in Calls, NEW g \in Grants, ApplyCall(c, g)
      PROVE  Begun'
  BY <1>8 DEF ApplyCall, Enter
<1>9. ASSUME NEW c \in Calls, StatusReturn(c)
      PROVE  Begun'
  BY <1>9 DEF StatusReturn, Receive, Return, Sync, Mark, Release
<1>10. ASSUME NEW c \in Calls, ConfirmSynced(c)
      PROVE  Begun'
  <2>1. Goto(c, "verifying") \/ Return(c)
    BY <1>10 DEF ConfirmSynced
  <2>2. \A d \in Calls : calls'[d].at = "applying" => calls[d].at = "applying"
    BY <2>1 DEF Goto, Return
  <2>3. UNCHANGED <<running, txn, requests>>
    BY <1>10 DEF ConfirmSynced
  <2> QED
    BY <2>2, <2>3
<1>11. ASSUME NEW c \in Calls, ConfirmOverdue(c)
      PROVE  Begun'
  BY <1>11 DEF ConfirmOverdue, Receive, Send, Sync, Release
<1>12. ASSUME NEW c \in Calls, ConfirmVerified(c)
      PROVE  Begun'
  BY <1>12 DEF ConfirmVerified, Goto, Send
<1>13. ASSUME NEW c \in Calls, ConfirmRefused(c)
      PROVE  Begun'
  BY <1>13 DEF ConfirmRefused, Return
<1>14. ASSUME NEW c \in Calls, ConfirmReturn(c)
      PROVE  Begun'
  BY <1>14 DEF ConfirmReturn, Receive, Return, Mark, Release
<1>15. ASSUME NEW c \in Calls, RollbackReturn(c)
      PROVE  Begun'
  BY <1>15 DEF RollbackReturn, Receive, Return, Mark, Release
<1>16. ASSUME NEW c \in Calls, ApplyStopped(c)
      PROVE  Begun'
  BY <1>16 DEF ApplyStopped, Return, Release
<1>17. ASSUME NEW c \in Calls, ApplyStart(c)
      PROVE  Begun'
  <2>1. /\ calls[c].at = "inspecting" /\ UNCHANGED <<running, txn>>
        /\ requests' = requests \cup
             {[op |-> "apply", plan |-> calls[c].plan, by |-> c]}
        /\ calls' = [calls EXCEPT ![c].at = "applying"]
    BY <1>17 DEF ApplyStart, Send, Goto
  <2>2. /\ \A r \in requests : r.by # c
        /\ running # Null => running.by # c
    BY <2>1 DEF Asked, Awaited
  <2>3. \A d \in Calls \ {c} : calls'[d] = calls[d]
    BY <2>1
  <2>4. \A r \in requests' :
          r \in requests \/ (r.op = "apply" /\ r.by = c)
    BY <2>1
  <2> QED
    BY <2>1, <2>2, <2>3, <2>4
<1>18. ASSUME NEW c \in Calls, ApplySucceeds(c)
      PROVE  Begun'
  BY <1>18 DEF ApplySucceeds, Receive, Goto, Mark
<1>19. ASSUME NEW c \in Calls, ApplyLost(c)
      PROVE  Begun'
  BY <1>19 DEF ApplyLost, Receive, Return, Mark
<1>20. ASSUME NEW c \in Calls, ApplyRejected(c)
      PROVE  Begun'
  BY <1>20 DEF ApplyRejected, Receive, Return, Mark, Release
<1>21. ASSUME NEW c \in Calls, ApplyErrs(c)
      PROVE  Begun'
  BY <1>21 DEF ApplyErrs, Receive, Return, Release
<1>22. ASSUME NEW c \in Calls, ProbesPass(c)
      PROVE  Begun'
  BY <1>22 DEF ProbesPass, Return
<1>23. ASSUME NEW c \in Calls, ProbesFail(c)
      PROVE  Begun'
  BY <1>23 DEF ProbesFail, Goto, Send
<1>24. ASSUME NEW c \in Calls, UndoReturn(c)
      PROVE  Begun'
  BY <1>24 DEF UndoReturn, Receive, Return, Mark, Release
<1>25. ASSUME NEW r \in requests, StatusAnswer(r)
      PROVE  Begun'
  BY <1>25 DEF StatusAnswer, Answer
<1>26. ASSUME NEW r \in requests, Refuse(r)
      PROVE  Begun'
  BY <1>26 DEF Refuse, Decline, Answer
<1>27. ASSUME NEW r \in requests, NoTransaction(r)
      PROVE  Begun'
  BY <1>27 DEF NoTransaction, Decline, Answer
<1>28. ASSUME NEW r \in requests, ApplyArms(r)
      PROVE  Begun'
  <2>1. /\ txn' = [plan |-> r.plan, state |-> "armed"]
        /\ running' = [op |-> "apply", plan |-> r.plan, by |-> r.by,
                       verdict |-> Null,
                       manual |-> txn # Null /\ txn.state = "needs_manual"]
        /\ requests' = requests \ {r} /\ calls' = calls
    BY <1>28 DEF ApplyArms, Run, Journal!Arm
  <2>2. txn' # Null
    BY <2>1, NullAssumption DEF Journal!Transactions, Journal!OpenStates
  <2> QED
    BY <2>1, <2>2
<1>29. ASSUME NEW r \in requests, RollbackRuns(r)
      PROVE  Begun'
  BY <1>29 DEF RollbackRuns, Run
<1>30. ASSUME NEW r \in requests, ConfirmRuns(r)
      PROVE  Begun'
  BY <1>30 DEF ConfirmRuns, Run, Journal!Record
<1>31. CASE WatchdogRuns
  BY <1>31 DEF WatchdogRuns
<1>32. CASE ApplyDone
  BY <1>32 DEF ApplyDone, Finish, Answer, Undecided, Journal!Applied
<1>33. CASE ApplyStuck
  BY <1>33 DEF ApplyStuck, Finish, Answer, Undecided
<1>34. CASE Undo
  BY <1>34 DEF Undo, Undecided, Journal!Record, Journal!Judge
<1>35. CASE CloseJournal
  BY <1>35 DEF CloseJournal, Answer, Replies, Journal!Close,
         Journal!Remove
<1>36. CASE Deadline
  BY <1>36 DEF Deadline
<1>37. CASE OperatorClears \/ ClearKilled
  <2>1. Held
    BY DEF Recorded
  <2>2. /\ UNCHANGED <<calls, requests, running>>
        /\ txn' = txn \/ clearing.at = "unlink"
    BY <1>37, <2>1, ClearIs
  <2>3. running # Null /\ running.op = "apply" => clearing.at = "idle"
    BY <2>1 DEF Held
  <2> QED
    BY <2>2, <2>3
<1>38. CASE Drift
  BY <1>38 DEF Drift, Finish, Answer, Undecided, Journal!Escalate, Journal!Return
<1>39. CASE RestoreFails
  BY <1>39 DEF RestoreFails, Finish, Answer, Undecided
<1>40. CASE AgentDies
  BY <1>40 DEF AgentDies, Finish, Answer
<1>41. CASE 
        \/ \E c \in Calls : TransportFails(c) \/ Cancel(c)
        \/ Crash
  <2>1. PICK cs \in SUBSET Calls : Abandon(cs)
    BY <1>41, FailureFrame
  <2>2. txn' = txn
    BY <2>1 DEF Abandon
  <2>3. \A c \in Calls : calls'[c].at = "applying" => calls[c].at = "applying"
    <3>1. ASSUME NEW c \in Calls, TransportFails(c)
          PROVE  calls' = calls
      BY <3>1 DEF TransportFails
    <3>2. ASSUME NEW c \in Calls, Cancel(c)
          PROVE  calls' = [calls EXCEPT ![c] = Returned]
      BY <3>2 DEF Cancel, Return
    <3>3. ASSUME Crash
          PROVE  calls' = [c \in Calls |-> Returned]
      BY <3>3 DEF Crash
    <3> QED
      BY <1>41, <3>1, <3>2, <3>3
  <2>4. running' # Null =>
          /\ running # Null /\ running'.op = running.op
          /\ running'.by # Null => running'.by = running.by
    BY <2>1, AbandonedRun
  <2>5. \A r \in requests' : r.by # Null => r \in requests
    <3>1. SUFFICES ASSUME NEW r \in requests', r.by # Null
                   PROVE  r \in requests
      OBVIOUS
    <3>2. PICK q \in requests : /\ q.by \in cs => r.by = Null
                                /\ q.by \notin cs => r = q
      BY <2>1, AbandonedRequests
    <3> QED
      BY <3>1, <3>2
  <2> QED
    BY <2>2, <2>3, <2>4, <2>5
<1>42. CASE UNCHANGED vars
  BY <1>42 DEF vars
<1> QED
  BY <1>1, <1>2, <1>3, <1>4, <1>5, <1>6, <1>7, <1>8, <1>9, <1>10, <1>11, <1>12,
    <1>13, <1>14, <1>15, <1>16, <1>17, <1>18, <1>19, <1>20, <1>21, <1>22,
    <1>23, <1>24, <1>25, <1>26, <1>27, <1>28, <1>29, <1>30, <1>31, <1>32,
    <1>33, <1>34, <1>35, <1>36, <1>37, <1>38, <1>39, <1>40, <1>41, <1>42 DEF
    Next, Begin, Resume, Serve, Work, Failure

-------------------------------------------------------------------------------
(* The lock of a plan that may be pending on the router.                   *)

\* A plan that is being applied and is not pending on the router, nor said to
\* be, does not become so: it would have to be sent a second time.
LEMMA NotPendingStays ==
  ASSUME TypeOK, Grounded, Asked, Recorded, Fresh, [Next]_vars,
         NEW plan \in Plans, row[plan] = "applying", NotPending(plan)
  PROVE  NotPending(plan)'
<1> USE DEF TypeOK, NotPending, NoApplySent, Opened, Requests, CallStates,
           Returned, store, wire, router
<1> USE ServiceAssumption
<1>a. \A c \in Calls : calls[c].at = "idle" => replies[c] = Null
  BY DEF Asked, ReplyAwaits
<1>b. Null # "applied_unconfirmed"
  BY NullAssumption DEF JournalStates
<1>1. ASSUME NEW p \in Plans, CreatePlan(p)
      PROVE  NotPending(plan)'
  BY <1>1, <1>a, <1>b DEF CreatePlan
<1>2. ASSUME NEW p \in Plans, FindExpired(p)
      PROVE  NotPending(plan)'
  BY <1>2, <1>a, <1>b DEF FindExpired
<1>3. ASSUME NEW g \in Grants, Approve(g)
      PROVE  NotPending(plan)'
  BY <1>3, <1>a, <1>b DEF Approve
<1>4. ASSUME NEW c \in Calls, NEW p \in Plans, StatusCall(c, p)
      PROVE  NotPending(plan)'
  BY <1>4, <1>a, <1>b DEF StatusCall, Enter, Send
<1>5. ASSUME NEW c \in Calls, NEW p \in Plans, ConfirmSync(c, p)
      PROVE  NotPending(plan)'
  BY <1>5, <1>a, <1>b DEF ConfirmSync, Enter, Send
<1>6. ASSUME NEW c \in Calls, NEW p \in Plans, ConfirmVerify(c, p)
      PROVE  NotPending(plan)'
  BY <1>6, <1>a, <1>b DEF ConfirmVerify, Enter
<1>7. ASSUME NEW c \in Calls, NEW p \in Plans, RollbackCall(c, p)
      PROVE  NotPending(plan)'
  BY <1>7, <1>a, <1>b DEF RollbackCall, Enter, Send
<1>8. ASSUME NEW c \in Calls, NEW g \in Grants, ApplyCall(c, g)
      PROVE  NotPending(plan)'
  BY <1>8, <1>a, <1>b DEF ApplyCall, Enter
<1>9. ASSUME NEW c \in Calls, StatusReturn(c)
      PROVE  NotPending(plan)'
  BY <1>9, <1>a, <1>b DEF StatusReturn, Receive, Return, Sync, Mark, Release
<1>10. ASSUME NEW c \in Calls, ConfirmSynced(c)
      PROVE  NotPending(plan)'
  <2>1. Goto(c, "verifying") \/ Return(c)
    BY <1>10 DEF ConfirmSynced
  <2>2. /\ replies' = [replies EXCEPT ![c] = Null]
        /\ UNCHANGED <<requests, running, txn>>
    BY <1>10 DEF ConfirmSynced, Receive
  <2>3. \A d \in Calls \ {c} : calls'[d] = calls[d]
    BY <2>1 DEF Goto, Return
  <2> QED
    BY <1>b, <2>2, <2>3
<1>11. ASSUME NEW c \in Calls, ConfirmOverdue(c)
      PROVE  NotPending(plan)'
  BY <1>11, <1>a, <1>b DEF ConfirmOverdue, Receive, Send, Sync, Release
<1>12. ASSUME NEW c \in Calls, ConfirmVerified(c)
      PROVE  NotPending(plan)'
  BY <1>12, <1>a, <1>b DEF ConfirmVerified, Goto, Send
<1>13. ASSUME NEW c \in Calls, ConfirmRefused(c)
      PROVE  NotPending(plan)'
  BY <1>13, <1>a, <1>b DEF ConfirmRefused, Return
<1>14. ASSUME NEW c \in Calls, ConfirmReturn(c)
      PROVE  NotPending(plan)'
  BY <1>14, <1>a, <1>b DEF ConfirmReturn, Receive, Return, Mark, Release
<1>15. ASSUME NEW c \in Calls, RollbackReturn(c)
      PROVE  NotPending(plan)'
  BY <1>15, <1>a, <1>b DEF RollbackReturn, Receive, Return, Mark, Release
<1>16. ASSUME NEW c \in Calls, ApplyStopped(c)
      PROVE  NotPending(plan)'
  BY <1>16, <1>a, <1>b DEF ApplyStopped, Return, Release
<1>17. ASSUME NEW c \in Calls, ApplyStart(c)
      PROVE  NotPending(plan)'
  <2>1. calls[c].plan # plan
    BY <1>17 DEF ApplyStart, Fresh
  <2>2. /\ requests' = requests \cup
             {[op |-> "apply", plan |-> calls[c].plan, by |-> c]}
        /\ calls' = [calls EXCEPT ![c].at = "applying"]
        /\ UNCHANGED <<replies, running, txn>>
    BY <1>17 DEF ApplyStart, Send, Goto
  <2> QED
    BY <2>1, <2>2
<1>18. ASSUME NEW c \in Calls, ApplySucceeds(c)
      PROVE  NotPending(plan)'
  BY <1>18, <1>a, <1>b DEF ApplySucceeds, Receive, Goto, Mark
<1>19. ASSUME NEW c \in Calls, ApplyLost(c)
      PROVE  NotPending(plan)'
  BY <1>19, <1>a, <1>b DEF ApplyLost, Receive, Return, Mark
<1>20. ASSUME NEW c \in Calls, ApplyRejected(c)
      PROVE  NotPending(plan)'
  BY <1>20, <1>a, <1>b DEF ApplyRejected, Receive, Return, Mark, Release
<1>21. ASSUME NEW c \in Calls, ApplyErrs(c)
      PROVE  NotPending(plan)'
  BY <1>21, <1>a, <1>b DEF ApplyErrs, Receive, Return, Release
<1>22. ASSUME NEW c \in Calls, ProbesPass(c)
      PROVE  NotPending(plan)'
  BY <1>22, <1>a, <1>b DEF ProbesPass, Return
<1>23. ASSUME NEW c \in Calls, ProbesFail(c)
      PROVE  NotPending(plan)'
  BY <1>23, <1>a, <1>b DEF ProbesFail, Goto, Send
<1>24. ASSUME NEW c \in Calls, UndoReturn(c)
      PROVE  NotPending(plan)'
  BY <1>24, <1>a, <1>b DEF UndoReturn, Receive, Return, Mark, Release
<1>25. ASSUME NEW r \in requests, StatusAnswer(r)
      PROVE  NotPending(plan)'
  <2> DEFINE found ==
        IF txn # Null /\ txn.plan = r.plan THEN txn.state
        ELSE IF verdict # Null /\ verdict.plan = r.plan THEN verdict.state
        ELSE "NOT_FOUND"
  <2>1. /\ Answer(r.by, found) /\ UNCHANGED <<calls, running, txn>>
        /\ requests' = requests \ {r}
    BY <1>25 DEF StatusAnswer
  <2>2. r.plan = plan => found # "applied_unconfirmed"
    BY DEF Journal!Verdicts
  <2> HIDE DEF found
  <2>3. r.by # Null => calls[r.by].plan = r.plan
    BY DEF Asked, Awaited
  <2> QED
    BY <2>1, <2>2, <2>3 DEF Answer
<1>26. ASSUME NEW r \in requests, Refuse(r)
      PROVE  NotPending(plan)'
  <2>1. PICK reply \in {"REFUSED", "ERROR"} : Decline(r, reply)
    BY <1>26 DEF Refuse
  <2> QED
    BY <2>1 DEF Decline, Answer
<1>27. ASSUME NEW r \in requests, NoTransaction(r)
      PROVE  NotPending(plan)'
  BY <1>27, <1>a, <1>b DEF NoTransaction, Decline, Answer
<1>28. ASSUME NEW r \in requests, ApplyArms(r)
      PROVE  NotPending(plan)'
  <2>1. /\ r.op = "apply" /\ r.plan # plan
        /\ txn' = [plan |-> r.plan, state |-> "armed"]
        /\ running' = [op |-> "apply", plan |-> r.plan, by |-> r.by,
                       verdict |-> Null,
                       manual |-> txn # Null /\ txn.state = "needs_manual"]
        /\ requests' = requests \ {r} /\ UNCHANGED <<calls, replies>>
    BY <1>28 DEF ApplyArms, Run, Journal!Arm
  <2> QED
    BY <2>1
<1>29. ASSUME NEW r \in requests, RollbackRuns(r)
      PROVE  NotPending(plan)'
  BY <1>29, <1>a, <1>b DEF RollbackRuns, Run
<1>30. ASSUME NEW r \in requests, ConfirmRuns(r)
      PROVE  NotPending(plan)'
  BY <1>30, <1>a, <1>b DEF ConfirmRuns, Run, Journal!Record
<1>31. CASE WatchdogRuns
  BY <1>31, <1>a, <1>b DEF WatchdogRuns
<1>32. CASE ApplyDone
  <2>1. /\ running # Null /\ running.op = "apply"
        /\ Answer(running.by, "applied_unconfirmed") /\ running' = Null
        /\ UNCHANGED <<requests, calls>>
    BY <1>32 DEF ApplyDone, Undecided, Finish
  <2>2. /\ txn # Null /\ txn.state = "armed"
        /\ txn' = [plan |-> txn.plan, state |-> "applied_unconfirmed"]
    BY <1>32, ApplyDoneIs
  <2>3. running.plan # plan /\ txn.plan = running.plan
    BY <2>1, <2>2 DEF Recorded, Held
  <2>5. txn'.plan # plan
    BY <2>2, <2>3
  <2>4. running.by # Null => calls[running.by].plan = running.plan
    BY <2>1 DEF Asked, Awaited
  <2> QED
    BY <2>1, <2>2, <2>3, <2>4, <2>5 DEF Answer
<1>33. CASE ApplyStuck
  BY <1>33, <1>a, <1>b DEF ApplyStuck, Finish, Answer, Undecided
<1>34. CASE Undo
  BY <1>34, <1>a, <1>b DEF Undo, Undecided, Journal!Record, Journal!Judge
<1>35. CASE CloseJournal
  BY <1>35, <1>a, <1>b DEF CloseJournal, Answer, Replies, Journal!Close,
         Journal!Remove
<1>36. CASE Deadline
  BY <1>36, <1>a, <1>b DEF Deadline
<1>37. CASE OperatorClears \/ ClearKilled
  BY <1>37, <1>a, <1>b DEF OperatorClears, ClearRead, ClearWrite, ClearUnlink, ClearKilled,
         Journal!Judge, Journal!Remove
<1>38. CASE Drift
  <2>1. /\ Answer(running.by, "NEEDS_MANUAL") /\ running' = Null
        /\ UNCHANGED <<requests, calls>>
    BY <1>38 DEF Drift, Finish, Undecided
  <2>2. txn'.state # "applied_unconfirmed"
    BY <1>38, DriftIs DEF Recorded
  <2> QED
    BY <2>1, <2>2 DEF Answer
<1>39. CASE RestoreFails
  BY <1>39, <1>a, <1>b DEF RestoreFails, Finish, Answer, Undecided
<1>40. CASE AgentDies
  BY <1>40, <1>a, <1>b DEF AgentDies, Finish, Answer
<1>41. CASE 
        \/ \E c \in Calls : TransportFails(c) \/ Cancel(c)
        \/ Crash
  <2>1. PICK cs \in SUBSET Calls : Abandon(cs)
    BY <1>41, FailureFrame
  <2>2. txn' = txn
    BY <2>1 DEF Abandon
  <2>3. \A c \in Calls : calls'[c].plan = plan =>
           calls[c].plan = plan /\ replies'[c] \in {replies[c], Null, "LOST"}
    <3>1. ASSUME NEW c \in Calls, TransportFails(c)
          PROVE  calls' = calls /\ replies' = [replies EXCEPT ![c] = "LOST"]
      BY <3>1 DEF TransportFails
    <3>2. ASSUME NEW c \in Calls, Cancel(c)
          PROVE  /\ calls' = [calls EXCEPT ![c] = Returned]
                 /\ replies' = [replies EXCEPT ![c] = Null]
      BY <3>2 DEF Cancel, Return
    <3>3. ASSUME Crash
          PROVE  calls' = [c \in Calls |-> Returned]
      BY <3>3 DEF Crash
    <3> QED
      BY <1>41, <3>1, <3>2, <3>3
  <2>4. running' # Null =>
          /\ running # Null /\ running'.op = running.op
          /\ running'.plan = running.plan
    BY <2>1, AbandonedRun
  <2>5. \A r \in requests' : \E q \in requests : /\ r.op = q.op
                                                 /\ r.plan = q.plan
    BY <2>1, AbandonedRequests
  <2> QED
    BY <1>b, <2>2, <2>3, <2>4, <2>5
<1>42. CASE UNCHANGED vars
  BY <1>42, <1>a, <1>b DEF vars
<1> QED
  BY <1>1, <1>2, <1>3, <1>4, <1>5, <1>6, <1>7, <1>8, <1>9, <1>10, <1>11, <1>12,
    <1>13, <1>14, <1>15, <1>16, <1>17, <1>18, <1>19, <1>20, <1>21, <1>22,
    <1>23, <1>24, <1>25, <1>26, <1>27, <1>28, <1>29, <1>30, <1>31, <1>32,
    <1>33, <1>34, <1>35, <1>36, <1>37, <1>38, <1>39, <1>40, <1>41, <1>42 DEF
    Next, Begin, Resume, Serve, Work, Failure

\* An error that answers an apply says that its plan is not pending.
LEMMA ErrorSettles ==
  ASSUME TypeOK, Asked, Recorded, OneCallAtATime, SentOnce, Begun,
         Serve \/ Work \/ WatchdogRuns \/ Deadline \/ OperatorClears
           \/ Drift \/ RestoreFails \/ AgentDies \/ ClearKilled,
         NEW c \in Calls, calls[c].at = "applying", replies[c] = Null,
         replies'[c] \in {"ERROR", "NEEDS_MANUAL"}
  PROVE  NotPending(calls[c].plan)'
<1> DEFINE plan == calls[c].plan
<1> USE DEF TypeOK, Requests, store, wire, router
<1> USE ServiceAssumption, NullAssumption
<1>a. Null \notin {"ERROR", "NEEDS_MANUAL"}
  BY DEF Errors
<1>1. calls' = calls
  BY RouterFrame DEF store
<1>2. \A d \in Calls : calls'[d].plan = plan =>
                          replies'[d] # "applied_unconfirmed"
  BY DEF OneCallAtATime
<1>3. \A by, reply : Answer(by, reply) => by = c /\ reply = replies'[c]
  BY <1>a DEF Answer
<1>4. replies' # replies
  BY <1>a
<1> HIDE DEF plan
<1>5. ASSUME NEW r \in requests, r.op = "apply", r.by = c, txn' = txn,
             running' = running, requests' = requests \ {r}
      PROVE  NotPending(plan)'
  <2>1. r.plan = plan
    BY <1>5 DEF Asked, Awaited, plan
  <2>2. /\ outcome[plan] = "none"
        /\ \A q \in requests' : ~(q.op = "apply" /\ q.plan = plan)
    BY <1>5, <2>1 DEF SentOnce
  <2>3. ~(txn # Null /\ txn.plan = plan)
    BY <2>2 DEF Recorded
  <2>4. ~(running # Null /\ running.plan = plan)
    <3>1. SUFFICES ASSUME running # Null, running.plan = plan
                   PROVE  txn # Null
      BY <2>3 DEF Recorded, Held
    <3>2. running.manual /\ txn = Null => outcome[plan] # "none"
      BY <3>1, AttendedIs DEF Recorded
    <3> QED
      BY <2>2, <3>1, <3>2 DEF Recorded, Held
  <2> QED
    BY <1>1, <1>2, <1>5, <2>2, <2>3, <2>4
    DEF NotPending, NoApplySent, Opened, plan
<1>6. ASSUME running # Null, running.by = c, running' = Null,
             requests' = requests,
             txn' # Null /\ txn'.plan = plan =>
               txn'.state # "applied_unconfirmed"
      PROVE  NotPending(plan)'
  <2>1. running.plan = plan /\ plan \in Plans
    BY <1>6, AttendedIs DEF Asked, Awaited, Recorded, plan
  <2>4. txn # Null /\ txn.state = "armed"
    BY <1>6 DEF Begun
  <2>5. txn.plan = plan
    BY <1>6, <2>1, <2>4 DEF Recorded, Held
  <2>2. outcome[plan] = "open"
    BY <2>4, <2>5 DEF Recorded
  <2>3. \A q \in requests : ~(q.op = "apply" /\ q.plan = plan)
    BY <2>2 DEF SentOnce
  <2> QED
    BY <1>1, <1>2, <1>6, <2>3 DEF NotPending, NoApplySent, Opened, plan
<1>7. ASSUME running # Null, running.by = c
      PROVE  txn # Null /\ txn.state = "armed"
  BY <1>7 DEF Begun
<1>8. ASSUME NEW r \in requests, StatusAnswer(r)
      PROVE  NotPending(plan)'
  <2>1. r.by = c /\ r.op = "status"
    BY <1>8, <1>3 DEF StatusAnswer
  <2> QED
    BY <2>1 DEF Begun
<1>9. ASSUME NEW r \in requests, Refuse(r)
      PROVE  NotPending(plan)'
  <2>1. PICK reply \in {"REFUSED", "ERROR"} : Decline(r, reply)
    BY <1>9 DEF Refuse
  <2>2. /\ r.by = c /\ requests' = requests \ {r} /\ txn' = txn
        /\ running' = running
    BY <2>1, <1>3 DEF Decline
  <2> QED
    BY <2>2, <1>5 DEF Begun
<1>10. ASSUME NEW r \in requests, NoTransaction(r)
      PROVE  NotPending(plan)'
  <2>1. replies'[c] = "NOT_FOUND"
    BY <1>10, <1>3 DEF NoTransaction, Decline
  <2> QED
    BY <2>1
<1>11. ASSUME NEW r \in requests, ApplyArms(r)
      PROVE  NotPending(plan)'
  BY <1>11, <1>4 DEF ApplyArms
<1>12. ASSUME NEW r \in requests, RollbackRuns(r)
      PROVE  NotPending(plan)'
  BY <1>12, <1>4 DEF RollbackRuns
<1>13. ASSUME NEW r \in requests, ConfirmRuns(r)
      PROVE  NotPending(plan)'
  BY <1>13, <1>4 DEF ConfirmRuns
<1>14. CASE WatchdogRuns
  BY <1>14, <1>4 DEF WatchdogRuns
<1>15. CASE ApplyDone
  <2>1. replies'[c] = "applied_unconfirmed"
    BY <1>15, <1>3 DEF ApplyDone, Finish
  <2> QED
    BY <2>1
<1>16. CASE ApplyStuck
  <2>1. replies'[c] = "REFUSED"
    BY <1>16, <1>3 DEF ApplyStuck, Finish
  <2> QED
    BY <2>1
<1>17. CASE Undo
  BY <1>17, <1>4 DEF Undo
<1>18. CASE CloseJournal
  <2>1. /\ running # Null /\ running' = Null /\ txn' = Null
        /\ requests' = requests /\ \E reply : Answer(running.by, reply)
    BY <1>18, CloseIs DEF CloseJournal, Recorded
  <2>2. running.by = c
    BY <2>1, <1>3
  <2> QED
    BY <2>1, <2>2, <1>6 DEF plan
<1>19. CASE Deadline
  BY <1>19, <1>4 DEF Deadline
<1>20. CASE OperatorClears \/ ClearKilled
  BY <1>20, <1>4, ClearIs DEF Recorded
<1>21. CASE Drift
  <2>1. /\ running # Null /\ running' = Null /\ requests' = requests
        /\ Answer(running.by, "NEEDS_MANUAL")
    BY <1>21 DEF Drift, Finish, Undecided
  <2>2. running.by = c
    BY <2>1, <1>3
  <2>3. txn'.state = "needs_manual"
    BY <1>21, DriftIs DEF Recorded
  <2> QED
    BY <2>1, <2>2, <2>3, <1>6 DEF plan
<1>22. CASE RestoreFails
  <2>1. /\ running # Null /\ running' = Null /\ requests' = requests
        /\ Answer(running.by, "ERROR") /\ txn' = txn
    BY <1>22 DEF RestoreFails, Finish, Undecided
  <2>2. running.by = c
    BY <2>1, <1>3
  <2>3. txn # Null /\ txn.state = "armed"
    BY <2>1, <2>2, <1>7
  <2> QED
    BY <2>1, <2>2, <2>3, <1>6 DEF plan
<1>23. CASE AgentDies
  <2>1. replies'[c] = "LOST"
    BY <1>23, <1>3 DEF AgentDies, Finish
  <2> QED
    BY <2>1
<1> QED
  BY <1>8, <1>9, <1>10, <1>11, <1>12, <1>13, <1>14, <1>15, <1>16, <1>17, <1>18,
    <1>19, <1>20, <1>21, <1>22, <1>23 DEF Serve, Work, plan

\* A sync that finds a plan pending finds it with the lock, and takes the lock
\* from a plan that has ended only.
LEMMA SyncKept ==
  ASSUME TypeOK, NEW plan \in Plans, NEW seen \in ActiveStates, NEW reply,
         Sync(plan, seen, reply), row[plan] = seen, LockKept,
         NotPending(plan) => reply # "applied_unconfirmed"
  PROVE  /\ PendingHoldsLock'
         /\ \A p \in Plans : row'[p] = "applying" =>
              lock' = p \/ (row[p] = "applying" /\ NotPending(p))
<1> DEFINE new == Synced(seen, reply)
<1>1. \/ new = seen
      \/ new \in TerminalStates
      \/ new = "applying"
      \/ new = "pending_confirmation" /\ reply = "applied_unconfirmed"
  BY DEF Synced, PlanState, TerminalStates
<1>2. /\ row' = IF new = seen THEN row ELSE [row EXCEPT ![plan] = new]
      /\ lock' = IF new # seen /\ new \in TerminalStates
                 THEN (IF lock = plan THEN Null ELSE lock) ELSE lock
  BY DEF Sync, Release
<1>3. seen \in {"applying", "pending_confirmation", "unknown"}
  BY DEF ActiveStates
<1>4. /\ row[plan] \in {"pending_confirmation", "unknown"} => lock = plan
      /\ row[plan] = "applying" => lock = plan \/ NotPending(plan)
      /\ \A p \in Plans : row[p] \in {"pending_confirmation", "unknown"} =>
                            lock = p
      /\ \A p \in Plans : row[p] = "applying" => lock = p \/ NotPending(p)
  BY DEF LockKept, PendingHoldsLock
<1> HIDE DEF new
<1>5. CASE new = seen
  BY <1>2, <1>4, <1>5 DEF PendingHoldsLock
<1>6. CASE new # seen /\ new \in TerminalStates
  <2>1. row' = [row EXCEPT ![plan] = new]
        /\ lock' = IF lock = plan THEN Null ELSE lock
    BY <1>2, <1>6
  <2>2. row'[plan] \notin {"pending_confirmation", "unknown", "applying"}
    BY <2>1, <1>6 DEF TypeOK, TerminalStates
  <2>3. \A p \in Plans \ {plan} : row'[p] = row[p]
    BY <2>1 DEF TypeOK
  <2> QED
    BY <2>1, <2>2, <2>3, <1>4 DEF PendingHoldsLock
<1>7. CASE new # seen /\ new \notin TerminalStates
  <2>1. row' = [row EXCEPT ![plan] = new] /\ lock' = lock
    BY <1>2, <1>7
  <2>2. lock = plan
    BY <1>1, <1>3, <1>4, <1>7
  <2>3. \A p \in Plans \ {plan} : row'[p] = row[p]
    BY <2>1 DEF TypeOK
  <2> QED
    BY <2>1, <2>2, <2>3, <1>4 DEF PendingHoldsLock
<1> QED
  BY <1>5, <1>6, <1>7

\* The router answers a call that has no answer yet.
LEMMA AnsweredOnce ==
  ASSUME TypeOK, Asked, NEW c \in Calls, replies[c] # Null,
         Serve \/ Work \/ WatchdogRuns \/ Deadline \/ OperatorClears
           \/ Drift \/ RestoreFails \/ AgentDies \/ ClearKilled
  PROVE  replies'[c] = replies[c]
<1> USE DEF TypeOK, wire
<1>1. \A r \in requests : r.by # c
  BY ServiceAssumption DEF Asked, Awaited
<1>2. running # Null => running.by # c
  BY ServiceAssumption DEF Asked, Awaited
<1>3. \A by, reply : by # c /\ Answer(by, reply) => replies'[c] = replies[c]
  BY DEF Answer
<1>4. ASSUME NEW r \in requests,
             \/ StatusAnswer(r) \/ Refuse(r) \/ NoTransaction(r)
             \/ ApplyArms(r) \/ RollbackRuns(r) \/ ConfirmRuns(r)
      PROVE  replies'[c] = replies[c]
  <2>1. replies' = replies \/ \E reply : Answer(r.by, reply)
    BY <1>4 DEF StatusAnswer, Refuse, NoTransaction, Decline, ApplyArms,
                RollbackRuns, ConfirmRuns
  <2> QED
    BY <2>1, <1>1, <1>3
<1>5. CASE Serve
  BY <1>4, <1>5 DEF Serve
<1>6. CASE Work \/ Drift \/ RestoreFails \/ AgentDies
  <2>1. /\ running # Null
        /\ replies' = replies \/ \E reply : Answer(running.by, reply)
    BY <1>6 DEF Work, ApplyDone, ApplyStuck, Undo, CloseJournal, Finish,
                Undecided, Drift, RestoreFails, AgentDies
  <2> QED
    BY <2>1, <1>2, <1>3
<1>7. CASE WatchdogRuns \/ Deadline \/ OperatorClears \/ ClearKilled
  BY <1>7 DEF WatchdogRuns, Deadline, OperatorClears, ClearRead, ClearWrite,
              ClearUnlink, ClearKilled
<1> QED
  BY <1>5, <1>6, <1>7

\* The lock stays with a plan that may be pending on the router.
LEMMA LockKeptStep ==
  ASSUME TypeOK, Grounded, Asked, Recorded, OneCallAtATime, Fresh, SentOnce,
         Begun, LockKept, "cancel" \notin FaultKinds, [Next]_vars
  PROVE  LockKept'
<1> USE DEF TypeOK, OneCallAtATime, CallStates, Returned, store, wire, router
<1> USE ServiceAssumption
<1>a. \A p \in Plans : row[p] = "applying" /\ NotPending(p) => NotPending(p)'
  BY NotPendingStays
<1>b. /\ \A p \in Plans : row[p] \in {"pending_confirmation", "unknown"} =>
                            lock = p
      /\ \A p \in Plans : row[p] = "applying" => lock = p \/ NotPending(p)
      /\ \A c \in Calls : calls[c].at \in {"inspecting", "applying"} =>
                            lock = calls[c].plan
      /\ \A c \in Calls : calls[c].at = "applying"
                            /\ replies[c] \in {"ERROR", "NEEDS_MANUAL"} =>
           NotPending(calls[c].plan)
  BY DEF LockKept, PendingHoldsLock
<1>c. \A c \in Calls :
          /\ calls[c].at \notin ReplyAwaits => replies[c] = Null
          /\ calls[c].at # "idle" => calls[c].plan \in Plans
  BY DEF Asked, Grounded
<1>d. Null \notin {"ERROR", "NEEDS_MANUAL"}
  BY NullAssumption DEF Errors
<1>1. ASSUME NEW p \in Plans, CreatePlan(p)
      PROVE  LockKept'
  BY <1>1, <1>a, <1>b, <1>c, <1>d DEF CreatePlan, LockKept,
    PendingHoldsLock, Fresh, ReplyAwaits
<1>2. ASSUME NEW p \in Plans, FindExpired(p)
      PROVE  LockKept'
  BY <1>2, <1>a, <1>b, <1>c, <1>d DEF FindExpired, LockKept,
    PendingHoldsLock, Fresh, ReplyAwaits
<1>3. ASSUME NEW g \in Grants, Approve(g)
      PROVE  LockKept'
  BY <1>3, <1>a, <1>b, <1>c, <1>d DEF Approve, LockKept,
    PendingHoldsLock, Fresh, ReplyAwaits
<1>4. ASSUME NEW c \in Calls, NEW p \in Plans, StatusCall(c, p)
      PROVE  LockKept'
  BY <1>4, <1>a, <1>b, <1>c, <1>d DEF StatusCall, Enter, Send, LockKept,
    PendingHoldsLock, Fresh, ReplyAwaits
<1>5. ASSUME NEW c \in Calls, NEW p \in Plans, ConfirmSync(c, p)
      PROVE  LockKept'
  BY <1>5, <1>a, <1>b, <1>c, <1>d DEF ConfirmSync, Enter, Send, LockKept,
    PendingHoldsLock, Fresh, ReplyAwaits
<1>6. ASSUME NEW c \in Calls, NEW p \in Plans, ConfirmVerify(c, p)
      PROVE  LockKept'
  BY <1>6, <1>a, <1>b, <1>c, <1>d DEF ConfirmVerify, Enter, LockKept,
    PendingHoldsLock, Fresh, ReplyAwaits
<1>7. ASSUME NEW c \in Calls, NEW p \in Plans, RollbackCall(c, p)
      PROVE  LockKept'
  BY <1>7, <1>a, <1>b, <1>c, <1>d DEF RollbackCall, Enter, Send,
    LockKept, PendingHoldsLock, Fresh, ReplyAwaits
<1>8. ASSUME NEW c \in Calls, NEW g \in Grants, ApplyCall(c, g)
      PROVE  LockKept'
  BY <1>8, <1>a, <1>b, <1>c, <1>d DEF ApplyCall, Enter, LockKept,
    PendingHoldsLock, Fresh, ReplyAwaits
<1>9. ASSUME NEW c \in Calls, StatusReturn(c)
      PROVE  LockKept'
  <2>1. /\ calls[c].plan \in Plans /\ calls[c].seen \in ActiveStates
        /\ row[calls[c].plan] = calls[c].seen
        /\ Sync(calls[c].plan, calls[c].seen, replies[c])
    BY <1>9 DEF StatusReturn, Receive, Grounded, Fresh
  <2>2. NotPending(calls[c].plan) => replies[c] # "applied_unconfirmed"
    BY DEF NotPending
  <2>3. /\ PendingHoldsLock'
        /\ \A p \in Plans : row'[p] = "applying" =>
             lock' = p \/ (row[p] = "applying" /\ NotPending(p))
    BY <2>1, <2>2, SyncKept
  <2>4. \A d \in Calls : calls'[d].at \notin {"inspecting", "applying"}
    BY <1>9 DEF StatusReturn, Return
  <2> QED
    BY <2>3, <2>4, <1>a DEF LockKept
<1>10. ASSUME NEW c \in Calls, ConfirmSynced(c)
      PROVE  LockKept'
  <2>1. /\ calls[c].plan \in Plans /\ calls[c].seen \in ActiveStates
        /\ row[calls[c].plan] = calls[c].seen
        /\ Sync(calls[c].plan, calls[c].seen, replies[c])
    BY <1>10 DEF ConfirmSynced, Receive, Grounded, Fresh
  <2>2. NotPending(calls[c].plan) => replies[c] # "applied_unconfirmed"
    BY DEF NotPending
  <2>3. /\ PendingHoldsLock'
        /\ \A p \in Plans : row'[p] = "applying" =>
             lock' = p \/ (row[p] = "applying" /\ NotPending(p))
    BY <2>1, <2>2, SyncKept
  <2>4. \A d \in Calls : calls'[d].at \notin {"inspecting", "applying"}
    BY <1>10 DEF ConfirmSynced, Return, Goto
  <2> QED
    BY <2>3, <2>4, <1>a DEF LockKept
<1>11. ASSUME NEW c \in Calls, ConfirmOverdue(c)
      PROVE  LockKept'
  <2>1. /\ calls[c].plan \in Plans /\ calls[c].seen \in ActiveStates
        /\ row[calls[c].plan] = calls[c].seen
        /\ Sync(calls[c].plan, calls[c].seen, replies[c])
    BY <1>11 DEF ConfirmOverdue, Receive, Grounded, Fresh
  <2>2. NotPending(calls[c].plan) => replies[c] # "applied_unconfirmed"
    BY DEF NotPending
  <2>3. /\ PendingHoldsLock'
        /\ \A p \in Plans : row'[p] = "applying" =>
             lock' = p \/ (row[p] = "applying" /\ NotPending(p))
    BY <2>1, <2>2, SyncKept
  <2>4. \A d \in Calls : calls'[d].at \notin {"inspecting", "applying"}
    BY <1>11 DEF ConfirmOverdue
  <2> QED
    BY <2>3, <2>4, <1>a DEF LockKept
<1>12. ASSUME NEW c \in Calls, ConfirmVerified(c)
      PROVE  LockKept'
  BY <1>12, <1>a, <1>b, <1>c, <1>d DEF ConfirmVerified, Goto, Send,
    LockKept, PendingHoldsLock, Fresh, ReplyAwaits
<1>13. ASSUME NEW c \in Calls, ConfirmRefused(c)
      PROVE  LockKept'
  BY <1>13, <1>a, <1>b, <1>c, <1>d DEF ConfirmRefused, Return, LockKept,
    PendingHoldsLock, Fresh, ReplyAwaits
<1>14. ASSUME NEW c \in Calls, ConfirmReturn(c)
      PROVE  LockKept'
  BY <1>14, <1>a, <1>b, <1>c, <1>d DEF ConfirmReturn, Receive, Return,
    Mark, Release, LockKept, PendingHoldsLock, Fresh, ReplyAwaits
<1>15. ASSUME NEW c \in Calls, RollbackReturn(c)
      PROVE  LockKept'
  BY <1>15, <1>a, <1>b, <1>c, <1>d DEF RollbackReturn, Receive, Return,
    Mark, Release, LockKept, PendingHoldsLock, Fresh, ReplyAwaits
<1>16. ASSUME NEW c \in Calls, ApplyStopped(c)
      PROVE  LockKept'
  BY <1>16, <1>a, <1>b, <1>c, <1>d DEF ApplyStopped, Return, Release,
    LockKept, PendingHoldsLock, Fresh, ReplyAwaits
<1>17. ASSUME NEW c \in Calls, ApplyStart(c)
      PROVE  LockKept'
  <2>1. /\ calls[c].plan \in Plans /\ lock = calls[c].plan /\ replies[c] = Null
    BY <1>17, <1>b, <1>c DEF ApplyStart, ReplyAwaits
  <2>2. /\ row' = [row EXCEPT ![calls[c].plan] = "applying"]
        /\ calls' = [calls EXCEPT ![c].at = "applying"]
        /\ UNCHANGED <<lock, replies>>
    BY <1>17 DEF ApplyStart, Mark, Goto
  <2> QED
    BY <2>1, <2>2, <1>a, <1>b, <1>d DEF LockKept, PendingHoldsLock
<1>18. ASSUME NEW c \in Calls, ApplySucceeds(c)
      PROVE  LockKept'
  BY <1>18, <1>a, <1>b, <1>c, <1>d DEF ApplySucceeds, Receive, Goto, Mark,
    LockKept, PendingHoldsLock, Fresh, ReplyAwaits
<1>19. ASSUME NEW c \in Calls, ApplyLost(c)
      PROVE  LockKept'
  BY <1>19, <1>a, <1>b, <1>c, <1>d DEF ApplyLost, Receive, Return, Mark,
    LockKept, PendingHoldsLock, Fresh, ReplyAwaits
<1>20. ASSUME NEW c \in Calls, ApplyRejected(c)
      PROVE  LockKept'
  BY <1>20, <1>a, <1>b, <1>c, <1>d DEF ApplyRejected, Receive, Return,
    Mark, Release, LockKept, PendingHoldsLock, Fresh, ReplyAwaits
<1>21. ASSUME NEW c \in Calls, ApplyErrs(c)
      PROVE  LockKept'
  <2> DEFINE p == calls[c].plan
  <2>1. /\ p \in Plans /\ lock = p /\ row[p] = "applying" /\ NotPending(p)
    BY <1>21, <1>b, <1>c DEF ApplyErrs, Receive, Fresh
  <2>2. /\ row' = row /\ lock' = Null
        /\ calls' = [calls EXCEPT ![c] = Returned]
    BY <1>21, <2>1 DEF ApplyErrs, Release, Return
  <2>3. \A q \in Plans : row[q] = "applying" => NotPending(q)
    BY <2>1, <1>b
  <2>4. PendingHoldsLock'
    BY <2>1, <2>2, <1>b DEF PendingHoldsLock
  <2>5. \A d \in Calls : calls'[d].at = "idle"
    BY <2>2
  <2>6. \A q \in Plans : row'[q] = "applying" => NotPending(q)'
    BY <2>2, <2>3, <1>a
  <2> QED
    BY <2>4, <2>5, <2>6 DEF LockKept
<1>22. ASSUME NEW c \in Calls, ProbesPass(c)
      PROVE  LockKept'
  BY <1>22, <1>a, <1>b, <1>c, <1>d DEF ProbesPass, Return, LockKept,
    PendingHoldsLock, Fresh, ReplyAwaits
<1>23. ASSUME NEW c \in Calls, ProbesFail(c)
      PROVE  LockKept'
  BY <1>23, <1>a, <1>b, <1>c, <1>d DEF ProbesFail, Goto, Send, LockKept,
    PendingHoldsLock, Fresh, ReplyAwaits
<1>24. ASSUME NEW c \in Calls, UndoReturn(c)
      PROVE  LockKept'
  BY <1>24, <1>a, <1>b, <1>c, <1>d DEF UndoReturn, Receive, Return, Mark,
    Release, LockKept, PendingHoldsLock, Fresh, ReplyAwaits
<1>25. CASE \/ Serve \/ Work \/ WatchdogRuns \/ Deadline \/ OperatorClears
          \/ Drift \/ RestoreFails \/ AgentDies \/ ClearKilled
  <2>1. UNCHANGED <<row, lock, calls>>
    BY <1>25, RouterFrame
  <2>2. PendingHoldsLock'
    BY <2>1, <1>b DEF PendingHoldsLock
  <2>3. \A p \in Plans : row'[p] = "applying" => lock' = p \/ NotPending(p)'
    BY <2>1, <1>a, <1>b
  <2>4. ASSUME NEW c \in Calls, calls[c].at = "applying",
               replies'[c] \in {"ERROR", "NEEDS_MANUAL"}
        PROVE  NotPending(calls[c].plan)'
    <3>1. CASE replies[c] = Null
      BY <1>25, <2>4, <3>1, ErrorSettles
    <3>2. CASE replies[c] # Null
      <4>1. replies[c] = replies'[c]
        BY <1>25, <3>2, AnsweredOnce
      <4>2. row[calls[c].plan] = "applying" /\ calls[c].plan \in Plans
        BY <2>4, <1>c DEF Fresh
      <4>3. NotPending(calls[c].plan)
        BY <2>4, <4>1, <1>b
      <4> QED
        BY <2>1, <4>2, <4>3, <1>a
    <3> QED
      BY <3>1, <3>2
  <2>5. (\A c \in Calls :
           calls[c].at = "applying"
             /\ replies[c] \in {"ERROR", "NEEDS_MANUAL"} =>
           NotPending(calls[c].plan))'
    BY <2>1, <2>4
  <2> QED
    BY <2>1, <2>2, <2>3, <2>5, <1>b DEF LockKept
<1>26. ASSUME NEW c \in Calls, TransportFails(c)
      PROVE  LockKept'
  <2>1. /\ UNCHANGED <<row, lock, calls>>
        /\ replies' = [replies EXCEPT ![c] = "LOST"]
    BY <1>26 DEF TransportFails
  <2> QED
    BY <2>1, <1>a, <1>b DEF LockKept, PendingHoldsLock
<1>27. ASSUME NEW c \in Calls, Cancel(c)
      PROVE  LockKept'
  BY <1>27 DEF Cancel, Fault
<1>28. CASE Crash
  <2>1. UNCHANGED <<row, lock>> /\ \A c \in Calls : calls'[c].at = "idle"
    BY <1>28 DEF Crash
  <2> QED
    BY <2>1, <1>a, <1>b DEF LockKept, PendingHoldsLock
<1>29. CASE UNCHANGED vars
  <2>1. UNCHANGED <<row, lock, calls, replies>>
    BY <1>29 DEF vars
  <2>2. \A c \in Calls :
          calls[c].at = "applying" => row[calls[c].plan] = "applying"
    BY DEF Fresh
  <2> QED
    BY <2>1, <2>2, <1>a, <1>b, <1>c DEF LockKept, PendingHoldsLock
<1> QED
  BY <1>1, <1>2, <1>3, <1>4, <1>5, <1>6, <1>7, <1>8, <1>9, <1>10, <1>11, <1>12,
    <1>13, <1>14, <1>15, <1>16, <1>17, <1>18, <1>19, <1>20, <1>21, <1>22,
    <1>23, <1>24, <1>25, <1>26, <1>27, <1>28, <1>29 DEF Next, Begin, Resume,
    Serve, Work, Failure

\* Nothing is under way to begin with.
LEMMA InitKept ==
  ASSUME Init
  PROVE  SentOnce /\ Begun /\ LockKept
<1>1. \A c \in Calls : calls[c].at = "idle"
  BY DEF Init, Returned
<1>2. \A p \in Plans : row[p] = "none" /\ outcome[p] = "none"
  BY DEF Init
<1>3. requests = {} /\ running = Null
  BY DEF Init
<1>4. SentOnce
  BY <1>2, <1>3 DEF SentOnce, NoApplySent
<1>5. Begun
  BY <1>1, <1>3 DEF Begun
<1>6. LockKept
  BY <1>1, <1>2 DEF LockKept, PendingHoldsLock
<1> QED
  BY <1>4, <1>5, <1>6

\* A plan that the store has as pending or unknown has the lock, and so has one
\* the store has as applying that waits on the router for its confirmation:
\* across crashes of the server, lost replies and applies that arrive late, as
\* long as tool calls neither overlap nor are cancelled (the finally clause of
\* apply frees the lock of a cancelled one).  An apply whose restore failed is
\* not such a plan: its journal is armed, and its lock is free.
THEOREM InFlightLocked ==
  ASSUME OneCallAtATime, "cancel" \notin FaultKinds
  PROVE  Spec => []InFlightHoldsLock
<1> DEFINE Inv == Fresh /\ Recorded /\ SentOnce /\ Begun /\ LockKept
<1>1. Init => Inv
  BY InitFresh, InitHolds, InitKept
<1>2. TypeOK /\ Grounded /\ Asked /\ Inv /\ [Next]_vars => Inv'
  BY FreshStep, RecordedStep, SentOnceStep, BegunStep, LockKeptStep
<1>3. Inv => InFlightHoldsLock
  BY DEF LockKept, PendingHoldsLock, NotPending, InFlightHoldsLock
<1> QED
  BY <1>1, <1>2, <1>3, TypeCorrect, RepliesAwaited, PTL DEF Spec
===============================================================================
