----------------------------- MODULE NasSession -----------------------------
(***************************************************************************)
(* The truenas-mcp server: tool calls that run concurrently over one       *)
(* WebSocket (client/websocket.py), the guarded shutdown and reboot        *)
(* (tools/power.py), a write that waits for its job (tools/writes.py,      *)
(* client/jobs.py), and reads.  The connection drops, requests are         *)
(* answered late or not at all, and the NAS goes down as it was told to.   *)
(*                                                                         *)
(* A tool is a task; what it does with the answer to one request, up to    *)
(* the next request, is the operator After.  Left out: the payloads, the   *)
(* text of warnings, confirm, and plan_only, which ends before the submit. *)
(***************************************************************************)
EXTENDS Integers, Sequences, FiniteSets, FiniteSetsExt

CONSTANTS
  Power, Other,               \* the tasks: a power call, and any other tool
  Clients, V3, Unnamed,       \* NFS clients, those on NFSv3, those without an address
  Expected,                   \* expected_clients of the power calls
  Modern,                     \* the NAS takes the reason argument (24.10+)
  MaxCalls, MaxPolls,         \* power calls, polls of a job
  FaultKinds, MaxFaults,
  Null

Tasks == {Power, Other}

ASSUME TasksAssumption   == Power # Other /\ Null \notin Tasks
ASSUME ClientsAssumption == V3 \subseteq Clients /\ Expected \subseteq Clients \ Unnamed
ASSUME BoundsAssumption  == {MaxCalls, MaxPolls, MaxFaults} \subseteq Nat /\ Modern \in BOOLEAN

VARIABLES
  task,      \* of each task: what it waits for, what it has read, how it ended
  calls,     \* power calls begun
  holder,    \* who holds the client's lock
  phase,     \* of the holder: connect, send, recv
  ws,        \* the socket: none, open, or dropped without the client knowing
  id,        \* the id of the request that is waited for
  frames,    \* what the socket has to read: [id, val, to], to being history
  wire,      \* requests the NAS has received: [id, by, method, call, live]
  nas,       \* up or down
  mounted,   \* NFS clients the NAS lists
  stale,     \* those of them whose lease has gone stale
  scrub,     \* a job that must not be interrupted runs
  jobs,      \* the power calls whose job is pending
  dataset,   \* the write: none, its job running, SUCCESS, FAILED
  made,      \* history: how many jobs each power call has made
  during,    \* history: power jobs pending at some time of the current call
  stayed,    \* history: active clients, and the scrub, there since the call began
  faults

session == <<holder, phase, ws, id, frames, wire>>
server  == <<nas, mounted, stale, scrub, jobs, dataset>>
history == <<made, during, stayed>>
vars == <<task, calls, session, server, history, faults>>

Fault(k) == k \in FaultKinds /\ faults < MaxFaults /\ faults' = faults + 1
Ok(v) == [code |-> "ok", val |-> v]
Error(c) == [code |-> c, val |-> Null]
Active == mounted \ stale

-----------------------------------------------------------------------------
(* The tools.                                                              *)

End(outcome) == [wants |-> "nothing", outcome |-> outcome, verified |-> FALSE]
Verified == [End("submitted") EXCEPT !.verified = TRUE]
\* A write that was to wait for its job, and has.
Done == [End("ok") EXCEPT !.verified = TRUE]
Want(t, method) == [t EXCEPT !.wants = method]

\* Mutant of Refused: a list that could not be read does not count.
RefusedByList(t) == t.seen \cap Unnamed # {} \/ ~(t.seen \ Unnamed \subseteq Expected) \/ t.busy

\* collect_nfs_clients and _power: why the NAS must not go down now.
Refused(t) ==
  \/ t.failed # {}
  \/ t.seen \cap Unnamed # {}
  \/ ~(t.seen \ Unnamed \subseteq Expected)
  \/ t.busy

\* collect_nfs_clients: one list that cannot be read leaves it incomplete.
AfterClients(t, r, next) ==
  Want([t EXCEPT !.seen = IF r.code = "ok" THEN @ \cup r.val ELSE @,
                 !.failed = IF r.code = "ok" THEN @ ELSE @ \cup {t.wants}], next)

\* _blocking_jobs, whose failure force does not override, then the guards.
AfterJobs(t, r) ==
  IF r.code # "ok" THEN End(r.code)
  ELSE LET u == [t EXCEPT !.busy = r.val]
       IN IF Refused(u) /\ ~u.force THEN End("POWER_GUARD") ELSE Want(u, "submit")

\* Mutant of AfterSubmit: the old form is also tried when the connection drops.
AfterSubmitAgain(t, r) ==
  CASE r.code = "ok" -> Verified
    [] r.code \in {"signature", "CONNECTION_ERROR"} -> Want(t, "submit_old")
    [] OTHER -> End(r.code)

\* _submit: an answer that dislikes the reason argument is tried without it.
\* A connection that drops leaves open whether the NAS has got the request.
AfterSubmit(t, r) ==
  IF r.code = "ok" THEN Verified
  ELSE IF r.code = "signature" /\ t.wants = "submit" THEN Want(t, "submit_old")
  ELSE IF r.code = "CONNECTION_ERROR" THEN Want(t, "verify")
  ELSE End(r.code)

\* Mutant of AfterVerify: a NAS that does not answer has not got the request.
AfterVerifyHopeful(t, r) ==
  IF r.code = "ok" /\ r.val # {} THEN Verified
  ELSE End(IF t.delayed THEN "POWER_NOT_SUBMITTED" ELSE "submitted")

\* _verify_submitted
AfterVerify(t, r) ==
  IF r.code # "ok" THEN End("submitted")
  ELSE IF r.val # {} THEN Verified
  ELSE End(IF t.delayed THEN "POWER_NOT_SUBMITTED" ELSE "submitted")

\* Mutants of AfterPoll: any end of the job is a success; there is no deadline.
AfterPollEnded(t, r) ==
  IF r.code # "ok" THEN End(r.code)
  ELSE IF r.val \in {"SUCCESS", "FAILED"} THEN Done
  ELSE IF t.polls = MaxPolls THEN End("timeout") ELSE [t EXCEPT !.polls = @ + 1]
AfterPollForever(t, r) ==
  CASE r.code # "ok" -> End(r.code)
    [] r.val = "SUCCESS" -> Done
    [] r.val = "FAILED" -> End("JOB_FAILED")
    [] OTHER -> t

\* wait_for_job: a job that does not end in time is an error, and runs on.
AfterPoll(t, r) ==
  IF r.code # "ok" THEN End(r.code)
  ELSE IF r.val = "SUCCESS" THEN Done
  ELSE IF r.val = "FAILED" THEN End("JOB_FAILED")
  ELSE IF t.polls = MaxPolls THEN End("timeout") ELSE [t EXCEPT !.polls = @ + 1]

\* A write: the NAS answers with a job, which is waited for if the caller wants
\* it (wait_for_job), or with what it has written, when there is none to wait for.
AfterCreate(t, r) ==
  IF r.code # "ok" THEN End(r.code)
  ELSE IF t.waits /\ r.val = "job" THEN Want(t, "poll")
  ELSE [End("ok") EXCEPT !.verified = t.waits]

After(t, r) ==
  CASE t.wants = "nfs3" -> AfterClients(t, r, "nfs4")
    [] t.wants = "nfs4" -> AfterClients(t, r, "jobs")
    [] t.wants = "jobs" -> AfterJobs(t, r)
    [] t.wants \in {"submit", "submit_old"} -> AfterSubmit(t, r)
    [] t.wants = "verify" -> AfterVerify(t, r)
    [] t.wants = "create" -> AfterCreate(t, r)
    [] t.wants = "poll" -> AfterPoll(t, r)
    [] t.wants = "state" -> End(IF r.code = "ok" THEN "read" ELSE r.code)

Resting == End("none")

Init ==
  /\ task = [t \in Tasks |-> Resting]
  /\ calls = 0
  /\ holder = Null /\ phase = "none" /\ ws = "none"
  /\ id = 0 /\ frames = <<>> /\ wire = {}
  /\ nas = "up" /\ mounted \in {Expected, Clients} /\ stale = {}
  /\ scrub = FALSE /\ jobs = {} /\ dataset = "none"
  /\ made = [k \in 1..MaxCalls |-> 0] /\ during = {}
  /\ stayed = [clients |-> {}, scrub |-> FALSE]
  /\ faults = 0

\* truenas_shutdown, truenas_reboot (all calls of one of the two)
BeginPower ==
  /\ task[Power].wants = "nothing" /\ calls < MaxCalls
  /\ calls' = calls + 1
  /\ \E force, delayed \in BOOLEAN :
       task' = [task EXCEPT ![Power] =
                  [wants |-> "nfs3", outcome |-> "none", force |-> force, delayed |-> delayed,
                   seen |-> {}, failed |-> {}, busy |-> FALSE]]
  /\ during' = jobs
  /\ stayed' = [clients |-> Active, scrub |-> scrub]
  /\ UNCHANGED <<session, server, made, faults>>

\* truenas_create_dataset, and any tool that reads
BeginOther(method) ==
  /\ task[Other] = Resting
  /\ \E waits \in BOOLEAN :
       /\ waits => method = "create"
       /\ task' = [task EXCEPT ![Other] =
                  [wants |-> method, outcome |-> "none", polls |-> 0, waits |-> waits]]
  /\ UNCHANGED <<calls, session, server, history, faults>>

-----------------------------------------------------------------------------
(* TnasClient.call.                                                        *)

Closed == ws' = "none" /\ frames' = <<>> /\ wire' = {[r EXCEPT !.live = FALSE] : r \in wire}

\* The lock is left with the result; the tool goes on to its next request.
Return(r) ==
  /\ task' = [task EXCEPT ![holder] = After(@, r)]
  /\ holder' = Null /\ phase' = "none" /\ id' = 0
  /\ UNCHANGED <<calls, server, history>>

Acquire(t) ==
  /\ holder = Null /\ task[t].wants # "nothing"
  /\ holder' = t
  /\ phase' = IF ws = "none" THEN "connect" ELSE "send"
  /\ UNCHANGED <<task, calls, ws, id, frames, wire, server, history, faults>>

\* _connect_and_auth.  What the NAS received on the connection before is dealt
\* with by now, unless it is slow.
Connect ==
  /\ phase = "connect" /\ nas = "up"
  /\ wire # {} => "backlog" \in FaultKinds
  /\ ws' = "open" /\ frames' = <<>> /\ phase' = "send"
  /\ UNCHANGED <<task, calls, holder, id, wire, server, history, faults>>

\* classify_connect_error: what any other OSError is called, a dropped
\* connection is called too.
ConnectFails ==
  /\ phase = "connect"
  /\ IF nas = "up" THEN Fault("connect") ELSE UNCHANGED faults
  /\ \E code \in {"CONNECTION_ERROR", "CONNECTION_REFUSED"} : Return(Error(code))
  /\ Closed

\* _next_id.  The ids only have to differ from those still under way: the
\* least of those that are greater stands for the next one.
NextId == 1 + Max({0} \cup {r.id : r \in wire} \cup {frames[i].id : i \in DOMAIN frames})

Send ==
  /\ phase = "send" /\ ws = "open"
  /\ id' = NextId
  /\ wire' = wire \cup {[id |-> NextId, by |-> holder, method |-> task[holder].wants,
                               call |-> IF holder = Power THEN calls ELSE 0, live |-> TRUE]}
  /\ phase' = "recv"
  /\ UNCHANGED <<task, calls, holder, ws, frames, server, history, faults>>

\* ConnectionClosed, in the send or when what had arrived has been read.
Lost ==
  /\ ws = "dropped" /\ (phase = "send" \/ (phase = "recv" /\ frames = <<>>))
  /\ Return(Error("CONNECTION_ERROR"))
  /\ Closed /\ UNCHANGED faults

\* Mutant of Matches: the next frame is the answer.
MatchesAny(frame) == TRUE

\* _matches_request_id
Matches(frame) == frame.id = id

\* _recv_matching
Receive ==
  /\ phase = "recv" /\ frames # <<>> /\ Matches(Head(frames))
  /\ Return(Head(frames).val)
  /\ frames' = Tail(frames)
  /\ UNCHANGED <<ws, wire, faults>>

\* An answer nobody waits for any more is skipped, ...
Skip ==
  /\ phase = "recv" /\ frames # <<>> /\ ~Matches(Head(frames))
  /\ frames' = Tail(frames)
  /\ UNCHANGED <<task, calls, holder, phase, ws, id, wire, server, history, faults>>

\* ... and when that took until the deadline, the socket stays open.
Deadline ==
  /\ phase = "recv" /\ frames # <<>> /\ ~Matches(Head(frames))
  /\ Return(Error("TIMEOUT"))
  /\ frames' = Tail(frames)
  /\ UNCHANGED <<ws, wire, faults>>

\* asyncio.TimeoutError: no frame until the deadline closes the socket.
RecvTimeout ==
  /\ phase = "recv" /\ ws = "open" /\ frames = <<>>
  /\ Return(Error("CONNECTION_ERROR"))
  /\ Closed /\ UNCHANGED faults

\* The MCP client gives a tool call up: its task is cancelled where it waits.
\* What it has connected by then is not authenticated: the next call connects.
Cancel(t) ==
  /\ task[t].wants # "nothing" /\ Fault("cancel")
  /\ task' = [task EXCEPT ![t] = End("cancelled")]
  /\ IF holder = t THEN holder' = Null /\ phase' = "none" /\ id' = 0
     ELSE UNCHANGED <<holder, phase, id>>
  /\ UNCHANGED <<calls, ws, frames, wire, server, history>>

-----------------------------------------------------------------------------
(* The NAS and its network.                                                *)

Answer(r, v) ==
  frames' = IF r.live /\ ws = "open" THEN Append(frames, [id |-> r.id, val |-> v,
                                                                to |-> [by |-> r.by, method |-> r.method]]) ELSE frames

Handle(r) ==
  /\ nas = "up" /\ r \in wire
  /\ wire' = wire \ {r}
  /\ CASE r.method \in {"nfs3", "nfs4"} ->
            /\ IF "list" \in FaultKinds /\ faults < MaxFaults
               THEN \/ UNCHANGED faults
                       /\ Answer(r, Ok({c \in Active : (c \in V3) <=> (r.method = "nfs3")}))
                    \/ faults' = faults + 1 /\ Answer(r, Error("TRUENAS_API_ERROR"))
               ELSE /\ UNCHANGED faults
                    /\ Answer(r, Ok({c \in Active : (c \in V3) <=> (r.method = "nfs3")}))
            /\ UNCHANGED <<jobs, dataset, made, during>>
       [] r.method = "jobs" ->
            Answer(r, Ok(scrub)) /\ UNCHANGED <<jobs, dataset, made, during, faults>>
       [] r.method = "submit" /\ ~Modern ->
            Answer(r, Error("signature")) /\ UNCHANGED <<jobs, dataset, made, during, faults>>
       [] (r.method = "submit" /\ Modern) \/ r.method = "submit_old" ->
            /\ jobs' = jobs \cup {r.call}
            /\ made' = [made EXCEPT ![r.call] = @ + 1]
            /\ during' = during \cup {r.call}
            /\ Answer(r, Ok(r.call)) /\ UNCHANGED <<dataset, faults>>
       [] r.method = "verify" ->
            Answer(r, Ok(jobs)) /\ UNCHANGED <<jobs, dataset, made, during, faults>>
       [] r.method = "create" ->
            /\ \/ dataset' = "running" /\ Answer(r, Ok("job"))
               \/ dataset' = "SUCCESS" /\ Answer(r, Ok("entity"))
            /\ UNCHANGED <<jobs, made, during, faults>>
       [] r.method = "poll" ->
            Answer(r, Ok(dataset)) /\ UNCHANGED <<jobs, dataset, made, during, faults>>
       [] r.method = "state" ->
            Answer(r, Ok("READY")) /\ UNCHANGED <<jobs, dataset, made, during, faults>>
  /\ UNCHANGED <<task, calls, holder, phase, ws, id, nas, mounted, stale, scrub, stayed>>

\* A request of a connection that is gone is given up.
Forget(r) ==
  /\ r \in wire /\ ~r.live
  /\ wire' = wire \ {r}
  /\ UNCHANGED <<task, calls, holder, phase, ws, id, frames, server, history, faults>>

Drop ==
  /\ ws = "open" /\ Fault("drop")
  /\ ws' = "dropped" /\ wire' = {[r EXCEPT !.live = FALSE] : r \in wire}
  /\ UNCHANGED <<task, calls, holder, phase, id, frames, server, history>>

JobEnds ==
  /\ nas = "up" /\ dataset = "running" /\ dataset' \in {"SUCCESS", "FAILED"}
  /\ UNCHANGED <<task, calls, session, nas, mounted, stale, scrub, jobs, history, faults>>

\* The power job comes due: the NAS goes, with its jobs and connections.
GoDown ==
  /\ nas = "up" /\ jobs # {}
  /\ nas' = "down" /\ jobs' = {} /\ wire' = {} /\ mounted' = {} /\ stale' = {}
  /\ ws' = IF ws = "open" THEN "dropped" ELSE ws
  /\ stayed' = [clients |-> {}, scrub |-> FALSE] /\ scrub' = FALSE
  /\ dataset' = IF dataset = "running" THEN "FAILED" ELSE dataset
  /\ UNCHANGED <<task, calls, holder, phase, id, frames, made, during, faults>>

ComeUp ==
  /\ nas = "down" /\ nas' = "up"
  /\ UNCHANGED <<task, calls, session, mounted, stale, scrub, jobs, dataset, history, faults>>

\* NFS clients mount, go away and leave a lease behind on NFSv4.
ClientChanges(c) ==
  /\ nas = "up" /\ Fault("clients")
  /\ \/ c \notin Active /\ mounted' = mounted \cup {c} /\ stale' = stale \ {c}
     \/ c \in Active /\ mounted' = mounted \ {c} /\ stale' = stale
     \/ c \in Active \ V3 /\ mounted' = mounted /\ stale' = stale \cup {c}
  /\ stayed' = [stayed EXCEPT !.clients = @ \cap Active']
  /\ UNCHANGED <<task, calls, session, nas, scrub, jobs, dataset, made, during>>

ScrubChanges ==
  /\ nas = "up" /\ Fault("clients")
  /\ scrub' = ~scrub
  /\ stayed' = [stayed EXCEPT !.scrub = @ /\ scrub']
  /\ UNCHANGED <<task, calls, session, nas, mounted, stale, jobs, dataset, made, during>>

ClientStep ==
  \/ \E t \in Tasks : Acquire(t)
  \/ Connect \/ ConnectFails \/ Send \/ Lost \/ Receive \/ Skip \/ Deadline \/ RecvTimeout

Next ==
  \/ BeginPower \/ BeginOther("create") \/ BeginOther("state")
  \/ ClientStep
  \/ \E t \in Tasks : Cancel(t)
  \/ \E r \in wire : Handle(r) \/ Forget(r)
  \/ Drop \/ JobEnds \/ GoDown \/ ComeUp
  \/ \E c \in Clients : ClientChanges(c)
  \/ ScrubChanges

Spec == Init /\ [][Next]_vars

\* The event loop runs what can run, timers expire, and an old connection's
\* requests are given up or handled; the NAS need not do anything.
FairSpec == Spec /\ WF_vars(ClientStep) /\ WF_vars(\E r \in wire : Forget(r))

-----------------------------------------------------------------------------
(* Properties.                                                             *)

\* A tool gets the answer to its own request, whatever has been given up,
\* timed out or is still to be read on the socket.
AnswersMatch ==
  phase = "recv" /\ frames # <<>> /\ Matches(Head(frames))
    => Head(frames).to = [by |-> holder, method |-> task[holder].wants]

\* A power call makes at most one job, also when it is submitted in two forms
\* and the connection drops in between.
OncePerCall == \A k \in 1..MaxCalls : made[k] <= 1

\* A call that was refused makes no job; one that ends with "it is safe to
\* retry the call" has no job pending and will make none.
RetryIsSafe ==
  LET outcome == task[Power].outcome
  IN /\ outcome = "POWER_GUARD" => made[calls] = 0
     /\ outcome = "POWER_NOT_SUBMITTED" => calls \notin jobs
     /\ outcome \in {"POWER_GUARD", "POWER_NOT_SUBMITTED"}
          => \A r \in wire : r.call = calls => r.method \notin {"submit", "submit_old"}

\* A power call that says verified has seen a job of its own or one that was
\* pending.  A write that was to wait for its job and answers ok has been done:
\* its job succeeded, or the NAS did it without one.  (One that was not to wait
\* answers ok when the NAS has taken it.)
AnswersAreTrue ==
  /\ task[Power].outcome = "submitted" /\ task[Power].verified => during # {}
  /\ task[Other].outcome = "ok" /\ task[Other].verified => dataset = "SUCCESS"

\* Without force, no job is made while a client that was not expected, or a
\* job that must not be interrupted, has been there ever since the call began.
NothingCutOff ==
  [][calls > 0 /\ made'[calls] > made[calls]
       /\ task[Power].wants \in {"submit", "submit_old"} /\ ~task[Power].force
         => stayed.clients \subseteq Expected /\ ~stayed.scrub]_<<made>>

\* No tool call hangs, whatever the NAS and the network do.
EventuallyEnds == \A t \in Tasks : task[t].wants # "nothing" ~> task[t].wants = "nothing"
=============================================================================
