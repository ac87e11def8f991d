# TLA+ models of papita-proxmox-lab

Formal models of the parts of this repository that hold state across failures or
act on a system that changes under them: the change engine of `mcp/openwrt-mcp`,
which edits the firewall of the LAN router and must be able to undo what it did,
the tools of `mcp/proxmox-ve-mcp` and `mcp/truenas-mcp` that take the lab down, the
firewall tool of `mcp/pfsense-mcp`, the tool calls of those three servers, and the
audit log of `mcp/openwrt-mcp`.

Run TLC on a module with the configuration named in the tables below
(`tlc -config RouterAgent_safety.cfg MCRouterAgent.tla`), and `tlapm` on a module
whose name ends in `Proofs` (`tlapm RouterAgentProofs.tla`).

## 1. Inventory

The repository operates a small Proxmox VE lab: three or more hypervisor nodes
with a QDevice, a TrueNAS server, and a LAN router (pfSense or OpenWrt) that
runs as a guest of one of the nodes. Four MCP servers give an assistant guarded
access to it; shell scripts install and start everything.

| Component (under `src/`) | State it keeps | Operations | What is hard |
|---|---|---|---|
| OpenWrt router agent, `mcp/openwrt-mcp/router-agent/openwrt-mcp-agent.uc` | `/etc/config/firewall`, the staged uci delta, the ruleset fw4 loaded, `journal/active.json`, `journal/last.json`, backups, used nonces, a flock | `validate`, `apply`, `confirm`, `rollback`, `status`, `inspect`, `--watchdog-tick`, `--clear` | death and reboot between any two writes; edits by others; failing restore, reload; deadline against confirm |
| Watchdog, `router-agent/openwrt-mcp-watchdog(.init)` | heartbeat file | loop: heartbeat, tick; respawned by procd | dying; finding the lock taken |
| Plan service, `mcp/openwrt-mcp/src/openwrt_mcp/{tools/plans.py,store/db.py,router/}` | SQLite rows: plans, grants, router lock | `owrt_plan_*` tools, concurrent coroutines with awaits in between | interleaved tool calls, lost and late replies, restart, state that differs from the router's |
| Plan building and policy, `policy/`, `tools/firewall.py`, `canonical.py` | none | `build_plan` | what is refused, digest binding |
| Approvals, `approval/` | signed grants (one-time nonce) | `openwrt-mcp-approve` | used once, on two machines |
| Probes, `verify/probes.py` | none | checks before a confirm | stale revision |
| Audit log, `store/audit.py` | JSONL hash chain, last hash in memory | `record` | two writers, torn last line |
| Cluster shutdown, `mcp/proxmox-ve-mcp/.../tools/cluster_power.py` | none between calls: it re-reads the cluster | `pve_shutdown_cluster`, resumable | order (guests, peers, NAS, entry node), snapshots that age, lost API, HA guests |
| Node power and waits, `tools/power.py`, `tools/waits.py`, `client/tasks.py` | none | `pve_shutdown_node`, `pve_wake_on_lan`, waits | quorum arithmetic, self-fencing, offline taken from a lost API |
| TrueNAS client and power, `mcp/truenas-mcp/.../client/websocket.py`, `tools/power.py` | one socket, message ids, a lock | `call`, `truenas_shutdown` | late answers, a connection dropped during a submission |
| pfSense firewall policy, `mcp/pfsense-mcp/.../firewall_policy.py` | none | plan and apply rule changes | convergence, failure between two changes |
| Start-up scripts, `deploy/setup/post-startup-proc.sh`, `pre-shutdown-proc.sh` | expected votes, Ceph `noout` | run at boot and shutdown | partition taken for isolation |
| Read tools and guest actions of `proxmox-ve-mcp`, `truenas-mcp`, `pfsense-mcp` | a semaphore, or the socket | 47 tools of one to nine requests each | some of the requests fail; a task runs on; a warning is lost |
| Everything else: installers, monitoring, command line, discovery | none of their own | | I/O; not modelled |

How they interact. The plan service is the agent's only client: each tool call
runs the agent over ssh with one JSON request and waits for one JSON reply, with
a timeout after which the agent goes on. Service and router share no storage;
each keeps its own account of a plan, and the service reconciles by `status`.
The watchdog and the agent share the journal files under one flock. The power
tools of `proxmox-ve-mcp` and `truenas-mcp` are two servers whose calls an
operator puts in order: guests, peers, a delayed NAS shutdown, the entry node.

What makes each correct:

* agent: a committed change is either confirmed or undone, by the watchdog if by
  nobody else; undoing touches nothing but that change; the journal goes through
  the states its contract names;
* plan service: at most one plan is in flight on a router; what a plan row says
  agrees with the router once it is settled; the lock is held while a change is
  in flight and not for ever; a grant is used once;
* audit log: the chain verifies; what was recorded can be read;
* cluster shutdown: no node goes down under running guests, the entry node is
  last, repeated calls make progress and repeat nothing;
* node power: the vote count is that of corosync; a node is not shut down where
  its peers would fence themselves;
* TrueNAS: an answer is given to the call it belongs to; a power-off is
  submitted once;
* pfSense policy: applying the plan makes the policy hold and a second plan
  empty; a run that breaks off locks nobody out;
* tool calls: an answer that says ok names what it could not read; nothing changes
  that was not confirmed; every call ends;
* start-up: no two parts of a partition both go on alone.

## 2. Plan

| Step | Module | Composes, implements | State |
|---|---|---|---|
| 1 | `JournalContract` | the promise of the router to its clients | done |
| 2 | `RouterAgent` | implements `JournalContract` | done |
| 3 | `RouterAgentProofs` | type correctness and `Journalled` for every constant | done |
| 4 | `PlanService`, on top of `JournalContract`'s router | concurrent tool calls, store, lost replies, crashes | done |
| 5 | `PlanServiceProofs` | type correctness, `LockNotStranded`, `RowsAgree` and `AppliedOnce` for every set of calls, plans and grants | done |
| 6 | `ClusterShutdown`, which implements `OrderedShutdown` | guests, peers, entry node; stages chosen from a snapshot; calls that run out of budget | done |
| 7 | `NasSession` | the socket and the power tools in one module: request ids, the delayed power-off, the retry after a drop | done |
| 8 | `NodePower` | the shutdown guards, quorum arithmetic, waits, wake-up | done |
| 9 | `FirewallPolicy` | rule changes one by one, and the bootstrap of the API | done |
| 10 | `ToolCalls`, on top of `ServerTools` | the other tools of the three servers | done |
| 11 | `NodePowerProofs`, `NasSessionProofs` | type correctness; `NobodyFences` and `EstimateHolds`; `AnswersMatch` and `OncePerCall`, for every constant | done |
| 12 | `RouterAgentProofs`, second part | that it implements `JournalContract`; `ConfirmedIsFinal`, `NeverNeedsManual`, `NoStrayDelta`, `UndoTouchesOnlyThePlan`, `RolledBackIsUndone` | done |
| 13 | `PlanServiceProofs`, second part | `TerminalIsFinal` and `InFlightHoldsLock` for calls that do not overlap | done |
| 14 | `NasSessionProofs`, second part | `AnswersAreTrue`, `RetryIsSafe`, `NothingCutOff` | done |
| 15 | `ClusterShutdownProofs`, `ToolCallsProofs` | every safety property of the two, and that the first implements `OrderedShutdown` | done |
| 16 | `FirewallPolicyProofs` | `RunsConverge`, `NobodyLockedOut`, `OthersUntouched`, `OpenedIsReached`, for every list of rules | done |
| 17 | `AuditLog`, `AuditLogProofs` | several writers of one chain; each of its properties for any number of them | done |

Each component has one passing run or a few, bounded so that they end within two
minutes; proofs come after TLC has agreed, from the inductive invariant checked
as an invariant of that run.

## 3. The modules

### `RouterAgent`: the transaction engine on the router

One state variable for each thing that survives, or does not survive, a crash:

| Variable | Code |
|---|---|
| `conf`, `staged`, `loaded` | `/etc/config/firewall`, the uci delta in `/tmp`, the ruleset fw4 loaded last |
| `active`, `last`, `backup` | `journal/active.json`, `journal/last.json`, `journal/<plan>.firewall.bak` |
| `left` | `deadline_uptime` minus the uptime, not below 0 |
| `heartbeat` | age of `watchdog.alive`, saturating one above `HEARTBEAT_MAX_AGE` |
| `used` | files under `used/` |
| `agent` | the one invocation that holds the flock: operation, step, the journal it has in memory, its verdict |
| `clearing` | an operator's `--clear`, which takes no lock: its step and the plan it has read |
| `watchdog` | where the shell loop is, or that it is down |
| `precond`, `unsettled`, `faults` | the plans' preconditions; two history variables |

An invocation is one action per write that another process or a crash can come
between. `op_apply` is `ApplyAdmit` (nonce, uc:344-421), `ApplyCheck`,
`ApplyBackUp`, `ApplyArm`, `ApplyStage`, `ApplyCommit`, `ApplyRecord`, the fw4
check (`ApplyCheckPasses`, `ApplyCheckRejects`, `ApplyCheckRejectsUnrestored`),
the reload (`ApplyReload`, `ApplyReloadFails`) and `ApplyFinish`; `do_rollback`
is `RollbackRefused`, `RollbackNothing`, `RollbackNeeded`, `RollbackRestore`,
`RollbackRestoreFails` and `RollbackReload`; `archive_journal` is `ArchiveWrite`
and `ArchiveUnlink`. `--clear` is `ClearRead`, `ClearWrite` and `ClearUnlink`
(uc:592-597 with 182-186), beside whatever the invocation does: it archives the
transaction it has read and unlinks whatever `active.json` there is by then.
`AgentKilled`, `ClearKilled`, `WatchdogKilled` and `Reboot` can come between any two
of them. Whether an apply may be admitted while a `--clear` runs is a constant,
`ApplyDuringClear`, FALSE in the runs and the proofs (section 5 has what TRUE does).

Abstracted: a configuration is a function from sections to contents and its
sha256 is the configuration itself; an invocation that is refused before it
writes is no step; the signature, the digest and the syntax of operations are
data.

### `JournalContract`: what the router promises

The journal as a client can know it: the open transaction (`txn`), the last
verdict (`verdict`), and the plan in needs_manual that somebody attends to
(`attended`): a `--clear` or a rollback that has read its journal. The two share no
lock, so while one of them is at it the verdict may be given twice (`Judge`), and
the journal be removed by one (`Remove`) and written again by the other (`Return`),
which is what the code does; nobody else's transaction is touched, and none is opened
meanwhile. `RouterAgent` implements it under the mapping at its end (`txn` is `active`
without its revisions, `verdict` is `last`): `ImplementsContract`. A `--clear` that dies
between its writes leaves the transaction open with a verdict of cleared_manually on
it, which the contract allows in needs_manual only.

### `PlanService`: the tools on the workstation

| Variable | Code |
|---|---|
| `row`, `lock`, `granted`, `consumed` | tables `plans` (status), `locks`, `grants` of `store/db.py` |
| `calls` | the coroutine of each tool call: the await it is at, its plan, the status it had read, its grant |
| `requests`, `replies` | ssh processes whose agent has not started; what the transport has for the call |
| `running` | the agent's invocation that holds the router's flock; `manual` says that it has read a journal in needs_manual |
| `clearing` | an operator's `--clear` on the router, which may come and be killed during an invocation |
| `txn`, `verdict`, `due` | the router, moved by `JournalContract`'s actions; its deadline has passed |
| `outcome`, `faults` | history: what the router made of a plan; faults so far |

A coroutine gives way only at an await, so each action is the code from one await
to the next: `ApplyCall` (plans.py:69-91), `ApplyStart` (91-108), then by the reply
`ApplySucceeds`, `ApplyLost`, `ApplyRejected` or `ApplyErrs`, the probes
(`ProbesPass`, `ProbesFail`) and `UndoReturn`; likewise `StatusCall` and
`StatusReturn`, `ConfirmSync` to `ConfirmReturn`, `RollbackCall` and
`RollbackReturn`. `Sync` is `_sync_from_router`, which compares with the status
it read *before* its await. The router's part (`StatusAnswer` to
`OperatorClears`) has one step for the lock, one for the verdict and one for the
end of an invocation, and everything in between that `RouterAgent` shows the
agent can do; a `--clear` has its three steps here too. A call whose transport times out, whose client cancels it, or whose
server ends, is answered nothing: its request is dropped, or arrives later
("late"), or is already being worked on.

What the probes find, what `inspect` finds, and refusals that depend on the grant
or the configuration are choices. One server process is assumed (the store says
so: "single writer; fine for one local MCP process", db.py:59); the approve
command is another process, and its one write is `Approve`.

### `OrderedShutdown` and `ClusterShutdown`: taking the cluster down

`OrderedShutdown` is what the head of `cluster_power.py` promises: guests are asked
before their node goes, peers go before the entry node, and a guest to be kept
stays until the end. `ClusterShutdown` is the tool and the cluster around it:

| Variable | Code |
|---|---|
| `call` | the locals of `pve_shutdown_cluster_impl`: the snapshot (`seen`, `run`, `ha`), `ha0` (the HA placement of the start), the stage's actions, the `attempted_*` sets (`tried`, `downed`), `skip_guest_nodes` |
| `answer` | the stage or the error the last call answered |
| `online`, `leaving`, `host`, `running`, `tasks`, `lrm`, `policy` | the cluster: members, nodes told to go, guests, workers, HA |
| `asked`, `lenient`, `blind` | history: guests asked or moved; a call with continue_on_error; a call that could not list the tasks |

Each request is a step: `ReadStatus`, `ReadResources`, `ReadHa` are `_snapshot`
(131-153), `ReadOptions` the refusals (306-330), `Choose` a turn of the loop
(370-397) with `NextStage` as `next_stage`, `ListTasks` is `_active_tasks`,
`PostStop` and `PostShutdown` are `_execute`, `WaitEnds`, `WaitTimesOut` and
`PollFails` are `_wait`. Between any two of them guests stop or hang, nodes power
off, and somebody migrates a guest. Nothing is remembered between two calls but
the cluster itself. A call that reads `plan_only` submits nothing and is left out.

### `NodePower`: shutting nodes down one by one

`power`, `qdevice`, `lrm` and `policy` are the cluster; `call` is the call in
progress with what it has read; `watch` is the `next_step` of the last answer,
which the operator does before he goes on. `ReadMembers`, `ReadPolicy`,
`ReadQdevice` and `ReadHa` are the guards of `pve_shutdown_node_impl` in the order
of their requests, `QuorumImpact` and `QdeviceVotes` its arithmetic, `Poll`,
`PollTimesOut` and `PollFails` are `wait_for_nodes_state`, `ReadTargets` and `Send`
are `pve_wake_on_lan_impl`.

### `NasSession`: one socket to the NAS

`task` holds the tool calls, each with the request it wants next; `After` is what a
tool does with an answer (`AfterClients`, `AfterJobs`, `AfterSubmit`, `AfterVerify`
for the power tools, `AfterCreate` and `AfterPoll` for a write and `wait_for_job`).
A write waits for a job only if its caller asked for that and the NAS answered with
one (writes.py:35-38); it otherwise answers ok when the NAS has taken it, and
`AnswersAreTrue` claims nothing then. `holder`, `phase`, `ws` and
`id` are `TnasClient.call`: `Acquire`, `Connect`, `Send`, then `Receive`, `Skip`,
`Deadline`, `RecvTimeout` or `Lost`. `frames` is what the socket has to read, `wire`
what the NAS has received and not handled. The NAS lists clients, makes jobs, goes
down and comes up; the network drops the connection; a tool call is cancelled
wherever it waits, while it connects too.

### `FirewallPolicy`: the rules of the Tailscale tab

`rules` is what pfREST has saved, a function from ids to rules, `loaded` the rules in
force, `allowed` the interfaces of the API, `run` the command-line tool that runs.
`Plan` is `plan_tailscale_firewall_changes`, over rules reduced to what it looks at:
the set of its changes, of which the one with the least `Place` is next, as in the
list that the code builds (self, gateway, lan, the deletes by id). `Group` is a role
of `classify_tailscale_auth_rules`; the code sorts it by id and takes the first,
which is the one with the least id (`First`). `Compliant` is
`evaluate_tailscale_firewall_policy`; `Fetch`, `Change`, `Apply`, `Verify` are
`apply_tailscale_firewall_rules` request by request, where an id that is gone ends
the run (404). An id is a rule's place in the list: a delete moves the rules behind it
up (`Removed`), and the ids in the plan are not read again. `Permitted` is what pf makes
of a list, the TCP connections whose first matching rule lets them pass, by role and
port. `start` is history: whether the first list had one rule to delete at most
(`OneDelete`), and whether the rules it keeps pass and are or will be for every port
(`Open`). `ReadSettings`, `OpenApi` and `TryNext` are the bootstrap tool with its
fallback to the LAN address.

### `AuditLog`: several writers of one hash chain

`file` is the lines of `audit.jsonl`, `ended` says whether the last one has its
newline, `last` is `_last` of each process in `running`, a server for each MCP client
or an approve command, which reads it once, at its `Start`. `Record` is `record`; in `RecordFails` the write
fails with nothing, a part of the line, or all but its newline in the file, and a
later line is then taken in by that one (`Added`). A hash stands for the bodies it was
computed from, which is what a digest without collisions tells apart. `overlapped`,
`written` and `faults` are history. Lines that somebody else edits are left out: to
detect these is what the chain is for, and no process of the program writes them.

### `ServerTools` and `ToolCalls`: all the other tools

`ServerTools` has one operator a tool, a function from the outcomes so far to the
next request or the answer; `Pve`, `Nas` and `Pfs` are the requests whose failure
fails the tool, `May` those that only cost a warning. `ToolCalls` runs them:
`Begin` (confirmation and input checks), `Send` (the semaphore of `PveClient`),
`Reply`, `Fails`, `Wake` and `Late` (the polls of a task and their deadline),
`Cancel`.

### The `MC` and the `Proofs` modules

Values for TLC, and the proofs of section 6. The definitions marked "Mutant of"
in the modules are the code with a plausible slip (a dropped guard, a missing
write, a swapped order); each property is known to fail when one of them takes
the place of the definition it mutates.

## 4. The runs

Router: two plans with a grant each, one that adds an owned section and one that
deletes it, so that the second depends on the first; two sections, one of them
not the plan's; `Deadline`, `ApplyBudget` and `HeartbeatMaxAge` 1, which is enough
for every order of deadline, confirm and heartbeat, since uptimes only matter as
"passed" or not.

| Run | Faults | Checks | States |
|---|---|---|---|
| `agent_safety` | any 3 of kill, reboot, edit, stage, restore, watchdog | `Journalled`, `UndoTouchesOnlyThePlan`, `RolledBackIsUndone` | 2,115,224 |
| `agent_alone` | 3 of restore, reject_restore, watchdog | `NeverNeedsManual`, `NoStrayDelta`, `ConfirmedIsFinal` | 33,308 |
| `agent_liveness` | 2 of all but stage, edits also while an invocation runs | `EventuallySettled`, `ImplementsContract` | 769,264 |

Three faults reach the deepest case known: a killed apply, a reboot, and a killed
rollback of it. More plans add nothing, because only the active journal and the
last one are ever looked at.

Service: two plans with a grant each.

| Run | Calls at a time, faults | Checks | States |
|---|---|---|---|
| `service_sequential` | 1; 3 of lost, crash, kill, drift, restore; late requests and clears | `InFlightHoldsLock`, `TerminalIsFinal`, `PolledPlansSettle` | 601,693 |
| `service_concurrent` | 2; one of lost, cancel, kill, restore, drift; late requests and clears | `RowsAgree`, `LockNotStranded`, `AppliedOnce` | 1,789,553 |
| `service_overtaken` | 2; none | `FailedIsNotApplied` fails | |

Two calls suffice for every race of the tools, which share nothing but a plan's
row and the one lock; a third participant (the watchdog, a late request, the
approve command) is there besides. Calls, and plans with their grants, may be
exchanged, which `service_concurrent` uses as symmetry (it checks safety only).
These runs say `CHECK_DEADLOCK FALSE`: when every plan has ended there is nothing
left to call.

`InFlightHoldsLock` and `TerminalIsFinal` are checked with one call at a time
because with two they fail (section 5); the same goes for `LockNotStranded`
without the server's crash, and `AppliedOnce` with one grant a plan.
`PolledPlansSettle` says itself that no journal is cleared by hand and no request
comes late; `StatusSettles`, which does not, fails (section 5). The conditions under which
the tools are safe are a result of the model: the docs do not state them.

The other components:

| Run | Instance and faults | Checks | States |
|---|---|---|---|
| `cluster_shutdown` | 3 nodes, 5 guests (the router, one on the entry node, one on each peer, an HA guest beside one of them), 3 placements; one failed request, hung guest or migration | `TypeOK`, `KeptRunning`, `NothingTwice`, `EntryNeverFences`, `ImplementsOrdered`, `ReadyIsTrue`, `EventuallyDown` | 270,555 |
| `node_power` | 4 nodes, HA resources on one; any two of requests that fail, or the QDevice coming or going | `NobodyFences`, `EstimateHolds` | 382,598 |
| `nas_session` | 2 power calls, a write or a read, 2 NFS clients; one failed connect, cancelled call, unreadable list, dropped connection, or change of the clients | `AnswersMatch`, `OncePerCall`, `RetryIsSafe`, `AnswersAreTrue`, `NothingCutOff`, `EventuallyEnds` | 1,711,518 |
| `firewall_policy` | every list of up to 4 of 11 rules, 2 ports, 2 runs; 1 failure | `RunsConverge`, `RunsAdvance`, `NobodyLockedOut`, `OthersUntouched` | 1,175,983 |
| `audit_log` | 2 servers and the approve command, 3 bodies, 4 lines; 2 writes or reads that fail | `ChainHolds`, `RecordsFollow`, `EventsKept` | 4,536,515 |
| `tool_calls` | any of the 47 tools beside a `pve_list_nodes`, one place at the semaphore; 2 failures, cancellations or unusual contents | `NothingGoesUnsaid`, `HaStopIsWarned`, `OnlyWhatWasAsked`, `EveryCallEnds` | 231,329 |

Bounds. `cluster_shutdown`: the two peers are the two cases of `next_stage`, a node
with plain guests only (stopall) and one with an HA guest (single shutdowns), and
the three placements are the usual one and the two that the tool refuses; calls
are repeated without a bound. `node_power`: four nodes are the lab's, and an even
number is where the QDevice's vote decides; q and r are interchangeable, which the
run uses as symmetry, having no liveness property. It is the one run that also
checks for deadlock. `nas_session`: two power calls are what a retry needs, and the
second task is whatever else shares the socket; one client on NFSv3 that is
expected and one on NFSv4 that is not are the two lists and the two verdicts.
`firewall_policy`: three roles, so that four rules give each role its rule and one
of them a duplicate, or one role four, which makes two or three deletes; two ports, so
that a rule may be for one of them only. Of its properties `RunsAdvance` is about every
list; the others say themselves which lists they are about.
`audit_log`: a write that was cut off shows when the next line and the one after it
are written, and a fork takes two lines of one process around one of another;
processes stop and start without a bound.
`tool_calls`: the second call is there to compete for the one place; a tool makes
at most nine requests, and two failures are enough for a fallback to fail too.

## 5. Where the code and its documents differ

`service_overtaken` ends in a counterexample, and `PROJECT.json` quotes the lines
it contradicts: a status call between the row's `applying` and the router's
journal is answered NOT_FOUND; the plan is marked failed and unlocked, and then
applied.

More configurations are kept to be run by hand; TLC ends each with a
counterexample. Six are of properties that a document or a test states
without the conditions under which they hold:

* `RouterAgent_drift.cfg` (`UndoTouchesOnlyThePlan`): when fw4 check rejects a
  change, the backup is put back without looking at the file again, so an edit
  committed during the check is lost (uc:460; `docs/THREAT_MODEL.md:33`).
* `RouterAgent_confirmed.cfg` (`ConfirmedIsFinal`): an agent killed between writing
  `last.json` and unlinking `active.json` leaves a confirmed change, which the
  watchdog rolls back (uc:184; `docs/AGENT_CONTRACT.md:61`).
* `RouterAgent_unloaded.cfg` (`RolledBackIsUnloaded`): a rollback whose reload did
  not happen is recorded as rolled back with the change still in the running
  ruleset (uc:337; `tests/test_agent_container.py:252`).
* `PlanService_overlap.cfg` (`InFlightHoldsLock`): a second apply of a plan is let
  in by the re-entrant lock, fails, and frees the lock of the first (plans.py:150;
  `tests/test_flow.py:228`).
* `AuditLog_approved.cfg` (`HashChainIntact`): the approve command appends to the
  audit log while the server runs, and each chains to the last record it knows of
  (audit.py:39), so that after an approval and the server's next record the chain
  does not verify, without any failure or tampering. The smoke test (`smoke_test.py:48`, "hash chain intact")
  fails from then on, also after a restart (`BrokenStays`). `tests/test_flow.py:121` asserts
  that the chain verifies after a plan was approved, applied and confirmed; its
  `approve` does not go through the command.
* `PlanService_cleared.cfg` (`StatusSettles`): after an operator's `--clear` no
  status call changes the row or frees the lock (plans.py:20, 135).

`RouterAgent_cleared.cfg` (`Journalled`) has `ApplyDuringClear` TRUE: a `--clear` that
has read a journal is held up until a second one, or a rollback, has closed it; the
next plan is armed, and the `--clear` goes on and unlinks the journal of that plan,
whose change nobody undoes any more (uc:592-597). The operator who clears also runs the
client that applies, so he can see to it that the two do not overlap; the runs and the
proofs take that for granted and say so.

The same models with other constants show more of this kind, which explain the
conditions of the passing runs. The agent: a restore that fails after a rejected
check closes the journal on a change that stays (`Journalled`, with
reject_restore); an invocation killed with a delta staged leaves it there
(`NoStrayDelta`, with kill). The service: a server that ends between
`acquire_lock` and `applying` leaves the lock with a plan that then expires
(`LockNotStranded`, with crash); two applies of a plan approved twice both send
it (`AppliedOnce`, with two grants a plan); an apply that the agent ends with an
error leaves its row applying and frees the lock (plans.py:118), also when the restore
failed before that and the change is still on the router, so `InFlightHoldsLock` does
not speak of such a plan; a plan marked expired while its apply
awaits `inspect` is applied all the same (`TerminalIsFinal`, with two calls).

What the newer models show of the code, without a line that says otherwise except
where one is named:

* Cluster shutdown. A call that starts with all peers offline and cannot read the
  HA status stops an HA guest of the entry node per guest (the head of
  `cluster_power.py`, lines 9-11, says these are never stopped so). A shutdown of
  the entry node that the API refuses is answered `entry_shutdown_submitted`, done,
  all the same (398-406). `ready_for_nas` says nothing of guests on a node that
  `continue_on_error` skipped, hence `lenient` in `ReadyIsTrue`.
* Node power. The `next_step` of a reboot waits for the node to be online, which it
  still is (power.py:198-203), so the operator of the model watches the restart
  himself. A wait for "offline" answers reached when any request of it fails
  (tasks.py:135-147), also when the API is back a moment later: with "poll" among
  the faults the operator goes on too early, and `NobodyFences` is violated. So it is with
  "unheard": a peer that was told to go although the answer was an error
  (power.py:187-194) is not waited for, and the next shutdown counts on it. With an odd number
  of nodes a QDevice that could not be read raises the majority unnoticed:
  `EstimateHolds` is for an even one.
* NAS. If the NAS is slow and handles requests of a closed connection after the
  next one is open ("backlog" among the fault kinds), `RetryIsSafe` is violated:
  "safe to retry" is wrong. A submit whose deadline passes while other frames
  arrive ends as TIMEOUT and is not verified (websocket.py:119, power.py:154).
* Firewall. The deletes of a run address rules by their ids from before the first of
  them, sorted upwards (firewall_policy.py:309, 371-378). From the second one on they
  hit the rule behind the one that is meant, somebody else's for instance, or none,
  which ends the run with a 404: `FirewallPolicy_ids.cfg` (`NothingElseDeleted`),
  without any failure. From the largest id down they would hit what is meant. What is
  left to say of such a list is `RunsAdvance`.
  Connections can be lost with one delete or none: `FirewallPolicy_narrow.cfg`
  (`NeverLockedOut`). A self rule that blocks port 80 is patched to block every port, as
  a patch clears the port and leaves the type (197-207); a first rule for one port
  that is taken for compliant (any port for the gateway and the LAN, 443 for self) is
  kept, and the wider rule behind it deleted as its duplicate. `Open` excludes these. A
  patch to tcp shuts out UDP and ICMP, which is the policy and not looked at. A run
  after one that broke off before its apply finds nothing to change and says
  compliant, though the saved rules are not in force.
* Tools. A poll that times out in httpx fails a guest action that was submitted,
  though `_wait_or_pending` says "a timeout is not a failure" (guests.py:17).
  `pve_check_token` names 403s where none need be (diagnostics.py:73-80).
  `pve_wait_for_task` warns "still running" of a status read after the deadline,
  which may say stopped.

## 6. Fairness, and what is proved

`RouterAgent!Fairness` is weak fairness of the invocation's next step (its
children have timeouts of 30 and 60 s), of the watchdog's loop (procd respawns
it) and of time. Kills, reboots and failures are not fair but bounded, and
nothing is assumed of clients or operators. `PlanService!Fairness` is weak
fairness of a coroutine whose await is over, of the router's answer to a request
that somebody waits for (`run_subprocess` ends the others), of the invocation,
the deadline and the watchdog. That somebody keeps asking for a plan's status is
no assumption about the code: it is the antecedent of `StatusSettles`.

`ClusterShutdown!Fairness`: a call goes on (every request and wait has a timeout),
and what was told to stop stops in the end (forceStop, and the faults are
bounded); the operator repeats the call as its answer asks him to and migrates a
misplaced guest, which is the antecedent of "resumable" rather than something the
code does. `NasSession`: the client's steps, every one of which has a timeout or
needs nobody, and that requests of a connection that is gone are given up; the NAS
need not answer. `ToolCalls`: httpx ends every request by its own timeout, and
time passes; no task needs to end.

Every theorem is about all values of the constants that meet the stated
assumptions, where a run is about one. What stands behind a "provided" or an "if"
below is what the proof needs and the code does not ensure; section 5 has the
counterexamples known without it.

`RouterAgentProofs` (1889 obligations) proves, for every set of plans, grants and
sections, every deadline and any number of faults, if no apply is admitted while a
`--clear` runs (`ApplyDuringClear` is FALSE; section 5):

* `TypeCorrect`: `Spec => [](TypeOK /\ Grounded)`. `TypeOK` is not inductive: an
  action writes `agent.j` or `backup[agent.plan]` where `agent.plan` could be
  `Null`. `Grounded` says what an invocation holds at each of its steps.
* `ChangesAreJournalled`: `Spec => []Journalled`, if `"reject_restore"` is not
  among the faults. `Journalled` needs `Accounted`: before a plan is armed, after
  a restore and after a verdict other than confirmed, no change is unsettled.
  Without the assumption the theorem is false (section 5). `Cleared` says what a
  `--clear` may rely on: while it runs, the open journal, if there is one, is the one
  it has read, and an invocation works on that one.

Its second part is about how a transaction ends:

* `JournalKeepsContract`: `Spec => ImplementsContract`, the refinement, step by
  step and with every fault allowed. `Decided` says what an invocation and a
  `--clear` know of the verdict they have given: an invocation confirms only an
  applied change, and `last.json` is about their plan when they unlink. That both
  may attend to a transaction in needs_manual is `AttendedStep`: no step makes
  somebody attend but one that reads such a journal.
* `ConfirmedStaysConfirmed`: `ConfirmedIsFinal`, provided a plan is granted once
  and nothing kills an invocation between its two writes (no kill, no reboot).
  `SpentOnce`: whatever a journal or an invocation is about has spent its only
  grant, so it is not applied again; `Settled`: of a confirmed plan no journal and
  no invocation is left but the one that is about to unlink the journal.
* `AgentNeedsNoOperator`: `NeverNeedsManual`, without kills, reboots and edits or staged
  changes of other people: at each step the file is what the journal says (`Undisturbed`).
* `NothingLeftStaged`: `NoStrayDelta`, without kills (`Clean`).
* `UndoTouchesNothingElse`: `UndoTouchesOnlyThePlan`, provided nobody commits
  while an invocation holds the flock. `Backed`: the backup is the file before
  the plan, and the file differs from it in the plan's sections only.
* `RolledBackMeansUndone`: `RolledBackIsUndone`, if in addition the restore of a
  rejected change does not fail. `Undone`: from the restore
  until the journal is closed the file is the backup.

`PlanServiceProofs` (3575 obligations) proves, for any number of calls, plans,
grants and faults:

* `TypeCorrect`: `Spec => [](TypeOK /\ Grounded)`, `Grounded` being what a call
  holds at each await.
* `LockIsAnsweredFor`: `Spec => []LockNotStranded`, if the server does not crash.
  The inductive form, `LockAnswered`, names the call: an apply at its inspect.
* `RepliesAwaited`: `Spec => []Asked`. A request, an invocation and a reply belong
  to a call that waits for just that one answer about just that plan.
* `StoreAgrees`: `Spec => []RowsAgree`, if a plan is approved once (`OneGrant`).
  A row is written from a reply, so the replies under way must tell the truth
  (`Reported`); for that they must be about the call's own plan (`Asked`), the
  router's files must say what became of their plans (`Recorded`), and that must
  be final (`OutcomeFinal`): no second apply of the plan is on its way
  (`OneApply`, where `OneGrant` is used). `Held`, a part of `Recorded`, is about the
  `--clear`: an invocation has its transaction to itself unless both of them attend
  to one in needs_manual, which then may be gone and come back, and be recorded as
  cleared though it was undone.
* `AppliesOnce`: `Spec => AppliedOnce`, under the same assumption, from `OneApply`
  and `Recorded`.

TLC found these invariants to hold on the instance of `service_concurrent` before
they were proved. The server's crash is allowed in all of them but
`LockIsAnsweredFor`, which is false with it (section 5). Without `OneGrant`
both `StoreAgrees` and `AppliesOnce` are false: two applies of a plan approved
twice are both sent, and the second opens the plan again on the router after the
store has recorded what became of the first.

Its second part is about tool calls that do not
overlap (`OneCallAtATime`), with any number of plans, grants and faults:

* `EndedPlansStay`: `Spec => TerminalIsFinal`. A call that is alone finds the row
  it read before its await as it left it (`Fresh`).
* `InFlightLocked`: `Spec => []InFlightHoldsLock`, provided no call is cancelled
  (its `finally` frees the lock while the agent may be at work). It speaks of plans
  that the store has as pending or unknown, and of those it has as applying that
  wait for their confirmation on the router; not of an apply whose own restore failed,
  whose journal is armed (section 5). The property is
  not inductive: a sync can find pending what the store calls applying, and an
  apply that the agent answered with an error has given the lock back by then.
  `LockKept` adds that such a plan is not pending on the router (`NotPending`);
  that needs that an apply is sent once (`SentOnce`) and that one which failed
  has left the journal armed, undone or with an operator (`Begun`).

`NodePowerProofs` (973 obligations) proves, for any even number of nodes
(`EvenCluster`), every placement and any number of faults other than "poll" and
"unheard" (`Faithful`; with either the theorems are false, section 5):

* `TypeCorrect`, `ShutdownsFenceNobody` and `AnnouncementsHold`: `TypeOK`,
  `NobodyFences` and `EstimateHolds`, from one invariant. `InTurn` says that one
  node goes at a time and nobody reads the guards meanwhile, since the operator
  waits; hence what the guards have read is still so when the command is sent
  (`SeenIsSo`, `VotesAreSo`), what they let pass is safe (`PassedIsSafe`), and it
  stays so until the node has left (`GoingIsSafe`). The arithmetic is in
  `ImpactIsQuorate`: with an even number of nodes, the vote of a QDevice that
  could not be read does not raise the majority.

`NasSessionProofs` (1859 obligations) proves, for every list of clients, any number
of calls and faults, an old and a new NAS, and one that is slow ("backlog"):

* `AnswersAlwaysMatch`: `Spec => []AnswersMatch`. Whatever bears the id that is
  waited for is of the holder's request (`Owned`), because an id is greater than
  all that are still under way (`NextIsFresh`), whoever asked for them.
* `OneJobPerCall`: `Spec => []OncePerCall`. A call has made a job, or has one
  request under way that will, or neither (`Once`); that the second form of the
  submit goes out only after a refusal of the first rests on every answer being
  of its request, so on `Owned` again.
* `TypeCorrect`: `Spec => []Typed`, `Typed` being finer than the type invariants
  that TLC checks.
* `AnswersStayTrue`, `GuardsHold` and `RetriesAreSafe`: `AnswersAreTrue`,
  `NothingCutOff` and `RetryIsSafe`, the last one provided the NAS is through with
  a connection before it takes the next (no "backlog"). All three follow from
  `Sure`, an invariant on top of the first: what an answer on the
  socket says is so until it is read (`Told`), what a call has read covers every
  client and job that has stayed since it began, or it knows that it could not read
  it (`Present`, `Known`), no submit is under way before the call asks for one or
  after the connection it asked on is gone (`Unasked`), the same of a call that
  ends as refused or "safe to retry" (`Retried`), and a write is asked for once and what
  its job has come to stays (`Written`).

`ClusterShutdownProofs` (1544 obligations) proves, for any nodes and guests, any
placements, any number of votes and faults, and with no further condition:

* `TypeCorrect`, `KeptStayRunning`, `NothingSubmittedTwice`, `EntryNeverFencesItself`
  and `ReadySaysTrue`: `TypeOK`, `KeptRunning`, `NothingTwice`, `EntryNeverFences`
  and `ReadyIsTrue`;
* `CallsAreOrdered`: `Spec => ImplementsOrdered`, the refinement of
  `OrderedShutdown`.

They rest on one invariant (`Invariance`). Half of it is about the cluster: where
the kept guests are once a node goes (`Kept`), who runs where (`Hosted`), whose
workers there are (`Worked`), and when nodes may be going (`Going`). The other half is what
a call may still rely on of the snapshot it took requests ago: a guest that runs is
in it, where it was or asked to leave (`Snapped`, `RunRight`), what the refusals
have established outlasts them (`Judged`), and a round over the guests leaves none
unasked (`Tried`, `Staged`, `Aimed`). Nothing of that second half survives the
call, and the next call establishes it again; that is why it can be repeated.

`ToolCallsProofs` (3225 obligations) proves, for any number of calls, places of the
semaphore and failures, and with no further condition:

* `NothingUnasked`, `HaStopsAreWarned`, `NothingIsUnsaid`: `OnlyWhatWasAsked`,
  `HaStopIsWarned` and `NothingGoesUnsaid`.

A tool is a function from outcomes to the next request or the answer, so the
invariant (`Invariance`) says that a call under way has a history: each of its
outcomes is of the request that its tool makes after the ones before. What a
tool answers is then a matter of its histories, which the proof unfolds tool by
tool; that a tool writes at most once is because its write has one place in them
(`PostAt`), and a stop comes after the question for HA (`Looked`).

`FirewallPolicyProofs` (1529 obligations) proves, for any rules, any number of them,
of runs and of failures:

* `RunsAlwaysConverge`, `WaysStayOpen` and `OthersStay`: `RunsConverge`,
  `NobodyLockedOut` and `OthersUntouched`, which speak of lists with one rule to delete
  at most, the second also of rules that are `Open`. The invariant (`Inv`) is that what
  a run has still to do is the plan for the rules as they are by now (`Remaining`), which
  still has one delete at most. So after each change the plan must be what it was
  without that change, which is `ChangeFollows`, a lemma for each kind of change: when a
  duplicate goes, the rules behind it move up in their order, so that the first rule of
  each role (`First`, `MinMoves`) and what is due to it (`DueSame`) stay what they were,
  and no second delete is there to miss its rule (`DeleteAdvances`);
  the patched or created rule is then as it should be
  (`FineIsDone`); the second self rule that becomes the gateway leaves the first. What a
  patch does not mend is a first rule that blocks; its change stays in the plan
  (`Stuck`), and is all that can be left when a run has got through (`NothingLeft`).
  That the rules stay `Open` is kept likewise, and each change of an open list lets
  through what got through before.
  `InForce` says that what is loaded permits no more than what is saved will.
* `OpenedStaysReached`: `OpenedIsReached`, with no condition.

`AuditLogProofs` (521 obligations) proves, for any number of processes, lines and
failures, and with no further condition:

* `ChainAlwaysHolds`: `ChainHolds`. Alone, a process has the hash of the last line
  (`Current`).
* `RecordsAlwaysFollow`: `RecordsFollow`. Whatever a process has as its last hash is that
  of a line in the file, or of none (`Follow`).
* `EventsAreKept`: `EventsKept`. What is lost already and what the next event is going
  to cost, because it meets a line without its end, is within the failures
  (`Counted`).
* `BrokenChainStays`: `BrokenStays`. A line that breaks the chain stays as it is, or
  becomes one that cannot be read.

The proofs have one shape: `Init` establishes the invariant, one step per action
preserves it, and a last step in temporal logic combines the two. The
invariants were checked by TLC on an instance of the component's run, as far as
it can enumerate what they say, before they were proved.

The assumptions on constants are named and stand in the module that declares
them: `ConfigurationAssumption` and `TimingAssumption` for the router;
`ServiceAssumption` for the service; `EntryAssumption`, `NodesAssumption` and
`PlacedAssumption` for single nodes; `EntryAssumption`, `BoundsAssumption`,
`GuestAssumption`, `PlaceAssumption` and `DisjointAssumption` for the cluster (the entry node is a
node, a guest is kept, under HA or neither, and starts on a node); `TasksAssumption`,
`ClientsAssumption` and `BoundsAssumption` for the session; `AccessModeAssumption`,
`AdminApiAssumption`, `ConcurrencyAssumption`, `KindsAssumption` and
`OfferedAssumption` for the tool calls (settings have one of their values, at least one
place at the semaphore, and only tools and failures that exist); `TemplatesAssumption`,
`BoundsAssumption` and `HostAssumption` for the firewall (a rule has its fields, and the
host is reached by one of two ways); `TornAssumption` and `BoundsAssumption` for the
audit log (a torn line is no record); and the `NullAssumption`s: `Null` is none of the
values it stands beside.

Only model-checked is liveness, `EventuallySettled`, `PolledPlansSettle`,
`EventuallyDown`, `EventuallyEnds` and `EveryCallEnds`: the provers here do not handle
fairness and ENABLED. Every safety property of a passing run is proved, under the
conditions named above, but `RunsAdvance`, which counts duplicates. The type invariants of `RouterAgent` and `NodePower`,
`OpenedIsReached` and `BrokenStays` are proved and no run lists them.

The bitwise, string and cryptographic parts of the agent are not modelled and
nothing is claimed of them.

## 7. Not modelled

Components: the start-up scripts, whose one concurrent behaviour, two nodes of a
partition that both find themselves alone (post-startup-proc.sh:144), is decided by
corosync and by what a ping reaches, and which share state with nothing that is
modelled; installers and set-up scripts (run by hand,
sequential, re-run until they succeed), command-line dispatch, monitoring set-up
(configuration of other programs), host discovery (string matching), the servers'
settings and their smoke tests. Within the modelled components: `plan_only`,
`simulate` and `next_steps` of the power tools, which submit nothing; payloads,
redaction and permission hints of the read tools; what an audit record says; the
signature and digest of a grant, uci's grammar, the validity rules of templates,
`inspect`, and flash writes that reach the disk in another
order than the code makes them.
