------------------------------ MODULE RouterAgent ------------------------------
(***************************************************************************)
(* The transaction engine on the OpenWrt router: the forced-command agent  *)
(* (router-agent/openwrt-mcp-agent.uc) and its procd watchdog              *)
(* (router-agent/openwrt-mcp-watchdog).                                    *)
(*                                                                         *)
(* An apply arms a persistent journal and a backup, commits the change to  *)
(* /etc/config/firewall, loads it, and waits for a confirm; the watchdog   *)
(* rolls an unconfirmed change back after its deadline or after a reboot.  *)
(*                                                                         *)
(* What is abstracted:                                                     *)
(*  - a configuration is a function from sections to contents, and its     *)
(*    revision (the sha256 of the file) is the configuration itself;       *)
(*  - at most one invocation holds the flock, so the invocation that holds *)
(*    it is ONE variable, agent; an invocation that cannot take the lock,  *)
(*    or that a validation refuses, changes nothing and is not a step;     *)
(*  - a write that fails ends the invocation in front of it (fail() throws *)
(*    and the lock goes with the process), which is the step AgentKilled,  *)
(*    except where the code goes on after the failure;                     *)
(*  - uptimes are kept as what is left of them: left is what separates the *)
(*    uptime from the deadline of the journal, heartbeat the age of the    *)
(*    watchdog's heartbeat; both saturate, so time itself is unbounded;    *)
(*  - writes reach the flash in the order the code makes them.             *)
(***************************************************************************)
EXTENDS Naturals

CONSTANTS
  Plans, Grants,         \* plan ids; grant nonces
  PlanOf,                \* [Grants -> Plans], the plan a grant is bound to
  Sections,              \* sections of the firewall configuration
  Owned, Foreign,        \* contents with and without owned_by 'openwrt-mcp'
  Absent,                \* the content of a section that does not exist
  Operations,            \* per plan, the new content of each section it writes
  Deadline,              \* recovery.deadline_s
  ApplyBudget,           \* APPLY_BUDGET
  HeartbeatMaxAge,       \* HEARTBEAT_MAX_AGE
  FaultKinds, MaxFaults, \* what the environment may do to the router, how often
  EditsWhileBusy,        \* may the administrator commit while the lock is held?
  ApplyDuringClear,      \* may an apply be admitted while a --clear runs?
  Null

Contents == Owned \cup Foreign \cup {Absent}
Configs == [Sections -> Contents]
Deltas == UNION {[S -> Contents] : S \in SUBSET Sections}
NoDelta == [s \in {} |-> Absent]

\* `changes' on top of `base', as uci commits a delta and as a plan's
\* operations combine with what is already staged.
Over(changes, base) ==
  [s \in DOMAIN changes \cup DOMAIN base |->
     IF s \in DOMAIN changes THEN changes[s] ELSE base[s]]

ASSUME ConfigurationAssumption ==
  /\ PlanOf \in [Grants -> Plans]
  /\ Operations \in
       [Plans -> UNION {[S -> Owned \cup {Absent}] : S \in SUBSET Sections}]
  /\ Owned \cap Foreign = {}
  /\ Absent \notin Owned \cup Foreign
  /\ Null \notin Plans \cup Configs

ASSUME TimingAssumption ==
  /\ Deadline \in Nat \ {0}
  /\ ApplyBudget \in Nat
  /\ HeartbeatMaxAge \in Nat
  /\ MaxFaults \in Nat
  /\ {EditsWhileBusy, ApplyDuringClear} \subseteq BOOLEAN

-------------------------------------------------------------------------------
VARIABLES
  conf,       \* /etc/config/firewall
  staged,     \* the uncommitted uci delta, in /tmp
  loaded,     \* the ruleset fw4 last loaded
  precond,    \* state_precondition of each plan, Null before it is planned
  used,       \* nonces recorded under /etc/openwrt-mcp/used
  backup,     \* journal/<plan>.firewall.bak
  active,     \* journal/active.json
  last,       \* journal/last.json
  left,       \* time left to the journal's deadline_uptime
  heartbeat,  \* age of watchdog.alive, HeartbeatMaxAge + 1 when stale
  agent,      \* the invocation that holds the lock
  clearing,   \* the --clear that runs, which takes no lock
  watchdog,   \* where the watchdog's loop is
  unsettled,  \* history: the plan whose commit is neither kept nor undone
  faults      \* faults so far

config == <<conf, staged, loaded>>
journal == <<backup, active, last, left>>
vars == <<config, precond, clearing, used, journal, heartbeat, agent, watchdog,
          unsettled, faults>>

OpenStates == {"armed", "applied_unconfirmed"}
Journals ==
  [plan : Plans, state : OpenStates \cup {"needs_manual"}, pre : Configs,
   new : Configs \cup {Null}, boot : {"this", "earlier"}]

Verdicts == {"confirmed", "rolled_back", "cleared_manually"}
Archives == [plan : Plans, state : Verdicts]

\* Also of the journal as the contract below sees it, plan and state alone.
ASSUME NullAssumption ==
  /\ Null \notin Journals
  /\ Null \notin Archives
  /\ Null \notin [plan : Plans, state : OpenStates \cup {"needs_manual"}]

\* Where an apply can be: before it writes the journal, and from there on.
UnarmedSteps == {"admitted", "checked", "backed_up"}
ArmedSteps == {"armed", "saved", "committed", "recorded", "validated",
               "reloaded"}
RollbackSteps == {"rollback", "restore", "reload"}
Steps == {"idle", "validating", "archive", "unlink"}
           \cup UnarmedSteps \cup ArmedSteps \cup RollbackSteps
Invocations ==
  [op : {"none", "apply", "validate", "confirm", "rollback", "tick"},
   at : Steps, plan : Plans \cup {Null}, j : Journals \cup {Null},
   verdict : Verdicts \cup {Null}]
Idle == [op |-> "none", at |-> "idle", plan |-> Null, j |-> Null,
         verdict |-> Null]
LockFree == agent = Idle

NotClearing == [at |-> "idle", plan |-> Null]

TypeOK ==
  /\ conf \in Configs /\ loaded \in Configs
  /\ staged \in Deltas
  /\ precond \in [Plans -> Configs \cup {Null}]
  /\ used \subseteq Grants
  /\ backup \in [Plans -> Configs \cup {Null}]
  /\ active \in Journals \cup {Null}
  /\ last \in Archives \cup {Null}
  /\ left \in 0 .. (Deadline + ApplyBudget)
  /\ heartbeat \in 0 .. (HeartbeatMaxAge + 1)
  /\ agent \in Invocations
  /\ clearing \in [at : {"idle", "write", "unlink"}, plan : Plans \cup {Null}]
  /\ watchdog \in {"boot", "beat", "tick", "ticking", "down"}
  /\ unsettled \in Plans \cup {Null}
  /\ faults \in 0 .. MaxFaults

\* A freshly installed router: nothing planned, no journal, no heartbeat yet.
Init ==
  /\ conf \in [Sections -> Foreign \cup {Absent}]
  /\ loaded = conf
  /\ staged = NoDelta
  /\ precond = [p \in Plans |-> Null]
  /\ used = {}
  /\ backup = [p \in Plans |-> Null]
  /\ active = Null /\ last = Null
  /\ left = 0
  /\ heartbeat = HeartbeatMaxAge + 1
  /\ agent = Idle /\ clearing = NotClearing
  /\ watchdog = "boot"
  /\ unsettled = Null
  /\ faults = 0

-------------------------------------------------------------------------------
(* Planning and the first half of op_apply: everything before the commit.  *)

\* build_plan on an inspect of the router: it refuses while changes are
\* staged or a transaction is active, an upsert that changes nothing, and the
\* deletion of a section that is not agent-owned.
Plan(p) ==
  /\ precond[p] = Null
  /\ staged = NoDelta
  /\ active = Null
  /\ \A s \in DOMAIN Operations[p] :
       IF Operations[p][s] = Absent THEN conf[s] \in Owned
                                    ELSE conf[s] # Operations[p][s]
  /\ precond' = [precond EXCEPT ![p] = conf]
  /\ UNCHANGED <<config, clearing, used, journal, heartbeat, agent, watchdog,
                 unsettled, faults>>

\* op_apply takes the lock, finds no journal, verifies the grant and burns its
\* nonce, all before it looks at the configuration.
ApplyAdmit(g) ==
  /\ LockFree
  /\ clearing = NotClearing \/ ApplyDuringClear
  /\ precond[PlanOf[g]] # Null
  /\ active = Null
  /\ g \notin used
  /\ used' = used \cup {g}
  /\ agent' = [Idle EXCEPT !.op = "apply", !.at = "admitted",
                           !.plan = PlanOf[g]]
  /\ UNCHANGED <<config, precond, clearing, journal, heartbeat, watchdog,
                 unsettled, faults>>

WatchdogAlive == heartbeat <= HeartbeatMaxAge

ApplyAllowed ==
  /\ staged = NoDelta
  /\ conf = precond[agent.plan]
  /\ WatchdogAlive

ApplyCheck ==
  /\ agent.at = "admitted"
  /\ agent' = IF ApplyAllowed THEN [agent EXCEPT !.at = "checked"] ELSE Idle
  /\ UNCHANGED <<config, precond, clearing, used, journal, heartbeat, watchdog,
                 unsettled, faults>>

ApplyBackUp ==
  /\ agent.at = "checked"
  /\ backup' = [backup EXCEPT ![agent.plan] = conf]
  /\ agent' = [agent EXCEPT !.at = "backed_up"]
  /\ UNCHANGED <<config, precond, clearing, used, active, last, left, heartbeat,
                 watchdog, unsettled, faults>>

\* Mutant of ApplyArm: the journal is only prepared, to be written with the
\* new revision.
ApplyArmInMemory ==
  /\ agent.at = "backed_up"
  /\ left' = Deadline + ApplyBudget
  /\ agent' = [agent EXCEPT
       !.at = "armed",
       !.j = [plan |-> agent.plan, state |-> "armed",
              pre |-> precond[agent.plan], new |-> Null, boot |-> "this"]]
  /\ UNCHANGED <<config, precond, clearing, used, backup, active, last,
                 heartbeat, watchdog, unsettled, faults>>

\* The deadline of an armed journal leaves room for the apply itself.
ApplyArm ==
  /\ agent.at = "backed_up"
  /\ active' = [plan |-> agent.plan, state |-> "armed",
                pre |-> precond[agent.plan], new |-> Null, boot |-> "this"]
  /\ left' = Deadline + ApplyBudget
  /\ agent' = [agent EXCEPT !.at = "armed", !.j = active']
  /\ UNCHANGED <<config, precond, clearing, used, backup, last, heartbeat,
                 watchdog, unsettled, faults>>

\* stage_ops refuses a foreign section and the deletion of a missing one; the
\* invocation then ends with the journal still armed.
Stageable(p) ==
  \A s \in DOMAIN Operations[p] :
    /\ conf[s] \notin Foreign
    /\ Operations[p][s] = Absent => conf[s] # Absent

ApplyStage ==
  /\ agent.at = "armed"
  /\ IF Stageable(agent.plan)
       THEN /\ staged' = Over(Operations[agent.plan], staged)
            /\ agent' = [agent EXCEPT !.at = "saved"]
       ELSE /\ agent' = Idle
            /\ UNCHANGED staged
  /\ UNCHANGED <<conf, loaded, precond, clearing, used, journal, heartbeat,
                 watchdog, unsettled, faults>>

-------------------------------------------------------------------------------
(* The second half of op_apply: commit, record, check, load.               *)

ApplyCommit ==
  /\ agent.at = "saved"
  /\ conf' = Over(staged, conf)
  /\ staged' = NoDelta
  /\ unsettled' = agent.plan
  /\ agent' = [agent EXCEPT !.at = "committed"]
  /\ UNCHANGED <<loaded, precond, clearing, used, journal, heartbeat, watchdog,
                 faults>>

\* Mutant of ApplyRecord: the new revision waits for the end of the apply.
ApplyRecordLater ==
  /\ agent.at = "committed"
  /\ agent' = [agent EXCEPT !.at = "recorded"]
  /\ UNCHANGED <<config, precond, clearing, used, journal, heartbeat, watchdog,
                 unsettled, faults>>

\* The revision recorded is that of the file as it is now.
ApplyRecord ==
  /\ agent.at = "committed"
  /\ active' = [agent.j EXCEPT !.new = conf]
  /\ agent' = [agent EXCEPT !.at = "recorded", !.j = active']
  /\ UNCHANGED <<config, precond, clearing, used, backup, last, left, heartbeat,
                 watchdog, unsettled, faults>>

ApplyCheckPasses ==
  /\ agent.at = "recorded"
  /\ agent' = [agent EXCEPT !.at = "validated"]
  /\ UNCHANGED <<config, precond, clearing, used, journal, heartbeat, watchdog,
                 unsettled, faults>>

Fault(kind) ==
  /\ kind \in FaultKinds
  /\ faults < MaxFaults
  /\ faults' = faults + 1

\* Mutant of ApplyCheckRejects: nothing was loaded, so nothing is restored.
ApplyCheckRejectsOnly ==
  /\ agent.at = "recorded"
  /\ staged' = NoDelta
  /\ agent' = [agent EXCEPT !.at = "archive", !.verdict = "rolled_back"]
  /\ UNCHANGED <<conf, loaded, precond, clearing, used, journal, heartbeat,
                 watchdog, unsettled, faults>>

\* fw4 check says no: the backup goes back whatever the file holds by now.
ApplyCheckRejects ==
  /\ agent.at = "recorded"
  /\ conf' = backup[agent.plan]
  /\ staged' = NoDelta
  /\ unsettled' = Null
  /\ agent' = [agent EXCEPT !.at = "archive", !.verdict = "rolled_back"]
  /\ UNCHANGED <<loaded, precond, clearing, used, journal, heartbeat, watchdog,
                 faults>>

\* ... and the result of that restore is not looked at.
ApplyCheckRejectsUnrestored ==
  /\ Fault("reject_restore")
  /\ agent.at = "recorded"
  /\ staged' = NoDelta
  /\ agent' = [agent EXCEPT !.at = "archive", !.verdict = "rolled_back"]
  /\ UNCHANGED <<conf, loaded, precond, clearing, used, journal, heartbeat,
                 watchdog, unsettled>>

ApplyReload ==
  /\ agent.at = "validated"
  /\ loaded' = conf
  /\ agent' = [agent EXCEPT !.at = "reloaded"]
  /\ UNCHANGED <<conf, staged, precond, clearing, used, journal, heartbeat,
                 watchdog, unsettled, faults>>

\* A reload that fails or times out may have loaded the ruleset or not.
ApplyReloadFails ==
  /\ agent.at = "validated"
  /\ loaded' \in {loaded, conf}
  /\ agent' = [agent EXCEPT !.at = "rollback"]
  /\ UNCHANGED <<conf, staged, precond, clearing, used, journal, heartbeat,
                 watchdog, unsettled, faults>>

ApplyFinish ==
  /\ agent.at = "reloaded"
  /\ active' = [agent.j EXCEPT !.new = conf, !.state = "applied_unconfirmed"]
  /\ left' = Deadline
  /\ agent' = Idle
  /\ UNCHANGED <<config, precond, clearing, used, backup, last, heartbeat,
                 watchdog, unsettled, faults>>

-------------------------------------------------------------------------------
(* do_rollback and archive_journal.                                        *)

WatchdogAfter(invocation) ==
  IF invocation.op = "tick" /\ watchdog = "ticking" THEN "beat" ELSE watchdog

\* Mutant of Drifted: a rollback always restores.
NeverDrifted(j) == FALSE

\* Neither before nor after the change: somebody else wrote the file.
Drifted(j) == conf \notin {j.new, j.pre}

RollbackRefused ==
  /\ agent.at = "rollback"
  /\ Drifted(agent.j)
  /\ active' = [agent.j EXCEPT !.state = "needs_manual"]
  /\ agent' = Idle
  /\ watchdog' = WatchdogAfter(agent)
  /\ UNCHANGED <<config, precond, clearing, used, backup, last, left, heartbeat,
                 unsettled, faults>>

\* The file already is what it was: nothing to restore, nothing to reload.
RollbackNothing ==
  /\ agent.at = "rollback"
  /\ conf = agent.j.pre
  /\ unsettled' = Null
  /\ agent' = [agent EXCEPT !.at = "archive", !.verdict = "rolled_back"]
  /\ UNCHANGED <<config, precond, clearing, used, journal, heartbeat, watchdog,
                 faults>>

RollbackNeeded ==
  /\ agent.at = "rollback"
  /\ ~Drifted(agent.j)
  /\ conf # agent.j.pre
  /\ agent' = [agent EXCEPT !.at = "restore"]
  /\ UNCHANGED <<config, precond, clearing, used, journal, heartbeat, watchdog,
                 unsettled, faults>>

RollbackRestore ==
  /\ agent.at = "restore"
  /\ conf' = backup[agent.plan]
  /\ unsettled' = Null
  /\ agent' = [agent EXCEPT !.at = "reload"]
  /\ UNCHANGED <<staged, loaded, precond, clearing, used, journal, heartbeat,
                 watchdog, faults>>

\* APPLY_FAILED: the journal stays for the next tick.
RollbackRestoreFails ==
  /\ Fault("restore")
  /\ agent.at = "restore"
  /\ agent' = Idle
  /\ watchdog' = WatchdogAfter(agent)
  /\ UNCHANGED <<config, precond, clearing, used, journal, heartbeat,
                 unsettled>>

\* The outcome of this reload is ignored.
RollbackReload ==
  /\ agent.at = "reload"
  /\ staged' = NoDelta
  /\ loaded' \in {loaded, conf}
  /\ agent' = [agent EXCEPT !.at = "archive", !.verdict = "rolled_back"]
  /\ UNCHANGED <<conf, precond, clearing, used, journal, heartbeat, watchdog,
                 unsettled, faults>>

ArchiveWrite ==
  /\ agent.at = "archive"
  /\ last' = [plan |-> agent.plan, state |-> agent.verdict]
  /\ unsettled' = IF agent.verdict = "confirmed" THEN Null ELSE unsettled
  /\ agent' = [agent EXCEPT !.at = "unlink"]
  /\ UNCHANGED <<config, precond, clearing, used, backup, active, left,
                 heartbeat, watchdog, faults>>

\* Mutant of ArchiveUnlink: active.json is left for the next apply to replace.
ArchiveKeep ==
  /\ agent.at = "unlink"
  /\ agent' = Idle
  /\ watchdog' = WatchdogAfter(agent)
  /\ UNCHANGED <<config, precond, clearing, used, journal, heartbeat, unsettled,
                 faults>>

ArchiveUnlink ==
  /\ agent.at = "unlink"
  /\ active' = Null
  /\ agent' = Idle
  /\ watchdog' = WatchdogAfter(agent)
  /\ UNCHANGED <<config, precond, clearing, used, backup, last, left, heartbeat,
                 unsettled, faults>>

-------------------------------------------------------------------------------
(* The other operations.                                                   *)

Expired(j) == j.boot = "earlier" \/ left = 0

Working(op, at) ==
  [op |-> op, at |-> at, plan |-> active.plan, j |-> active, verdict |-> Null]

\* Mutant of Confirm: the state of the journal is not looked at.
ConfirmAnyState(p) ==
  /\ LockFree
  /\ active # Null
  /\ active.plan = p
  /\ agent' = IF Expired(active) THEN Working("confirm", "rollback")
              ELSE [Working("confirm", "archive") EXCEPT
                      !.verdict = "confirmed"]
  /\ UNCHANGED <<config, precond, clearing, used, journal, heartbeat, watchdog,
                 unsettled, faults>>

\* op_confirm: in time it keeps the change, too late it rolls it back itself.
Confirm(p) ==
  /\ LockFree
  /\ active # Null
  /\ active.plan = p
  /\ active.state = "applied_unconfirmed"
  /\ agent' = IF Expired(active) THEN Working("confirm", "rollback")
              ELSE [Working("confirm", "archive") EXCEPT
                      !.verdict = "confirmed"]
  /\ UNCHANGED <<config, precond, clearing, used, journal, heartbeat, watchdog,
                 unsettled, faults>>

\* op_rollback waits for the lock and rolls back whatever state it finds.
Rollback(p) ==
  /\ LockFree
  /\ active # Null
  /\ active.plan = p
  /\ agent' = Working("rollback", "rollback")
  /\ UNCHANGED <<config, precond, clearing, used, journal, heartbeat, watchdog,
                 unsettled, faults>>

\* op_validate stages the operations, runs fw4 check and reverts.
Validate(p) ==
  /\ LockFree
  /\ precond[p] # Null
  /\ active = Null
  /\ staged = NoDelta
  /\ conf = precond[p]
  /\ Stageable(p)
  /\ staged' = Operations[p]
  /\ agent' = [Idle EXCEPT !.op = "validate", !.at = "validating", !.plan = p]
  /\ UNCHANGED <<conf, loaded, precond, clearing, used, journal, heartbeat,
                 watchdog, unsettled, faults>>

\* Mutant of ValidateRevert: the revert is left to the next uci session.
ValidateKeep ==
  /\ agent.at = "validating"
  /\ agent' = Idle
  /\ UNCHANGED <<config, precond, clearing, used, journal, heartbeat, watchdog,
                 unsettled, faults>>

ValidateRevert ==
  /\ agent.at = "validating"
  /\ staged' = NoDelta
  /\ agent' = Idle
  /\ UNCHANGED <<conf, loaded, precond, clearing, used, journal, heartbeat,
                 watchdog, unsettled, faults>>

\* `openwrt-mcp-agent --clear' takes no lock: what it has read it archives and
\* unlinks, whatever has come of it, and of active.json, in between.
ClearRead ==
  /\ clearing = NotClearing
  /\ active # Null
  /\ active.state = "needs_manual"
  /\ clearing' = [at |-> "write", plan |-> active.plan]
  /\ UNCHANGED <<config, precond, used, journal, heartbeat, agent, watchdog,
                 unsettled, faults>>

ClearWrite ==
  /\ clearing.at = "write"
  /\ last' = [plan |-> clearing.plan, state |-> "cleared_manually"]
  /\ clearing' = [clearing EXCEPT !.at = "unlink"]
  /\ UNCHANGED <<config, precond, used, backup, active, left, heartbeat, agent,
                 watchdog, unsettled, faults>>

ClearUnlink ==
  /\ clearing.at = "unlink"
  /\ active' = Null
  /\ unsettled' = IF unsettled = clearing.plan THEN Null ELSE unsettled
  /\ clearing' = NotClearing
  /\ UNCHANGED <<config, precond, used, backup, last, left, heartbeat, agent,
                 watchdog, faults>>

-------------------------------------------------------------------------------
(* The watchdog: a tick at boot, then heartbeat and tick every 3 s.        *)

\* Mutant of Due: the watchdog looks after finished applies only.
DueWhenApplied ==
  active # Null /\ active.state = "applied_unconfirmed" /\ Expired(active)

Due == active # Null /\ active.state \in OpenStates /\ Expired(active)

WatchdogBeat ==
  /\ watchdog = "beat"
  /\ heartbeat' = 0
  /\ watchdog' = "tick"
  /\ UNCHANGED <<config, precond, clearing, used, journal, agent, unsettled,
                 faults>>

WatchdogTick ==
  /\ watchdog \in {"boot", "tick"}
  /\ LockFree /\ Due
  /\ agent' = Working("tick", "rollback")
  /\ watchdog' = "ticking"
  /\ UNCHANGED <<config, precond, clearing, used, journal, heartbeat, unsettled,
                 faults>>

WatchdogPass ==
  /\ watchdog \in {"boot", "tick"}
  /\ ~(LockFree /\ Due)
  /\ watchdog' = "beat"
  /\ UNCHANGED <<config, precond, clearing, used, journal, heartbeat, agent,
                 unsettled, faults>>

\* procd starts it again.
WatchdogRespawn ==
  /\ watchdog = "down"
  /\ watchdog' = "boot"
  /\ UNCHANGED <<config, precond, clearing, used, journal, heartbeat, agent,
                 unsettled, faults>>

-------------------------------------------------------------------------------
(* The environment: time, crashes, and the administrator.                  *)

Tick ==
  /\ left' = IF left = 0 THEN 0 ELSE left - 1
  /\ heartbeat' = IF heartbeat > HeartbeatMaxAge THEN heartbeat
                                                 ELSE heartbeat + 1
  /\ UNCHANGED <<config, precond, clearing, used, backup, active, last, agent,
                 watchdog, unsettled, faults>>

AgentKilled ==
  /\ Fault("kill")
  /\ ~LockFree
  /\ agent' = Idle
  /\ watchdog' = WatchdogAfter(agent)
  /\ UNCHANGED <<config, precond, clearing, used, journal, heartbeat,
                 unsettled>>

ClearKilled ==
  /\ Fault("kill")
  /\ clearing.at # "idle"
  /\ clearing' = NotClearing
  /\ UNCHANGED <<config, precond, used, journal, heartbeat, agent, watchdog,
                 unsettled>>

WatchdogKilled ==
  /\ Fault("watchdog")
  /\ watchdog # "down"
  /\ watchdog' = "down"
  /\ UNCHANGED <<config, precond, clearing, used, journal, heartbeat, agent,
                 unsettled>>

\* The lock, the heartbeat and the staged delta are volatile; fw4 loads the
\* configuration it finds before the watchdog (START=99) starts.
Reboot ==
  /\ Fault("reboot")
  /\ agent' = Idle /\ clearing' = NotClearing
  /\ staged' = NoDelta
  /\ loaded' = conf
  /\ active' = IF active = Null THEN Null ELSE [active EXCEPT !.boot = "earlier"]
  /\ left' = 0
  /\ heartbeat' = HeartbeatMaxAge + 1
  /\ watchdog' = "boot"
  /\ UNCHANGED <<conf, precond, used, backup, last, unsettled>>

AdminMayWrite == EditsWhileBusy \/ LockFree

\* An edit by hand or through LuCI, with or without a reload.
AdminEdit(s, c) ==
  /\ Fault("edit")
  /\ AdminMayWrite
  /\ conf[s] # c
  /\ conf' = [conf EXCEPT ![s] = c]
  /\ loaded' \in {loaded, conf'}
  /\ UNCHANGED <<staged, precond, clearing, used, journal, heartbeat, agent,
                 watchdog, unsettled>>

AdminStage(s, c) ==
  /\ Fault("stage")
  /\ AdminMayWrite
  /\ staged' = Over([x \in {s} |-> c], staged)
  /\ UNCHANGED <<conf, loaded, precond, clearing, used, journal, heartbeat,
                 agent, watchdog, unsettled>>

AdminCommit ==
  /\ "stage" \in FaultKinds
  /\ AdminMayWrite
  /\ staged # NoDelta
  /\ conf' = Over(staged, conf)
  /\ loaded' = conf'
  /\ staged' = NoDelta
  /\ UNCHANGED <<precond, clearing, used, journal, heartbeat, agent, watchdog,
                 unsettled, faults>>

\* Step 3 of the runbook, on a journal that needs an operator.
AdminRestore ==
  /\ LockFree
  /\ active # Null
  /\ active.state = "needs_manual"
  /\ conf' = backup[active.plan]
  /\ loaded' = conf'
  /\ unsettled' = Null
  /\ UNCHANGED <<staged, precond, clearing, used, journal, heartbeat, agent,
                 watchdog, faults>>

-------------------------------------------------------------------------------
ApplyStep ==
  \/ ApplyCheck \/ ApplyBackUp \/ ApplyArm \/ ApplyStage \/ ApplyCommit
  \/ ApplyRecord \/ ApplyCheckPasses \/ ApplyCheckRejects \/ ApplyReload
  \/ ApplyReloadFails \/ ApplyFinish
RollbackStep ==
  \/ RollbackRefused \/ RollbackNothing \/ RollbackNeeded \/ RollbackRestore
  \/ RollbackReload \/ ArchiveWrite \/ ArchiveUnlink
AgentStep == ApplyStep \/ RollbackStep \/ ValidateRevert

Request ==
  \/ \E p \in Plans : Plan(p) \/ Confirm(p) \/ Rollback(p) \/ Validate(p)
  \/ \E g \in Grants : ApplyAdmit(g)

WatchdogStep ==
  WatchdogBeat \/ WatchdogTick \/ WatchdogPass \/ WatchdogRespawn

Failure ==
  \/ AgentKilled \/ ClearKilled \/ WatchdogKilled \/ Reboot
  \/ ApplyCheckRejectsUnrestored \/ RollbackRestoreFails

ClearStep == ClearRead \/ ClearWrite \/ ClearUnlink

Admin ==
  \/ \E s \in Sections, c \in Foreign \cup {Absent} :
       AdminEdit(s, c) \/ AdminStage(s, c)
  \/ AdminCommit \/ AdminRestore \/ ClearStep

Next ==
  Request \/ AgentStep \/ WatchdogStep \/ Tick \/ Failure \/ Admin

\* The kernel runs the invocation, whose children have timeouts; procd runs
\* the watchdog; time passes.  Nothing is assumed of clients or operators.
Fairness == WF_vars(AgentStep) /\ WF_vars(WatchdogStep) /\ WF_vars(Tick)

Spec == Init /\ [][Next]_vars
FairSpec == Spec /\ Fairness

-------------------------------------------------------------------------------
(* Properties.                                                             *)

\* A change the agent committed, and which nobody has confirmed, undone or
\* cleared, is never orphaned: the journal of its plan is active and its backup
\* exists, so that the watchdog will find it (op_apply arms before it commits,
\* archive_journal comes after the decision), across kills and reboots.
Journalled ==
  unsettled # Null =>
    /\ active # Null
    /\ active.plan = unsettled
    /\ backup[unsettled] # Null

\* Putting a backup back, in do_rollback or when fw4 check rejects the change,
\* changes nothing but the sections the plan itself wrote: an edit somebody
\* else committed meanwhile is not overwritten.
UndoTouchesOnlyThePlan ==
  [][agent.at \in {"restore", "recorded"} /\ agent' # agent =>
       \A s \in Sections \ DOMAIN Operations[agent.plan] : conf'[s] = conf[s]]_vars

\* A journal that an invocation closes as rolled_back leaves the configuration
\* that the plan was made for, whichever of the paths to it was taken.
RolledBackIsUndone ==
  [][active # Null /\ active' = Null /\ agent' # agent
       /\ last'.state = "rolled_back" => conf' = active.pre]_vars

\* A journal that is closed as rolled_back leaves none of the plan's sections
\* as the plan wrote them in the ruleset that fw4 has loaded.
RolledBackIsUnloaded ==
  [][active # Null /\ active' = Null /\ last'.state = "rolled_back" =>
       \A s \in DOMAIN Operations[active.plan] : loaded'[s] = conf'[s]]_vars

\* As long as nobody kills an invocation or edits the file, no sequence of
\* failing checks, failing or hanging reloads, failing restores, missed
\* deadlines and late confirms makes a rollback ask for an operator: the file
\* always is one of the two revisions the journal knows.
NeverNeedsManual == active # Null => active.state # "needs_manual"

\* A plan recorded as confirmed is not rolled back later: confirmed ends the
\* journal's state machine.  (One grant a plan: a second apply of the same plan
\* would be a new transaction.)
ConfirmedIsFinal ==
  [][last # Null /\ last.state = "confirmed" =>
       ~(last'.plan = last.plan /\ last'.state = "rolled_back")]_vars

\* Outside an invocation the shared uci delta holds nothing of a plan: what an
\* invocation stages it commits or reverts.
NoStrayDelta ==
  LockFree => \A s \in DOMAIN staged : staged[s] \notin Owned

\* A journal that is armed or unconfirmed is eventually closed, or handed to
\* the operator, by the watchdog alone: after a missed deadline, a reboot, a
\* killed invocation, or stage_ops refusing the plan after it was armed.
EventuallySettled ==
  (active # Null /\ active.state \in OpenStates)
    ~> (active = Null \/ active.state = "needs_manual")

-------------------------------------------------------------------------------
(* The inductive invariants behind TypeOK and Journalled.                  *)

DecidedSteps == {"archive", "unlink"}

\* While a --clear is on its way there is no journal but the one it has read, and
\* no invocation but a rollback of that one.
Cleared ==
  /\ clearing.plan \in Plans
  /\ agent.at \notin UnarmedSteps \cup ArmedSteps
  /\ active # Null => active.plan = clearing.plan /\ active.state = "needs_manual"
  /\ agent.at \in RollbackSteps \cup DecidedSteps =>
       agent.plan = clearing.plan /\ agent.j.state = "needs_manual"

\* What an invocation holds at each of its steps: the journal it works on, the
\* backup of that journal's plan, and, during an apply, active.json itself.
Grounded ==
  /\ agent.at = "idle" => LockFree
  /\ active # Null => backup[active.plan] # Null
  /\ agent.at \in UnarmedSteps \cup ArmedSteps \cup RollbackSteps
                       \cup DecidedSteps => agent.plan \in Plans
  /\ agent.at \in UnarmedSteps => active = Null /\ precond[agent.plan] # Null
  /\ agent.at \in {"backed_up"} \cup ArmedSteps \cup RollbackSteps =>
       backup[agent.plan] # Null
  /\ agent.at \in ArmedSteps =>
       /\ active # Null
       /\ agent.j = active
       /\ active.state = "armed"
  /\ agent.at \in ArmedSteps \cup RollbackSteps \cup DecidedSteps =>
       /\ agent.j # Null
       /\ agent.j.plan = agent.plan
  /\ agent.at \in RollbackSteps \cup DecidedSteps =>
       /\ active = Null \/ active.plan = agent.plan
       /\ agent.j.state # "needs_manual" => active = agent.j
  /\ agent.at \in DecidedSteps => agent.verdict \in Verdicts
  /\ clearing.at = "idle" => clearing = NotClearing
  /\ clearing.at # "idle" => Cleared

\* Who answers for an unsettled change.
Accounted ==
  /\ agent.at \in UnarmedSteps => unsettled = Null
  /\ agent.at \in {"reload", "unlink"} => unsettled = Null
  /\ agent.at = "archive" /\ agent.verdict # "confirmed" => unsettled = Null
  /\ Journalled

-------------------------------------------------------------------------------
(* The agent implements the contract of its journal.                       *)

\* The plan whose journal a --clear, or the rollback of a journal that needs an
\* operator, has read.
Attended ==
  IF clearing.at # "idle" THEN clearing.plan
  ELSE IF agent.at \in RollbackSteps \cup DecidedSteps /\ agent.j.state = "needs_manual"
       THEN agent.plan ELSE Null

Contract == INSTANCE JournalContract WITH
  txn <- IF active = Null THEN Null
         ELSE [plan |-> active.plan, state |-> active.state],
  verdict <- last,
  attended <- Attended

\* The journal files go through the contract's state machine and no other, write
\* by write, whatever is killed, rebooted or edited in between; also beside a
\* --clear, as long as no apply is admitted while it runs.
ImplementsContract == Contract!Spec
===============================================================================
