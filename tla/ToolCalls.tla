----------------------------- MODULE ToolCalls ------------------------------
(***************************************************************************)
(* Tool calls of the MCP servers in progress: the confirmation and the     *)
(* check of the inputs, the requests ServerTools says, a limited number    *)
(* of them at a time to Proxmox VE, and the answer.  A request fails       *)
(* before or after it took effect, a call is cancelled, a task ends or     *)
(* runs on past the time a tool waits, and a guest comes under HA while it *)
(* is being stopped.                                                       *)
(*                                                                         *)
(* Left out: timing, the log, and the sleep between two polls of a task.   *)
(***************************************************************************)
EXTENDS ServerTools, SequencesExt

CONSTANTS
  Calls,            \* the calls
  Offered,          \* of each call, the tools it may be of
  Kinds,            \* the ways a request fails
  MaxConcurrent,    \* MAX_CONCURRENT_REQUESTS
  MaxFaults         \* failures, cancelled calls, and contents out of the ordinary

ASSUME ConcurrencyAssumption == MaxConcurrent \in Nat \ {0}
ASSUME KindsAssumption == Kinds \subseteq Failures

VARIABLES
  call,      \* of each call: tool and arguments, outcomes, next request or answer
  line,      \* the calls that wait for a place, the first one first
  free,      \* places of the semaphore
  task,      \* of each call, the task or job it started or was asked about
  ha,        \* the guest in question is managed by HA
  posts,     \* history: how often each call has changed something
  flipped,   \* history: the calls that set a guest's HA state to stopped
  joined,    \* history: the calls during which the guest came under HA
  faults

history == <<posts, flipped, joined>>
vars == <<call, line, free, task, ha, history, faults>>

-----------------------------------------------------------------------------
(* The registered tools and their classes.                                 *)

PveReads ==
  {"pve_get_version", "pve_check_token", "pve_list_node_addresses", "pve_list_nodes",
   "pve_get_cluster_config_nodes", "pve_get_cluster_options", "pve_list_tasks",
   "pve_get_task_log", "pve_list_resources", "pve_cluster_health", "pve_get_ha_status",
   "pve_wait_for_task", "pve_get_node_status", "pve_list_guests", "pve_get_guest_status",
   "pve_get_guest_config", "pve_list_storage", "pve_get_ceph_status", "pve_list_ceph_osds"}
PveWrites == {"pve_start_guest", "pve_shutdown_guest", "pve_stopall_guests"}
PveDestructive == {"pve_stop_guest"}

NasReads ==
  {"truenas_get_system_info", "truenas_check_api_key", "truenas_list_alerts",
   "truenas_list_alert_policies", "truenas_list_pools", "truenas_list_datasets",
   "truenas_list_disks", "truenas_list_smart_results", "truenas_get_reporting_data",
   "truenas_list_apps", "truenas_list_jobs", "truenas_list_nfs_shares",
   "truenas_list_nfs_clients", "truenas_list_scrub_tasks", "truenas_system_summary"}
NasWrites == {"truenas_create_dataset", "truenas_update_nfs_share", "truenas_dismiss_alert"}

PfsReads ==
  {"pfs_get_version", "pfs_list_interfaces", "pfs_get_tailscale_status", "pfs_system_summary",
   "pfs_list_firewall_rules", "pfs_verify_lab_policy"}

PveTools == PveReads \cup PveWrites \cup PveDestructive
Reads == PveReads \cup NasReads \cup PfsReads
AllTools == PveTools \cup NasReads \cup NasWrites \cup PfsReads

ASSUME OfferedAssumption == \A c \in Calls : Offered[c] \subseteq AllTools

\* The tools that reject a call without confirm=true: require_confirm, or a
\* schema that extends ConfirmInput.
PveConfirmed == {"pve_start_guest", "pve_shutdown_guest", "pve_stop_guest", "pve_stopall_guests"}
NasConfirmed == {"truenas_create_dataset", "truenas_update_nfs_share", "truenas_dismiss_alert"}
Confirmed == PveConfirmed \cup NasConfirmed

TakesNode == {"pve_list_guests", "pve_list_storage", "pve_get_ceph_status"}
TakesWait == {"pve_start_guest", "pve_shutdown_guest", "pve_stop_guest", "pve_stopall_guests",
              "truenas_create_dataset", "truenas_update_nfs_share"}

-----------------------------------------------------------------------------
(* The inputs that are checked.                                            *)

GuestRefInput      == {"node", "vmid", "guest_type"}
ListResourcesInput == {"node", "start", "limit"}
ListTasksInput     == {"start", "limit"}
WaitForTaskInput   == {"upid", "timeout_s"}
UpdateNfsShareInput == {"share_id"}
DismissAlertInput  == {"alert_id"}
ReportingDataInput == {"graph", "unit", "page"}
ListFirewallRulesInput == {"limit", "offset"}

\* The inputs of a tool that are rejected when they are wrong.
Checked(t) ==
  CASE t \in {"pve_get_guest_status", "pve_get_guest_config", "pve_start_guest",
              "pve_shutdown_guest"} -> GuestRefInput
    [] t = "pve_stop_guest" -> GuestRefInput \cup {"reason"}
    [] t \in {"pve_get_node_status", "pve_list_ceph_osds", "pve_stopall_guests"} \cup TakesNode -> {"node"}
    [] t = "pve_get_task_log" -> {"node", "upid"}
    [] t = "pve_list_resources" -> ListResourcesInput
    [] t = "pve_list_tasks" -> ListTasksInput
    [] t = "pve_wait_for_task" -> WaitForTaskInput
    [] t = "truenas_update_nfs_share" -> UpdateNfsShareInput
    [] t = "truenas_dismiss_alert" -> DismissAlertInput
    [] t = "truenas_get_reporting_data" -> ReportingDataInput
    [] t = "pfs_list_firewall_rules" -> ListFirewallRulesInput
    [] OTHER -> {}

\* The calls of a tool: with or without a node, confirm and wait, and with at
\* most one wrong input.
Arguments(t) ==
  [tool : {t}, node : IF t \in TakesNode THEN BOOLEAN ELSE {FALSE},
   wait : IF t \in TakesWait THEN BOOLEAN ELSE {FALSE},
   confirm : IF t \in Confirmed THEN BOOLEAN ELSE {FALSE},
   bad : {"none"} \cup (IF t \in TakesNode THEN {} ELSE Checked(t))]
  \cup [tool : {t} \cap TakesNode, node : {TRUE}, wait : {FALSE}, confirm : {FALSE}, bad : {"node"}]

\* Mutant of Rejected: confirm is not asked for.
RejectedByInput(a) == a.bad # "none"

Rejected(a) == a.bad # "none" \/ (a.tool \in Confirmed /\ ~a.confirm)

-----------------------------------------------------------------------------
(* One step of a call.                                                     *)

Step(a, g, late) ==
  CASE a.tool = "pve_get_version" -> pve_get_version(g)
    [] a.tool = "pve_list_nodes" -> pve_list_nodes(g)
    [] a.tool = "pve_get_cluster_config_nodes" -> pve_get_cluster_config_nodes(g)
    [] a.tool = "pve_get_cluster_options" -> pve_get_cluster_options(g)
    [] a.tool = "pve_list_tasks" -> pve_list_tasks(g)
    [] a.tool = "pve_get_task_log" -> pve_get_task_log(g)
    [] a.tool = "pve_list_resources" -> pve_list_resources(g)
    [] a.tool = "pve_get_node_status" -> pve_get_node_status(g)
    [] a.tool = "pve_get_guest_status" -> pve_get_guest_status(g)
    [] a.tool = "pve_get_guest_config" -> pve_get_guest_config(g)
    [] a.tool = "pve_list_ceph_osds" -> pve_list_ceph_osds(g)
    [] a.tool = "pve_cluster_health" -> pve_cluster_health(g)
    [] a.tool = "pve_get_ha_status" -> pve_get_ha_status(g)
    [] a.tool = "pve_check_token" -> pve_check_token(g)
    [] a.tool = "pve_list_node_addresses" -> pve_list_node_addresses(g)
    [] a.tool = "pve_list_guests" -> pve_list_guests(g, a.node)
    [] a.tool = "pve_list_storage" -> pve_list_storage(g, a.node)
    [] a.tool = "pve_get_ceph_status" -> pve_get_ceph_status(g, a.node)
    [] a.tool = "pve_wait_for_task" -> pve_wait_for_task(g, late)
    [] a.tool = "pve_start_guest" -> pve_start_guest(g, a.wait, late)
    [] a.tool = "pve_shutdown_guest" -> pve_shutdown_guest(g, a.wait, late)
    [] a.tool = "pve_stop_guest" -> pve_stop_guest(g, a.wait, late)
    [] a.tool = "pve_stopall_guests" -> pve_stopall_guests(g, a.wait, late)
    [] a.tool = "truenas_create_dataset" -> truenas_create_dataset(g, a.wait, late)
    [] a.tool = "truenas_update_nfs_share" -> truenas_update_nfs_share(g, a.wait, late)
    [] a.tool = "truenas_list_pools" -> truenas_list_pools(g)
    [] a.tool = "truenas_list_datasets" -> truenas_list_datasets(g)
    [] a.tool = "truenas_list_scrub_tasks" -> truenas_list_scrub_tasks(g)
    [] a.tool = "truenas_list_disks" -> truenas_list_disks(g)
    [] a.tool = "truenas_get_system_info" -> truenas_get_system_info(g)
    [] a.tool = "truenas_check_api_key" -> truenas_check_api_key(g)
    [] a.tool = "truenas_list_alerts" -> truenas_list_alerts(g)
    [] a.tool = "truenas_list_jobs" -> truenas_list_jobs(g)
    [] a.tool = "truenas_list_smart_results" -> truenas_list_smart_results(g)
    [] a.tool = "truenas_list_alert_policies" -> truenas_list_alert_policies(g)
    [] a.tool = "truenas_get_reporting_data" -> truenas_get_reporting_data(g)
    [] a.tool = "truenas_list_nfs_shares" -> truenas_list_nfs_shares(g)
    [] a.tool = "truenas_list_apps" -> truenas_list_apps(g)
    [] a.tool = "truenas_list_nfs_clients" -> truenas_list_nfs_clients(g)
    [] a.tool = "truenas_system_summary" -> truenas_system_summary(g)
    [] a.tool = "truenas_dismiss_alert" -> truenas_dismiss_alert(g)
    [] a.tool = "pfs_get_version" -> pfs_get_version(g)
    [] a.tool = "pfs_list_interfaces" -> pfs_list_interfaces(g)
    [] a.tool = "pfs_list_firewall_rules" -> pfs_list_firewall_rules(g)
    [] a.tool = "pfs_get_tailscale_status" -> pfs_get_tailscale_status(g)
    [] a.tool = "pfs_system_summary" -> pfs_system_summary(g)
    [] a.tool = "pfs_verify_lab_policy" -> pfs_verify_lab_policy(g)

\* A poll that found the task running sleeps before the next one.
Polls(s, g, late) ==
  s.do = "get" /\ s.path = TaskStatus /\ ~late /\ g # <<>> /\ g[Len(g)].kind = "running"

\* What a call waits for: the next poll, a place, a reply, or nothing any more.
Waiting(a, s, g, late) ==
  CASE s.do = "answer" -> "answered"
    [] Polls(s, g, late) -> "sleep"
    [] s.do # "answer" /\ ~Polls(s, g, late) -> IF a.tool \in PveTools THEN "line" ELSE "sent"

\* The call c goes on with the outcomes g.
Proceed(c, a, g, late) ==
  LET s == Step(a, g, late)
      phase == Waiting(a, s, g, late)
  IN /\ call' = [call EXCEPT ![c] = [args |-> a, got |-> g, late |-> late, next |-> s, phase |-> phase]]
     /\ line' = IF phase = "line" THEN Append(line, c) ELSE line

\* Mutant of GiveBack: the place is kept.
GiveBackNothing(c) == UNCHANGED free

\* The request of c is over, its place is free again.
GiveBack(c) == free' = IF call[c].args.tool \in PveTools THEN free + 1 ELSE free
After(k, kind) == Append(k.got, [path |-> k.next.path, kind |-> kind])

-----------------------------------------------------------------------------
(* The calls.                                                              *)

Idle == [args |-> [tool |-> "none"], got |-> <<>>, late |-> FALSE,
         next |-> Raise("none"), phase |-> "idle"]

Init ==
  /\ call = [c \in Calls |-> Idle] /\ line = <<>> /\ free = MaxConcurrent
  /\ task = [c \in Calls |-> "none"] /\ ha \in BOOLEAN
  /\ posts = [c \in Calls |-> 0] /\ flipped = {} /\ joined = {} /\ faults = 0

\* A tool is called: tool_handler and write_tool_handler around require_confirm
\* and parse_model
Begin(c) ==
  /\ call[c].phase = "idle"
  /\ \E t \in Offered[c] : \E a \in Arguments(t) :
       /\ IF Rejected(a)
          THEN /\ call' = [call EXCEPT ![c] = [Idle EXCEPT !.args = a, !.next = Raise("INTERNAL_ERROR"),
                                                           !.phase = "answered"]]
               /\ UNCHANGED line
          ELSE Proceed(c, a, <<>>, FALSE)
       /\ task' = [task EXCEPT ![c] = IF t = "pve_wait_for_task" THEN "running" ELSE @]
  /\ UNCHANGED <<free, ha, history, faults>>

\* The semaphore of PveClient._request lets the first one in.
Send(c) ==
  /\ line # <<>> /\ Head(line) = c /\ free > 0
  /\ line' = Tail(line) /\ free' = free - 1
  /\ call' = [call EXCEPT ![c].phase = "sent"]
  /\ UNCHANGED <<task, ha, history, faults>>

\* A change is made, or a request that changes nothing.
Stops == {"pve_shutdown_guest", "pve_stop_guest", "pve_stopall_guests"}
Happens(c, effect) ==
  IF effect
  THEN /\ posts' = [posts EXCEPT ![c] = @ + 1] /\ task' = [task EXCEPT ![c] = "running"]
       /\ flipped' = IF ha /\ call[c].args.tool \in Stops THEN flipped \cup {c} ELSE flipped
  ELSE UNCHANGED <<posts, task, flipped>>

\* What the answer holds.
Contents(c) ==
  LET k == call[c]
  IN IF k.next.do = "post" THEN {"well", "empty"}
     ELSE IF k.next.path = TaskStatus THEN {task[c]}
     ELSE IF k.next.path = HaCurrent /\ k.args.tool \in Stops THEN {IF ha THEN "ill" ELSE "well"}
     ELSE {"well", "ill", "empty"}
Usual(c) == LET k == call[c] IN k.next.path = TaskStatus \/ (k.next.path = HaCurrent /\ k.args.tool \in Stops)

Reply(c) ==
  /\ call[c].phase = "sent"
  /\ \E kind \in Contents(c) :
       /\ IF kind = "well" \/ Usual(c) THEN UNCHANGED faults
          ELSE faults < MaxFaults /\ faults' = faults + 1
       /\ Proceed(c, call[c].args, After(call[c], kind), call[c].late)
  /\ Happens(c, call[c].next.do = "post") /\ GiveBack(c)
  /\ UNCHANGED <<ha, joined>>

\* The ways a request to each of the three servers fails, and those after
\* which the change may have been made all the same.
FailsBy(t) ==
  IF t \in PveTools THEN Kinds
  ELSE IF t \in PfsReads THEN Kinds \ {"not_json"} ELSE Kinds \cap (Transport \cup {"errors"})
Unclear == {"timeout", "broken", "500", "not_json"}

Fails(c) ==
  /\ call[c].phase = "sent" /\ faults < MaxFaults
  /\ \E kind \in FailsBy(call[c].args.tool) :
       /\ Proceed(c, call[c].args, After(call[c], kind), call[c].late)
       /\ \E effect \in {FALSE, call[c].next.do = "post" /\ kind \in Unclear} : Happens(c, effect)
  /\ GiveBack(c) /\ faults' = faults + 1
  /\ UNCHANGED <<ha, joined>>

\* The next poll, or the end of the wait.
Wake(c) ==
  LET k == call[c]
  IN /\ k.phase = "sleep"
     /\ Proceed(c, k.args, IF k.late THEN k.got ELSE SubSeq(k.got, 1, Len(k.got) - 1), k.late)
     /\ UNCHANGED <<free, task, ha, history, faults>>

\* The deadline of a wait passes.
Late(c) ==
  /\ call[c].phase \in {"line", "sent", "sleep"} /\ ~call[c].late /\ call[c].next.path = TaskStatus
  /\ call' = [call EXCEPT ![c].late = TRUE]
  /\ UNCHANGED <<line, free, task, ha, history, faults>>

\* The client gives up on a call.
Cancel(c) ==
  LET k == call[c]
  IN /\ k.phase \in {"line", "sent", "sleep"} /\ faults < MaxFaults
     /\ call' = [call EXCEPT ![c].phase = "cancelled"]
     /\ IF k.phase = "line"
        THEN \E i \in DOMAIN line : line[i] = c /\ line' = RemoveAt(line, i)
        ELSE UNCHANGED line
     /\ IF k.phase = "sent" THEN GiveBack(c) ELSE UNCHANGED free
     /\ \E effect \in {FALSE, k.phase = "sent" /\ k.next.do = "post"} : Happens(c, effect)
     /\ faults' = faults + 1
     /\ UNCHANGED <<ha, joined>>

-----------------------------------------------------------------------------
(* The cluster and the NAS.                                                *)

\* The task ends while somebody waits; how it ends later nobody asks.
TaskEnds(c) ==
  /\ task[c] = "running" /\ call[c].phase \in {"line", "sent", "sleep"}
  /\ \E result \in {"well", "ill"} : task' = [task EXCEPT ![c] = result]
  /\ UNCHANGED <<call, line, free, ha, history, faults>>

\* The guest comes under HA, or is taken out of it.
HaChanges ==
  /\ faults < MaxFaults /\ faults' = faults + 1
  /\ ha' = ~ha
  /\ joined' = IF ha THEN joined
               ELSE joined \cup {c \in Calls : call[c].phase \in {"line", "sent", "sleep"}}
  /\ UNCHANGED <<call, line, free, task, posts, flipped>>

Next ==
  \/ HaChanges
  \/ \E c \in Calls :
       Begin(c) \/ Send(c) \/ Reply(c) \/ Fails(c) \/ Wake(c) \/ Late(c) \/ Cancel(c) \/ TaskEnds(c)

\* httpx ends every request, by its own timeout at the latest; the event loop
\* runs what is ready, and time passes.
Fairness ==
  \A c \in Calls : /\ WF_vars(Send(c) \/ Reply(c) \/ Fails(c) \/ Wake(c))
                   /\ WF_vars(Late(c))
Spec == Init /\ [][Next]_vars /\ Fairness

-----------------------------------------------------------------------------
(* Properties.                                                             *)

Answered(c) == call[c].phase = "answered"

\* Something changes only by a tool that is not registered as a read, once,
\* and only when the caller confirmed it and none of the inputs is wrong.  A
\* request that failed is never made again.
OnlyWhatWasAsked ==
  [][\A c \in Calls : posts'[c] # posts[c] =>
       /\ posts[c] = 0 /\ call[c].args.tool \notin Reads
       /\ call[c].args.confirm /\ call[c].args.bad = "none"]_vars

\* What a tool passes over when it cannot be read: the detail of an interface,
\* the HA rules of an older release whose groups were read, and a path of the
\* Tailscale package that the firewall does not know.
PassedOver(k, i) ==
  \/ k.got[i].path = "/nodes/network/iface"
  \/ k.got[i].path = "/cluster/ha/rules" /\ ~Failed(k.got[i + 1])
  \/ k.got[i].path \in {"/vpn/tailscale/settings", "/services/tailscale/settings"}
       /\ k.got[i].kind = "404" /\ k.got[i + 1].path \in {"/services/tailscale/settings", "admin/devices"}

\* An answer that says ok names everything it could not read; the rest of it
\* is not presented as the whole.
NothingGoesUnsaid ==
  \A c \in Calls : (Answered(c) /\ call[c].next.ok) =>
    \A i \in DOMAIN call[c].got :
      (Failed(call[c].got[i]) /\ ~PassedOver(call[c], i)) => call[c].got[i].path \in call[c].next.warnings

\* A call that sets the HA state of a guest to stopped says so when it answers
\* ok, or that it could not tell; unless the guest came under HA meanwhile.
HaStopIsWarned ==
  \A c \in flipped \ joined : (Answered(c) /\ call[c].next.ok) =>
    call[c].next.warnings \cap {"HA-managed", HaCurrent} # {}

\* Every call is answered, however its task fares, unless the caller gives up.
EveryCallEnds ==
  \A c \in Calls : (call[c].phase # "idle") ~> (call[c].phase \in {"answered", "cancelled"})

=============================================================================
