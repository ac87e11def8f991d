---------------------------- MODULE ServerTools -----------------------------
(***************************************************************************)
(* The tools of the three MCP servers proxmox-ve-mcp, truenas-mcp and      *)
(* pfsense-mcp, each as a function of the outcomes of the requests it has  *)
(* made so far: the next request, or its answer.  An outcome is a request  *)
(* and what became of it, [path, kind]: a kind of failure, or what the     *)
(* answer holds as far as a tool tells it apart: "well", "ill" (what the   *)
(* tool warns of), "empty" (a list of nothing), "running" (a task).        *)
(*                                                                         *)
(* An answer is kept as its success, its error code and its warnings; a    *)
(* section that could not be read is warned of by its path.  Left out: the *)
(* payloads and the tools of NodePower, ClusterShutdown and NasSession.    *)
(* A change is answered "well" by its task or its job, and "empty" by      *)
(* something else, which is not waited for.                                *)
(* asyncio.gather is read as one request after the other; what answers     *)
(* first changes nothing.                                                  *)
(***************************************************************************)
EXTENDS Integers, Sequences, FiniteSets

CONSTANTS
  AccessMode,   \* _host_access_mode of PFSENSE_HOST
  AdminApi      \* the Tailscale Admin API is configured

ASSUME AccessModeAssumption == AccessMode \in {"localhost", "tailscale", "lan", "unknown"}
ASSUME AdminApiAssumption == AdminApi \in BOOLEAN

-----------------------------------------------------------------------------
(* Failures and error codes.                                               *)

Transport == {"dns", "connect_timeout", "timeout", "tls", "refused", "broken"}
Statuses == {"401", "403", "404", "500", "not_json", "errors"}
Failures == Transport \cup Statuses
Failed(o) == o.kind \in Failures

\* client/http.py transport_error: what the transport says of the host
TransportCode(kind) ==
  CASE kind = "dns" -> "PVE_DNS_ERROR"
    [] kind = "connect_timeout" -> "PVE_CONNECT_TIMEOUT"
    [] kind = "timeout" -> "PVE_TIMEOUT"
    [] kind = "tls" -> "PVE_TLS_ERROR"
    [] kind = "refused" -> "PVE_CONNECTION_REFUSED"
    [] kind = "broken" -> "PVE_CONNECTION_ERROR"

\* PveApiError.to_dict: the code of an answer that is an error
PveCode(kind) ==
  CASE kind \in Transport -> TransportCode(kind)
    [] kind = "401" -> "PVE_UNAUTHORIZED"
    [] kind = "403" -> "PVE_FORBIDDEN"
    [] kind = "500" -> "PVE_SERVER_ERROR"
    [] OTHER -> "PVE_ERROR"

\* PfsApiError.to_dict: all that the transport does is one code.
PfsCode(kind) ==
  CASE kind = "401" -> "PFS_UNAUTHORIZED"
    [] kind = "403" -> "PFS_FORBIDDEN"
    [] kind = "404" -> "PFS_NOT_FOUND"
    [] kind = "500" -> "PFS_SERVER_ERROR"
    [] kind = "errors" -> "PFS_API_ERROR"
    [] OTHER -> "PFS_ERROR"

\* TnasApiError.to_dict and classify_connect_error
NasCode(kind) ==
  CASE kind = "connect_timeout" -> "CONNECT_TIMEOUT"
    [] kind = "timeout" -> "TIMEOUT"
    [] kind = "dns" -> "DNS_ERROR"
    [] kind = "tls" -> "TLS_ERROR"
    [] kind = "refused" -> "CONNECTION_REFUSED"
    [] kind = "broken" -> "CONNECTION_ERROR"
    [] OTHER -> "TRUENAS_API_ERROR"

-----------------------------------------------------------------------------
(* What a tool does next.                                                  *)

Ask(path)  == [do |-> "get", path |-> path]
Post(path) == [do |-> "post", path |-> path]
\* ok_response and error_response, by tool_handler
Say(warnings) == [do |-> "answer", ok |-> TRUE, code |-> "", warnings |-> warnings]
Raise(code)   == [do |-> "answer", ok |-> FALSE, code |-> code, warnings |-> {}]

\* The i-th request of a tool may fail, or its failure fails the tool.
May(g, i, path, then) == IF Len(g) < i THEN Ask(path) ELSE then
Must(g, i, path, code(_), then) ==
  May(g, i, path, IF Failed(g[i]) THEN Raise(code(g[i].kind)) ELSE then)
Pve(g, i, path, then) == Must(g, i, path, PveCode, then)
Nas(g, i, path, then) == Must(g, i, path, NasCode, then)
Pfs(g, i, path, then) == Must(g, i, path, PfsCode, then)

\* The warnings: of what could not be read, and of what was read.
Gaps(g, I) == {g[i].path : i \in {j \in I : Failed(g[j])}}
Note(g, i, kind, warning) == IF g[i].kind = kind THEN {warning} ELSE {}

NodeList == "/cluster/resources?type=node"
ConfigNodes == "/cluster/config/nodes"
HaCurrent == "/cluster/ha/status/current"
TaskStatus == "/nodes/tasks/status"
TaskLog == "/nodes/tasks/log"

-----------------------------------------------------------------------------
(* proxmox-ve-mcp: reads of one request.                                   *)

pve_get_version(g)              == Pve(g, 1, "/version", Say({}))
pve_list_nodes(g)               == Pve(g, 1, NodeList, Say({}))
pve_get_cluster_config_nodes(g) == Pve(g, 1, ConfigNodes, Say({}))
pve_get_cluster_options(g)      == Pve(g, 1, "/cluster/options", Say({}))
pve_list_tasks(g)               == Pve(g, 1, "/cluster/tasks", Say({}))
pve_get_task_log(g)             == Pve(g, 1, TaskLog, Say({}))
pve_list_resources(g)           == Pve(g, 1, "/cluster/resources", Say({}))
pve_get_node_status(g)          == Pve(g, 1, "/nodes/status", Say({}))
pve_get_guest_status(g)         == Pve(g, 1, "/nodes/guest/status", Say({}))
pve_get_guest_config(g)         == Pve(g, 1, "/nodes/guest/config", Say({}))
pve_list_ceph_osds(g)           == Pve(g, 1, "/nodes/ceph/osd", Say({}))

-----------------------------------------------------------------------------
(* proxmox-ve-mcp: reads of several requests.                              *)

\* cluster_quorum and qdevice_status, from the i-th request on
QuorumWarnings(g, i) ==
  Gaps(g, {i, i + 1}) \cup Note(g, i, "empty", "no cluster entry") \cup Note(g, i, "ill", "not quorate")

pve_cluster_health(g) ==
  Pve(g, 1, NodeList, May(g, 2, ConfigNodes,
  May(g, 3, "/cluster/status", May(g, 4, "/cluster/config/qdevice",
    Say(Note(g, 1, "ill", "offline nodes") \cup Gaps(g, {2}) \cup QuorumWarnings(g, 3))))))

\* A shutdown policy that could not be read is not said to be wrong; the
\* groups stand in for the rules of a newer release.
pve_get_ha_status(g) ==
  LET warnings == Gaps(g, {2, 3})
                  \cup (IF g[3].kind \in {"ill", "empty"} THEN {"shutdown policy"} ELSE {})
                  \cup Note(g, 1, "ill", "active LRM") \cup Note(g, 1, "empty", "no manager")
  IN Pve(g, 1, HaCurrent, May(g, 2, "/cluster/ha/resources",
     May(g, 3, "/cluster/options", May(g, 4, "/cluster/ha/rules",
       IF ~Failed(g[4]) THEN Say(warnings)
       ELSE May(g, 5, "/cluster/ha/groups",
                Say(warnings \cup (IF Failed(g[5]) THEN Gaps(g, {4, 5}) ELSE {})))))))

\* Mutant of pve_list_guests: a kind of guest that cannot be listed has none.
ListGuestsQuietly(g, node) ==
  IF ~node THEN Pve(g, 1, "/cluster/resources", Say({}))
  ELSE May(g, 1, "/nodes/qemu", May(g, 2, "/nodes/lxc", Say({})))

pve_list_guests(g, node) ==
  IF ~node THEN Pve(g, 1, "/cluster/resources", Say({}))
  ELSE May(g, 1, "/nodes/qemu", May(g, 2, "/nodes/lxc", Say(Gaps(g, {1, 2}))))

\* One storage of the node has an id; without one it is passed over.
pve_list_storage(g, node) ==
  Pve(g, 1, "/storage",
    IF ~node THEN Say({})
    ELSE May(g, 2, "/nodes/storage",
           IF g[2].kind # "well" THEN Say(Gaps(g, {2}))
           ELSE May(g, 3, "/nodes/storage/status", Say(Gaps(g, {3})))))

\* Without the cluster's own report, that of a node: the one that was named
\* or the first that is online.  When there is none the first failure stands.
pve_get_ceph_status(g, node) ==
  May(g, 1, "/cluster/ceph/status",
    IF ~Failed(g[1]) THEN Say({})
    ELSE IF node THEN Pve(g, 2, "/nodes/ceph/status", Say(Gaps(g, {1})))
    ELSE Pve(g, 2, NodeList,
           IF g[2].kind = "empty" THEN Raise(PveCode(g[1].kind))
           ELSE Pve(g, 3, "/nodes/ceph/status", Say(Gaps(g, {1})))))

\* Each probe that failed is listed with its error.
ProbeWarnings(g) ==
  LET failed == Gaps(g, DOMAIN g)
  IN failed \cup (IF failed = {} THEN {}
                  ELSE IF failed \subseteq {"/version", "/access/permissions"}
                       THEN {"no useful read permissions"}
                       ELSE {"some endpoints returned 403"})

pve_check_token(g) ==
  May(g, 1, "/version", May(g, 2, "/access/permissions",
  May(g, 3, NodeList, May(g, 4, ConfigNodes,
    IF g[3].kind \notin {"well", "ill"} THEN Say(ProbeWarnings(g))
    ELSE May(g, 5, "/nodes/network", May(g, 6, "/nodes/network/nic0",
           Say(ProbeWarnings(g))))))))

\* The interfaces of one node, from the i-th request on.  A detail that cannot
\* be read is passed over without a word.
NodeNetwork(g, i, Then(_)) ==
  May(g, i, "/nodes/network",
    IF g[i].kind \notin {"well", "ill"} THEN Then(i + 1)
    ELSE May(g, i + 1, "/nodes/network/iface", Then(i + 2)))

AddressWarnings(g) ==
  Gaps(g, {i \in DOMAIN g : g[i].path # "/nodes/network/iface"})
  \cup (IF /\ g[1].kind = "empty" \/ g[2].kind \notin {"well", "ill"}
           /\ \A i \in DOMAIN g : g[i].path = "/nodes/network/iface" => g[i].kind # "well"
        THEN {"no address at all"} ELSE {})

\* A cluster of two nodes, or a list of none.
pve_list_node_addresses(g) ==
  Pve(g, 1, NodeList, May(g, 2, ConfigNodes,
    IF g[1].kind = "empty" THEN Say(AddressWarnings(g))
    ELSE NodeNetwork(g, 3, LAMBDA i : NodeNetwork(g, i, LAMBDA j : Say(AddressWarnings(g))))))

-----------------------------------------------------------------------------
(* proxmox-ve-mcp: waiting for a task, and changing guests.                *)

\* wait_for_task: the i-th request is repeated while it is answered by
\* "running" and it is not late.
WaitForTask(g, i, late, Ended, StillRunning) ==
  Pve(g, i, TaskStatus,
    IF g[i].kind # "running" THEN Ended
    ELSE IF late THEN StillRunning ELSE Ask(TaskStatus))

pve_wait_for_task(g, late) ==
  WaitForTask(g, 1, late,
    May(g, 2, TaskLog, Say(Gaps(g, {2}) \cup Note(g, 1, "ill", "exit status"))),
    Pve(g, 2, TaskStatus, May(g, 3, TaskLog, Say(Gaps(g, {3}) \cup {"still running"}))))

\* _wait_or_pending: that the task runs on is no failure.
WaitOrPending(g, i, wait, late, warnings) ==
  IF ~wait \/ g[i - 1].kind # "well" THEN Say(warnings)
  ELSE WaitForTask(g, i, late, Say(warnings), Say(warnings \cup {"still running"}))

\* Mutant of HaWarnings: it is only said when that cannot be read.
HaWarningsOfGap(g, i) == Gaps(g, {i})

\* ha_placement and ha_stop_warning, of the i-th request: "ill" is a guest
\* that HA manages
HaWarnings(g, i) == Gaps(g, {i}) \cup Note(g, i, "ill", "HA-managed")

SubmitTask(g, i, path, then) ==
  IF Len(g) < i THEN Post(path)
  ELSE IF Failed(g[i]) THEN Raise(PveCode(g[i].kind)) ELSE then

pve_start_guest(g, wait, late) ==
  SubmitTask(g, 1, "/status/start", WaitOrPending(g, 2, wait, late, {}))
pve_shutdown_guest(g, wait, late) ==
  May(g, 1, HaCurrent,
    SubmitTask(g, 2, "/status/shutdown", WaitOrPending(g, 3, wait, late, HaWarnings(g, 1))))
pve_stop_guest(g, wait, late) ==
  May(g, 1, HaCurrent,
    SubmitTask(g, 2, "/status/stop",
      WaitOrPending(g, 3, wait, late, HaWarnings(g, 1) \cup {"hard stop"})))
pve_stopall_guests(g, wait, late) ==
  May(g, 1, HaCurrent,
    SubmitTask(g, 2, "/stopall", WaitOrPending(g, 3, wait, late, HaWarnings(g, 1))))

-----------------------------------------------------------------------------
(* truenas-mcp.                                                            *)

truenas_list_pools(g)     == Nas(g, 1, "pool.query", Say(Note(g, 1, "ill", "pool not ONLINE")))
truenas_list_datasets(g)  == Nas(g, 1, "pool.dataset.query", Say(Note(g, 1, "ill", "dataset full")))
truenas_list_scrub_tasks(g) == Nas(g, 1, "pool.scrub.query", Say(Note(g, 1, "empty", "no scrubs")))
truenas_list_disks(g) ==
  Nas(g, 1, "disk.query",
    Nas(g, 2, "disk.temperature_alerts", Say(Note(g, 2, "ill", "disk too hot"))))
truenas_get_system_info(g) == Nas(g, 1, "system.info", Nas(g, 2, "system.state", Say({})))
truenas_check_api_key(g)   == Nas(g, 1, "system.state", Nas(g, 2, "system.info", Say({})))
truenas_list_alerts(g)     == Nas(g, 1, "alert.list", Say(Note(g, 1, "ill", "alerts")))
truenas_list_jobs(g)       == Nas(g, 1, "core.get_jobs", Say({}))
truenas_list_smart_results(g) == Nas(g, 1, "smart.test.results", Say(Note(g, 1, "ill", "SMART test")))
truenas_list_alert_policies(g) == Nas(g, 1, "alert.list_policies", Say({}))
truenas_get_reporting_data(g)  == Nas(g, 1, "reporting.get_data", Say({}))

\* nfs_lab_warnings and _scrutiny_warnings, of the i-th request
NfsWarnings(g, i) == Note(g, i, "empty", "no NFS shares") \cup Note(g, i, "ill", "lab export")
ScrutinyWarnings(g, i) == Note(g, i, "empty", "Scrutiny missing") \cup Note(g, i, "ill", "Scrutiny not running")

truenas_list_nfs_shares(g) == Nas(g, 1, "sharing.nfs.query", Say(NfsWarnings(g, 1)))
truenas_list_apps(g)       == Nas(g, 1, "app.query", Say(ScrutinyWarnings(g, 1)))

\* collect_nfs_clients: "ill" is a client that is stale, unknown or unnamed
truenas_list_nfs_clients(g) ==
  May(g, 1, "nfs.get_nfs3_clients", May(g, 2, "nfs.get_nfs4_clients",
    IF Failed(g[1]) /\ Failed(g[2]) THEN Raise("INTERNAL_ERROR")
    ELSE Say(Gaps(g, {1, 2}) \cup Note(g, 1, "ill", "clients") \cup Note(g, 2, "ill", "clients"))))

truenas_system_summary(g) ==
  May(g, 1, "system.info", May(g, 2, "system.state", May(g, 3, "alert.list",
  May(g, 4, "pool.query", May(g, 5, "pool.dataset.query", May(g, 6, "core.get_jobs",
  May(g, 7, "sharing.nfs.query", May(g, 8, "pool.scrub.query", May(g, 9, "app.query",
    Say(Gaps(g, 1..9) \cup Note(g, 2, "ill", "not READY") \cup Note(g, 3, "ill", "alerts")
        \cup Note(g, 4, "ill", "pool not ONLINE") \cup Note(g, 6, "ill", "failed jobs")
        \cup NfsWarnings(g, 7) \cup Note(g, 8, "empty", "no scrubs")
        \cup ScrutinyWarnings(g, 9)))))))))))

\* A write is answered by its job, which is waited for: one that fails, and
\* one that does not end in time, is an error.
SubmitJob(g, path, wait, late) ==
  IF Len(g) < 1 THEN Post(path)
  ELSE IF Failed(g[1]) THEN Raise(NasCode(g[1].kind))
  ELSE IF ~wait \/ g[1].kind # "well" THEN Say({})
  ELSE Nas(g, 2, TaskStatus,
         CASE g[2].kind = "running" -> IF late THEN Raise("INTERNAL_ERROR") ELSE Ask(TaskStatus)
           [] g[2].kind = "ill" -> Raise("JOB_FAILED")
           [] OTHER -> Say({}))

truenas_create_dataset(g, wait, late)   == SubmitJob(g, "pool.dataset.create", wait, late)
truenas_update_nfs_share(g, wait, late) == SubmitJob(g, "sharing.nfs.update", wait, late)
truenas_dismiss_alert(g)                == SubmitJob(g, "alert.dismiss", FALSE, FALSE)

-----------------------------------------------------------------------------
(* pfsense-mcp.                                                            *)

\* fetch_tailscale_settings from the i-th request on: a path the firewall does
\* not know leads to the next one, and then to the Tailscale Admin API.  The
\* outcome goes to Then with the number of the next request.
Tailscale(g, i, Then(_, _)) ==
  May(g, i, "/vpn/tailscale/settings",
    IF g[i].kind # "404" THEN Then(i + 1, g[i])
    ELSE May(g, i + 1, "/services/tailscale/settings",
      IF g[i + 1].kind # "404" \/ ~AdminApi THEN Then(i + 2, g[i + 1])
      ELSE May(g, i + 2, "admin/devices",
        IF Failed(g[i + 2]) \/ g[i + 2].kind = "empty" THEN Then(i + 3, g[i + 2])
        ELSE May(g, i + 3, "admin/routes", Then(i + 4, g[i + 3])))))

\* An error of the Admin API is not one of pfREST; a device that is not found
\* is one.
TailscaleFailed(o) == Failed(o) \/ (o.path = "admin/devices" /\ o.kind = "empty")
TailscaleCode(o) ==
  IF o.path \in {"admin/devices", "admin/routes"} THEN "INTERNAL_ERROR" ELSE PfsCode(o.kind)
TailscaleWarnings(o) == IF o.kind = "well" THEN {} ELSE {"Tailscale drift"}

pfs_get_version(g)     == Pfs(g, 1, "/system/version", Say({}))
\* A body that is not JSON is taken for the payload, which then lists nothing.
pfs_list_interfaces(g) ==
  Pfs(g, 1, "/interfaces", Say(IF g[1].kind = "well" THEN {} ELSE {"no lab LAN"}))
pfs_list_firewall_rules(g) ==
  Pfs(g, 1, "/firewall/rules", Say(IF g[1].kind = "well" THEN {} ELSE {"no anti-lockout"}))
pfs_get_tailscale_status(g) ==
  Tailscale(g, 1, LAMBDA i, o : IF TailscaleFailed(o) THEN Raise(TailscaleCode(o))
                                ELSE Say(TailscaleWarnings(o)))

pfs_system_summary(g) ==
  LET Interfaces == IF Failed(g[2]) THEN Gaps(g, {2})
                    ELSE IF g[2].kind = "well" THEN {} ELSE {"no lab LAN"}
      Vpn(o) == IF TailscaleFailed(o) THEN {o.path} ELSE TailscaleWarnings(o)
  IN May(g, 1, "/system/version", May(g, 2, "/interfaces",
     Tailscale(g, 3, LAMBDA i, o :
       May(g, i, "/routing/gateways", May(g, i + 1, "/routing/static_routes",
       May(g, i + 2, "/system/restapi/settings",
         Say(Gaps(g, {1, i, i + 1, i + 2}) \cup Interfaces \cup Vpn(o))))))))

\* evaluate_restapi_access_policy: settings that are "ill" allow interfaces of
\* which none is the LAN, and have access lists without the LAN.
AccessIssues(kind) ==
  CASE kind = "well" -> {}
    [] kind = "empty" -> {"settings unreadable"}
    [] OTHER -> CASE AccessMode = "tailscale" -> {"allowed interfaces"}
                  [] AccessMode = "lan" -> {"allowed interfaces", "access lists"}
                  [] AccessMode = "unknown" -> {"unknown host"}
                  [] AccessMode = "localhost" -> {}

\* evaluate_api_endpoints_policy, of the requests I
EndpointIssues(g, I) == Gaps(g, I)

pfs_verify_lab_policy(g) ==
  Pfs(g, 1, "/firewall/rules", Pfs(g, 2, "/system/restapi/settings",
  May(g, 3, "/system/version", May(g, 4, "/system/restapi/settings",
  May(g, 5, "/interfaces", May(g, 6, "/firewall/rules",
  May(g, 7, "/routing/gateways", May(g, 8, "/routing/static_routes",
    Say((IF g[1].kind = "well" THEN {} ELSE {"Tailscale rules"}) \cup AccessIssues(g[2].kind)
        \cup EndpointIssues(g, 3..8))))))))))

=============================================================================
