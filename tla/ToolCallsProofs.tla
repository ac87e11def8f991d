--------------------------- MODULE ToolCallsProofs ---------------------------
(***************************************************************************)
(* Proofs about ToolCalls: the calls of the tools of the three servers,    *)
(* whatever the requests answer, in whatever order calls, tasks and        *)
(* deadlines come, and for any number of calls and of faults.              *)
(*                                                                         *)
(* A tool is a function of the outcomes of its requests so far, so that    *)
(* what it answers is a matter of the history of outcomes that led to it.  *)
(* The inductive invariant says that every call under way has such a       *)
(* history: each of its outcomes is that of the request the tool makes     *)
(* after the ones before it.  With it a tool changes something at most     *)
(* once, a stop has looked for HA first, and an answer is the last step of *)
(* a history, which is unfolded tool by tool to see what it names.         *)
(***************************************************************************)
EXTENDS ToolCalls, SequenceTheorems, TLAPS

Active == {"line", "sent", "sleep"}
Sequence(g) == \E S : g \in Seq(S)

\* The tools that wait for a task or a job.
Waiters == TakesWait \cup {"pve_wait_for_task"}

\* A task that was still running when it was asked for is asked for no more
\* within the time of the wait, but instead of that answer.
Patient(a, g, l) ==
  a.tool \in Waiters /\ (\E i \in DOMAIN g : g[i].kind = "running") => l = TRUE

\* After the outcomes h a tool with the arguments a requests path.
Made(a, h, path) ==
  \E l \in BOOLEAN : Patient(a, h, l) /\ Step(a, h, l).do # "answer" /\ Step(a, h, l).path = path

\* Every outcome is that of a request the tool makes after those before it.
History(a, g) == \A i \in 1..Len(g) : Made(a, SubSeq(g, 1, i - 1), g[i].path)

\* The one request of a tool that changes something.
PostAt(t) == IF t \in Stops THEN 2 ELSE 1

\* A call is a record of five fields.
Shaped(k) ==
  /\ k = [args |-> k.args, got |-> k.got, late |-> k.late, next |-> k.next, phase |-> k.phase]
  /\ Sequence(k.got) /\ k.late \in BOOLEAN

\* What the variables hold.
Formed ==
  /\ call = [c \in Calls |-> call[c]] /\ task = [c \in Calls |-> task[c]]
  /\ \A c \in Calls : Shaped(call[c]) /\ task[c] \in {"none", "running", "well", "ill"}
  /\ line \in Seq(Calls) /\ ha \in BOOLEAN
  /\ posts \in [Calls -> Nat] /\ flipped \subseteq Calls /\ joined \subseteq Calls

\* Who waits in the line waits in it once.
Queued ==
  /\ \A i \in DOMAIN line : call[line[i]].phase = "line"
  /\ \A i, j \in DOMAIN line : line[i] = line[j] => i = j

\* A call under way: what it was called with, the requests it has made, and the
\* one that it waits for.
Underway(k) ==
  k.phase \in Active =>
    /\ k.args.tool \in AllTools /\ k.args \in Arguments(k.args.tool) /\ ~Rejected(k.args)
    /\ History(k.args, k.got)
    /\ k.phase # "sleep" =>
         /\ Patient(k.args, k.got, k.late) /\ Made(k.args, k.got, k.next.path)
         /\ k.next.do = "post" => k.args.tool \notin Reads /\ Len(k.got) + 1 = PostAt(k.args.tool)
    /\ k.phase = "sleep" =>
         /\ k.got # <<>> /\ k.next.do # "post"
         /\ Patient(k.args, SubSeq(k.got, 1, Len(k.got) - 1), k.late)
         /\ k.args.tool \notin Reads => Len(k.got) > PostAt(k.args.tool)

\* What has been changed was changed by a request of the past.
Spent(c) ==
  posts[c] > 0 => /\ call[c].phase # "idle"
                  /\ call[c].phase \in Active => /\ call[c].args.tool \notin Reads
                                                 /\ Len(call[c].got) >= PostAt(call[c].args.tool)

\* An answer that says ok is that of the tool to the outcomes.
Concluded(k) ==
  k.phase = "answered" /\ k.next.ok =>
    /\ k.args.tool \in AllTools /\ k.args \in Arguments(k.args.tool)
    /\ History(k.args, k.got) /\ Patient(k.args, k.got, k.late)
    /\ k.next = Step(k.args, k.got, k.late) /\ k.next.do = "answer"

\* A tool that stops guests asks first what is under HA, and what it was told
\* holds until something comes under HA.
Looked(c) ==
  LET k == call[c]
  IN /\ k.phase \in Active \cup {"answered"} /\ k.args.tool \in Stops /\ k.got # <<>> =>
          /\ k.got[1].path = HaCurrent /\ k.got[1].kind \in {"ill", "well"} \cup Failures
          /\ k.phase \in Active /\ k.got[1].kind = "well" => ~ha \/ c \in joined
     /\ c \in flipped =>
          /\ k.phase # "idle"
          /\ k.phase # "cancelled" => /\ k.args.tool \in Stops /\ k.got # <<>>
                                      /\ c \in joined \/ k.got[1].kind # "well"

Inv ==
  /\ Formed /\ Queued
  /\ \A c \in Calls : Underway(call[c]) /\ Spent(c) /\ Concluded(call[c]) /\ Looked(c)

-----------------------------------------------------------------------------
(* Sequences of outcomes.                                                  *)

\* A sequence that grows by an element keeps what it had.
LEMMA Appending ==
  ASSUME NEW g, Sequence(g), NEW o
  PROVE  LET h == Append(g, o)
         IN /\ Sequence(h) /\ Len(h) = Len(g) + 1 /\ h[Len(h)] = o /\ h # <<>>
            /\ \A i \in 1..Len(g) : h[i] = g[i]
            /\ \A i \in 0..Len(g) : SubSeq(h, 1, i) = SubSeq(g, 1, i)
<1> DEFINE h == Append(g, o)
<1>1. PICK S : g \in Seq(S)
  BY DEF Sequence
<1>2. g \in Seq(S \cup {o})
  BY <1>1
<1>3. /\ h \in Seq(S \cup {o}) /\ Len(h) = Len(g) + 1 /\ h[Len(h)] = o
      /\ \A i \in 1..Len(g) : h[i] = g[i]
  BY <1>2
<1>4. ASSUME NEW i \in 0..Len(g)
      PROVE  SubSeq(h, 1, i) = SubSeq(g, 1, i)
  <2>1. SubSeq(h, 1, i) \in Seq(S \cup {o}) /\ SubSeq(g, 1, i) \in Seq(S \cup {o})
    BY <1>2, <1>3, SubSeqProperties
  <2>2. Len(SubSeq(h, 1, i)) = i /\ Len(SubSeq(g, 1, i)) = i
    BY <1>2, <1>3, SubSeqProperties
  <2>3. \A j \in 1..i : SubSeq(h, 1, i)[j] = SubSeq(g, 1, i)[j]
    BY <1>2, <1>3, SubSeqProperties
  <2> QED
    BY <2>1, <2>2, <2>3, SeqEqual
<1> QED
  BY <1>3, <1>4 DEF Sequence

\* What an initial part of a sequence is.
LEMMA Beginning ==
  ASSUME NEW g, Sequence(g), NEW n \in 0..Len(g)
  PROVE  LET h == SubSeq(g, 1, n)
         IN /\ Sequence(h) /\ Len(h) = n /\ DOMAIN h = 1..n
            /\ \A i \in 1..n : h[i] = g[i]
            /\ \A m \in 0..n : SubSeq(h, 1, m) = SubSeq(g, 1, m)
<1> DEFINE h == SubSeq(g, 1, n)
<1>1. PICK S : g \in Seq(S)
  BY DEF Sequence
<1>2. h \in Seq(S) /\ Len(h) = n /\ \A i \in 1..n : h[i] = g[i]
  BY <1>1, SubSeqProperties
<1>3. ASSUME NEW m \in 0..n
      PROVE  SubSeq(h, 1, m) = SubSeq(g, 1, m)
  <2>1. SubSeq(h, 1, m) \in Seq(S) /\ Len(SubSeq(h, 1, m)) = m
        /\ SubSeq(g, 1, m) \in Seq(S) /\ Len(SubSeq(g, 1, m)) = m
    BY <1>1, <1>2, SubSeqProperties
  <2>2. \A j \in 1..m : SubSeq(h, 1, m)[j] = SubSeq(g, 1, m)[j]
    BY <1>1, <1>2, SubSeqProperties
  <2> QED
    BY <2>1, <2>2, SeqEqual
<1>4. DOMAIN h = 1..n
  BY <1>2
<1> QED
  BY <1>2, <1>3, <1>4 DEF Sequence

\* The domain of a sequence, and a sequence of none.
LEMMA Indices ==
  ASSUME NEW g, Sequence(g)
  PROVE  Len(g) \in Nat /\ DOMAIN g = 1..Len(g) /\ (g = <<>> <=> Len(g) = 0)
<1>1. PICK S : g \in Seq(S)
  BY DEF Sequence
<1> QED
  BY <1>1, EmptySeq

\* A request that is answered adds to a history ...
LEMMA HistoryGrows ==
  ASSUME NEW a, NEW g, Sequence(g), NEW o, History(a, g), Made(a, g, o.path)
  PROVE  History(a, Append(g, o))
<1> DEFINE h == Append(g, o)
<1>1. /\ Len(g) \in Nat /\ Len(h) = Len(g) + 1 /\ h[Len(h)] = o
      /\ \A i \in 1..Len(g) : h[i] = g[i]
      /\ \A i \in 0..Len(g) : SubSeq(h, 1, i) = SubSeq(g, 1, i)
  BY Appending, Indices
<1>2. SubSeq(g, 1, Len(g)) = g
  <2>1. PICK S : g \in Seq(S)
    BY DEF Sequence
  <2> QED
    BY <2>1, SubSeqFull
<1>3. ASSUME NEW i \in 1..Len(h)
      PROVE  Made(a, SubSeq(h, 1, i - 1), h[i].path)
  <2>1. CASE i \in 1..Len(g)
    <3>1. i - 1 \in 0..Len(g)
      BY <1>1, <2>1
    <3> QED
      BY <1>1, <2>1, <3>1 DEF History
  <2>2. CASE i = Len(g) + 1
    <3>1. SubSeq(h, 1, i - 1) = g /\ h[i] = o
      BY <1>1, <1>2, <2>2
    <3> QED
      BY <3>1
  <2> QED
    BY <1>1, <1>3, <2>1, <2>2
<1> QED
  BY <1>3 DEF History

\* ... and what was before it is one.
LEMMA HistoryBefore ==
  ASSUME NEW a, NEW g, Sequence(g), History(a, g), NEW n \in 0..Len(g)
  PROVE  History(a, SubSeq(g, 1, n))
<1> DEFINE h == SubSeq(g, 1, n)
<1>1. Len(g) \in Nat /\ Len(h) = n /\ (\A i \in 1..n : h[i] = g[i])
      /\ \A m \in 0..n : SubSeq(h, 1, m) = SubSeq(g, 1, m)
  BY Beginning, Indices
<1>2. ASSUME NEW i \in 1..n
      PROVE  Made(a, SubSeq(h, 1, i - 1), h[i].path)
  <2>1. i \in 1..Len(g) /\ i - 1 \in 0..n
    BY <1>1
  <2>2. h[i] = g[i] /\ SubSeq(h, 1, i - 1) = SubSeq(g, 1, i - 1)
    BY <1>1, <2>1
  <2> QED
    BY <2>1, <2>2 DEF History
<1> QED
  BY <1>1, <1>2 DEF History

\* After the first n outcomes of g a tool with the arguments a makes a request,
\* and it is that of the next one.
Before(a, g, n) ==
  \E h, l : /\ Sequence(h) /\ Len(h) = n /\ \A j \in 1..n : h[j] = g[j]
            /\ l \in BOOLEAN /\ Patient(a, h, l)
            /\ Step(a, h, l).do # "answer" /\ Step(a, h, l).path = g[n + 1].path

\* That is so before every outcome of a history.
LEMMA Told ==
  ASSUME NEW a, NEW g, Sequence(g), History(a, g), NEW n \in Nat, n < Len(g)
  PROVE  Before(a, g, n)
<1> DEFINE h == SubSeq(g, 1, n)
           i == n + 1
<1>1. n \in 0..Len(g) /\ i \in 1..Len(g) /\ n = i - 1
  BY Indices
<1>2. Sequence(h) /\ Len(h) = n /\ \A j \in 1..n : h[j] = g[j]
  BY <1>1, Beginning
<1>3. Made(a, h, g[i].path)
  BY <1>1 DEF History
<1> HIDE DEF h
<1> QED
  BY <1>2, <1>3 DEF Made, Before

-----------------------------------------------------------------------------
(* The tools.                                                              *)

\* The step of each tool, by its name.
LEMMA StepIs ==
  ASSUME NEW a, NEW g, NEW late
  PROVE
    /\ a.tool = "pve_get_version" => Step(a, g, late) = pve_get_version(g)
    /\ a.tool = "pve_list_nodes" => Step(a, g, late) = pve_list_nodes(g)
    /\ a.tool = "pve_get_cluster_config_nodes" => Step(a, g, late) = pve_get_cluster_config_nodes(g)
    /\ a.tool = "pve_get_cluster_options" => Step(a, g, late) = pve_get_cluster_options(g)
    /\ a.tool = "pve_list_tasks" => Step(a, g, late) = pve_list_tasks(g)
    /\ a.tool = "pve_get_task_log" => Step(a, g, late) = pve_get_task_log(g)
    /\ a.tool = "pve_list_resources" => Step(a, g, late) = pve_list_resources(g)
    /\ a.tool = "pve_get_node_status" => Step(a, g, late) = pve_get_node_status(g)
    /\ a.tool = "pve_get_guest_status" => Step(a, g, late) = pve_get_guest_status(g)
    /\ a.tool = "pve_get_guest_config" => Step(a, g, late) = pve_get_guest_config(g)
    /\ a.tool = "pve_list_ceph_osds" => Step(a, g, late) = pve_list_ceph_osds(g)
    /\ a.tool = "pve_cluster_health" => Step(a, g, late) = pve_cluster_health(g)
    /\ a.tool = "pve_get_ha_status" => Step(a, g, late) = pve_get_ha_status(g)
    /\ a.tool = "pve_check_token" => Step(a, g, late) = pve_check_token(g)
    /\ a.tool = "pve_list_node_addresses" => Step(a, g, late) = pve_list_node_addresses(g)
    /\ a.tool = "pve_list_guests" => Step(a, g, late) = pve_list_guests(g, a.node)
    /\ a.tool = "pve_list_storage" => Step(a, g, late) = pve_list_storage(g, a.node)
    /\ a.tool = "pve_get_ceph_status" => Step(a, g, late) = pve_get_ceph_status(g, a.node)
    /\ a.tool = "pve_wait_for_task" => Step(a, g, late) = pve_wait_for_task(g, late)
    /\ a.tool = "pve_start_guest" => Step(a, g, late) = pve_start_guest(g, a.wait, late)
    /\ a.tool = "pve_shutdown_guest" => Step(a, g, late) = pve_shutdown_guest(g, a.wait, late)
    /\ a.tool = "pve_stop_guest" => Step(a, g, late) = pve_stop_guest(g, a.wait, late)
    /\ a.tool = "pve_stopall_guests" => Step(a, g, late) = pve_stopall_guests(g, a.wait, late)
    /\ a.tool = "truenas_create_dataset" => Step(a, g, late) = truenas_create_dataset(g, a.wait, late)
    /\ a.tool = "truenas_update_nfs_share" => Step(a, g, late) = truenas_update_nfs_share(g, a.wait, late)
    /\ a.tool = "truenas_list_pools" => Step(a, g, late) = truenas_list_pools(g)
    /\ a.tool = "truenas_list_datasets" => Step(a, g, late) = truenas_list_datasets(g)
    /\ a.tool = "truenas_list_scrub_tasks" => Step(a, g, late) = truenas_list_scrub_tasks(g)
    /\ a.tool = "truenas_list_disks" => Step(a, g, late) = truenas_list_disks(g)
    /\ a.tool = "truenas_get_system_info" => Step(a, g, late) = truenas_get_system_info(g)
    /\ a.tool = "truenas_check_api_key" => Step(a, g, late) = truenas_check_api_key(g)
    /\ a.tool = "truenas_list_alerts" => Step(a, g, late) = truenas_list_alerts(g)
    /\ a.tool = "truenas_list_jobs" => Step(a, g, late) = truenas_list_jobs(g)
    /\ a.tool = "truenas_list_smart_results" => Step(a, g, late) = truenas_list_smart_results(g)
    /\ a.tool = "truenas_list_alert_policies" => Step(a, g, late) = truenas_list_alert_policies(g)
    /\ a.tool = "truenas_get_reporting_data" => Step(a, g, late) = truenas_get_reporting_data(g)
    /\ a.tool = "truenas_list_nfs_shares" => Step(a, g, late) = truenas_list_nfs_shares(g)
    /\ a.tool = "truenas_list_apps" => Step(a, g, late) = truenas_list_apps(g)
    /\ a.tool = "truenas_list_nfs_clients" => Step(a, g, late) = truenas_list_nfs_clients(g)
    /\ a.tool = "truenas_system_summary" => Step(a, g, late) = truenas_system_summary(g)
    /\ a.tool = "truenas_dismiss_alert" => Step(a, g, late) = truenas_dismiss_alert(g)
    /\ a.tool = "pfs_get_version" => Step(a, g, late) = pfs_get_version(g)
    /\ a.tool = "pfs_list_interfaces" => Step(a, g, late) = pfs_list_interfaces(g)
    /\ a.tool = "pfs_list_firewall_rules" => Step(a, g, late) = pfs_list_firewall_rules(g)
    /\ a.tool = "pfs_get_tailscale_status" => Step(a, g, late) = pfs_get_tailscale_status(g)
    /\ a.tool = "pfs_system_summary" => Step(a, g, late) = pfs_system_summary(g)
    /\ a.tool = "pfs_verify_lab_policy" => Step(a, g, late) = pfs_verify_lab_policy(g)
BY DEF Step
\* What a step says.
LEMMA Fields ==
  /\ \A p : /\ Ask(p).do = "get" /\ Ask(p).path = p
           /\ Post(p).do = "post" /\ Post(p).path = p
  /\ \A w : Say(w).do = "answer" /\ Say(w).ok /\ Say(w).warnings = w
  /\ \A c : Raise(c).do = "answer" /\ ~Raise(c).ok
BY DEF Ask, Post, Say, Raise

\* What the wait for a task adds to the steps of a tool that has started one.
LEMMA Waits ==
  ASSUME NEW g, NEW i, NEW wait, NEW late, NEW warnings
  PROVE  LET s == WaitOrPending(g, i, wait, late, warnings)
         IN /\ s.do # "post"
            /\ s.do = "get" => g[i - 1].kind = "well"
            /\ s.do = "answer" /\ s.ok => warnings \subseteq s.warnings
<1> DEFINE s == WaitOrPending(g, i, wait, late, warnings)
           more == warnings \cup {"still running"}
<1>1. s = Say(warnings) \/ (g[i - 1].kind = "well" /\ s = WaitForTask(g, i, late, Say(warnings), Say(more)))
  BY DEF WaitOrPending
<1>2. warnings \subseteq more
  OBVIOUS
<1> HIDE DEF more
<1>3. WaitForTask(g, i, late, Say(warnings), Say(more))
        \in {Ask(TaskStatus), Raise(PveCode(g[i].kind)), Say(warnings), Say(more)}
  BY DEF WaitForTask, Pve, Must, May
<1> HIDE DEF s
<1> QED
  BY <1>1, <1>2, <1>3, Fields DEF s

\* A hard stop says more than what is under HA.
LEMMA HardStop ==
  ASSUME NEW g, NEW wait, NEW late
  PROVE  \E w : /\ HaWarnings(g, 1) \subseteq w
                /\ pve_stop_guest(g, wait, late)
                     = May(g, 1, HaCurrent, SubmitTask(g, 2, "/status/stop",
                                                       WaitOrPending(g, 3, wait, late, w)))
<1> DEFINE w == HaWarnings(g, 1) \cup {"hard stop"}
<1>1. HaWarnings(g, 1) \subseteq w
  OBVIOUS
<1>2. pve_stop_guest(g, wait, late)
        = May(g, 1, HaCurrent, SubmitTask(g, 2, "/status/stop", WaitOrPending(g, 3, wait, late, w)))
  BY DEF pve_stop_guest
<1> QED
  BY <1>1, <1>2

\* Only a tool that is registered for it changes something, by one request.
LEMMA OnlyWritesPost ==
  ASSUME NEW a, a.tool \in AllTools, NEW g, Sequence(g), NEW l, Step(a, g, l).do = "post"
  PROVE  a.tool \notin Reads /\ Len(g) + 1 = PostAt(a.tool)
<1> USE Fields DEF May, Must
<1>1. ASSUME a.tool \in PveReads
      PROVE  FALSE
  <2> USE DEF Pve
  <2>1. CASE a.tool \in {"pve_get_version", "pve_list_nodes",
                         "pve_get_cluster_config_nodes", "pve_get_cluster_options",
                         "pve_list_tasks", "pve_get_task_log"}
    <3>1. Step(a, g, l) \in {pve_get_version(g), pve_list_nodes(g),
                           pve_get_cluster_config_nodes(g),
                           pve_get_cluster_options(g), pve_list_tasks(g),
                           pve_get_task_log(g)}
      BY <2>1, StepIs
    <3> QED
      BY <2>1, <3>1 DEF pve_get_version, pve_list_nodes,
          pve_get_cluster_config_nodes, pve_get_cluster_options, pve_list_tasks,
          pve_get_task_log
  <2>2. CASE a.tool \in {"pve_list_resources", "pve_get_node_status",
                         "pve_get_guest_status", "pve_get_guest_config",
                         "pve_list_ceph_osds", "pve_list_guests"}
    <3>1. Step(a, g, l) \in {pve_list_resources(g), pve_get_node_status(g),
                           pve_get_guest_status(g), pve_get_guest_config(g),
                           pve_list_ceph_osds(g), pve_list_guests(g, a.node)}
      BY <2>2, StepIs
    <3> QED
      BY <2>2, <3>1 DEF pve_list_resources, pve_get_node_status,
          pve_get_guest_status, pve_get_guest_config, pve_list_ceph_osds,
          pve_list_guests
  <2>3. CASE a.tool \in {"pve_cluster_health", "pve_get_ha_status",
                         "pve_list_storage", "pve_get_ceph_status"}
    <3>1. Step(a, g, l) \in {pve_cluster_health(g), pve_get_ha_status(g),
                           pve_list_storage(g, a.node),
                           pve_get_ceph_status(g, a.node)}
      BY <2>3, StepIs
    <3> QED
      BY <2>3, <3>1 DEF pve_cluster_health, pve_get_ha_status, pve_list_storage,
          pve_get_ceph_status
  <2>4. CASE a.tool \in {"pve_check_token", "pve_list_node_addresses",
                         "pve_wait_for_task"}
    <3>1. Step(a, g, l) \in {pve_check_token(g), pve_list_node_addresses(g),
                           pve_wait_for_task(g, l)}
      BY <2>4, StepIs
    <3> QED
      BY <2>4, <3>1 DEF pve_check_token, pve_list_node_addresses,
          pve_wait_for_task, NodeNetwork, WaitForTask
  <2> QED
    BY <1>1, <2>1, <2>2, <2>3, <2>4 DEF PveReads
<1>2. ASSUME a.tool \in NasReads
      PROVE  FALSE
  <2> USE DEF Nas
  <2>1. CASE a.tool \in {"truenas_list_pools", "truenas_list_datasets",
                         "truenas_list_scrub_tasks", "truenas_list_disks",
                         "truenas_get_system_info", "truenas_check_api_key",
                         "truenas_list_alerts"}
    <3>1. Step(a, g, l) \in {truenas_list_pools(g), truenas_list_datasets(g),
                           truenas_list_scrub_tasks(g), truenas_list_disks(g),
                           truenas_get_system_info(g), truenas_check_api_key(g),
                           truenas_list_alerts(g)}
      BY <2>1, StepIs
    <3> QED
      BY <2>1, <3>1 DEF truenas_list_pools, truenas_list_datasets,
          truenas_list_scrub_tasks, truenas_list_disks, truenas_get_system_info,
          truenas_check_api_key, truenas_list_alerts
  <2>2. CASE a.tool \in {"truenas_list_jobs", "truenas_list_smart_results",
                         "truenas_list_alert_policies",
                         "truenas_get_reporting_data", "truenas_list_nfs_shares",
                         "truenas_list_apps"}
    <3>1. Step(a, g, l) \in {truenas_list_jobs(g), truenas_list_smart_results(g),
                           truenas_list_alert_policies(g),
                           truenas_get_reporting_data(g),
                           truenas_list_nfs_shares(g), truenas_list_apps(g)}
      BY <2>2, StepIs
    <3> QED
      BY <2>2, <3>1 DEF truenas_list_jobs, truenas_list_smart_results,
          truenas_list_alert_policies, truenas_get_reporting_data,
          truenas_list_nfs_shares, truenas_list_apps
  <2>3. CASE a.tool \in {"truenas_list_nfs_clients", "truenas_system_summary"}
    <3>1. Step(a, g, l) \in {truenas_list_nfs_clients(g),
                           truenas_system_summary(g)}
      BY <2>3, StepIs
    <3> QED
      BY <2>3, <3>1 DEF truenas_list_nfs_clients, truenas_system_summary
  <2> QED
    BY <1>2, <2>1, <2>2, <2>3 DEF NasReads
<1>3. ASSUME a.tool \in PfsReads
      PROVE  FALSE
  <2> USE DEF Pfs
  <2>1. CASE a.tool \in {"pfs_get_version", "pfs_list_interfaces",
                         "pfs_list_firewall_rules", "pfs_verify_lab_policy"}
    <3>1. Step(a, g, l) \in {pfs_get_version(g), pfs_list_interfaces(g),
                           pfs_list_firewall_rules(g), pfs_verify_lab_policy(g)}
      BY <2>1, StepIs
    <3> QED
      BY <2>1, <3>1 DEF pfs_get_version, pfs_list_interfaces,
          pfs_list_firewall_rules, pfs_verify_lab_policy
  <2>2. CASE a.tool \in {"pfs_get_tailscale_status", "pfs_system_summary"}
    <3>1. Step(a, g, l) \in {pfs_get_tailscale_status(g), pfs_system_summary(g)}
      BY <2>2, StepIs
    <3> QED
      BY <2>2, <3>1 DEF pfs_get_tailscale_status, pfs_system_summary, Tailscale
  <2> QED
    BY <1>3, <2>1, <2>2 DEF PfsReads
<1>4. ASSUME a.tool \in PveWrites \cup PveDestructive \cup NasWrites
      PROVE  Len(g) + 1 = PostAt(a.tool)
  <2> USE Indices, Waits DEF SubmitTask, PostAt, Stops
  <2>1. CASE a.tool = "pve_start_guest"
    <3>1. Step(a, g, l) = pve_start_guest(g, a.wait, l)
      BY <2>1, StepIs
    <3> QED
      BY <2>1, <3>1 DEF pve_start_guest
  <2>2. CASE a.tool = "pve_shutdown_guest"
    <3>1. Step(a, g, l) = pve_shutdown_guest(g, a.wait, l)
      BY <2>2, StepIs
    <3> QED
      BY <2>2, <3>1 DEF pve_shutdown_guest
  <2>3. CASE a.tool = "pve_stop_guest"
    <3>1. Step(a, g, l) = pve_stop_guest(g, a.wait, l)
      BY <2>3, StepIs
    <3>2. PICK w : /\ HaWarnings(g, 1) \subseteq w
                 /\ Step(a, g, l)
                       = May(g, 1, HaCurrent, SubmitTask(g, 2, "/status/stop",
                                                         WaitOrPending(g, 3, a.wait, l, w)))
      BY <3>1, HardStop
    <3> QED
      BY <2>3, <3>2
  <2>4. CASE a.tool = "pve_stopall_guests"
    <3>1. Step(a, g, l) = pve_stopall_guests(g, a.wait, l)
      BY <2>4, StepIs
    <3> QED
      BY <2>4, <3>1 DEF pve_stopall_guests
  <2>5. CASE a.tool \in {"truenas_create_dataset", "truenas_update_nfs_share",
                         "truenas_dismiss_alert"}
    <3>1. Step(a, g, l) \in {truenas_create_dataset(g, a.wait, l),
                           truenas_update_nfs_share(g, a.wait, l),
                           truenas_dismiss_alert(g)}
      BY <2>5, StepIs
    <3> QED
      BY <2>5, <3>1 DEF truenas_create_dataset, truenas_update_nfs_share,
          truenas_dismiss_alert, SubmitJob, Nas
  <2> QED
    BY <1>4, <2>1, <2>2, <2>3, <2>4, <2>5 DEF PveWrites, PveDestructive, NasWrites
<1> QED
  BY <1>1, <1>2, <1>3, <1>4 DEF Reads, AllTools, PveTools

\* What is asked about a task is asked after the request that started it.
LEMMA PollsLater ==
  ASSUME NEW a, a.tool \in AllTools \ Reads, NEW g, Sequence(g), NEW l,
         Polls(Step(a, g, l), g, l)
  PROVE  Len(g) > PostAt(a.tool)
<1> USE Fields, Indices, Waits DEF Polls, May, SubmitTask, PostAt, Stops, TaskStatus, HaCurrent
<1>1. CASE a.tool = "pve_start_guest"
  <2>1. Step(a, g, l) = pve_start_guest(g, a.wait, l)
    BY <1>1, StepIs
  <2> QED
    BY <1>1, <2>1 DEF pve_start_guest
<1>2. CASE a.tool = "pve_shutdown_guest"
  <2>1. Step(a, g, l) = pve_shutdown_guest(g, a.wait, l)
    BY <1>2, StepIs
  <2> QED
    BY <1>2, <2>1 DEF pve_shutdown_guest
<1>3. CASE a.tool = "pve_stop_guest"
  <2>1. Step(a, g, l) = pve_stop_guest(g, a.wait, l)
    BY <1>3, StepIs
  <2>2. PICK w : /\ HaWarnings(g, 1) \subseteq w
               /\ Step(a, g, l)
                     = May(g, 1, HaCurrent, SubmitTask(g, 2, "/status/stop",
                                                       WaitOrPending(g, 3, a.wait, l, w)))
    BY <2>1, HardStop
  <2> QED
    BY <1>3, <2>2
<1>4. CASE a.tool = "pve_stopall_guests"
  <2>1. Step(a, g, l) = pve_stopall_guests(g, a.wait, l)
    BY <1>4, StepIs
  <2> QED
    BY <1>4, <2>1 DEF pve_stopall_guests
<1>5. CASE a.tool \in {"truenas_create_dataset", "truenas_update_nfs_share",
                       "truenas_dismiss_alert"}
  <2>1. Step(a, g, l) \in {truenas_create_dataset(g, a.wait, l),
                         truenas_update_nfs_share(g, a.wait, l),
                         truenas_dismiss_alert(g)}
    BY <1>5, StepIs
  <2> QED
    BY <1>5, <2>1 DEF truenas_create_dataset, truenas_update_nfs_share,
        truenas_dismiss_alert, SubmitJob, Nas, Must
<1> QED
  BY <1>1, <1>2, <1>3, <1>4, <1>5
     DEF AllTools, PveTools, Reads, PveWrites, PveDestructive, NasWrites

\* A tool that stops guests begins with the question what is under HA, and its
\* answer says what became of it.
LEMMA StopsLook ==
  ASSUME NEW a, a.tool \in Stops, NEW g, Sequence(g), NEW l
  PROVE  LET s == Step(a, g, l)
         IN /\ g = <<>> => s = Ask(HaCurrent)
            /\ s.do = "answer" /\ s.ok => g # <<>> /\ HaWarnings(g, 1) \subseteq s.warnings
<1> USE Fields, Indices, Waits
<1>1. CASE a.tool = "pve_shutdown_guest"
  <2>1. Step(a, g, l) = pve_shutdown_guest(g, a.wait, l)
    BY <1>1, StepIs
  <2> QED
    BY <1>1, <2>1 DEF pve_shutdown_guest, May, SubmitTask
<1>2. CASE a.tool = "pve_stop_guest"
  <2>1. Step(a, g, l) = pve_stop_guest(g, a.wait, l)
    BY <1>2, StepIs
  <2>2. PICK w : /\ HaWarnings(g, 1) \subseteq w
               /\ Step(a, g, l)
                     = May(g, 1, HaCurrent, SubmitTask(g, 2, "/status/stop",
                                                       WaitOrPending(g, 3, a.wait, l, w)))
    BY <2>1, HardStop
  <2> QED
    BY <1>2, <2>2 DEF May, SubmitTask
<1>3. CASE a.tool = "pve_stopall_guests"
  <2>1. Step(a, g, l) = pve_stopall_guests(g, a.wait, l)
    BY <1>3, StepIs
  <2> QED
    BY <1>3, <2>1 DEF pve_stopall_guests, May, SubmitTask
<1> QED
  BY <1>1, <1>2, <1>3 DEF Stops

\* A tool that waits for the task it has started asks for it, and asks again
\* while the task runs and there is time.
LEMMA WaitAsks ==
  ASSUME NEW g, NEW i, NEW wait, NEW late, NEW warnings
  PROVE  LET s == WaitOrPending(g, i, wait, late, warnings)
         IN /\ s.do # "answer" => /\ wait /\ g[i - 1].kind = "well"
                                  /\ Len(g) < i \/ (g[i].kind = "running" /\ ~late)
            /\ s.do = "answer" /\ s.ok => ~wait \/ g[i - 1].kind # "well" \/ ~Failed(g[i])
<1> DEFINE s == WaitOrPending(g, i, wait, late, warnings)
           more == warnings \cup {"still running"}
           t == WaitForTask(g, i, late, Say(warnings), Say(more))
<1>1. s = IF ~wait \/ g[i - 1].kind # "well" THEN Say(warnings) ELSE t
  BY DEF WaitOrPending
<1> HIDE DEF more, s
<1>2. t = IF Len(g) < i THEN Ask(TaskStatus)
          ELSE IF Failed(g[i]) THEN Raise(PveCode(g[i].kind))
          ELSE IF g[i].kind # "running" THEN Say(warnings)
          ELSE IF late THEN Say(more) ELSE Ask(TaskStatus)
  BY DEF WaitForTask, Pve, Must, May
<1> HIDE DEF t
<1> QED
  BY <1>1, <1>2, Fields DEF s

\* So does a tool that waits for its job ...
LEMMA JobAsks ==
  ASSUME NEW g, NEW path, NEW wait, NEW late, Sequence(g)
  PROVE  LET s == SubmitJob(g, path, wait, late)
         IN /\ Len(g) = 0 => s = Post(path)
            /\ s.do # "answer" => \/ Len(g) = 0
                                  \/ /\ wait /\ g[1].kind = "well"
                                     /\ Len(g) = 1 \/ (g[2].kind = "running" /\ ~late)
            /\ s.do = "answer" /\ s.ok => /\ ~Failed(g[1]) /\ Len(g) > 0
                                          /\ ~wait \/ g[1].kind # "well" \/ ~Failed(g[2])
<1> DEFINE s == SubmitJob(g, path, wait, late)
           polled == CASE g[2].kind = "running" -> IF late THEN Raise("INTERNAL_ERROR") ELSE Ask(TaskStatus)
                       [] g[2].kind = "ill" -> Raise("JOB_FAILED")
                       [] OTHER -> Say({})
<1>1. Len(g) \in Nat
  BY Indices
<1>2. /\ g[1].kind = "well" => ~Failed(g[1])
      /\ g[2].kind = "running" => ~Failed(g[2])
  BY DEF Failed, Failures, Transport, Statuses
<1>3. /\ g[2].kind = "running" => polled = IF late THEN Raise("INTERNAL_ERROR") ELSE Ask(TaskStatus)
      /\ g[2].kind # "running" => polled \in {Raise("JOB_FAILED"), Say({})}
  <2>1. g[2].kind = "running" => polled = IF late THEN Raise("INTERNAL_ERROR") ELSE Ask(TaskStatus)
    BY Zenon
  <2>2. g[2].kind = "ill" => polled = Raise("JOB_FAILED")
    BY Zenon
  <2>3. g[2].kind \notin {"running", "ill"} => polled = Say({})
    BY Zenon
  <2> QED
    BY <2>1, <2>2, <2>3
<1>4. s = IF Len(g) < 1 THEN Post(path)
          ELSE IF Failed(g[1]) THEN Raise(NasCode(g[1].kind))
          ELSE IF ~wait \/ g[1].kind # "well" THEN Say({})
          ELSE Nas(g, 2, TaskStatus, polled)
  BY DEF SubmitJob
<1> HIDE DEF polled, s
<1>5. Nas(g, 2, TaskStatus, polled)
        = IF Len(g) < 2 THEN Ask(TaskStatus) ELSE IF Failed(g[2]) THEN Raise(NasCode(g[2].kind)) ELSE polled
  BY DEF Nas, Must, May
<1>6. Len(g) = 0 => s = Post(path)
  BY <1>4
<1>7. s.do # "answer" => \/ Len(g) = 0
                         \/ /\ wait /\ g[1].kind = "well"
                            /\ Len(g) = 1 \/ (g[2].kind = "running" /\ ~late)
  <2>1. SUFFICES ASSUME s.do # "answer", Len(g) # 0
                 PROVE  /\ wait /\ g[1].kind = "well"
                        /\ Len(g) = 1 \/ (g[2].kind = "running" /\ ~late)
    OBVIOUS
  <2>2. wait /\ g[1].kind = "well" /\ s = Nas(g, 2, TaskStatus, polled)
    BY <1>1, <1>4, <2>1, Fields
  <2>3. Len(g) # 0 => (Len(g) < 2 => Len(g) = 1)
    BY <1>1
  <2>4. CASE ~(Len(g) < 2)
    <3>f. ~Failed(g[2])
      <4>1. SUFFICES ASSUME Failed(g[2])
                     PROVE  s = Raise(NasCode(g[2].kind))
        BY <2>1, Fields
      <4> QED
        BY <1>5, <2>2, <2>4, <4>1
    <3>1. s = polled
      BY <1>5, <2>2, <2>4, <3>f
    <3>2. g[2].kind = "running" /\ s = IF late THEN Raise("INTERNAL_ERROR") ELSE Ask(TaskStatus)
      BY <1>3, <2>1, <3>1, Fields
    <3>3. ~late
      BY <2>1, <3>2, Fields
    <3> QED
      BY <2>2, <3>2, <3>3
  <2> QED
    BY <2>1, <2>2, <2>3, <2>4
<1>8. s.do = "answer" /\ s.ok => /\ ~Failed(g[1]) /\ Len(g) > 0
                                 /\ ~wait \/ g[1].kind # "well" \/ ~Failed(g[2])
  BY <1>1, <1>4, <1>5, Fields
<1> QED
  BY <1>6, <1>7, <1>8 DEF s

\* ... and one that waits for a task of somebody else.
LEMMA TaskAsks ==
  ASSUME NEW g, NEW late, Sequence(g)
  PROVE  LET s == pve_wait_for_task(g, late)
         IN /\ s.do # "answer" => \/ Len(g) = 0 /\ s.path = TaskStatus
                                  \/ Len(g) = 1 /\ g[1].kind # "running" /\ s.path = TaskLog
                                  \/ g[1].kind = "running" /\ (Len(g) < 3 \/ ~late)
            /\ s.do = "answer" /\ s.ok =>
                 /\ Len(g) > 1 /\ ~Failed(g[1])
                 /\ g[1].kind # "running" => Gaps(g, {2}) \subseteq s.warnings
                 /\ g[1].kind = "running" => Len(g) > 2 /\ ~Failed(g[2]) /\ Gaps(g, {3}) \subseteq s.warnings
            /\ Len(g) > 0 /\ g[1].kind = "running" /\ ~late => s = Ask(TaskStatus)
<1> DEFINE s == pve_wait_for_task(g, late)
           V == Gaps(g, {2}) \cup Note(g, 1, "ill", "exit status")
           W == Gaps(g, {3}) \cup {"still running"}
<1>1. s = Pve(g, 1, TaskStatus,
            IF g[1].kind # "running" THEN May(g, 2, TaskLog, Say(V))
            ELSE IF late THEN Pve(g, 2, TaskStatus, May(g, 3, TaskLog, Say(W))) ELSE Ask(TaskStatus))
  BY DEF pve_wait_for_task, WaitForTask
<1>2. Gaps(g, {2}) \subseteq V /\ Gaps(g, {3}) \subseteq W
  OBVIOUS
<1>3. Len(g) \in Nat /\ (g[1].kind = "running" => ~Failed(g[1]))
  BY Indices DEF Failed, Failures, Transport, Statuses
<1> HIDE DEF V, W, s
<1>4. s = IF Len(g) < 1 THEN Ask(TaskStatus) ELSE IF Failed(g[1]) THEN Raise(PveCode(g[1].kind))
          ELSE IF g[1].kind # "running" THEN IF Len(g) < 2 THEN Ask(TaskLog) ELSE Say(V)
          ELSE IF ~late THEN Ask(TaskStatus)
          ELSE IF Len(g) < 2 THEN Ask(TaskStatus) ELSE IF Failed(g[2]) THEN Raise(PveCode(g[2].kind))
          ELSE IF Len(g) < 3 THEN Ask(TaskLog) ELSE Say(W)
  BY <1>1 DEF Pve, Must, May
<1>5. s.do # "answer" => \/ Len(g) = 0 /\ s.path = TaskStatus
                         \/ Len(g) = 1 /\ g[1].kind # "running" /\ s.path = TaskLog
                         \/ g[1].kind = "running" /\ (Len(g) < 3 \/ ~late)
  <2>1. CASE Len(g) = 0
    BY <1>4, <2>1, Fields
  <2>2. CASE Len(g) # 0 /\ g[1].kind # "running"
    <3>1. ~(Len(g) < 1) /\ (Len(g) < 2 => Len(g) = 1)
      BY <1>3, <2>2
    <3>2. Failed(g[1]) => s.do = "answer"
      BY <1>4, <3>1, Fields
    <3>3. ~Failed(g[1]) /\ Len(g) < 2 => s = Ask(TaskLog)
      BY <1>4, <2>2, <3>1
    <3>4. ~Failed(g[1]) /\ ~(Len(g) < 2) => s = Say(V)
      BY <1>4, <2>2, <3>1
    <3> QED
      BY <2>2, <3>1, <3>2, <3>3, <3>4, Fields
  <2>3. CASE g[1].kind = "running" /\ Len(g) > 2
    BY <1>3, <1>4, <2>3, Fields
  <2> QED
    BY <1>3, <2>1, <2>2, <2>3
<1>6. s.do = "answer" /\ s.ok =>
        /\ Len(g) > 1 /\ ~Failed(g[1])
        /\ g[1].kind # "running" => Gaps(g, {2}) \subseteq s.warnings
        /\ g[1].kind = "running" => Len(g) > 2 /\ ~Failed(g[2]) /\ Gaps(g, {3}) \subseteq s.warnings
  BY <1>2, <1>3, <1>4, Fields
<1>7. Len(g) > 0 /\ g[1].kind = "running" /\ ~late => s = Ask(TaskStatus)
  BY <1>3, <1>4
<1> QED
  BY <1>5, <1>6, <1>7 DEF s

\* A task that is found running within the time of the wait is asked for again.
LEMMA WaitPolls ==
  ASSUME NEW a, a.tool \in Waiters, NEW g, Sequence(g), History(a, g), g # <<>>,
         g[Len(g)].kind = "running", g[Len(g)].path = TaskStatus,
         NEW late, ~late, Patient(a, SubSeq(g, 1, Len(g) - 1), late)
  PROVE  Polls(Step(a, g, late), g, late)
<1>1. Len(g) \in Nat \ {0} /\ Len(g) - 1 \in 0..Len(g) /\ Len(g) - 1 \in Nat /\ DOMAIN g = 1..Len(g)
  BY Indices
<1>2. \A i \in 1..(Len(g) - 1) : g[i].kind # "running"
  <2>1. LET h == SubSeq(g, 1, Len(g) - 1)
        IN DOMAIN h = 1..(Len(g) - 1) /\ \A i \in 1..(Len(g) - 1) : h[i] = g[i]
    BY <1>1, Beginning
  <2> QED
    BY <2>1 DEF Patient
<1>3. PICK h, l : /\ Sequence(h) /\ Len(h) = Len(g) - 1 /\ \A j \in 1..(Len(g) - 1) : h[j] = g[j]
                  /\ Step(a, h, l).do # "answer" /\ Step(a, h, l).path = TaskStatus
  <2>1. Before(a, g, Len(g) - 1) /\ (Len(g) - 1) + 1 = Len(g)
    BY <1>1, Told
  <2> QED
    BY <2>1 DEF Before
<1>4. /\ Len(h) \in Nat /\ Len(g) = Len(h) + 1
      /\ Len(h) > 0 => h[1] = g[1] /\ h[1].kind # "running"
      /\ Len(h) > 1 => h[2] = g[2] /\ h[2].kind # "running"
      /\ Len(h) > 2 => h[3] = g[3] /\ h[3].kind # "running"
  <2>1. Len(h) \in Nat /\ Len(g) = Len(h) + 1
    BY <1>1, <1>3
  <2>2. \A j \in 1..Len(h) : h[j] = g[j] /\ h[j].kind # "running"
    BY <1>1, <1>2, <1>3
  <2> QED
    BY <2>1, <2>2
<1>5. SUFFICES Step(a, g, late) = Ask(TaskStatus)
  BY Fields DEF Polls
<1>6. TaskStatus \notin {"/status/start", "/status/shutdown", "/status/stop", "/stopall", HaCurrent, TaskLog,
                         "pool.dataset.create", "sharing.nfs.update"}
  BY DEF TaskStatus, HaCurrent, TaskLog
<1>7. ~Failed(g[Len(g)]) /\ \A o : o.kind = "well" => ~Failed(o)
  BY DEF Failed, Failures, Transport, Statuses
<1> USE Fields
<1>8. CASE a.tool = "pve_start_guest"
  <2>h. Step(a, h, l) = pve_start_guest(h, a.wait, l)
    BY <1>8, StepIs
  <2>g. Step(a, g, late) = pve_start_guest(g, a.wait, late)
    BY <1>8, StepIs
  <2>4. Len(h) = 1 /\ h[1].kind = "well" /\ a.wait
    BY <1>3, <1>4, <1>6, <2>h, WaitAsks DEF pve_start_guest, SubmitTask
  <2>5. Len(g) = 2 /\ g[1].kind = "well" /\ a.wait
    BY <1>4, <2>4
  <2>6. g[2].kind = "running" /\ ~Failed(g[1]) /\ ~(Len(g) < 2) /\ ~(Len(g) < 1) /\ ~(Len(g) < 1)
    BY <1>7, <2>5
  <2>7. Step(a, g, late) = WaitOrPending(g, 2, a.wait, late, {})
    BY <2>6, <2>g DEF pve_start_guest, SubmitTask
  <2> QED
    BY <1>7, <2>5, <2>6, <2>7 DEF WaitOrPending, WaitForTask, Pve, Must, May
<1>9. CASE a.tool = "pve_shutdown_guest"
  <2>h. Step(a, h, l) = pve_shutdown_guest(h, a.wait, l)
    BY <1>9, StepIs
  <2>g. Step(a, g, late) = pve_shutdown_guest(g, a.wait, late)
    BY <1>9, StepIs
  <2>4. Len(h) = 2 /\ h[2].kind = "well" /\ a.wait
    BY <1>3, <1>4, <1>6, <2>h, WaitAsks DEF pve_shutdown_guest, May, SubmitTask
  <2>5. Len(g) = 3 /\ g[2].kind = "well" /\ a.wait
    BY <1>4, <2>4
  <2>6. g[3].kind = "running" /\ ~Failed(g[2]) /\ ~(Len(g) < 3) /\ ~(Len(g) < 2) /\ ~(Len(g) < 1)
    BY <1>7, <2>5
  <2>7. Step(a, g, late) = WaitOrPending(g, 3, a.wait, late, HaWarnings(g, 1))
    BY <2>6, <2>g DEF pve_shutdown_guest, May, SubmitTask
  <2> QED
    BY <1>7, <2>5, <2>6, <2>7 DEF WaitOrPending, WaitForTask, Pve, Must, May
<1>10. CASE a.tool = "pve_stop_guest"
  <2>h. Step(a, h, l) = pve_stop_guest(h, a.wait, l)
    BY <1>10, StepIs
  <2>g. Step(a, g, late) = pve_stop_guest(g, a.wait, late)
    BY <1>10, StepIs
  <2>2. PICK v : Step(a, h, l)
               = May(h, 1, HaCurrent, SubmitTask(h, 2, "/status/stop", WaitOrPending(h, 3, a.wait, l, v)))
    BY <2>h, HardStop
  <2>3. PICK w : Step(a, g, late)
               = May(g, 1, HaCurrent, SubmitTask(g, 2, "/status/stop", WaitOrPending(g, 3, a.wait, late, w)))
    BY <2>g, HardStop
  <2>4. Len(h) = 2 /\ h[2].kind = "well" /\ a.wait
    BY <1>3, <1>4, <1>6, <2>2, WaitAsks DEF May, SubmitTask
  <2>5. Len(g) = 3 /\ g[2].kind = "well" /\ a.wait
    BY <1>4, <2>4
  <2>6. g[3].kind = "running" /\ ~Failed(g[2]) /\ ~(Len(g) < 3) /\ ~(Len(g) < 2) /\ ~(Len(g) < 1)
    BY <1>7, <2>5
  <2>7. Step(a, g, late) = WaitOrPending(g, 3, a.wait, late, w)
    BY <2>6, <2>3 DEF May, SubmitTask
  <2> QED
    BY <1>7, <2>5, <2>6, <2>7 DEF WaitOrPending, WaitForTask, Pve, Must, May
<1>11. CASE a.tool = "pve_stopall_guests"
  <2>h. Step(a, h, l) = pve_stopall_guests(h, a.wait, l)
    BY <1>11, StepIs
  <2>g. Step(a, g, late) = pve_stopall_guests(g, a.wait, late)
    BY <1>11, StepIs
  <2>4. Len(h) = 2 /\ h[2].kind = "well" /\ a.wait
    BY <1>3, <1>4, <1>6, <2>h, WaitAsks DEF pve_stopall_guests, May, SubmitTask
  <2>5. Len(g) = 3 /\ g[2].kind = "well" /\ a.wait
    BY <1>4, <2>4
  <2>6. g[3].kind = "running" /\ ~Failed(g[2]) /\ ~(Len(g) < 3) /\ ~(Len(g) < 2) /\ ~(Len(g) < 1)
    BY <1>7, <2>5
  <2>7. Step(a, g, late) = WaitOrPending(g, 3, a.wait, late, HaWarnings(g, 1))
    BY <2>6, <2>g DEF pve_stopall_guests, May, SubmitTask
  <2> QED
    BY <1>7, <2>5, <2>6, <2>7 DEF WaitOrPending, WaitForTask, Pve, Must, May
<1>12. CASE a.tool \in {"truenas_create_dataset", "truenas_update_nfs_share"}
  <2>1. PICK path \in {"pool.dataset.create", "sharing.nfs.update"} :
          Step(a, h, l) = SubmitJob(h, path, a.wait, l) /\ Step(a, g, late) = SubmitJob(g, path, a.wait, late)
    <3>1. CASE a.tool = "truenas_create_dataset"
      <4>1. Step(a, h, l) = truenas_create_dataset(h, a.wait, l)
        BY <3>1, StepIs
      <4>2. Step(a, g, late) = truenas_create_dataset(g, a.wait, late)
        BY <3>1, StepIs
      <4> QED
        BY <4>1, <4>2 DEF truenas_create_dataset
    <3>2. CASE a.tool = "truenas_update_nfs_share"
      <4>1. Step(a, h, l) = truenas_update_nfs_share(h, a.wait, l)
        BY <3>2, StepIs
      <4>2. Step(a, g, late) = truenas_update_nfs_share(g, a.wait, late)
        BY <3>2, StepIs
      <4> QED
        BY <4>1, <4>2 DEF truenas_update_nfs_share
    <3> QED
      BY <1>12, <3>1, <3>2
  <2>2. Len(h) = 1 /\ h[1].kind = "well" /\ a.wait
    BY <1>3, <1>4, <1>6, <2>1, JobAsks
  <2>3. Len(g) = 2 /\ g[1].kind = "well" /\ a.wait
    BY <1>4, <2>2
  <2>4. g[2].kind = "running" /\ ~Failed(g[1]) /\ ~Failed(g[2]) /\ ~(Len(g) < 1) /\ ~(Len(g) < 2)
    BY <1>7, <2>3
  <2> DEFINE polled == CASE g[2].kind = "running" -> IF late THEN Raise("INTERNAL_ERROR") ELSE Ask(TaskStatus)
                         [] g[2].kind = "ill" -> Raise("JOB_FAILED")
                         [] OTHER -> Say({})
  <2>5. polled = Ask(TaskStatus)
    BY <2>4, Zenon
  <2>6. SubmitJob(g, path, a.wait, late) = Nas(g, 2, TaskStatus, polled)
    BY <2>3, <2>4 DEF SubmitJob
  <2> HIDE DEF polled
  <2> QED
    BY <2>1, <2>4, <2>5, <2>6 DEF Nas, Must, May
<1>13. CASE a.tool = "pve_wait_for_task"
  <2>1. Step(a, h, l) = pve_wait_for_task(h, l)
    BY <1>13, StepIs
  <2>2. Step(a, g, late) = pve_wait_for_task(g, late)
    BY <1>13, StepIs
  <2>3. Len(h) = 0
    BY <1>3, <1>4, <1>6, <2>1, TaskAsks
  <2> QED
    BY <1>4, <2>2, <2>3, TaskAsks
<1> QED
  BY <1>8, <1>9, <1>10, <1>11, <1>12, <1>13 DEF Waiters, TakesWait

-----------------------------------------------------------------------------
(* Answers.                                                                *)

\* A call that was answered, and said ok.
Heard(k) ==
  /\ Sequence(k.got) /\ History(k.args, k.got) /\ k.late \in BOOLEAN /\ Patient(k.args, k.got, k.late)
  /\ k.next = Step(k.args, k.got, k.late) /\ k.next.do = "answer" /\ k.next.ok

\* Its answer names every request that failed, or passes over it.
Whole(k) ==
  \A i \in DOMAIN k.got :
    (Failed(k.got[i]) /\ ~PassedOver(k, i)) => k.got[i].path \in k.next.warnings

\* After the outcome of its last request a tool answers.
LEMMA OneIsEnough ==
  ASSUME NEW g, NEW p, NEW q, NEW w
  PROVE  /\ Len(g) = 1 => Nas(g, 1, p, Say(w)).do = "answer" /\ Pfs(g, 1, p, Say(w)).do = "answer"
         /\ Len(g) = 2 => Nas(g, 1, p, Nas(g, 2, q, Say(w))).do = "answer"
BY Fields DEF Nas, Pfs, Must, May

\* That is so of the reads of proxmox-ve-mcp: pve_* that ask for one thing ...
LEMMA PveReadsOfOne ==
  ASSUME NEW k, Heard(k), k.args.tool \in {"pve_get_version", "pve_list_nodes",
                                      "pve_get_cluster_config_nodes",
                                      "pve_get_cluster_options", "pve_list_tasks",
                                      "pve_get_task_log", "pve_list_resources",
                                      "pve_get_node_status", "pve_get_guest_status",
                                      "pve_get_guest_config", "pve_list_ceph_osds"}
  PROVE  Whole(k)
<1> DEFINE a == k.args
           g == k.got
           l == k.late
<1>1. /\ Sequence(g) /\ History(a, g) /\ l \in BOOLEAN /\ Patient(a, g, l)
      /\ k.next = Step(a, g, l) /\ k.next.do = "answer" /\ k.next.ok
      /\ Len(g) \in Nat /\ DOMAIN g = 1..Len(g)
  BY Indices DEF Heard
<1>2. \A n \in Nat : ~Before(a, g, n) => Len(g) <= n
  BY <1>1, Told
<1>3. \A i, I : i \in I /\ Failed(g[i]) => g[i].path \in Gaps(g, I)
  BY DEF Gaps
<1>4. CASE a.tool \in {"pve_get_version", "pve_list_nodes",
                       "pve_get_cluster_config_nodes", "pve_get_cluster_options",
                       "pve_list_tasks", "pve_get_task_log"}
  <2>1. ~Before(a, g, 1)
    <3> SUFFICES ASSUME NEW h, NEW m, Len(h) = 1
                 PROVE  Step(a, h, m).do = "answer"
      BY DEF Before
    <3>1. Step(a, h, m) \in {pve_get_version(h), pve_list_nodes(h),
                              pve_get_cluster_config_nodes(h),
                              pve_get_cluster_options(h), pve_list_tasks(h),
                              pve_get_task_log(h)}
      BY <1>4, StepIs
    <3> QED
      BY <3>1, Fields DEF pve_get_version, pve_list_nodes, pve_get_cluster_config_nodes,
          pve_get_cluster_options, pve_list_tasks, pve_get_task_log, May, Must, Pve
  <2>2. Len(g) <= 1
    BY <1>2, <2>1
  <2>3. k.next \in {pve_get_version(g), pve_list_nodes(g),
                         pve_get_cluster_config_nodes(g), pve_get_cluster_options(g),
                         pve_list_tasks(g), pve_get_task_log(g)}
    BY <1>1, <1>4, StepIs
  <2>4. ~Failed(g[1])
    BY <1>1, <2>3, Fields DEF pve_get_version, pve_list_nodes,
        pve_get_cluster_config_nodes, pve_get_cluster_options, pve_list_tasks,
        pve_get_task_log, May, Must, Pve
  <2> QED
    BY <1>1, <2>2, <2>4 DEF Whole
<1>5. CASE a.tool \in {"pve_list_resources", "pve_get_node_status",
                       "pve_get_guest_status", "pve_get_guest_config",
                       "pve_list_ceph_osds"}
  <2>1. ~Before(a, g, 1)
    <3> SUFFICES ASSUME NEW h, NEW m, Len(h) = 1
                 PROVE  Step(a, h, m).do = "answer"
      BY DEF Before
    <3>1. Step(a, h, m) \in {pve_list_resources(h), pve_get_node_status(h),
                              pve_get_guest_status(h), pve_get_guest_config(h),
                              pve_list_ceph_osds(h)}
      BY <1>5, StepIs
    <3> QED
      BY <3>1, Fields DEF pve_list_resources, pve_get_node_status, pve_get_guest_status,
          pve_get_guest_config, pve_list_ceph_osds, May, Must, Pve
  <2>2. Len(g) <= 1
    BY <1>2, <2>1
  <2>3. k.next \in {pve_list_resources(g), pve_get_node_status(g),
                         pve_get_guest_status(g), pve_get_guest_config(g),
                         pve_list_ceph_osds(g)}
    BY <1>1, <1>5, StepIs
  <2>4. ~Failed(g[1])
    BY <1>1, <2>3, Fields DEF pve_list_resources, pve_get_node_status,
        pve_get_guest_status, pve_get_guest_config, pve_list_ceph_osds, May, Must, Pve
  <2> QED
    BY <1>1, <2>2, <2>4 DEF Whole
<1> QED
  BY <1>4, <1>5

\* ... and of those of truenas-mcp.
LEMMA NasReadsAreWhole ==
  ASSUME NEW k, Heard(k), k.args.tool \in NasReads
  PROVE  Whole(k)
<1> DEFINE a == k.args
           g == k.got
           l == k.late
<1>1. /\ Sequence(g) /\ History(a, g) /\ l \in BOOLEAN /\ Patient(a, g, l)
      /\ k.next = Step(a, g, l) /\ k.next.do = "answer" /\ k.next.ok
      /\ Len(g) \in Nat /\ DOMAIN g = 1..Len(g)
  BY Indices DEF Heard
<1>2. \A n \in Nat : ~Before(a, g, n) => Len(g) <= n
  BY <1>1, Told
<1>3. \A i, I : i \in I /\ Failed(g[i]) => g[i].path \in Gaps(g, I)
  BY DEF Gaps
<1>4. CASE a.tool \in {"truenas_list_pools", "truenas_list_datasets",
                       "truenas_list_scrub_tasks", "truenas_list_alerts",
                       "truenas_list_jobs"}
  <2>1. ~Before(a, g, 1)
    <3> SUFFICES ASSUME NEW h, NEW m, Len(h) = 1
                 PROVE  Step(a, h, m).do = "answer"
      BY DEF Before
    <3>1. Step(a, h, m) \in {truenas_list_pools(h), truenas_list_datasets(h),
                              truenas_list_scrub_tasks(h), truenas_list_alerts(h),
                              truenas_list_jobs(h)}
      BY <1>4, StepIs
    <3> QED
      BY <3>1, OneIsEnough DEF truenas_list_pools, truenas_list_datasets,
          truenas_list_scrub_tasks, truenas_list_alerts, truenas_list_jobs
  <2>2. Len(g) <= 1
    BY <1>2, <2>1
  <2>3. k.next \in {truenas_list_pools(g), truenas_list_datasets(g),
                         truenas_list_scrub_tasks(g), truenas_list_alerts(g),
                         truenas_list_jobs(g)}
    BY <1>1, <1>4, StepIs
  <2>4. ~Failed(g[1])
    BY <1>1, <2>3, Fields DEF truenas_list_pools, truenas_list_datasets,
        truenas_list_scrub_tasks, truenas_list_alerts, truenas_list_jobs, May, Must, Nas
  <2> QED
    BY <1>1, <2>2, <2>4 DEF Whole
<1>5. CASE a.tool \in {"truenas_list_smart_results", "truenas_list_alert_policies",
                       "truenas_get_reporting_data", "truenas_list_nfs_shares",
                       "truenas_list_apps"}
  <2>1. ~Before(a, g, 1)
    <3> SUFFICES ASSUME NEW h, NEW m, Len(h) = 1
                 PROVE  Step(a, h, m).do = "answer"
      BY DEF Before
    <3>1. Step(a, h, m) \in {truenas_list_smart_results(h),
                              truenas_list_alert_policies(h),
                              truenas_get_reporting_data(h), truenas_list_nfs_shares(h),
                              truenas_list_apps(h)}
      BY <1>5, StepIs
    <3> QED
      BY <3>1, OneIsEnough DEF truenas_list_smart_results, truenas_list_alert_policies,
          truenas_get_reporting_data, truenas_list_nfs_shares, truenas_list_apps
  <2>2. Len(g) <= 1
    BY <1>2, <2>1
  <2>3. k.next \in {truenas_list_smart_results(g), truenas_list_alert_policies(g),
                         truenas_get_reporting_data(g), truenas_list_nfs_shares(g),
                         truenas_list_apps(g)}
    BY <1>1, <1>5, StepIs
  <2>4. ~Failed(g[1])
    BY <1>1, <2>3, Fields DEF truenas_list_smart_results, truenas_list_alert_policies,
        truenas_get_reporting_data, truenas_list_nfs_shares, truenas_list_apps, May,
        Must, Nas
  <2> QED
    BY <1>1, <2>2, <2>4 DEF Whole
<1>6. CASE a.tool \in {"truenas_list_disks", "truenas_get_system_info",
                       "truenas_check_api_key"}
  <2>1. ~Before(a, g, 2)
    <3> SUFFICES ASSUME NEW h, NEW m, Len(h) = 2
                 PROVE  Step(a, h, m).do = "answer"
      BY DEF Before
    <3>1. Step(a, h, m) \in {truenas_list_disks(h), truenas_get_system_info(h),
                              truenas_check_api_key(h)}
      BY <1>6, StepIs
    <3> QED
      BY <3>1, OneIsEnough DEF truenas_list_disks, truenas_get_system_info,
          truenas_check_api_key
  <2>2. Len(g) <= 2
    BY <1>2, <2>1
  <2>3. k.next \in {truenas_list_disks(g), truenas_get_system_info(g),
                         truenas_check_api_key(g)}
    BY <1>1, <1>6, StepIs
  <2>4. ~Failed(g[1]) /\ ~Failed(g[2])
    BY <1>1, <2>3, Fields DEF truenas_list_disks, truenas_get_system_info,
        truenas_check_api_key, May, Must, Nas
  <2> QED
    BY <1>1, <2>2, <2>4 DEF Whole
<1>7. CASE a.tool = "truenas_list_nfs_clients"
  <2>1. ~Before(a, g, 2)
    <3> SUFFICES ASSUME NEW h, NEW m, Len(h) = 2
                 PROVE  Step(a, h, m).do = "answer"
      BY DEF Before
    <3> DEFINE W == Gaps(h, {1, 2}) \cup Note(h, 1, "ill", "clients") \cup Note(h, 2, "ill", "clients")
    <3>1. Step(a, h, m) = truenas_list_nfs_clients(h)
      BY <1>7, StepIs
    <3>2. Step(a, h, m)
            = May(h, 1, "nfs.get_nfs3_clients", May(h, 2, "nfs.get_nfs4_clients",
                IF Failed(h[1]) /\ Failed(h[2]) THEN Raise("INTERNAL_ERROR") ELSE Say(W)))
      BY <1>7, <3>1 DEF truenas_list_nfs_clients
    <3> HIDE DEF W
    <3> QED
      BY <3>2, Fields DEF May
  <2>2. Len(g) <= 2
    BY <1>2, <2>1
  <2> DEFINE W == Gaps(g, {1, 2}) \cup Note(g, 1, "ill", "clients") \cup Note(g, 2, "ill", "clients")
  <2>3. \A i \in {1, 2} : Failed(g[i]) => g[i].path \in W
    BY <1>3
  <2>4. k.next = truenas_list_nfs_clients(g)
    BY <1>1, <1>7, StepIs
  <2>5. k.next
          = May(g, 1, "nfs.get_nfs3_clients", May(g, 2, "nfs.get_nfs4_clients",
                IF Failed(g[1]) /\ Failed(g[2]) THEN Raise("INTERNAL_ERROR") ELSE Say(W)))
    BY <1>7, <2>4 DEF truenas_list_nfs_clients
  <2> HIDE DEF W
  <2>6. k.next = Say(W)
    BY <1>1, <2>5, Fields DEF May
  <2>7. \A i \in 1..2 : i \in {1, 2}
    OBVIOUS
  <2> QED
    BY <1>1, <2>2, <2>3, <2>6, <2>7, Fields DEF Whole
<1>8. CASE a.tool = "truenas_system_summary"
  <2>1. ~Before(a, g, 9)
    <3> SUFFICES ASSUME NEW h, NEW m, Len(h) = 9
                 PROVE  Step(a, h, m).do = "answer"
      BY DEF Before
    <3> DEFINE W == Gaps(h, 1..9) \cup Note(h, 2, "ill", "not READY") \cup Note(h, 3, "ill", "alerts")
        \cup Note(h, 4, "ill", "pool not ONLINE") \cup Note(h, 6, "ill", "failed jobs")
        \cup NfsWarnings(h, 7) \cup Note(h, 8, "empty", "no scrubs")
        \cup ScrutinyWarnings(h, 9)
    <3>1. Step(a, h, m) = truenas_system_summary(h)
      BY <1>8, StepIs
    <3>2. Step(a, h, m)
            = May(h, 1, "system.info", May(h, 2, "system.state", May(h, 3, "alert.list",
              May(h, 4, "pool.query", May(h, 5, "pool.dataset.query", May(h, 6, "core.get_jobs",
              May(h, 7, "sharing.nfs.query", May(h, 8, "pool.scrub.query", May(h, 9, "app.query", Say(W))))))))))
      BY <1>8, <3>1 DEF truenas_system_summary
    <3> HIDE DEF W
    <3> QED
      BY <3>2, Fields DEF May
  <2>2. Len(g) <= 9
    BY <1>2, <2>1
  <2> DEFINE W == Gaps(g, 1..9) \cup Note(g, 2, "ill", "not READY") \cup Note(g, 3, "ill", "alerts")
        \cup Note(g, 4, "ill", "pool not ONLINE") \cup Note(g, 6, "ill", "failed jobs")
        \cup NfsWarnings(g, 7) \cup Note(g, 8, "empty", "no scrubs")
        \cup ScrutinyWarnings(g, 9)
  <2>3. \A i \in 1..9 : Failed(g[i]) => g[i].path \in W
    BY <1>3
  <2>4. k.next = truenas_system_summary(g)
    BY <1>1, <1>8, StepIs
  <2>5. k.next
          = May(g, 1, "system.info", May(g, 2, "system.state", May(g, 3, "alert.list",
              May(g, 4, "pool.query", May(g, 5, "pool.dataset.query", May(g, 6, "core.get_jobs",
              May(g, 7, "sharing.nfs.query", May(g, 8, "pool.scrub.query", May(g, 9, "app.query", Say(W))))))))))
    BY <1>8, <2>4 DEF truenas_system_summary
  <2> HIDE DEF W
  <2>6. k.next = Say(W)
    BY <1>1, <2>5, Fields DEF May
  <2>7. \A i \in 1..9 : i \in 1..9
    OBVIOUS
  <2> QED
    BY <1>1, <2>2, <2>3, <2>6, <2>7, Fields DEF Whole
<1> QED
  BY <1>4, <1>5, <1>6, <1>7, <1>8 DEF NasReads

\* ... and of pfsense-mcp, but for the Tailscale package.
LEMMA PfsReadsAreWhole ==
  ASSUME NEW k, Heard(k), k.args.tool \in PfsReads \ {"pfs_get_tailscale_status", "pfs_system_summary"}
  PROVE  Whole(k)
<1> DEFINE a == k.args
           g == k.got
           l == k.late
<1>1. /\ Sequence(g) /\ History(a, g) /\ l \in BOOLEAN /\ Patient(a, g, l)
      /\ k.next = Step(a, g, l) /\ k.next.do = "answer" /\ k.next.ok
      /\ Len(g) \in Nat /\ DOMAIN g = 1..Len(g)
  BY Indices DEF Heard
<1>2. \A n \in Nat : ~Before(a, g, n) => Len(g) <= n
  BY <1>1, Told
<1>3. \A i, I : i \in I /\ Failed(g[i]) => g[i].path \in Gaps(g, I)
  BY DEF Gaps
<1>4. CASE a.tool \in {"pfs_get_version", "pfs_list_interfaces",
                       "pfs_list_firewall_rules"}
  <2>1. ~Before(a, g, 1)
    <3> SUFFICES ASSUME NEW h, NEW m, Len(h) = 1
                 PROVE  Step(a, h, m).do = "answer"
      BY DEF Before
    <3>1. Step(a, h, m) \in {pfs_get_version(h), pfs_list_interfaces(h),
                              pfs_list_firewall_rules(h)}
      BY <1>4, StepIs
    <3>2. \E p, w : Step(a, h, m) = Pfs(h, 1, p, Say(w))
      BY <3>1 DEF pfs_get_version, pfs_list_interfaces, pfs_list_firewall_rules
    <3> QED
      BY <3>2, OneIsEnough
  <2>2. Len(g) <= 1
    BY <1>2, <2>1
  <2>3. k.next \in {pfs_get_version(g), pfs_list_interfaces(g),
                         pfs_list_firewall_rules(g)}
    BY <1>1, <1>4, StepIs
  <2>4. ~Failed(g[1])
    BY <1>1, <2>3, Fields DEF pfs_get_version, pfs_list_interfaces,
        pfs_list_firewall_rules, May, Must, Pfs
  <2> QED
    BY <1>1, <2>2, <2>4 DEF Whole
<1>5. CASE a.tool = "pfs_verify_lab_policy"
  <2>1. ~Before(a, g, 8)
    <3> SUFFICES ASSUME NEW h, NEW m, Len(h) = 8
                 PROVE  Step(a, h, m).do = "answer"
      BY DEF Before
    <3> DEFINE W == (IF h[1].kind = "well" THEN {} ELSE {"Tailscale rules"}) \cup AccessIssues(h[2].kind)
        \cup EndpointIssues(h, 3..8)
    <3>1. Step(a, h, m) = pfs_verify_lab_policy(h)
      BY <1>5, StepIs
    <3>2. Step(a, h, m)
            = Pfs(h, 1, "/firewall/rules", Pfs(h, 2, "/system/restapi/settings",
              May(h, 3, "/system/version", May(h, 4, "/system/restapi/settings",
              May(h, 5, "/interfaces", May(h, 6, "/firewall/rules",
              May(h, 7, "/routing/gateways", May(h, 8, "/routing/static_routes", Say(W)))))))))
      BY <1>5, <3>1 DEF pfs_verify_lab_policy
    <3> HIDE DEF W
    <3> QED
      BY <3>2, Fields DEF Pfs, Must, May
  <2>2. Len(g) <= 8
    BY <1>2, <2>1
  <2> DEFINE W == (IF g[1].kind = "well" THEN {} ELSE {"Tailscale rules"}) \cup AccessIssues(g[2].kind)
        \cup EndpointIssues(g, 3..8)
  <2>3. \A i \in 3..8 : Failed(g[i]) => g[i].path \in W
    BY <1>3 DEF EndpointIssues
  <2>4. k.next = pfs_verify_lab_policy(g)
    BY <1>1, <1>5, StepIs
  <2>5. k.next
          = Pfs(g, 1, "/firewall/rules", Pfs(g, 2, "/system/restapi/settings",
              May(g, 3, "/system/version", May(g, 4, "/system/restapi/settings",
              May(g, 5, "/interfaces", May(g, 6, "/firewall/rules",
              May(g, 7, "/routing/gateways", May(g, 8, "/routing/static_routes", Say(W)))))))))
    BY <1>5, <2>4 DEF pfs_verify_lab_policy
  <2> HIDE DEF W
  <2>6. k.next = Say(W) /\ ~Failed(g[1]) /\ ~Failed(g[2])
    BY <1>1, <2>5, Fields DEF Pfs, Must, May
  <2>7. \A i \in 1..8 : i \in 3..8 \/ i = 1 \/ i = 2
    OBVIOUS
  <2> QED
    BY <1>1, <2>2, <2>3, <2>6, <2>7, Fields DEF Whole
<1> QED
  BY <1>4, <1>5 DEF PfsReads

\* What pve_get_ha_status warns of, with the rules of HA and without them.
HaSays(g) ==
  Gaps(g, {2, 3}) \cup (IF g[3].kind \in {"ill", "empty"} THEN {"shutdown policy"} ELSE {})
  \cup Note(g, 1, "ill", "active LRM") \cup Note(g, 1, "empty", "no manager")
HaSaysMore(g) == HaSays(g) \cup (IF Failed(g[5]) THEN Gaps(g, {4, 5}) ELSE {})

\* pve_get_ha_status as the chain of its requests.
LEMMA HaStatusIs ==
  ASSUME NEW g
  PROVE  pve_get_ha_status(g)
           = IF Len(g) < 1 THEN Ask(HaCurrent) ELSE IF Failed(g[1]) THEN Raise(PveCode(g[1].kind))
             ELSE IF Len(g) < 2 THEN Ask("/cluster/ha/resources")
             ELSE IF Len(g) < 3 THEN Ask("/cluster/options")
             ELSE IF Len(g) < 4 THEN Ask("/cluster/ha/rules") ELSE IF ~Failed(g[4]) THEN Say(HaSays(g))
             ELSE IF Len(g) < 5 THEN Ask("/cluster/ha/groups") ELSE Say(HaSaysMore(g))
<1>1. pve_get_ha_status(g) = Pve(g, 1, HaCurrent, May(g, 2, "/cluster/ha/resources",
           May(g, 3, "/cluster/options", May(g, 4, "/cluster/ha/rules",
           IF ~Failed(g[4]) THEN Say(HaSays(g)) ELSE May(g, 5, "/cluster/ha/groups", Say(HaSaysMore(g)))))))
  BY DEF pve_get_ha_status, HaSays, HaSaysMore
<1> QED
  BY <1>1 DEF Pve, Must, May

\* With the last of its requests it answers.
LEMMA HaStatusEnds ==
  ASSUME NEW g
  PROVE  /\ Len(g) = 5 => pve_get_ha_status(g).do = "answer"
         /\ Len(g) = 4 /\ ~Failed(g[4]) => pve_get_ha_status(g).do = "answer"
         /\ Len(g) = 3 /\ pve_get_ha_status(g).do # "answer" => pve_get_ha_status(g).path = "/cluster/ha/rules"
<1> DEFINE s == pve_get_ha_status(g)
<1>1. s = IF Len(g) < 1 THEN Ask(HaCurrent) ELSE IF Failed(g[1]) THEN Raise(PveCode(g[1].kind))
          ELSE IF Len(g) < 2 THEN Ask("/cluster/ha/resources")
          ELSE IF Len(g) < 3 THEN Ask("/cluster/options")
          ELSE IF Len(g) < 4 THEN Ask("/cluster/ha/rules") ELSE IF ~Failed(g[4]) THEN Say(HaSays(g))
          ELSE IF Len(g) < 5 THEN Ask("/cluster/ha/groups") ELSE Say(HaSaysMore(g))
  BY HaStatusIs
<1> HIDE DEF s
<1>2. CASE Len(g) = 5
  <2>1. ~(Len(g) < 1) /\ ~(Len(g) < 2) /\ ~(Len(g) < 3) /\ ~(Len(g) < 4) /\ ~(Len(g) < 5)
    BY <1>2
  <2>2. s = Raise(PveCode(g[1].kind)) \/ s = Say(HaSays(g)) \/ s = Say(HaSaysMore(g))
    BY <1>1, <2>1, Zenon
  <2>3. s.do = "answer"
    BY <2>2, Fields
  <2> QED
    BY <1>2, <2>3 DEF s
<1>3. CASE Len(g) = 4
  <2>1. ~(Len(g) < 1) /\ ~(Len(g) < 2) /\ ~(Len(g) < 3) /\ ~(Len(g) < 4)
    BY <1>3
  <2>2. ~Failed(g[4]) => s = Raise(PveCode(g[1].kind)) \/ s = Say(HaSays(g))
    BY <1>1, <2>1, Zenon
  <2>3. ~Failed(g[4]) => s.do = "answer"
    BY <2>2, Fields
  <2> QED
    BY <1>3, <2>3 DEF s
<1>4. CASE Len(g) = 3
  <2>1. ~(Len(g) < 1) /\ ~(Len(g) < 2) /\ ~(Len(g) < 3) /\ (Len(g) < 4)
    BY <1>4
  <2>2. s = Raise(PveCode(g[1].kind)) \/ s = Ask("/cluster/ha/rules")
    BY <1>1, <2>1, Zenon
  <2>3. s.do # "answer" => s.path = "/cluster/ha/rules"
    BY <2>2, Fields
  <2> QED
    BY <1>4, <2>3 DEF s
<1> QED
  BY <1>2, <1>3, <1>4 DEF s

\* What cluster_quorum and qdevice_status could not read.
LEMMA QuorumGaps ==
  ASSUME NEW g
  PROVE  \A i \in {3, 4} : Failed(g[i]) => g[i].path \in QuorumWarnings(g, 3)
<1>1. {3, 3 + 1} = {3, 4}
  OBVIOUS
<1>2. Gaps(g, {3, 3 + 1}) \subseteq QuorumWarnings(g, 3)
  BY DEF QuorumWarnings
<1>3. \A i \in {3, 4} : Failed(g[i]) => g[i].path \in Gaps(g, {3, 4})
  BY DEF Gaps
<1> QED
  BY <1>1, <1>2, <1>3

\* What the reads of several requests of proxmox-ve-mcp say: the names of the
\* sections they could not read.
LEMMA PveReadsOfSeveral ==
  ASSUME NEW k, Heard(k),
         k.args.tool \in {"pve_cluster_health", "pve_get_ha_status", "pve_check_token",
                         "pve_list_node_addresses", "pve_list_guests", "pve_list_storage"}
  PROVE  Whole(k)
<1> DEFINE a == k.args
           g == k.got
           l == k.late
<1>1. /\ Sequence(g) /\ History(a, g) /\ l \in BOOLEAN /\ Patient(a, g, l)
      /\ k.next = Step(a, g, l) /\ k.next.do = "answer" /\ k.next.ok
      /\ Len(g) \in Nat /\ DOMAIN g = 1..Len(g)
  BY Indices DEF Heard
<1>2. \A n \in Nat : ~Before(a, g, n) => Len(g) <= n
  BY <1>1, Told
<1>3. \A i, I : i \in I /\ Failed(g[i]) => g[i].path \in Gaps(g, I)
  BY DEF Gaps

<1>4. CASE a.tool = "pve_cluster_health"
  <2>1. ~Before(a, g, 4)
    <3> SUFFICES ASSUME NEW h, NEW m, Len(h) = 4
                 PROVE  Step(a, h, m).do = "answer"
      BY DEF Before
    <3> DEFINE W == Note(h, 1, "ill", "offline nodes") \cup Gaps(h, {2}) \cup QuorumWarnings(h, 3)
    <3>1. Step(a, h, m) = pve_cluster_health(h)
      BY <1>4, StepIs
    <3>2. Step(a, h, m)
            = Pve(h, 1, NodeList, May(h, 2, ConfigNodes,
              May(h, 3, "/cluster/status", May(h, 4, "/cluster/config/qdevice", Say(W)))))
      BY <1>4, <3>1 DEF pve_cluster_health
    <3> HIDE DEF W
    <3> QED
      BY <3>2, Fields DEF Pve, Must, May
  <2>2. Len(g) <= 4
    BY <1>2, <2>1
  <2> DEFINE W == Note(g, 1, "ill", "offline nodes") \cup Gaps(g, {2}) \cup QuorumWarnings(g, 3)
  <2>3. \A i \in {2, 3, 4} : Failed(g[i]) => g[i].path \in W
    BY <1>3, QuorumGaps
  <2>4. k.next = pve_cluster_health(g)
    BY <1>1, <1>4, StepIs
  <2>5. k.next
          = Pve(g, 1, NodeList, May(g, 2, ConfigNodes,
              May(g, 3, "/cluster/status", May(g, 4, "/cluster/config/qdevice", Say(W)))))
    BY <1>4, <2>4 DEF pve_cluster_health
  <2> HIDE DEF W
  <2>6. k.next = Say(W) /\ ~Failed(g[1])
    BY <1>1, <2>5, Fields DEF Pve, Must, May
  <2>7. \A i \in 1..4 : i \in {2, 3, 4} \/ i = 1
    OBVIOUS
  <2> QED
    BY <1>1, <2>2, <2>3, <2>6, <2>7, Fields DEF Whole
<1>5. CASE a.tool = "pve_list_guests" /\ ~a.node
  <2>1. ~Before(a, g, 1)
    <3> SUFFICES ASSUME NEW h, NEW m, Len(h) = 1
                 PROVE  Step(a, h, m).do = "answer"
      BY DEF Before
    <3> DEFINE W == {}
    <3>1. Step(a, h, m) = pve_list_guests(h, a.node)
      BY <1>5, StepIs
    <3>2. Step(a, h, m)
            = Pve(h, 1, "/cluster/resources", Say(W))
      BY <1>5, <3>1 DEF pve_list_guests
    <3> HIDE DEF W
    <3> QED
      BY <3>2, Fields DEF Pve, Must, May
  <2>2. Len(g) <= 1
    BY <1>2, <2>1
  <2> DEFINE W == {}
  <2>3. \A i \in {} : Failed(g[i]) => g[i].path \in W
    BY <1>3
  <2>4. k.next = pve_list_guests(g, a.node)
    BY <1>1, <1>5, StepIs
  <2>5. k.next
          = Pve(g, 1, "/cluster/resources", Say(W))
    BY <1>5, <2>4 DEF pve_list_guests
  <2> HIDE DEF W
  <2>6. k.next = Say(W) /\ ~Failed(g[1])
    BY <1>1, <2>5, Fields DEF Pve, Must, May
  <2>7. \A i \in 1..1 : i \in {} \/ i = 1
    OBVIOUS
  <2> QED
    BY <1>1, <2>2, <2>3, <2>6, <2>7, Fields DEF Whole
<1>6. CASE a.tool = "pve_list_guests" /\ a.node
  <2>1. ~Before(a, g, 2)
    <3> SUFFICES ASSUME NEW h, NEW m, Len(h) = 2
                 PROVE  Step(a, h, m).do = "answer"
      BY DEF Before
    <3> DEFINE W == Gaps(h, {1, 2})
    <3>1. Step(a, h, m) = pve_list_guests(h, a.node)
      BY <1>6, StepIs
    <3>2. Step(a, h, m)
            = May(h, 1, "/nodes/qemu", May(h, 2, "/nodes/lxc", Say(W)))
      BY <1>6, <3>1 DEF pve_list_guests
    <3> HIDE DEF W
    <3> QED
      BY <3>2, Fields DEF May
  <2>2. Len(g) <= 2
    BY <1>2, <2>1
  <2>g. \A i : i \in {1, 2} /\ Failed(g[i]) => g[i].path \in Gaps(g, {1, 2})
    BY <1>3
  <2> DEFINE W == Gaps(g, {1, 2})
  <2>3. \A i \in {1, 2} : Failed(g[i]) => g[i].path \in W
    BY <2>g
  <2>s. Step(a, g, l) = pve_list_guests(g, a.node)
    BY <1>6, StepIs
  <2>4. k.next = pve_list_guests(g, a.node)
    BY <1>1, <2>s
  <2>5. k.next
          = May(g, 1, "/nodes/qemu", May(g, 2, "/nodes/lxc", Say(W)))
    BY <1>6, <2>4 DEF pve_list_guests
  <2> HIDE DEF W
  <2>6. k.next = Say(W)
    BY <1>1, <2>5, Fields DEF May
  <2>7. \A i \in 1..2 : i \in {1, 2}
    OBVIOUS
  <2> QED
    BY <1>1, <2>2, <2>3, <2>6, <2>7, Fields DEF Whole
<1>7. CASE a.tool = "pve_list_storage" /\ ~a.node
  <2>1. ~Before(a, g, 1)
    <3> SUFFICES ASSUME NEW h, NEW m, Len(h) = 1
                 PROVE  Step(a, h, m).do = "answer"
      BY DEF Before
    <3> DEFINE W == {}
    <3>1. Step(a, h, m) = pve_list_storage(h, a.node)
      BY <1>7, StepIs
    <3>2. Step(a, h, m)
            = Pve(h, 1, "/storage", Say(W))
      BY <1>7, <3>1 DEF pve_list_storage
    <3> HIDE DEF W
    <3> QED
      BY <3>2, Fields DEF Pve, Must, May
  <2>2. Len(g) <= 1
    BY <1>2, <2>1
  <2> DEFINE W == {}
  <2>3. \A i \in {} : Failed(g[i]) => g[i].path \in W
    BY <1>3
  <2>4. k.next = pve_list_storage(g, a.node)
    BY <1>1, <1>7, StepIs
  <2>5. k.next
          = Pve(g, 1, "/storage", Say(W))
    BY <1>7, <2>4 DEF pve_list_storage
  <2> HIDE DEF W
  <2>6. k.next = Say(W) /\ ~Failed(g[1])
    BY <1>1, <2>5, Fields DEF Pve, Must, May
  <2>7. \A i \in 1..1 : i \in {} \/ i = 1
    OBVIOUS
  <2> QED
    BY <1>1, <2>2, <2>3, <2>6, <2>7, Fields DEF Whole
<1>8. CASE a.tool = "pve_list_storage" /\ a.node
  <2>1. ASSUME NEW h, NEW m
        PROVE  Step(a, h, m) = Pve(h, 1, "/storage", May(h, 2, "/nodes/storage",
                 IF h[2].kind # "well" THEN Say(Gaps(h, {2}))
                 ELSE May(h, 3, "/nodes/storage/status", Say(Gaps(h, {3})))))
    <3>1. Step(a, h, m) = pve_list_storage(h, a.node)
      BY <1>8, StepIs
    <3> QED
      BY <1>8, <3>1 DEF pve_list_storage
  <2>2. CASE g[2].kind # "well"
    <3>1. ~Before(a, g, 2)
      <4> SUFFICES ASSUME NEW h, NEW m, Len(h) = 2, h[2] = g[2]
                   PROVE  Step(a, h, m).do = "answer"
        BY DEF Before
      <4> QED
        BY <2>1, <2>2, Fields DEF Pve, Must, May
    <3>2. Len(g) <= 2
      BY <1>2, <3>1
    <3>3. ~Failed(g[1]) /\ k.next = Say(Gaps(g, {2}))
      BY <1>1, <2>1, <2>2, Fields DEF Pve, Must, May
    <3>4. Failed(g[2]) => g[2].path \in Gaps(g, {2})
      BY DEF Gaps
    <3> QED
      BY <1>1, <3>2, <3>3, <3>4, Fields DEF Whole
  <2>3. CASE g[2].kind = "well"
    <3>1. ~Before(a, g, 3)
      <4> SUFFICES ASSUME NEW h, NEW m, Len(h) = 3
                   PROVE  Step(a, h, m).do = "answer"
        BY DEF Before
      <4> QED
        BY <2>1, Fields DEF Pve, Must, May
    <3>2. Len(g) <= 3
      BY <1>2, <3>1
    <3>3. ~Failed(g[1]) /\ k.next = Say(Gaps(g, {3}))
      BY <1>1, <2>1, <2>3, Fields DEF Pve, Must, May
    <3>4. ~Failed(g[2])
      BY <2>3 DEF Failed, Failures, Transport, Statuses
    <3>5. Failed(g[3]) => g[3].path \in Gaps(g, {3})
      BY DEF Gaps
    <3> QED
      BY <1>1, <3>2, <3>3, <3>4, <3>5, Fields DEF Whole
  <2> QED
    BY <2>2, <2>3
<1>9. CASE a.tool = "pve_check_token"
  <2>1. k.next = pve_check_token(g)
    BY <1>1, <1>9, StepIs
  <2>2. k.next = Say(ProbeWarnings(g))
    BY <1>1, <2>1, Fields DEF pve_check_token, May
  <2>3. Gaps(g, DOMAIN g) \subseteq ProbeWarnings(g)
    BY DEF ProbeWarnings
  <2> QED
    BY <1>3, <2>2, <2>3, Fields DEF Whole
<1>10. CASE a.tool = "pve_list_node_addresses"
  <2>1. k.next = pve_list_node_addresses(g)
    BY <1>1, <1>10, StepIs
  <2>2. k.next = Say(AddressWarnings(g))
    BY <1>1, <2>1, Fields DEF pve_list_node_addresses, NodeNetwork, Pve, Must, May
  <2>3. Gaps(g, {i \in DOMAIN g : g[i].path # "/nodes/network/iface"}) \subseteq AddressWarnings(g)
    BY DEF AddressWarnings
  <2>4. \A i \in DOMAIN g : Failed(g[i]) /\ g[i].path # "/nodes/network/iface"
                           => g[i].path \in AddressWarnings(g)
    BY <2>3 DEF Gaps
  <2> QED
    BY <2>2, <2>4, Fields DEF Whole, PassedOver
<1>11. CASE a.tool = "pve_get_ha_status"
  <2>1. k.next = pve_get_ha_status(g)
    BY <1>1, <1>11, StepIs
  <2>2. /\ \A i \in {2, 3} : Failed(g[i]) => g[i].path \in HaSays(g) /\ g[i].path \in HaSaysMore(g)
        /\ Failed(g[5]) => g[4].path \in HaSaysMore(g) \/ ~Failed(g[4])
        /\ Failed(g[5]) => g[5].path \in HaSaysMore(g)
    <3>1. \A i \in {2, 3} : Failed(g[i]) => g[i].path \in Gaps(g, {2, 3})
      BY DEF Gaps
    <3>2. \A i \in {4, 5} : Failed(g[i]) => g[i].path \in Gaps(g, {4, 5})
      BY DEF Gaps
    <3>3. \A i \in {2, 3} : Failed(g[i]) => g[i].path \in HaSays(g)
      BY <3>1 DEF HaSays
    <3>4. HaSays(g) \subseteq HaSaysMore(g) /\ (Failed(g[5]) => Gaps(g, {4, 5}) \subseteq HaSaysMore(g))
      BY DEF HaSaysMore
    <3> QED
      BY <3>2, <3>3, <3>4
  <2>3. ~Failed(g[1]) /\ Len(g) > 3
    BY <1>1, <2>1, HaStatusIs, Fields
  <2>4. CASE ~Failed(g[4])
    <3>1. ~Before(a, g, 4)
      <4> SUFFICES ASSUME NEW h, NEW m, Len(h) = 4, h[4] = g[4]
                   PROVE  Step(a, h, m).do = "answer"
        BY DEF Before
      <4>1. Step(a, h, m) = pve_get_ha_status(h)
        BY <1>11, StepIs
      <4> QED
        BY <2>4, <4>1, HaStatusEnds
    <3>2. Len(g) <= 4
      BY <1>2, <3>1
    <3>3. k.next = Say(HaSays(g))
      BY <1>1, <2>1, <2>4, HaStatusIs, Fields
    <3> QED
      BY <1>1, <2>2, <2>3, <2>4, <3>2, <3>3, Fields DEF Whole
  <2>5. CASE Failed(g[4])
    <3>1. ~Before(a, g, 5)
      <4> SUFFICES ASSUME NEW h, NEW m, Len(h) = 5
                   PROVE  Step(a, h, m).do = "answer"
        BY DEF Before
      <4>1. Step(a, h, m) = pve_get_ha_status(h)
        BY <1>11, StepIs
      <4> QED
        BY <4>1, HaStatusEnds
    <3>2. Len(g) <= 5
      BY <1>2, <3>1
    <3>3. k.next = Say(HaSaysMore(g))
      BY <1>1, <2>1, <2>5, HaStatusIs, Fields
    <3>4. g[4].path = "/cluster/ha/rules"
      <4>1. Before(a, g, 3)
        BY <1>1, <2>3, Told
      <4>2. PICK h, m : Len(h) = 3 /\ Step(a, h, m).do # "answer" /\ Step(a, h, m).path = g[4].path
        BY <4>1 DEF Before
      <4>3. Step(a, h, m) = pve_get_ha_status(h)
        BY <1>11, StepIs
      <4> QED
        BY <4>2, <4>3, HaStatusEnds
    <3>5. ~Failed(g[5]) => PassedOver(k, 4)
      BY <3>4 DEF PassedOver
    <3> QED
      BY <1>1, <2>2, <2>3, <2>5, <3>2, <3>3, <3>5, Fields DEF Whole
  <2> QED
    BY <2>4, <2>5
<1> QED
  BY <1>4, <1>5, <1>6, <1>7, <1>8, <1>9, <1>10, <1>11

-----------------------------------------------------------------------------
(* Answers of the tools that ask on.                                       *)

\* What the Ceph status ends with: the failure of the cluster's own report is
\* named when that of a node stands in for it.
LEMMA CephEnds ==
  ASSUME NEW g, NEW node
  PROVE  LET s == pve_get_ceph_status(g, node)
         IN /\ Len(g) = 1 /\ ~Failed(g[1]) => s.do = "answer"
            /\ Len(g) = 2 /\ node => s.do = "answer"
            /\ Len(g) = 3 => s.do = "answer"
            /\ s.do = "answer" /\ s.ok =>
                 ~Failed(g[1]) \/ (s = Say(Gaps(g, {1})) /\ ~Failed(g[2]) /\ (node \/ ~Failed(g[3])))
<1> DEFINE s == pve_get_ceph_status(g, node)
           W == Gaps(g, {1})
<1>1. s = IF Len(g) < 1 THEN Ask("/cluster/ceph/status")
          ELSE IF ~Failed(g[1]) THEN Say({})
          ELSE IF node
          THEN IF Len(g) < 2 THEN Ask("/nodes/ceph/status")
               ELSE IF Failed(g[2]) THEN Raise(PveCode(g[2].kind)) ELSE Say(W)
          ELSE IF Len(g) < 2 THEN Ask(NodeList)
               ELSE IF Failed(g[2]) THEN Raise(PveCode(g[2].kind))
               ELSE IF g[2].kind = "empty" THEN Raise(PveCode(g[1].kind))
               ELSE IF Len(g) < 3 THEN Ask("/nodes/ceph/status")
               ELSE IF Failed(g[3]) THEN Raise(PveCode(g[3].kind)) ELSE Say(W)
  BY DEF pve_get_ceph_status, Pve, Must, May
<1> HIDE DEF s, W
<1>2. Len(g) = 1 => ~(Len(g) < 1)
  OBVIOUS
<1>3. Len(g) = 2 => ~(Len(g) < 1) /\ ~(Len(g) < 2)
  OBVIOUS
<1>4. Len(g) = 3 => ~(Len(g) < 1) /\ ~(Len(g) < 2) /\ ~(Len(g) < 3)
  OBVIOUS
<1>5. Len(g) = 1 /\ ~Failed(g[1]) => s.do = "answer"
  BY <1>1, <1>2, Fields
<1>6. Len(g) = 2 /\ node => s.do = "answer"
  BY <1>1, <1>3, Fields
<1>7. Len(g) = 3 => s.do = "answer"
  BY <1>1, <1>4, Fields
<1>8. s.do = "answer" /\ s.ok => ~Failed(g[1]) \/ (s = Say(W) /\ ~Failed(g[2]) /\ (node \/ ~Failed(g[3])))
  BY <1>1, Fields
<1> QED
  BY <1>5, <1>6, <1>7, <1>8 DEF s, W

\* So the answer of the Ceph status is whole ...
LEMMA CephIsWhole ==
  ASSUME NEW k, Heard(k), k.args.tool = "pve_get_ceph_status"
  PROVE  Whole(k)
<1> DEFINE a == k.args
           g == k.got
           l == k.late
<1>1. /\ Sequence(g) /\ History(a, g) /\ l \in BOOLEAN /\ Patient(a, g, l)
      /\ k.next = Step(a, g, l) /\ k.next.do = "answer" /\ k.next.ok
      /\ Len(g) \in Nat /\ DOMAIN g = 1..Len(g)
  BY Indices DEF Heard
<1>2. \A n \in Nat : ~Before(a, g, n) => Len(g) <= n
  BY <1>1, Told
<1>3. \A i : i = 1 /\ Failed(g[i]) => g[i].path \in Gaps(g, {1})
  BY DEF Gaps
<1>4. \A h, m : Step(a, h, m) = pve_get_ceph_status(h, a.node)
  BY StepIs
<1>5. k.next = pve_get_ceph_status(g, a.node)
  BY <1>1, <1>4
<1>6. ~Failed(g[1]) \/ (k.next = Say(Gaps(g, {1})) /\ ~Failed(g[2]) /\ (a.node \/ ~Failed(g[3])))
  BY <1>1, <1>5, CephEnds
<1>7. CASE ~Failed(g[1])
  <2>1. ~Before(a, g, 1)
    <3> SUFFICES ASSUME NEW h, NEW m, Len(h) = 1, h[1] = g[1]
                 PROVE  Step(a, h, m).do = "answer"
      BY DEF Before
    <3> QED
      BY <1>4, <1>7, CephEnds
  <2>2. Len(g) <= 1
    BY <1>2, <2>1
  <2> QED
    BY <1>1, <1>7, <2>2 DEF Whole
<1>8. CASE Failed(g[1]) /\ a.node
  <2>1. ~Before(a, g, 2)
    <3> SUFFICES ASSUME NEW h, NEW m, Len(h) = 2
                 PROVE  Step(a, h, m).do = "answer"
      BY DEF Before
    <3> QED
      BY <1>4, <1>8, CephEnds
  <2>2. Len(g) <= 2
    BY <1>2, <2>1
  <2>3. k.next.warnings = Gaps(g, {1}) /\ ~Failed(g[2])
    BY <1>6, <1>8, Fields
  <2> QED
    BY <1>1, <1>3, <2>2, <2>3 DEF Whole
<1>9. CASE Failed(g[1]) /\ ~a.node
  <2>1. ~Before(a, g, 3)
    <3> SUFFICES ASSUME NEW h, NEW m, Len(h) = 3
                 PROVE  Step(a, h, m).do = "answer"
      BY DEF Before
    <3> QED
      BY <1>4, CephEnds
  <2>2. Len(g) <= 3
    BY <1>2, <2>1
  <2>3. k.next.warnings = Gaps(g, {1}) /\ ~Failed(g[2]) /\ ~Failed(g[3])
    BY <1>6, <1>9, Fields
  <2> QED
    BY <1>1, <1>3, <2>2, <2>3 DEF Whole
<1> QED
  BY <1>7, <1>8, <1>9

\* ... and that of the tool that waits for a task ...
LEMMA WaitIsWhole ==
  ASSUME NEW k, Heard(k), k.args.tool = "pve_wait_for_task"
  PROVE  Whole(k)
<1> DEFINE a == k.args
           g == k.got
           l == k.late
<1>1. /\ Sequence(g) /\ History(a, g) /\ l \in BOOLEAN /\ Patient(a, g, l)
      /\ k.next = Step(a, g, l) /\ k.next.do = "answer" /\ k.next.ok
      /\ Len(g) \in Nat /\ DOMAIN g = 1..Len(g)
  BY Indices DEF Heard
<1>2. \A n \in Nat : ~Before(a, g, n) => Len(g) <= n
  BY <1>1, Told
<1>3. \A h, m : Step(a, h, m) = pve_wait_for_task(h, m)
  BY StepIs
<1>4. k.next = pve_wait_for_task(g, l)
  BY <1>1, <1>3
<1>5. /\ Len(g) > 1 /\ ~Failed(g[1])
      /\ g[1].kind # "running" => Gaps(g, {2}) \subseteq k.next.warnings
      /\ g[1].kind = "running" => Len(g) > 2 /\ ~Failed(g[2]) /\ Gaps(g, {3}) \subseteq k.next.warnings
  BY <1>1, <1>4, TaskAsks
<1>6. /\ \A i : i = 2 /\ Failed(g[i]) => g[i].path \in Gaps(g, {2})
      /\ \A i : i = 3 /\ Failed(g[i]) => g[i].path \in Gaps(g, {3})
  BY DEF Gaps
<1>7. CASE g[1].kind # "running"
  <2>1. ~Before(a, g, 2)
    <3> SUFFICES ASSUME NEW h, NEW m, Sequence(h), Len(h) = 2, h[1] = g[1]
                 PROVE  Step(a, h, m).do = "answer"
      BY DEF Before
    <3>1. Step(a, h, m) = pve_wait_for_task(h, m)
      BY <1>3
    <3> QED
      BY <1>7, <3>1, TaskAsks
  <2>2. Len(g) <= 2
    BY <1>2, <2>1
  <2> QED
    BY <1>1, <1>5, <1>6, <1>7, <2>2 DEF Whole
<1>8. CASE g[1].kind = "running"
  <2>1. ~Before(a, g, 3)
    <3> SUFFICES ASSUME NEW h, NEW m, Sequence(h), Len(h) = 3, h[1] = g[1], Patient(a, h, m)
                 PROVE  Step(a, h, m).do = "answer"
      BY DEF Before
    <3>1. Step(a, h, m) = pve_wait_for_task(h, m)
      BY <1>3
    <3>2. 1 \in DOMAIN h
      BY Indices
    <3>3. m = TRUE
      BY <1>8, <3>2 DEF Patient, Waiters
    <3>4. ~(Len(h) = 0) /\ ~(Len(h) = 1) /\ ~(Len(h) < 3)
      OBVIOUS
    <3>5. pve_wait_for_task(h, m).do # "answer" => ~m
      BY <1>8, <3>4, TaskAsks
    <3> QED
      BY <3>1, <3>3, <3>5
  <2>2. Len(g) <= 3
    BY <1>2, <2>1
  <2> QED
    BY <1>1, <1>5, <1>6, <1>8, <2>2 DEF Whole
<1> QED
  BY <1>7, <1>8

\* How a start asks on: only while it waits and its task still runs.
LEMMA StartAsks ==
  ASSUME NEW g, NEW wait, NEW late
  PROVE  LET s == pve_start_guest(g, wait, late)
         IN /\ s.do # "answer" => \/ Len(g) < 1
                                  \/ /\ wait /\ g[1].kind = "well"
                                     /\ Len(g) < 2 \/ (g[2].kind = "running" /\ ~late)
            /\ s.do = "answer" /\ s.ok => ~Failed(g[1]) /\ (~wait \/ g[1].kind # "well" \/ ~Failed(g[2]))
<1> DEFINE s == pve_start_guest(g, wait, late)
           t == WaitOrPending(g, 2, wait, late, {})
<1>1. s = IF Len(g) < 1 THEN Post("/status/start")
          ELSE IF Failed(g[1]) THEN Raise(PveCode(g[1].kind)) ELSE t
  BY DEF pve_start_guest, SubmitTask
<1>2. /\ t.do # "answer" => /\ wait /\ g[2 - 1].kind = "well"
                            /\ Len(g) < 2 \/ (g[2].kind = "running" /\ ~late)
      /\ t.do = "answer" /\ t.ok => ~wait \/ g[2 - 1].kind # "well" \/ ~Failed(g[2])
  BY WaitAsks
<1>3. 2 - 1 = 1
  OBVIOUS
<1> HIDE DEF t, s
<1> QED
  BY <1>1, <1>2, <1>3, Fields DEF s

\* So does a stop.
LEMMA StopAsks ==
  ASSUME NEW a, a.tool \in Stops, NEW g, Sequence(g), NEW late
  PROVE  LET s == Step(a, g, late)
         IN /\ s.do # "answer" => \/ Len(g) < 2
                                  \/ /\ a.wait /\ g[2].kind = "well"
                                     /\ Len(g) < 3 \/ (g[3].kind = "running" /\ ~late)
            /\ s.do = "answer" /\ s.ok => /\ ~Failed(g[2]) /\ (~a.wait \/ g[2].kind # "well" \/ ~Failed(g[3]))
                                          /\ Gaps(g, {1}) \subseteq s.warnings
<1> DEFINE s == Step(a, g, late)
<1>1. PICK path, w : s = May(g, 1, HaCurrent, SubmitTask(g, 2, path, WaitOrPending(g, 3, a.wait, late, w)))
  <2>1. CASE a.tool = "pve_shutdown_guest"
    <3>1. s = pve_shutdown_guest(g, a.wait, late)
      BY <2>1, StepIs
    <3> QED
      BY <3>1 DEF pve_shutdown_guest
  <2>2. CASE a.tool = "pve_stop_guest"
    <3>1. s = pve_stop_guest(g, a.wait, late)
      BY <2>2, StepIs
    <3> QED
      BY <3>1, HardStop
  <2>3. CASE a.tool = "pve_stopall_guests"
    <3>1. s = pve_stopall_guests(g, a.wait, late)
      BY <2>3, StepIs
    <3> QED
      BY <3>1 DEF pve_stopall_guests
  <2> QED
    BY <2>1, <2>2, <2>3 DEF Stops
<1> DEFINE t == WaitOrPending(g, 3, a.wait, late, w)
<1>2. s = IF Len(g) < 1 THEN Ask(HaCurrent) ELSE IF Len(g) < 2 THEN Post(path)
          ELSE IF Failed(g[2]) THEN Raise(PveCode(g[2].kind)) ELSE t
  BY <1>1 DEF May, SubmitTask
<1>3. /\ t.do # "answer" => /\ a.wait /\ g[3 - 1].kind = "well"
                            /\ Len(g) < 3 \/ (g[3].kind = "running" /\ ~late)
      /\ t.do = "answer" /\ t.ok => ~a.wait \/ g[3 - 1].kind # "well" \/ ~Failed(g[3])
  BY WaitAsks
<1>4. 3 - 1 = 2 /\ (Len(g) < 1 => Len(g) < 2)
  BY Indices
<1>5. s.do = "answer" /\ s.ok => HaWarnings(g, 1) \subseteq s.warnings
  BY StopsLook
<1>6. Gaps(g, {1}) \subseteq HaWarnings(g, 1)
  BY DEF HaWarnings
<1> HIDE DEF t, s
<1> QED
  BY <1>2, <1>3, <1>4, <1>5, <1>6, Fields DEF s

\* So the answer of a start is whole ...
LEMMA StartIsWhole ==
  ASSUME NEW k, Heard(k), k.args.tool = "pve_start_guest"
  PROVE  Whole(k)
<1> DEFINE a == k.args
           g == k.got
           l == k.late
<1>1. /\ Sequence(g) /\ History(a, g) /\ l \in BOOLEAN /\ Patient(a, g, l)
      /\ k.next = Step(a, g, l) /\ k.next.do = "answer" /\ k.next.ok
      /\ Len(g) \in Nat /\ DOMAIN g = 1..Len(g)
  BY Indices DEF Heard
<1>2. \A n \in Nat : ~Before(a, g, n) => Len(g) <= n
  BY <1>1, Told
<1>3. \A h, m : Step(a, h, m) = pve_start_guest(h, a.wait, m)
  BY StepIs
<1>4. k.next = pve_start_guest(g, a.wait, l)
  BY <1>1, <1>3
<1>5. /\ ~Failed(g[1]) /\ (~a.wait \/ g[1].kind # "well" \/ ~Failed(g[2]))
  BY <1>1, <1>4, StartAsks
<1>7. CASE a.wait /\ g[1].kind = "well"
  <2>1. ~Before(a, g, 2)
    <3> SUFFICES ASSUME NEW h, NEW m, Sequence(h), Len(h) = 2, h[1] = g[1], Patient(a, h, m)
                 PROVE  Step(a, h, m).do = "answer"
      BY DEF Before
    <3>1. 2 \in DOMAIN h
      BY Indices
    <3>2. h[2].kind = "running" => m = TRUE
      BY <3>1 DEF Patient, Waiters, TakesWait
    <3>3. ~(Len(h) = 0) /\ ~(Len(h) < 1) /\ ~(Len(h) = 1) /\ ~(Len(h) < 2)
      OBVIOUS
    <3>4. Step(a, h, m).do # "answer" => h[2].kind = "running" /\ ~m
      BY <1>3, <3>3, StartAsks
    <3> QED
      BY <3>2, <3>4
  <2>2. Len(g) <= 2
    BY <1>2, <2>1
  <2> QED
    BY <1>1, <1>5, <1>7, <2>2 DEF Whole
<1>8. CASE ~(a.wait /\ g[1].kind = "well")
  <2>1. ~Before(a, g, 1)
    <3> SUFFICES ASSUME NEW h, NEW m, Sequence(h), Len(h) = 1, h[1] = g[1]
                 PROVE  Step(a, h, m).do = "answer"
      BY DEF Before
    <3>1. ~(Len(h) = 0) /\ ~(Len(h) < 1)
      OBVIOUS
    <3> QED
      BY <1>3, <1>8, <3>1, StartAsks
  <2>2. Len(g) <= 1
    BY <1>2, <2>1
  <2> QED
    BY <1>1, <1>5, <2>2 DEF Whole
<1> QED
  BY <1>7, <1>8

\* ... that of a stop ...
LEMMA StopIsWhole ==
  ASSUME NEW k, Heard(k), k.args.tool \in Stops
  PROVE  Whole(k)
<1> DEFINE a == k.args
           g == k.got
           l == k.late
<1>1. /\ Sequence(g) /\ History(a, g) /\ l \in BOOLEAN /\ Patient(a, g, l)
      /\ k.next = Step(a, g, l) /\ k.next.do = "answer" /\ k.next.ok
      /\ Len(g) \in Nat /\ DOMAIN g = 1..Len(g)
  BY Indices DEF Heard
<1>2. \A n \in Nat : ~Before(a, g, n) => Len(g) <= n
  BY <1>1, Told
<1>3. a.tool \in Stops
  OBVIOUS
<1>4. a.tool \in Stops /\ Sequence(g)
  BY <1>1
<1>5. /\ ~Failed(g[2]) /\ (~a.wait \/ g[2].kind # "well" \/ ~Failed(g[3]))
      /\ Gaps(g, {1}) \subseteq k.next.warnings
  BY <1>1, <1>4, StopAsks
<1>6. \A i : i = 1 /\ Failed(g[i]) => g[i].path \in Gaps(g, {1})
  BY DEF Gaps
<1>7. CASE a.wait /\ g[2].kind = "well"
  <2>1. ~Before(a, g, 3)
    <3> SUFFICES ASSUME NEW h, NEW m, Sequence(h), Len(h) = 3, h[2] = g[2], Patient(a, h, m)
                 PROVE  Step(a, h, m).do = "answer"
      BY DEF Before
    <3>1. 3 \in DOMAIN h
      BY Indices
    <3>2. h[3].kind = "running" => m = TRUE
      BY <3>1 DEF Patient, Waiters, TakesWait, Stops
    <3>3. ~(Len(h) = 0) /\ ~(Len(h) < 2) /\ ~(Len(h) = 2) /\ ~(Len(h) < 3)
      OBVIOUS
    <3>4. Step(a, h, m).do # "answer" => h[3].kind = "running" /\ ~m
      BY <1>3, <3>3, StopAsks
    <3> QED
      BY <3>2, <3>4
  <2>2. Len(g) <= 3
    BY <1>2, <2>1
  <2> QED
    BY <1>1, <1>5, <1>6, <1>7, <2>2 DEF Whole
<1>8. CASE ~(a.wait /\ g[2].kind = "well")
  <2>1. ~Before(a, g, 2)
    <3> SUFFICES ASSUME NEW h, NEW m, Sequence(h), Len(h) = 2, h[2] = g[2]
                 PROVE  Step(a, h, m).do = "answer"
      BY DEF Before
    <3>1. ~(Len(h) = 0) /\ ~(Len(h) < 2)
      OBVIOUS
    <3> QED
      BY <1>3, <1>8, <3>1, StopAsks
  <2>2. Len(g) <= 2
    BY <1>2, <2>1
  <2> QED
    BY <1>1, <1>5, <1>6, <2>2 DEF Whole
<1> QED
  BY <1>7, <1>8

\* ... and that of a tool that waits for its job ...
LEMMA JobIsWhole ==
  ASSUME NEW k, Heard(k), k.args.tool \in {"truenas_create_dataset", "truenas_update_nfs_share"}
  PROVE  Whole(k)
<1> DEFINE a == k.args
           g == k.got
           l == k.late
<1>1. /\ Sequence(g) /\ History(a, g) /\ l \in BOOLEAN /\ Patient(a, g, l)
      /\ k.next = Step(a, g, l) /\ k.next.do = "answer" /\ k.next.ok
      /\ Len(g) \in Nat /\ DOMAIN g = 1..Len(g)
  BY Indices DEF Heard
<1>2. \A n \in Nat : ~Before(a, g, n) => Len(g) <= n
  BY <1>1, Told
<1>3. PICK path : \A h, m : Step(a, h, m) = SubmitJob(h, path, a.wait, m)
  <2>1. CASE a.tool = "truenas_create_dataset"
    <3>1. \A h, m : Step(a, h, m) = truenas_create_dataset(h, a.wait, m)
      BY <2>1, StepIs
    <3> QED
      BY <3>1 DEF truenas_create_dataset
  <2>2. CASE a.tool = "truenas_update_nfs_share"
    <3>1. \A h, m : Step(a, h, m) = truenas_update_nfs_share(h, a.wait, m)
      BY <2>2, StepIs
    <3> QED
      BY <3>1 DEF truenas_update_nfs_share
  <2> QED
    BY <2>1, <2>2
<1>4. k.next = SubmitJob(g, path, a.wait, l)
  BY <1>1, <1>3
<1>5. /\ ~Failed(g[1]) /\ (~a.wait \/ g[1].kind # "well" \/ ~Failed(g[2]))
  BY <1>1, <1>4, JobAsks
<1>7. CASE a.wait /\ g[1].kind = "well"
  <2>1. ~Before(a, g, 2)
    <3> SUFFICES ASSUME NEW h, NEW m, Sequence(h), Len(h) = 2, h[1] = g[1], Patient(a, h, m)
                 PROVE  Step(a, h, m).do = "answer"
      BY DEF Before
    <3>1. 2 \in DOMAIN h
      BY Indices
    <3>2. h[2].kind = "running" => m = TRUE
      BY <3>1 DEF Patient, Waiters, TakesWait
    <3>3. ~(Len(h) = 0) /\ ~(Len(h) < 1) /\ ~(Len(h) = 1) /\ ~(Len(h) < 2)
      OBVIOUS
    <3>4. Step(a, h, m).do # "answer" => h[2].kind = "running" /\ ~m
      BY <1>3, <3>3, JobAsks
    <3> QED
      BY <3>2, <3>4
  <2>2. Len(g) <= 2
    BY <1>2, <2>1
  <2> QED
    BY <1>1, <1>5, <1>7, <2>2 DEF Whole
<1>8. CASE ~(a.wait /\ g[1].kind = "well")
  <2>1. ~Before(a, g, 1)
    <3> SUFFICES ASSUME NEW h, NEW m, Sequence(h), Len(h) = 1, h[1] = g[1]
                 PROVE  Step(a, h, m).do = "answer"
      BY DEF Before
    <3>1. ~(Len(h) = 0) /\ ~(Len(h) < 1)
      OBVIOUS
    <3> QED
      BY <1>3, <1>8, <3>1, JobAsks
  <2>2. Len(g) <= 1
    BY <1>2, <2>1
  <2> QED
    BY <1>1, <1>5, <2>2 DEF Whole
<1> QED
  BY <1>7, <1>8

\* ... or does not.
LEMMA DismissIsWhole ==
  ASSUME NEW k, Heard(k), k.args.tool = "truenas_dismiss_alert"
  PROVE  Whole(k)
<1> DEFINE a == k.args
           g == k.got
           l == k.late
<1>1. /\ Sequence(g) /\ History(a, g) /\ l \in BOOLEAN /\ Patient(a, g, l)
      /\ k.next = Step(a, g, l) /\ k.next.do = "answer" /\ k.next.ok
      /\ Len(g) \in Nat /\ DOMAIN g = 1..Len(g)
  BY Indices DEF Heard
<1>2. \A n \in Nat : ~Before(a, g, n) => Len(g) <= n
  BY <1>1, Told
<1>3. \A h : truenas_dismiss_alert(h) = IF Len(h) < 1 THEN Post("alert.dismiss")
                                        ELSE IF Failed(h[1]) THEN Raise(NasCode(h[1].kind)) ELSE Say({})
  BY Zenon DEF truenas_dismiss_alert, SubmitJob
<1>4. \A h, m : Step(a, h, m) = truenas_dismiss_alert(h)
  BY StepIs
<1>5. ~Before(a, g, 1)
  <2> SUFFICES ASSUME NEW h, NEW m, Len(h) = 1
               PROVE  Step(a, h, m).do = "answer"
    BY DEF Before
  <2>1. ~(Len(h) < 1)
    OBVIOUS
  <2>2. Step(a, h, m) = Raise(NasCode(h[1].kind)) \/ Step(a, h, m) = Say({})
    BY <1>3, <1>4, <2>1
  <2> QED
    BY <2>2, Fields
<1>6. Len(g) <= 1
  BY <1>2, <1>5
<1>7. k.next = truenas_dismiss_alert(g)
  BY <1>1, <1>4
<1>8. ~Failed(g[1])
  BY <1>1, <1>3, <1>7, Fields
<1> QED
  BY <1>1, <1>6, <1>8 DEF Whole

-----------------------------------------------------------------------------
(* Answers about the Tailscale package.                                    *)

\* What pfs_get_tailscale_status says of the outcome that it ends with, and
\* pfs_system_summary of it and of those from the i-th on.
StatusSays(o) == IF TailscaleFailed(o) THEN Raise(TailscaleCode(o)) ELSE Say(TailscaleWarnings(o))
SummarySays(g, i, o) ==
  Gaps(g, {1, i, i + 1, i + 2})
  \cup (IF Failed(g[2]) THEN Gaps(g, {2}) ELSE IF g[2].kind = "well" THEN {} ELSE {"no lab LAN"})
  \cup (IF TailscaleFailed(o) THEN {o.path} ELSE TailscaleWarnings(o))
SummaryRest(g, i, o) ==
  May(g, i, "/routing/gateways", May(g, i + 1, "/routing/static_routes",
  May(g, i + 2, "/system/restapi/settings", Say(SummarySays(g, i, o)))))

\* The two as chains of requests, of which each path leads to the next one.
LEMMA TailscaleStatusIs ==
  ASSUME NEW g
  PROVE  pfs_get_tailscale_status(g)
           = May(g, 1, "/vpn/tailscale/settings", IF g[1].kind # "404" THEN StatusSays(g[1])
             ELSE May(g, 2, "/services/tailscale/settings",
               IF g[2].kind # "404" \/ ~AdminApi THEN StatusSays(g[2])
               ELSE May(g, 3, "admin/devices",
                 IF Failed(g[3]) \/ g[3].kind = "empty" THEN StatusSays(g[3])
                 ELSE May(g, 4, "admin/routes", StatusSays(g[4])))))
<1>1. pfs_get_tailscale_status(g)
        = May(g, 1, "/vpn/tailscale/settings", IF g[1].kind # "404" THEN StatusSays(g[1])
          ELSE May(g, 1 + 1, "/services/tailscale/settings",
            IF g[1 + 1].kind # "404" \/ ~AdminApi THEN StatusSays(g[1 + 1])
            ELSE May(g, 1 + 2, "admin/devices",
              IF Failed(g[1 + 2]) \/ g[1 + 2].kind = "empty" THEN StatusSays(g[1 + 2])
              ELSE May(g, 1 + 3, "admin/routes", StatusSays(g[1 + 3])))))
  BY Zenon DEF pfs_get_tailscale_status, Tailscale, StatusSays
<1>2. 1 + 1 = 2 /\ 1 + 2 = 3 /\ 1 + 3 = 4
  OBVIOUS
<1> QED
  BY <1>1, <1>2, Zenon

\* The same of the summary, after the version and the interfaces.
LEMMA SummaryIs ==
  ASSUME NEW g
  PROVE  pfs_system_summary(g)
           = May(g, 1, "/system/version", May(g, 2, "/interfaces",
             May(g, 3, "/vpn/tailscale/settings", IF g[3].kind # "404" THEN SummaryRest(g, 4, g[3])
             ELSE May(g, 4, "/services/tailscale/settings",
               IF g[4].kind # "404" \/ ~AdminApi THEN SummaryRest(g, 5, g[4])
               ELSE May(g, 5, "admin/devices",
                 IF Failed(g[5]) \/ g[5].kind = "empty" THEN SummaryRest(g, 6, g[5])
                 ELSE May(g, 6, "admin/routes", SummaryRest(g, 7, g[6])))))))
<1>1. pfs_system_summary(g)
        = May(g, 1, "/system/version", May(g, 2, "/interfaces",
          May(g, 3, "/vpn/tailscale/settings", IF g[3].kind # "404" THEN SummaryRest(g, 3 + 1, g[3])
          ELSE May(g, 3 + 1, "/services/tailscale/settings",
            IF g[3 + 1].kind # "404" \/ ~AdminApi THEN SummaryRest(g, 3 + 2, g[3 + 1])
            ELSE May(g, 3 + 2, "admin/devices",
              IF Failed(g[3 + 2]) \/ g[3 + 2].kind = "empty" THEN SummaryRest(g, 3 + 3, g[3 + 2])
              ELSE May(g, 3 + 3, "admin/routes", SummaryRest(g, 3 + 4, g[3 + 3])))))))
  BY Zenon DEF pfs_system_summary, Tailscale, SummaryRest, SummarySays
<1>2. 3 + 1 = 4 /\ 3 + 2 = 5 /\ 3 + 3 = 6 /\ 3 + 4 = 7
  OBVIOUS
<1> QED
  BY <1>1, <1>2, Zenon

\* How it ends: with an outcome that did not fail, after others that led to it.
LEMMA StatusEnds ==
  ASSUME NEW o
  PROVE  StatusSays(o).do = "answer" /\ (StatusSays(o).ok => ~Failed(o))
<1> DEFINE w == TailscaleWarnings(o)
<1>1. StatusSays(o) = IF TailscaleFailed(o) THEN Raise(TailscaleCode(o)) ELSE Say(w)
  BY DEF StatusSays
<1> HIDE DEF w
<1> QED
  BY <1>1, Fields DEF TailscaleFailed

\* What the status asks next, by the number of its outcomes.
LEMMA TailscaleStatusEnds ==
  ASSUME NEW g
  PROVE  LET s == pfs_get_tailscale_status(g)
         IN /\ Len(g) = 0 => s = Ask("/vpn/tailscale/settings")
            /\ Len(g) = 1 => IF g[1].kind = "404" THEN s = Ask("/services/tailscale/settings")
                             ELSE s = StatusSays(g[1])
            /\ Len(g) = 2 /\ g[1].kind = "404" =>
                 IF g[2].kind = "404" /\ AdminApi THEN s = Ask("admin/devices") ELSE s = StatusSays(g[2])
            /\ Len(g) = 3 /\ g[1].kind = "404" /\ g[2].kind = "404" /\ AdminApi =>
                 IF Failed(g[3]) \/ g[3].kind = "empty" THEN s = StatusSays(g[3]) ELSE s = Ask("admin/routes")
            /\ Len(g) = 4 => s \in {StatusSays(g[1]), StatusSays(g[2]), StatusSays(g[3]), StatusSays(g[4])}
            /\ Len(g) = 4 /\ g[1].kind = "404" /\ g[2].kind = "404" /\ AdminApi
                 /\ ~Failed(g[3]) /\ g[3].kind # "empty" => s = StatusSays(g[4])
<1> DEFINE s == pfs_get_tailscale_status(g)
<1>1. s = IF Len(g) < 1 THEN Ask("/vpn/tailscale/settings")
          ELSE IF g[1].kind # "404" THEN StatusSays(g[1])
          ELSE IF Len(g) < 2 THEN Ask("/services/tailscale/settings")
          ELSE IF g[2].kind # "404" \/ ~AdminApi THEN StatusSays(g[2])
          ELSE IF Len(g) < 3 THEN Ask("admin/devices")
          ELSE IF Failed(g[3]) \/ g[3].kind = "empty" THEN StatusSays(g[3])
          ELSE IF Len(g) < 4 THEN Ask("admin/routes") ELSE StatusSays(g[4])
  BY TailscaleStatusIs DEF May
<1> HIDE DEF s
<1>2. Len(g) = 0 => (Len(g) < 1)
  OBVIOUS
<1>3. Len(g) = 1 => ~(Len(g) < 1) /\ (Len(g) < 2)
  OBVIOUS
<1>4. Len(g) = 2 => ~(Len(g) < 1) /\ ~(Len(g) < 2) /\ (Len(g) < 3)
  OBVIOUS
<1>5. Len(g) = 3 => ~(Len(g) < 1) /\ ~(Len(g) < 2) /\ ~(Len(g) < 3) /\ (Len(g) < 4)
  OBVIOUS
<1>6. Len(g) = 4 => ~(Len(g) < 1) /\ ~(Len(g) < 2) /\ ~(Len(g) < 3) /\ ~(Len(g) < 4)
  OBVIOUS
<1>7. Len(g) = 0 => s = Ask("/vpn/tailscale/settings")
  BY <1>1, <1>2, Zenon
<1>8. Len(g) = 1 => IF g[1].kind = "404" THEN s = Ask("/services/tailscale/settings")
                    ELSE s = StatusSays(g[1])
  BY <1>1, <1>3, Zenon
<1>9. Len(g) = 2 /\ g[1].kind = "404" =>
        IF g[2].kind = "404" /\ AdminApi THEN s = Ask("admin/devices") ELSE s = StatusSays(g[2])
  BY <1>1, <1>4, Zenon
<1>10. Len(g) = 3 /\ g[1].kind = "404" /\ g[2].kind = "404" /\ AdminApi =>
         IF Failed(g[3]) \/ g[3].kind = "empty" THEN s = StatusSays(g[3]) ELSE s = Ask("admin/routes")
  BY <1>1, <1>5, Zenon
<1>11. /\ Len(g) = 4 => s \in {StatusSays(g[1]), StatusSays(g[2]), StatusSays(g[3]), StatusSays(g[4])}
       /\ Len(g) = 4 /\ g[1].kind = "404" /\ g[2].kind = "404" /\ AdminApi
            /\ ~Failed(g[3]) /\ g[3].kind # "empty" => s = StatusSays(g[4])
  BY <1>1, <1>6, Zenon
<1> QED
  BY <1>7, <1>8, <1>9, <1>10, <1>11 DEF s

\* So its answer is whole.
LEMMA TailscaleStatusIsWhole ==
  ASSUME NEW k, Heard(k), k.args.tool = "pfs_get_tailscale_status"
  PROVE  Whole(k)
<1> DEFINE a == k.args
           g == k.got
           l == k.late
<1>1. /\ Sequence(g) /\ History(a, g) /\ l \in BOOLEAN /\ Patient(a, g, l)
      /\ k.next = Step(a, g, l) /\ k.next.do = "answer" /\ k.next.ok
      /\ Len(g) \in Nat /\ DOMAIN g = 1..Len(g)
  BY Indices DEF Heard
<1>2. \A n \in Nat : ~Before(a, g, n) => Len(g) <= n
  BY <1>1, Told
<1>3. \A h, m : Step(a, h, m) = pfs_get_tailscale_status(h)
  BY StepIs
<1>4. k.next = pfs_get_tailscale_status(g)
  BY <1>1, <1>3
<1>5. "404" \in Failures
  BY DEF Failures, Statuses
<1>6. Len(g) \in {1, 2, 3, 4}
  <2>1. ~Before(a, g, 4)
    <3> SUFFICES ASSUME NEW h, NEW m, Len(h) = 4
                 PROVE  Step(a, h, m).do = "answer"
      BY DEF Before
    <3>1. Step(a, h, m) \in {StatusSays(h[1]), StatusSays(h[2]), StatusSays(h[3]), StatusSays(h[4])}
      BY <1>3, TailscaleStatusEnds
    <3> QED
      BY <3>1, StatusEnds
  <2>2. Len(g) <= 4
    BY <1>2, <2>1
  <2>3. ~(Len(g) = 0)
    <3>1. Len(g) = 0 => k.next = Ask("/vpn/tailscale/settings")
      BY <1>4, TailscaleStatusEnds
    <3>2. k.next # Ask("/vpn/tailscale/settings")
      BY <1>1, Fields
    <3> QED
      BY <3>1, <3>2
  <2> DEFINE n == Len(g)
  <2>4. n \in Nat /\ n <= 4 /\ ~(n = 0)
    BY <1>1, <2>2, <2>3
  <2> HIDE DEF n
  <2>5. n \in {1, 2, 3, 4}
    BY <2>4
  <2> QED
    BY <2>5 DEF n
<1>7. Len(g) > 1 => /\ g[1].kind = "404" /\ PassedOver(k, 1)
                    /\ g[1].path = "/vpn/tailscale/settings" /\ g[2].path = "/services/tailscale/settings"
  <2> SUFFICES ASSUME Len(g) > 1
               PROVE  /\ g[1].kind = "404" /\ PassedOver(k, 1)
                      /\ g[1].path = "/vpn/tailscale/settings" /\ g[2].path = "/services/tailscale/settings"
    OBVIOUS
  <2>1. Before(a, g, 0) /\ Before(a, g, 1)
    BY <1>1, Told
  <2>2. g[1].path = "/vpn/tailscale/settings"
    <3>1. PICK h, m : Len(h) = 0 /\ Step(a, h, m).path = g[1].path
      BY <2>1 DEF Before
    <3> QED
      BY <1>3, <3>1, TailscaleStatusEnds, Fields
  <2>3. g[1].kind = "404" /\ g[2].path = "/services/tailscale/settings"
    <3>1. PICK h, m : Len(h) = 1 /\ h[1] = g[1] /\ Step(a, h, m).do # "answer" /\ Step(a, h, m).path = g[2].path
      BY <2>1 DEF Before
    <3>2. IF g[1].kind = "404" THEN Step(a, h, m) = Ask("/services/tailscale/settings")
          ELSE Step(a, h, m) = StatusSays(g[1])
      BY <1>3, <3>1, TailscaleStatusEnds
    <3> QED
      BY <3>1, <3>2, StatusEnds, Fields
  <2> QED
    BY <2>2, <2>3 DEF PassedOver
<1>8. Len(g) > 2 => g[2].kind = "404" /\ AdminApi /\ PassedOver(k, 2)
  <2> SUFFICES ASSUME Len(g) > 2
               PROVE  g[2].kind = "404" /\ AdminApi /\ PassedOver(k, 2)
    OBVIOUS
  <2>1. PICK h, m : /\ Len(h) = 2 /\ h[1] = g[1] /\ h[2] = g[2]
                    /\ Step(a, h, m).do # "answer" /\ Step(a, h, m).path = g[3].path
    <3>1. Before(a, g, 2)
      BY <1>1, Told
    <3> QED
      BY <3>1 DEF Before
  <2>2. IF g[2].kind = "404" /\ AdminApi THEN Step(a, h, m) = Ask("admin/devices")
        ELSE Step(a, h, m) = StatusSays(g[2])
    BY <1>3, <1>7, <2>1, TailscaleStatusEnds
  <2>3. g[2].kind = "404" /\ AdminApi /\ g[3].path = "admin/devices"
    BY <2>1, <2>2, StatusEnds, Fields
  <2> QED
    BY <1>7, <2>3 DEF PassedOver
<1>9. Len(g) > 3 => ~Failed(g[3]) /\ g[3].kind # "empty"
  <2> SUFFICES ASSUME Len(g) > 3
               PROVE  ~Failed(g[3]) /\ g[3].kind # "empty"
    OBVIOUS
  <2>1. PICK h, m : /\ Len(h) = 3 /\ h[1] = g[1] /\ h[2] = g[2] /\ h[3] = g[3]
                    /\ Step(a, h, m).do # "answer"
    <3>1. Before(a, g, 3)
      BY <1>1, Told
    <3> QED
      BY <3>1 DEF Before
  <2>2. IF Failed(g[3]) \/ g[3].kind = "empty" THEN Step(a, h, m) = StatusSays(g[3])
        ELSE Step(a, h, m) = Ask("admin/routes")
    BY <1>3, <1>7, <1>8, <2>1, TailscaleStatusEnds
  <2> QED
    BY <2>1, <2>2, StatusEnds
<1>10. ~Failed(g[Len(g)])
  <2>1. CASE Len(g) = 1
    BY <1>1, <1>4, <2>1, TailscaleStatusEnds, StatusEnds, Fields
  <2>2. CASE Len(g) = 2
    BY <1>1, <1>4, <1>7, <2>2, TailscaleStatusEnds, StatusEnds, Fields
  <2>3. CASE Len(g) = 3
    BY <1>1, <1>4, <1>7, <1>8, <2>3, TailscaleStatusEnds, StatusEnds, Fields
  <2>4. CASE Len(g) = 4
    BY <1>1, <1>4, <1>7, <1>8, <1>9, <2>4, TailscaleStatusEnds, StatusEnds
  <2> QED
    BY <1>6, <2>1, <2>2, <2>3, <2>4
<1> QED
  BY <1>1, <1>6, <1>7, <1>8, <1>9, <1>10 DEF Whole

\* The rest of the summary answers with what it says, which names what failed.
LEMMA SummaryRestEnds ==
  ASSUME NEW g, NEW i, NEW o
  PROVE  /\ ~(Len(g) < i) /\ ~(Len(g) < i + 1) /\ ~(Len(g) < i + 2) => SummaryRest(g, i, o).do = "answer"
         /\ SummaryRest(g, i, o).do = "answer" => SummaryRest(g, i, o) = Say(SummarySays(g, i, o))
<1> DEFINE s == SummaryRest(g, i, o)
<1>1. s = IF Len(g) < i THEN Ask("/routing/gateways")
          ELSE IF Len(g) < i + 1 THEN Ask("/routing/static_routes")
          ELSE IF Len(g) < i + 2 THEN Ask("/system/restapi/settings")
          ELSE Say(SummarySays(g, i, o))
  BY DEF SummaryRest, May
<1> HIDE DEF s
<1>2. ~(Len(g) < i) /\ ~(Len(g) < i + 1) /\ ~(Len(g) < i + 2) => s = Say(SummarySays(g, i, o))
  BY <1>1, Zenon
<1>3. s.do = "answer" => s = Say(SummarySays(g, i, o))
  BY <1>1, Fields
<1> QED
  BY <1>2, <1>3, Fields DEF s

\* What the summary names: each of its sections that failed.
LEMMA SummaryNames ==
  ASSUME NEW g, NEW i, NEW o
  PROVE  LET w == SummarySays(g, i, o)
         IN /\ \A n : n \in {1, i, i + 1, i + 2} /\ Failed(g[n]) => g[n].path \in w
            /\ Failed(g[2]) => g[2].path \in w
            /\ Failed(o) => o.path \in w
<1>1. Gaps(g, {1, i, i + 1, i + 2}) \subseteq SummarySays(g, i, o)
  BY DEF SummarySays
<1>2. Failed(g[2]) => Gaps(g, {2}) \subseteq SummarySays(g, i, o)
  BY DEF SummarySays
<1>3. Failed(o) => {o.path} \subseteq SummarySays(g, i, o)
  BY DEF SummarySays, TailscaleFailed
<1>4. \A n, I : n \in I /\ Failed(g[n]) => g[n].path \in Gaps(g, I)
  BY DEF Gaps
<1>5. \A n : n \in {1, i, i + 1, i + 2} /\ Failed(g[n]) => g[n].path \in Gaps(g, {1, i, i + 1, i + 2})
  BY <1>4
<1>6. Failed(g[2]) => g[2].path \in Gaps(g, {2})
  BY <1>4
<1> QED
  BY <1>1, <1>2, <1>3, <1>5, <1>6

\* What the summary asks for, as far as the Tailscale package goes.
LEMMA SummaryChain ==
  ASSUME NEW g, Len(g) \in Nat
  PROVE  LET s == pfs_system_summary(g)
         IN /\ Len(g) = 2 => s = Ask("/vpn/tailscale/settings")
            /\ ~(Len(g) < 3) /\ g[3].kind # "404" => s = SummaryRest(g, 4, g[3])
            /\ Len(g) = 3 /\ g[3].kind = "404" => s = Ask("/services/tailscale/settings")
            /\ ~(Len(g) < 4) /\ g[3].kind = "404" /\ (g[4].kind # "404" \/ ~AdminApi) => s = SummaryRest(g, 5, g[4])
            /\ Len(g) = 4 /\ g[3].kind = "404" /\ g[4].kind = "404" /\ AdminApi => s = Ask("admin/devices")
            /\ ~(Len(g) < 5) /\ g[3].kind = "404" /\ g[4].kind = "404" /\ AdminApi =>
                 /\ Failed(g[5]) \/ g[5].kind = "empty" => s = SummaryRest(g, 6, g[5])
                 /\ ~(Len(g) < 6) /\ ~Failed(g[5]) /\ g[5].kind # "empty" => s = SummaryRest(g, 7, g[6])
            /\ s.do = "answer" => /\ ~(Len(g) < 3)
                                  /\ g[3].kind = "404" => ~(Len(g) < 4)
                                  /\ g[3].kind = "404" /\ g[4].kind = "404" /\ AdminApi =>
                                       /\ ~(Len(g) < 5)
                                       /\ ~Failed(g[5]) /\ g[5].kind # "empty" => ~(Len(g) < 6)
<1> DEFINE s == pfs_system_summary(g)
<1>1. s = IF Len(g) < 1 THEN Ask("/system/version")
          ELSE IF Len(g) < 2 THEN Ask("/interfaces")
          ELSE IF Len(g) < 3 THEN Ask("/vpn/tailscale/settings")
          ELSE IF g[3].kind # "404" THEN SummaryRest(g, 4, g[3])
          ELSE IF Len(g) < 4 THEN Ask("/services/tailscale/settings")
          ELSE IF g[4].kind # "404" \/ ~AdminApi THEN SummaryRest(g, 5, g[4])
          ELSE IF Len(g) < 5 THEN Ask("admin/devices")
          ELSE IF Failed(g[5]) \/ g[5].kind = "empty" THEN SummaryRest(g, 6, g[5])
          ELSE IF Len(g) < 6 THEN Ask("admin/routes") ELSE SummaryRest(g, 7, g[6])
  BY SummaryIs DEF May
<1> HIDE DEF s
<1>2. /\ Len(g) = 2 => ~(Len(g) < 1) /\ ~(Len(g) < 2) /\ Len(g) < 3
      /\ Len(g) = 3 => ~(Len(g) < 3) /\ Len(g) < 4
      /\ Len(g) = 4 => ~(Len(g) < 4) /\ Len(g) < 5
      /\ Len(g) < 1 => Len(g) < 2
      /\ Len(g) < 2 => Len(g) < 3
      /\ Len(g) < 3 => Len(g) < 4
      /\ Len(g) < 4 => Len(g) < 5
      /\ Len(g) < 5 => Len(g) < 6
  <2> DEFINE n == Len(g)
  <2>1. n \in Nat
    OBVIOUS
  <2> HIDE DEF n
  <2>2. /\ n = 2 => ~(n < 1) /\ ~(n < 2) /\ n < 3
        /\ n = 3 => ~(n < 3) /\ n < 4
        /\ n = 4 => ~(n < 4) /\ n < 5
        /\ n < 1 => n < 2
        /\ n < 2 => n < 3
        /\ n < 3 => n < 4
        /\ n < 4 => n < 5
        /\ n < 5 => n < 6
    BY <2>1
  <2> QED
    BY <2>2 DEF n
<1>3. Len(g) = 2 => s = Ask("/vpn/tailscale/settings")
  BY <1>1, <1>2, Zenon
<1>4. ~(Len(g) < 3) /\ g[3].kind # "404" => s = SummaryRest(g, 4, g[3])
  BY <1>1, <1>2, Zenon
<1>5. Len(g) = 3 /\ g[3].kind = "404" => s = Ask("/services/tailscale/settings")
  BY <1>1, <1>2, Zenon
<1>6. ~(Len(g) < 4) /\ g[3].kind = "404" /\ (g[4].kind # "404" \/ ~AdminApi) => s = SummaryRest(g, 5, g[4])
  BY <1>1, <1>2, Zenon
<1>7. Len(g) = 4 /\ g[3].kind = "404" /\ g[4].kind = "404" /\ AdminApi => s = Ask("admin/devices")
  BY <1>1, <1>2, Zenon
<1>8. ~(Len(g) < 5) /\ g[3].kind = "404" /\ g[4].kind = "404" /\ AdminApi =>
        /\ Failed(g[5]) \/ g[5].kind = "empty" => s = SummaryRest(g, 6, g[5])
        /\ ~(Len(g) < 6) /\ ~Failed(g[5]) /\ g[5].kind # "empty" => s = SummaryRest(g, 7, g[6])
  BY <1>1, <1>2, Zenon
<1>9. \A p : Ask(p).do # "answer"
  BY Fields
<1>10. s.do = "answer" => /\ ~(Len(g) < 3)
                          /\ g[3].kind = "404" => ~(Len(g) < 4)
                          /\ g[3].kind = "404" /\ g[4].kind = "404" /\ AdminApi =>
                               /\ ~(Len(g) < 5)
                               /\ ~Failed(g[5]) /\ g[5].kind # "empty" => ~(Len(g) < 6)
  BY <1>1, <1>2, <1>9
<1> QED
  BY <1>3, <1>4, <1>5, <1>6, <1>7, <1>8, <1>10 DEF s

\* After the Tailscale package comes the rest, with the outcome it ended with.
LEMMA SummaryThen ==
  ASSUME NEW g, Len(g) \in Nat
  PROVE  /\ ~(Len(g) < 3) /\ g[3].kind # "404" => pfs_system_summary(g) = SummaryRest(g, 4, g[3])
         /\ ~(Len(g) < 4) /\ g[3].kind = "404" /\ (g[4].kind # "404" \/ ~AdminApi)
              => pfs_system_summary(g) = SummaryRest(g, 5, g[4])
         /\ ~(Len(g) < 5) /\ g[3].kind = "404" /\ g[4].kind = "404" /\ AdminApi
              /\ (Failed(g[5]) \/ g[5].kind = "empty") => pfs_system_summary(g) = SummaryRest(g, 6, g[5])
         /\ ~(Len(g) < 5) /\ ~(Len(g) < 6) /\ g[3].kind = "404" /\ g[4].kind = "404" /\ AdminApi
              /\ ~Failed(g[5]) /\ g[5].kind # "empty" => pfs_system_summary(g) = SummaryRest(g, 7, g[6])
BY SummaryChain

\* So the summary is whole.
LEMMA SummaryIsWhole ==
  ASSUME NEW k, Heard(k), k.args.tool = "pfs_system_summary"
  PROVE  Whole(k)
<1> DEFINE a == k.args
           g == k.got
           l == k.late
<1>1. /\ Sequence(g) /\ History(a, g) /\ l \in BOOLEAN /\ Patient(a, g, l)
      /\ k.next = Step(a, g, l) /\ k.next.do = "answer" /\ k.next.ok
      /\ Len(g) \in Nat /\ DOMAIN g = 1..Len(g)
  BY Indices DEF Heard
<1>2. \A n \in Nat : ~Before(a, g, n) => Len(g) <= n
  BY <1>1, Told
<1>3. \A h, m : Step(a, h, m) = pfs_system_summary(h)
  BY StepIs
<1>4. k.next = pfs_system_summary(g)
  BY <1>1, <1>3
<1>5. /\ ~(Len(g) < 3)
      /\ g[3].kind = "404" => ~(Len(g) < 4)
      /\ g[3].kind = "404" /\ g[4].kind = "404" /\ AdminApi =>
           /\ ~(Len(g) < 5)
           /\ ~Failed(g[5]) /\ g[5].kind # "empty" => ~(Len(g) < 6)
  BY <1>1, <1>4, SummaryChain
<1>6. g[3].path = "/vpn/tailscale/settings"
  <2>1. Before(a, g, 2)
    BY <1>1, <1>5, Told
  <2>2. PICK h, m : Len(h) = 2 /\ Step(a, h, m).path = g[3].path
    BY <2>1 DEF Before
  <2> QED
    BY <1>3, <2>2, SummaryChain, Fields
<1>7. g[3].kind = "404" => g[4].path = "/services/tailscale/settings" /\ PassedOver(k, 3)
  <2> SUFFICES ASSUME g[3].kind = "404"
               PROVE  g[4].path = "/services/tailscale/settings" /\ PassedOver(k, 3)
    OBVIOUS
  <2>1. Before(a, g, 3)
    BY <1>1, <1>5, Told
  <2>2. PICK h, m : Len(h) = 3 /\ h[3] = g[3] /\ Step(a, h, m).path = g[4].path
    BY <2>1 DEF Before
  <2>3. g[4].path = "/services/tailscale/settings"
    BY <1>3, <2>2, SummaryChain, Fields
  <2> QED
    BY <1>6, <2>3 DEF PassedOver
<1>8. g[3].kind = "404" /\ g[4].kind = "404" /\ AdminApi => PassedOver(k, 4)
  <2> SUFFICES ASSUME g[3].kind = "404" /\ g[4].kind = "404" /\ AdminApi
               PROVE  PassedOver(k, 4)
    OBVIOUS
  <2>1. Before(a, g, 4)
    BY <1>1, <1>5, Told
  <2>2. PICK h, m : Len(h) = 4 /\ h[3] = g[3] /\ h[4] = g[4] /\ Step(a, h, m).path = g[5].path
    BY <2>1 DEF Before
  <2>3. g[5].path = "admin/devices"
    BY <1>3, <2>2, SummaryChain, Fields
  <2> QED
    BY <1>7, <2>3 DEF PassedOver
<1>9. CASE g[3].kind # "404"
  <2>1. ~Before(a, g, 6)
    <3> SUFFICES ASSUME NEW h, NEW m, Len(h) = 6, h[3] = g[3]
                 PROVE  Step(a, h, m).do = "answer"
      BY DEF Before
    <3>1. /\ ~(Len(h) < 3) /\ ~(Len(h) < 4) /\ ~(Len(h) < 4 + 1) /\ ~(Len(h) < 4 + 2)
          /\ Len(h) \in Nat
      OBVIOUS
    <3>2. h[3].kind # "404"
      BY <1>9
    <3>3. ~(Len(h) < 3) /\ h[3].kind # "404" => pfs_system_summary(h) = SummaryRest(h, 4, h[3])
      BY <3>1, SummaryThen
    <3>4. Step(a, h, m) = SummaryRest(h, 4, h[3])
      <4>1. pfs_system_summary(h) = SummaryRest(h, 4, h[3])
        BY <3>1, <3>2, <3>3
      <4>2. Step(a, h, m) = pfs_system_summary(h)
        BY <1>3
      <4> QED
        BY <4>1, <4>2
    <3>5. SummaryRest(h, 4, h[3]).do = "answer"
      BY <3>1, SummaryRestEnds, Zenon
    <3> QED
      BY <3>4, <3>5
  <2>2. Len(g) <= 6
    BY <1>2, <2>1
  <2>3. k.next = SummaryRest(g, 4, g[3])
    <3>1. ~(Len(g) < 3) /\ g[3].kind # "404" => pfs_system_summary(g) = SummaryRest(g, 4, g[3])
      BY <1>1, SummaryThen
    <3>2. ~(Len(g) < 3) /\ g[3].kind # "404"
      BY <1>5, <1>9
    <3>3. pfs_system_summary(g) = SummaryRest(g, 4, g[3])
      BY <3>1, <3>2
    <3> QED
      BY <1>4, <3>3
  <2>4. k.next = Say(SummarySays(g, 4, g[3]))
    <3>1. SummaryRest(g, 4, g[3]).do = "answer"
      BY <1>1, <2>3
    <3>2. SummaryRest(g, 4, g[3]) = Say(SummarySays(g, 4, g[3]))
      BY <3>1, SummaryRestEnds, Zenon
    <3> QED
      BY <2>3, <3>2
  <2>5. k.next.warnings = SummarySays(g, 4, g[3])
    BY <2>4, Fields
  <2>6. /\ \A i : i \in {1, 4, 4 + 1, 4 + 2} /\ Failed(g[i]) => g[i].path \in k.next.warnings
        /\ Failed(g[2]) => g[2].path \in k.next.warnings
        /\ Failed(g[3]) => g[3].path \in k.next.warnings
    BY <2>5, SummaryNames
  <2>7. \A i \in 1..6 : i \in {1, 4, 4 + 1, 4 + 2} \/ i \in {2, 3}
    OBVIOUS
  <2> QED
    BY <1>1, <1>7, <1>8, <1>9, <2>2, <2>6, <2>7 DEF Whole
<1>10. CASE g[3].kind = "404" /\ (g[4].kind # "404" \/ ~AdminApi)
  <2>1. ~Before(a, g, 7)
    <3> SUFFICES ASSUME NEW h, NEW m, Len(h) = 7, h[3] = g[3], h[4] = g[4]
                 PROVE  Step(a, h, m).do = "answer"
      BY DEF Before
    <3>1. /\ ~(Len(h) < 4) /\ ~(Len(h) < 5) /\ ~(Len(h) < 5 + 1) /\ ~(Len(h) < 5 + 2)
          /\ Len(h) \in Nat
      OBVIOUS
    <3>2. h[3].kind = "404" /\ (h[4].kind # "404" \/ ~AdminApi)
      BY <1>10
    <3>3. ~(Len(h) < 4) /\ h[3].kind = "404" /\ (h[4].kind # "404" \/ ~AdminApi) => pfs_system_summary(h) = SummaryRest(h, 5, h[4])
      BY <3>1, SummaryThen
    <3>4. Step(a, h, m) = SummaryRest(h, 5, h[4])
      <4>1. pfs_system_summary(h) = SummaryRest(h, 5, h[4])
        BY <3>1, <3>2, <3>3
      <4>2. Step(a, h, m) = pfs_system_summary(h)
        BY <1>3
      <4> QED
        BY <4>1, <4>2
    <3>5. SummaryRest(h, 5, h[4]).do = "answer"
      BY <3>1, SummaryRestEnds, Zenon
    <3> QED
      BY <3>4, <3>5
  <2>2. Len(g) <= 7
    BY <1>2, <2>1
  <2>3. k.next = SummaryRest(g, 5, g[4])
    <3>1. ~(Len(g) < 4) /\ g[3].kind = "404" /\ (g[4].kind # "404" \/ ~AdminApi) => pfs_system_summary(g) = SummaryRest(g, 5, g[4])
      BY <1>1, SummaryThen
    <3>2. ~(Len(g) < 4) /\ g[3].kind = "404" /\ (g[4].kind # "404" \/ ~AdminApi)
      BY <1>5, <1>10
    <3>3. pfs_system_summary(g) = SummaryRest(g, 5, g[4])
      BY <3>1, <3>2
    <3> QED
      BY <1>4, <3>3
  <2>4. k.next = Say(SummarySays(g, 5, g[4]))
    <3>1. SummaryRest(g, 5, g[4]).do = "answer"
      BY <1>1, <2>3
    <3>2. SummaryRest(g, 5, g[4]) = Say(SummarySays(g, 5, g[4]))
      BY <3>1, SummaryRestEnds, Zenon
    <3> QED
      BY <2>3, <3>2
  <2>5. k.next.warnings = SummarySays(g, 5, g[4])
    BY <2>4, Fields
  <2>6. /\ \A i : i \in {1, 5, 5 + 1, 5 + 2} /\ Failed(g[i]) => g[i].path \in k.next.warnings
        /\ Failed(g[2]) => g[2].path \in k.next.warnings
        /\ Failed(g[4]) => g[4].path \in k.next.warnings
    BY <2>5, SummaryNames
  <2>7. \A i \in 1..7 : i \in {1, 5, 5 + 1, 5 + 2} \/ i \in {2, 3, 4}
    OBVIOUS
  <2> QED
    BY <1>1, <1>7, <1>8, <1>10, <2>2, <2>6, <2>7 DEF Whole
<1>11. CASE g[3].kind = "404" /\ g[4].kind = "404" /\ AdminApi /\ (Failed(g[5]) \/ g[5].kind = "empty")
  <2>1. ~Before(a, g, 8)
    <3> SUFFICES ASSUME NEW h, NEW m, Len(h) = 8, h[3] = g[3], h[4] = g[4], h[5] = g[5]
                 PROVE  Step(a, h, m).do = "answer"
      BY DEF Before
    <3>1. /\ ~(Len(h) < 5) /\ ~(Len(h) < 6) /\ ~(Len(h) < 6 + 1) /\ ~(Len(h) < 6 + 2)
          /\ Len(h) \in Nat
      OBVIOUS
    <3>2. h[3].kind = "404" /\ h[4].kind = "404" /\ AdminApi /\ (Failed(h[5]) \/ h[5].kind = "empty")
      BY <1>11
    <3>3. ~(Len(h) < 5) /\ h[3].kind = "404" /\ h[4].kind = "404" /\ AdminApi /\ (Failed(h[5]) \/ h[5].kind = "empty") => pfs_system_summary(h) = SummaryRest(h, 6, h[5])
      BY <3>1, SummaryThen
    <3>4. Step(a, h, m) = SummaryRest(h, 6, h[5])
      <4>1. pfs_system_summary(h) = SummaryRest(h, 6, h[5])
        BY <3>1, <3>2, <3>3
      <4>2. Step(a, h, m) = pfs_system_summary(h)
        BY <1>3
      <4> QED
        BY <4>1, <4>2
    <3>5. SummaryRest(h, 6, h[5]).do = "answer"
      BY <3>1, SummaryRestEnds, Zenon
    <3> QED
      BY <3>4, <3>5
  <2>2. Len(g) <= 8
    BY <1>2, <2>1
  <2>3. k.next = SummaryRest(g, 6, g[5])
    <3>1. ~(Len(g) < 5) /\ g[3].kind = "404" /\ g[4].kind = "404" /\ AdminApi /\ (Failed(g[5]) \/ g[5].kind = "empty") => pfs_system_summary(g) = SummaryRest(g, 6, g[5])
      BY <1>1, SummaryThen
    <3>2. ~(Len(g) < 5) /\ g[3].kind = "404" /\ g[4].kind = "404" /\ AdminApi /\ (Failed(g[5]) \/ g[5].kind = "empty")
      BY <1>5, <1>11
    <3>3. pfs_system_summary(g) = SummaryRest(g, 6, g[5])
      BY <3>1, <3>2
    <3> QED
      BY <1>4, <3>3
  <2>4. k.next = Say(SummarySays(g, 6, g[5]))
    <3>1. SummaryRest(g, 6, g[5]).do = "answer"
      BY <1>1, <2>3
    <3>2. SummaryRest(g, 6, g[5]) = Say(SummarySays(g, 6, g[5]))
      BY <3>1, SummaryRestEnds, Zenon
    <3> QED
      BY <2>3, <3>2
  <2>5. k.next.warnings = SummarySays(g, 6, g[5])
    BY <2>4, Fields
  <2>6. /\ \A i : i \in {1, 6, 6 + 1, 6 + 2} /\ Failed(g[i]) => g[i].path \in k.next.warnings
        /\ Failed(g[2]) => g[2].path \in k.next.warnings
        /\ Failed(g[5]) => g[5].path \in k.next.warnings
    BY <2>5, SummaryNames
  <2>7. \A i \in 1..8 : i \in {1, 6, 6 + 1, 6 + 2} \/ i \in {2, 3, 4, 5}
    OBVIOUS
  <2> QED
    BY <1>1, <1>7, <1>8, <1>11, <2>2, <2>6, <2>7 DEF Whole
<1>12. CASE g[3].kind = "404" /\ g[4].kind = "404" /\ AdminApi /\ ~Failed(g[5]) /\ g[5].kind # "empty"
  <2>1. ~Before(a, g, 9)
    <3> SUFFICES ASSUME NEW h, NEW m, Len(h) = 9, h[3] = g[3], h[4] = g[4], h[5] = g[5], h[6] = g[6]
                 PROVE  Step(a, h, m).do = "answer"
      BY DEF Before
    <3>1. /\ ~(Len(h) < 6) /\ ~(Len(h) < 7) /\ ~(Len(h) < 7 + 1) /\ ~(Len(h) < 7 + 2)
          /\ Len(h) \in Nat /\ ~(Len(h) < 5)
      OBVIOUS
    <3>2. h[3].kind = "404" /\ h[4].kind = "404" /\ AdminApi /\ ~Failed(h[5]) /\ h[5].kind # "empty"
      BY <1>12
    <3>3. ~(Len(h) < 5) /\ ~(Len(h) < 6) /\ h[3].kind = "404" /\ h[4].kind = "404" /\ AdminApi /\ ~Failed(h[5]) /\ h[5].kind # "empty" => pfs_system_summary(h) = SummaryRest(h, 7, h[6])
      BY <3>1, SummaryThen
    <3>4. Step(a, h, m) = SummaryRest(h, 7, h[6])
      <4>1. pfs_system_summary(h) = SummaryRest(h, 7, h[6])
        BY <3>1, <3>2, <3>3
      <4>2. Step(a, h, m) = pfs_system_summary(h)
        BY <1>3
      <4> QED
        BY <4>1, <4>2
    <3>5. SummaryRest(h, 7, h[6]).do = "answer"
      BY <3>1, SummaryRestEnds, Zenon
    <3> QED
      BY <3>4, <3>5
  <2>2. Len(g) <= 9
    BY <1>2, <2>1
  <2>3. k.next = SummaryRest(g, 7, g[6])
    <3>1. ~(Len(g) < 5) /\ ~(Len(g) < 6) /\ g[3].kind = "404" /\ g[4].kind = "404" /\ AdminApi /\ ~Failed(g[5]) /\ g[5].kind # "empty" => pfs_system_summary(g) = SummaryRest(g, 7, g[6])
      BY <1>1, SummaryThen
    <3>2. ~(Len(g) < 5) /\ ~(Len(g) < 6) /\ g[3].kind = "404" /\ g[4].kind = "404" /\ AdminApi /\ ~Failed(g[5]) /\ g[5].kind # "empty"
      BY <1>5, <1>12
    <3>3. pfs_system_summary(g) = SummaryRest(g, 7, g[6])
      BY <3>1, <3>2
    <3> QED
      BY <1>4, <3>3
  <2>4. k.next = Say(SummarySays(g, 7, g[6]))
    <3>1. SummaryRest(g, 7, g[6]).do = "answer"
      BY <1>1, <2>3
    <3>2. SummaryRest(g, 7, g[6]) = Say(SummarySays(g, 7, g[6]))
      BY <3>1, SummaryRestEnds, Zenon
    <3> QED
      BY <2>3, <3>2
  <2>5. k.next.warnings = SummarySays(g, 7, g[6])
    BY <2>4, Fields
  <2>6. /\ \A i : i \in {1, 7, 7 + 1, 7 + 2} /\ Failed(g[i]) => g[i].path \in k.next.warnings
        /\ Failed(g[2]) => g[2].path \in k.next.warnings
        /\ Failed(g[6]) => g[6].path \in k.next.warnings
    BY <2>5, SummaryNames
  <2>7. \A i \in 1..9 : i \in {1, 7, 7 + 1, 7 + 2} \/ i \in {2, 3, 4, 5, 6}
    OBVIOUS
  <2> QED
    BY <1>1, <1>7, <1>8, <1>12, <2>2, <2>6, <2>7 DEF Whole
<1> QED
  BY <1>9, <1>10, <1>11, <1>12

\* Every tool's answer is whole.
LEMMA AnswersAreWhole ==
  ASSUME NEW k, Heard(k), k.args.tool \in AllTools
  PROVE  Whole(k)
<1> DEFINE t == k.args.tool
<1>1. \/ t \in {"pve_get_version", "pve_list_nodes", "pve_get_cluster_config_nodes",
                "pve_get_cluster_options", "pve_list_tasks", "pve_get_task_log",
                "pve_list_resources", "pve_get_node_status", "pve_get_guest_status",
                "pve_get_guest_config", "pve_list_ceph_osds"}
      \/ t \in {"pve_cluster_health", "pve_get_ha_status", "pve_check_token",
                "pve_list_node_addresses", "pve_list_guests", "pve_list_storage"}
      \/ t = "pve_get_ceph_status" \/ t = "pve_wait_for_task"
      \/ t = "pve_start_guest" \/ t \in Stops
      \/ t \in {"truenas_create_dataset", "truenas_update_nfs_share"} \/ t = "truenas_dismiss_alert"
      \/ t \in NasReads
      \/ t \in PfsReads \ {"pfs_get_tailscale_status", "pfs_system_summary"}
      \/ t = "pfs_get_tailscale_status" \/ t = "pfs_system_summary"
  BY DEF AllTools, PveTools, PveReads, PveWrites, PveDestructive, NasWrites, Stops
<1> QED
  BY <1>1, PveReadsOfOne, PveReadsOfSeveral, CephIsWhole, WaitIsWhole, StartIsWhole, StopIsWhole,
     JobIsWhole, DismissIsWhole, NasReadsAreWhole, PfsReadsAreWhole, TailscaleStatusIsWhole, SummaryIsWhole

-----------------------------------------------------------------------------
(* A call goes on.                                                         *)

\* What a call waits for, by what it does next.
LEMMA Phases ==
  ASSUME NEW a, NEW s, NEW g, NEW late
  PROVE  /\ s.do = "answer" => Waiting(a, s, g, late) = "answered"
         /\ Polls(s, g, late) => Waiting(a, s, g, late) = "sleep"
         /\ s.do # "answer" /\ ~Polls(s, g, late) =>
              Waiting(a, s, g, late) = IF a.tool \in PveTools THEN "line" ELSE "sent"
<1>1. s.do = "answer" => ~Polls(s, g, late)
  BY DEF Polls
<1>2. s.do = "answer" => Waiting(a, s, g, late) = "answered"
  BY <1>1, Zenon DEF Waiting
<1>3. Polls(s, g, late) => Waiting(a, s, g, late) = "sleep"
  BY <1>1, Zenon DEF Waiting
<1>4. s.do # "answer" /\ ~Polls(s, g, late) =>
        Waiting(a, s, g, late) = IF a.tool \in PveTools THEN "line" ELSE "sent"
  BY Zenon DEF Waiting
<1> QED
  BY <1>2, <1>3, <1>4

\* Patience with the outcomes so far is patience with those before them.
LEMMA PatientBefore ==
  ASSUME NEW a, NEW g, Sequence(g), NEW late, Patient(a, g, late), NEW n \in 0..Len(g)
  PROVE  Patient(a, SubSeq(g, 1, n), late)
<1>1. /\ DOMAIN g = 1..Len(g) /\ Len(g) \in Nat /\ DOMAIN SubSeq(g, 1, n) = 1..n
      /\ \A i \in 1..n : SubSeq(g, 1, n)[i] = g[i]
  BY Beginning, Indices
<1> QED
  BY <1>1 DEF Patient

\* A call that was in order goes on in order.
LEMMA GoesOn ==
  ASSUME NEW a, a.tool \in AllTools, a \in Arguments(a.tool), ~Rejected(a),
         NEW g, Sequence(g), History(a, g), NEW late \in BOOLEAN,
         \/ Patient(a, g, late)
         \/ /\ late = FALSE /\ g # <<>> /\ Patient(a, SubSeq(g, 1, Len(g) - 1), FALSE)
            /\ g[Len(g)].kind = "running" /\ g[Len(g)].path = TaskStatus,
         NEW k, LET s == Step(a, g, late)
                IN k = [args |-> a, got |-> g, late |-> late, next |-> s, phase |-> Waiting(a, s, g, late)]
  PROVE  Underway(k) /\ Concluded(k) /\ k.phase \in Active \cup {"answered"}
<1> DEFINE s == Step(a, g, late)
           phase == Waiting(a, s, g, late)
<1>1. k.args = a /\ k.got = g /\ k.late = late /\ k.next = s /\ k.phase = phase
  OBVIOUS
<1>2. /\ s.do = "answer" => phase = "answered"
      /\ Polls(s, g, late) => phase = "sleep"
      /\ s.do # "answer" /\ ~Polls(s, g, late) => phase = IF a.tool \in PveTools THEN "line" ELSE "sent"
  BY Phases
<1> HIDE DEF s, phase
<1>3. phase \in Active \cup {"answered"}
  BY <1>2 DEF Active
<1>4. Patient(a, g, late) \/ Polls(s, g, late)
  <2>1. SUFFICES ASSUME ~Patient(a, g, late)
                 PROVE  Polls(s, g, late)
    OBVIOUS
  <2>2. a.tool \in Waiters
    BY <2>1 DEF Patient
  <2> QED
    BY <2>1, <2>2, WaitPolls DEF s
<1>5. ASSUME phase \in {"line", "sent"}
      PROVE  /\ Patient(a, g, late) /\ Made(a, g, s.path)
             /\ s.do = "post" => a.tool \notin Reads /\ Len(g) + 1 = PostAt(a.tool)
  <2>1. Patient(a, g, late) /\ s.do # "answer"
    BY <1>2, <1>4, <1>5
  <2>2. Made(a, g, s.path)
    BY <2>1 DEF Made, s
  <2>3. s.do = "post" => a.tool \notin Reads /\ Len(g) + 1 = PostAt(a.tool)
    BY OnlyWritesPost DEF s
  <2> QED
    BY <2>1, <2>2, <2>3
<1>6. ASSUME phase = "sleep"
      PROVE  /\ g # <<>> /\ s.do # "post" /\ Patient(a, SubSeq(g, 1, Len(g) - 1), late)
             /\ a.tool \notin Reads => Len(g) > PostAt(a.tool)
  <2>1. Polls(s, g, late)
    BY <1>2, <1>6
  <2>2. g # <<>> /\ s.do # "post"
    BY <2>1 DEF Polls
  <2>3. Patient(a, SubSeq(g, 1, Len(g) - 1), late)
    <3>1. Len(g) - 1 \in 0..Len(g)
      BY <2>2, Indices
    <3> QED
      BY <3>1, PatientBefore
  <2>4. a.tool \notin Reads => Len(g) > PostAt(a.tool)
    BY <2>1, PollsLater DEF s
  <2> QED
    BY <2>2, <2>3, <2>4
<1>7. Underway(k)
  BY <1>1, <1>5, <1>6 DEF Underway, Active
<1>8. Concluded(k)
  <2>1. SUFFICES ASSUME phase = "answered"
                 PROVE  Patient(a, g, late) /\ s.do = "answer"
    BY <1>1 DEF Concluded, s
  <2> QED
    BY <1>2, <1>4, <2>1
<1> QED
  BY <1>1, <1>3, <1>7, <1>8

\* What is in the line when one joins it, when the first one leaves it, and
\* when another one leaves it.
LEMMA Joins ==
  ASSUME NEW q \in Seq(Calls), NEW c \in Calls
  PROVE  /\ Append(q, c) \in Seq(Calls) /\ DOMAIN Append(q, c) = 1..(Len(q) + 1) /\ Len(q) \in Nat
         /\ DOMAIN q = 1..Len(q) /\ \A i \in 1..Len(q) : Append(q, c)[i] = q[i]
         /\ Append(q, c)[Len(q) + 1] = c
OBVIOUS

\* A line that one leaves has the others in their order.
LEMMA Leaves ==
  ASSUME NEW q \in Seq(Calls), NEW i \in DOMAIN q
  PROVE  LET r == RemoveAt(q, i)
         IN /\ r \in Seq(Calls)
            /\ \A j \in DOMAIN r : IF j < i THEN j \in DOMAIN q /\ r[j] = q[j]
                                   ELSE j \in Nat /\ j + 1 \in DOMAIN q /\ r[j] = q[j + 1]
<1> DEFINE A == SubSeq(q, 1, i - 1)
           B == SubSeq(q, i + 1, Len(q))
           r == RemoveAt(q, i)
<1>1. i \in 1..Len(q) /\ Len(q) \in Nat
  OBVIOUS
<1>2. A \in Seq(Calls) /\ Len(A) = i - 1 /\ \A j \in 1..(i - 1) : A[j] = q[j]
  BY <1>1, SubSeqProperties
<1>3. B \in Seq(Calls) /\ Len(B) = Len(q) - i /\ \A j \in 1..(Len(q) - i) : B[j] = q[i + j]
  BY <1>1, SubSeqProperties
<1>4. r = A \o B
  BY DEF RemoveAt
<1> HIDE DEF A, B, r
<1>5. /\ r \in Seq(Calls) /\ Len(r) = Len(q) - 1
      /\ \A j \in 1..(Len(q) - 1) : r[j] = IF j <= i - 1 THEN A[j] ELSE B[j - (i - 1)]
  BY <1>1, <1>2, <1>3, <1>4
<1>6. ASSUME NEW j \in DOMAIN r
      PROVE  IF j < i THEN j \in DOMAIN q /\ r[j] = q[j] ELSE j \in Nat /\ j + 1 \in DOMAIN q /\ r[j] = q[j + 1]
  <2>1. j \in 1..(Len(q) - 1)
    BY <1>1, <1>5, <1>6
  <2>2. CASE j < i
    BY <1>1, <1>2, <1>5, <2>1, <2>2
  <2>3. CASE ~(j < i)
    <3>1. r[j] = B[j - (i - 1)] /\ j - (i - 1) \in 1..(Len(q) - i)
      BY <1>1, <1>5, <2>1, <2>3
    <3>2. i + (j - (i - 1)) = j + 1
      BY <1>1, <2>1
    <3> QED
      BY <1>1, <1>3, <2>1, <2>3, <3>1, <3>2
  <2> QED
    BY <2>2, <2>3
<1> QED
  BY <1>5, <1>6 DEF r

-----------------------------------------------------------------------------
(* The invariant.                                                          *)

\* A step of one call keeps the invariant of the others.
LEMMA OthersKeep ==
  ASSUME Inv, NEW c \in Calls,
         call' = [d \in Calls |-> call'[d]], \A d \in Calls \ {c} : call'[d] = call[d],
         Shaped(call'[c]), Underway(call'[c]), Concluded(call'[c]),
         task' = [d \in Calls |-> task'[d]],
         \A d \in Calls : task'[d] \in {"none", "running", "well", "ill"},
         line' \in Seq(Calls), Queued',
         posts' \in [Calls -> Nat], \A d \in Calls \ {c} : posts'[d] = posts[d],
         flipped' \subseteq flipped \cup {c}, joined' = joined, ha' = ha,
         Spent(c)', Looked(c)'
  PROVE  Inv'
<1>1. Formed'
  <2>1. /\ flipped' \subseteq Calls /\ joined' \subseteq Calls /\ ha' \in BOOLEAN
        /\ \A d \in Calls : Shaped(call'[d])
    BY DEF Inv, Formed
  <2> QED
    BY <2>1 DEF Formed
<1>2. ASSUME NEW d \in Calls
      PROVE  Underway(call'[d]) /\ Concluded(call'[d]) /\ Spent(d)' /\ Looked(d)'
  <2>1. CASE d = c
    BY <2>1
  <2>2. CASE d # c
    <3>1. call'[d] = call[d] /\ posts'[d] = posts[d] /\ (d \in flipped' => d \in flipped)
      BY <2>2
    <3>2. Underway(call[d]) /\ Concluded(call[d]) /\ Spent(d) /\ Looked(d)
      BY DEF Inv
    <3>3. Spent(d)'
      BY <3>1, <3>2 DEF Spent
    <3>4. Looked(d)'
      BY <3>1, <3>2 DEF Looked
    <3> QED
      BY <3>1, <3>2, <3>3, <3>4
  <2> QED
    BY <2>1, <2>2
<1> QED
  BY <1>1, <1>2 DEF Inv

\* A call that goes on keeps its own invariant, and that of the line.
LEMMA Proceeding ==
  ASSUME Inv, NEW c \in Calls, call[c].phase # "line",
         NEW a, a.tool \in AllTools, a \in Arguments(a.tool), ~Rejected(a),
         NEW g, Sequence(g), History(a, g), NEW late \in BOOLEAN,
         \/ Patient(a, g, late)
         \/ /\ late = FALSE /\ g # <<>> /\ Patient(a, SubSeq(g, 1, Len(g) - 1), FALSE)
            /\ g[Len(g)].kind = "running" /\ g[Len(g)].path = TaskStatus,
         Proceed(c, a, g, late)
  PROVE  /\ call' = [d \in Calls |-> call'[d]] /\ \A d \in Calls \ {c} : call'[d] = call[d]
         /\ Shaped(call'[c]) /\ Underway(call'[c]) /\ Concluded(call'[c])
         /\ call'[c].args = a /\ call'[c].got = g /\ call'[c].phase \in Active \cup {"answered"}
         /\ line' \in Seq(Calls) /\ Queued'
<1> DEFINE s == Step(a, g, late)
           phase == Waiting(a, s, g, late)
           k == [args |-> a, got |-> g, late |-> late, next |-> s, phase |-> phase]
<1>1. Formed /\ Queued
  BY DEF Inv
<1>2. call' = [call EXCEPT ![c] = k] /\ line' = IF phase = "line" THEN Append(line, c) ELSE line
  BY Zenon DEF Proceed
<1>3. Underway(k) /\ Concluded(k) /\ k.phase \in Active \cup {"answered"}
  BY GoesOn, Zenon
<1>4. Shaped(k) /\ k.args = a /\ k.got = g /\ k.phase = phase
  BY DEF Shaped
<1> HIDE DEF s, phase, k
<1>5. call = [d \in Calls |-> call[d]]
  BY <1>1 DEF Formed
<1>6. /\ call' = [d \in Calls |-> call'[d]] /\ call'[c] = k
      /\ \A d \in Calls \ {c} : call'[d] = call[d]
  BY <1>2, <1>5
<1>7. line' \in Seq(Calls) /\ Queued'
  <2>1. /\ line \in Seq(Calls) /\ \A i \in DOMAIN line : call[line[i]].phase = "line"
        /\ \A i, j \in DOMAIN line : line[i] = line[j] => i = j
    BY <1>1 DEF Formed, Queued
  <2>2. \A i \in DOMAIN line : line[i] \in Calls \ {c} /\ call'[line[i]].phase = "line"
    BY <1>6, <2>1
  <2>3. CASE phase # "line"
    BY <1>2, <2>1, <2>2, <2>3 DEF Queued
  <2>4. CASE phase = "line"
    <3>1. line' = Append(line, c) /\ call'[c].phase = "line"
      BY <1>2, <1>4, <1>6, <2>4
    <3>2. /\ line' \in Seq(Calls) /\ DOMAIN line' = 1..(Len(line) + 1) /\ Len(line) \in Nat
          /\ DOMAIN line = 1..Len(line) /\ \A i \in 1..Len(line) : line'[i] = line[i]
          /\ line'[Len(line) + 1] = c
      BY <2>1, <3>1, Joins
    <3>3. \A i \in DOMAIN line' : call'[line'[i]].phase = "line"
      BY <2>2, <3>1, <3>2
    <3>4. ASSUME NEW i \in DOMAIN line', NEW j \in DOMAIN line', line'[i] = line'[j]
          PROVE  i = j
      <4>1. i \in 1..Len(line) \/ i = Len(line) + 1
        BY <3>2
      <4>2. j \in 1..Len(line) \/ j = Len(line) + 1
        BY <3>2
      <4> QED
        BY <2>1, <2>2, <3>2, <3>4, <4>1, <4>2
    <3> QED
      BY <3>2, <3>3, <3>4 DEF Queued
  <2> QED
    BY <2>3, <2>4
<1> QED
  BY <1>3, <1>4, <1>6, <1>7

\* What a change does besides.
LEMMA Effects ==
  ASSUME Inv, NEW c \in Calls, NEW effect \in BOOLEAN, Happens(c, effect)
  PROVE  /\ posts' \in [Calls -> Nat] /\ \A d \in Calls \ {c} : posts'[d] = posts[d]
         /\ posts'[c] # posts[c] => effect
         /\ task' = [d \in Calls |-> task'[d]]
         /\ \A d \in Calls : task'[d] \in {"none", "running", "well", "ill"}
         /\ flipped' \subseteq flipped \cup {c}
         /\ c \in flipped' \ flipped => effect /\ ha /\ call[c].args.tool \in Stops
<1>1. /\ posts \in [Calls -> Nat] /\ task = [d \in Calls |-> task[d]]
      /\ \A d \in Calls : task[d] \in {"none", "running", "well", "ill"}
  BY DEF Inv, Formed
<1>2. CASE ~effect
  <2>1. posts' = posts /\ task' = task /\ flipped' = flipped
    BY <1>2 DEF Happens
  <2> QED
    BY <1>1, <2>1
<1>3. CASE effect
  <2>1. /\ posts' = [posts EXCEPT ![c] = @ + 1] /\ task' = [task EXCEPT ![c] = "running"]
        /\ flipped' = IF ha /\ call[c].args.tool \in Stops THEN flipped \cup {c} ELSE flipped
    BY <1>3 DEF Happens
  <2> QED
    BY <1>1, <1>3, <2>1
<1> QED
  BY <1>2, <1>3

\* A tool that stops guests has asked what is under HA before it changes
\* anything, whatever it is told.
LEMMA LooksFirst ==
  ASSUME NEW k, Underway(k), k.phase \in {"line", "sent"}, Sequence(k.got), k.args.tool \in Stops
  PROVE  /\ k.got = <<>> => k.next.path = HaCurrent
         /\ k.next.do = "post" => k.got # <<>>
<1>1. Made(k.args, k.got, k.next.path) /\ (k.next.do = "post" => Len(k.got) + 1 = PostAt(k.args.tool))
  BY DEF Underway, Active
<1>2. ASSUME k.got = <<>>
      PROVE  k.next.path = HaCurrent
  <2>1. PICK l \in BOOLEAN : Step(k.args, k.got, l).path = k.next.path
    BY <1>1 DEF Made
  <2>2. Step(k.args, k.got, l) = Ask(HaCurrent)
    BY <1>2, StopsLook
  <2> QED
    BY <2>1, <2>2, Fields
<1>3. ASSUME k.next.do = "post"
      PROVE  k.got # <<>>
  <2>1. Len(k.got) \in Nat /\ (k.got = <<>> <=> Len(k.got) = 0)
    BY Indices
  <2>2. Len(k.got) + 1 = 2
    BY <1>1, <1>3 DEF PostAt
  <2> QED
    BY <2>1, <2>2
<1> QED
  BY <1>2, <1>3

\* The outcome of a request, whether it is a reply or a failure.
LEMMA OutcomeKeeps ==
  ASSUME Inv, NEW c \in Calls, call[c].phase = "sent", NEW kind,
         kind = "running" => call[c].next.path = TaskStatus,
         (call[c].args.tool \in Stops /\ call[c].next.path = HaCurrent /\ call[c].next.do # "post") =>
           (kind \in Failures \/ kind = IF ha THEN "ill" ELSE "well"),
         Proceed(c, call[c].args, After(call[c], kind), call[c].late),
         NEW effect \in BOOLEAN, effect => call[c].next.do = "post",
         Happens(c, effect), ha' = ha, joined' = joined
  PROVE  Inv'
<1> DEFINE a == call[c].args
           g == call[c].got
           l == call[c].late
           o == [path |-> call[c].next.path, kind |-> kind]
           h == Append(g, o)
           k == call'[c]
<1>1. Underway(call[c]) /\ Spent(c) /\ Looked(c) /\ Sequence(g) /\ l \in BOOLEAN
  BY DEF Inv, Formed, Shaped
<1>2. /\ a.tool \in AllTools /\ a \in Arguments(a.tool) /\ ~Rejected(a) /\ History(a, g)
      /\ Patient(a, g, l) /\ Made(a, g, call[c].next.path)
      /\ call[c].next.do = "post" => a.tool \notin Reads /\ Len(g) + 1 = PostAt(a.tool)
  BY <1>1 DEF Underway, Active
<1>3. Proceed(c, a, h, l)
  BY DEF After
<1>4. o.path = call[c].next.path /\ o.kind = kind
  OBVIOUS
<1> HIDE DEF o, k
<1>5. /\ Sequence(h) /\ Len(h) = Len(g) + 1 /\ h[Len(h)] = o /\ h # <<>> /\ SubSeq(h, 1, Len(g)) = g
      /\ Len(g) \in Nat /\ DOMAIN g = 1..Len(g) /\ DOMAIN h = 1..Len(h)
      /\ \A i \in 1..Len(g) : h[i] = g[i]
  <2>1. PICK S : g \in Seq(S)
    BY <1>1 DEF Sequence
  <2>2. SubSeq(g, 1, Len(g)) = g
    BY <2>1, SubSeqFull
  <2> QED
    BY <1>1, <2>2, Appending, Indices
<1>6. History(a, h)
  BY <1>1, <1>2, <1>4, HistoryGrows
<1> HIDE DEF h
<1>7. \/ Patient(a, h, l)
      \/ /\ l = FALSE /\ h # <<>> /\ Patient(a, SubSeq(h, 1, Len(h) - 1), FALSE)
         /\ h[Len(h)].kind = "running" /\ h[Len(h)].path = TaskStatus
  <2>1. CASE kind = "running" /\ l = FALSE
    <3>1. Len(h) - 1 = Len(g)
      BY <1>5
    <3> QED
      BY <1>2, <1>4, <1>5, <2>1, <3>1
  <2>2. CASE kind # "running" \/ l # FALSE
    <3>1. SUFFICES ASSUME a.tool \in Waiters, NEW i \in DOMAIN h, h[i].kind = "running"
                   PROVE  l = TRUE
      BY DEF Patient
    <3>2. CASE i \in 1..Len(g)
      <4>1. i \in DOMAIN g /\ g[i].kind = "running"
        BY <1>5, <3>1, <3>2
      <4> QED
        BY <1>2, <3>1, <4>1 DEF Patient
    <3>3. CASE i = Len(h)
      <4>1. kind = "running"
        BY <1>4, <1>5, <3>1, <3>3
      <4> QED
        BY <1>1, <2>2, <4>1, Zenon
    <3>4. i \in 1..Len(g) \/ i = Len(h)
      BY <1>5
    <3> QED
      BY <3>2, <3>3, <3>4
  <2> QED
    BY <2>1, <2>2
<1>8. /\ call' = [d \in Calls |-> call'[d]] /\ \A d \in Calls \ {c} : call'[d] = call[d]
      /\ Shaped(k) /\ Underway(k) /\ Concluded(k)
      /\ k.args = a /\ k.got = h /\ k.phase \in Active \cup {"answered"}
      /\ line' \in Seq(Calls) /\ Queued'
  BY <1>1, <1>2, <1>3, <1>5, <1>6, <1>7, Proceeding DEF k
<1>9. /\ posts' \in [Calls -> Nat] /\ \A d \in Calls \ {c} : posts'[d] = posts[d]
      /\ posts'[c] # posts[c] => effect
      /\ task' = [d \in Calls |-> task'[d]]
      /\ \A d \in Calls : task'[d] \in {"none", "running", "well", "ill"}
      /\ flipped' \subseteq flipped \cup {c}
      /\ c \in flipped' \ flipped => effect /\ ha /\ a.tool \in Stops
  BY Effects
<1>10. Spent(c)'
  <2>1. SUFFICES ASSUME posts'[c] > 0
                 PROVE  k.phase # "idle" /\ k.args.tool \notin Reads /\ Len(k.got) >= PostAt(k.args.tool)
    BY DEF Spent, k
  <2>2. a.tool \notin Reads /\ (Len(g) >= PostAt(a.tool) \/ Len(g) + 1 = PostAt(a.tool))
    <3>1. CASE effect
      BY <1>2, <3>1
    <3>2. CASE posts'[c] = posts[c]
      BY <1>1, <2>1, <3>2 DEF Spent, Active
    <3> QED
      BY <1>9, <3>1, <3>2
  <2>3. PostAt(a.tool) \in Nat
    BY DEF PostAt
  <2>4. k.phase # "idle"
    BY <1>8 DEF Active
  <2> QED
    BY <1>5, <1>8, <2>2, <2>3, <2>4
<1>11. Looked(c)'
  <2>1. ASSUME a.tool \in Stops
        PROVE  /\ h[1].path = HaCurrent /\ h[1].kind \in {"ill", "well"} \cup Failures
               /\ h[1].kind = "well" => ~ha \/ c \in joined
    <3>1. (g = <<>> => call[c].next.path = HaCurrent) /\ (call[c].next.do = "post" => g # <<>>)
      BY <1>1, <2>1, LooksFirst
    <3>2. CASE g = <<>>
      <4>1. h[1] = o
        BY <1>1, <1>5, <3>2, Indices
      <4>2. kind \in Failures \/ kind = IF ha THEN "ill" ELSE "well"
        BY <2>1, <3>1, <3>2
      <4>3. ha \in BOOLEAN /\ "well" \notin Failures
        BY DEF Inv, Formed, Failures, Transport, Statuses
      <4> QED
        BY <1>4, <3>1, <3>2, <4>1, <4>2, <4>3
    <3>3. CASE g # <<>>
      <4>1. h[1] = g[1]
        BY <1>1, <1>5, <3>3, Indices
      <4> QED
        BY <1>1, <2>1, <3>3, <4>1 DEF Looked, Active
    <3> QED
      BY <3>2, <3>3
  <2>2. ASSUME c \in flipped'
        PROVE  k.phase # "idle" /\ a.tool \in Stops /\ (c \in joined \/ h[1].kind # "well")
    <3>1. CASE c \in flipped
      <4>1. a.tool \in Stops /\ g # <<>> /\ (c \in joined \/ g[1].kind # "well")
        BY <1>1, <3>1 DEF Looked
      <4>2. h[1] = g[1]
        BY <1>1, <1>5, <4>1, Indices
      <4> QED
        BY <1>8, <4>1, <4>2 DEF Active
    <3>2. CASE c \notin flipped
      <4>1. effect /\ ha /\ a.tool \in Stops
        BY <1>9, <2>2, <3>2
      <4> QED
        BY <1>8, <2>1, <4>1 DEF Active
    <3> QED
      BY <3>1, <3>2
  <2> QED
    BY <1>5, <1>8, <2>1, <2>2 DEF Looked, k
<1> QED
  BY <1>8, <1>9, <1>10, <1>11, OthersKeep DEF k

\* How a request that fails fails.
LEMMA KindsOfFailure ==
  ASSUME NEW t
  PROVE  FailsBy(t) \subseteq Failures /\ "running" \notin Failures
BY KindsAssumption DEF FailsBy, Failures, Transport, Statuses

\* So an answer to a request keeps the invariant ...
LEMMA ReplyKeeps ==
  ASSUME Inv, NEW c \in Calls, Reply(c)
  PROVE  Inv'
<1> DEFINE k == call[c]
<1>1. /\ k.phase = "sent" /\ ha' = ha /\ joined' = joined
      /\ Happens(c, k.next.do = "post")
  BY DEF Reply
<1>2. PICK kind \in Contents(c) : Proceed(c, k.args, After(k, kind), k.late)
  BY DEF Reply
<1>3. kind = "running" => k.next.path = TaskStatus
  BY <1>2 DEF Contents
<1>4. (k.args.tool \in Stops /\ k.next.path = HaCurrent /\ k.next.do # "post") =>
        kind = IF ha THEN "ill" ELSE "well"
  BY <1>2 DEF Contents, HaCurrent, TaskStatus
<1> QED
  BY <1>1, <1>2, <1>3, <1>4, OutcomeKeeps

\* ... and a request that fails ...
LEMMA FailsKeeps ==
  ASSUME Inv, NEW c \in Calls, Fails(c)
  PROVE  Inv'
<1> DEFINE k == call[c]
<1>1. k.phase = "sent" /\ ha' = ha /\ joined' = joined
  BY DEF Fails
<1>2. PICK kind \in FailsBy(k.args.tool) :
        /\ Proceed(c, k.args, After(k, kind), k.late)
        /\ \E effect \in {FALSE, k.next.do = "post" /\ kind \in Unclear} : Happens(c, effect)
  BY DEF Fails
<1>3. PICK effect \in {FALSE, k.next.do = "post" /\ kind \in Unclear} : Happens(c, effect)
  BY <1>2
<1>4. effect \in BOOLEAN /\ (effect => k.next.do = "post")
  BY <1>3
<1>5. kind \in Failures /\ kind # "running"
  BY <1>2, KindsOfFailure
<1> QED
  BY <1>1, <1>2, <1>3, <1>4, <1>5, OutcomeKeeps

\* A call of which one field is set.
LEMMA FieldSet ==
  ASSUME Formed, NEW c \in Calls, NEW v,
         \/ call' = [call EXCEPT ![c].phase = v]
         \/ v \in BOOLEAN /\ call' = [call EXCEPT ![c].late = v]
  PROVE  /\ call' = [d \in Calls |-> call'[d]] /\ \A d \in Calls \ {c} : call'[d] = call[d]
         /\ Shaped(call'[c]) /\ call'[c].args = call[c].args /\ call'[c].got = call[c].got
         /\ call'[c].next = call[c].next
         /\ call' = [call EXCEPT ![c].phase = v] => call'[c].phase = v /\ call'[c].late = call[c].late
         /\ call' = [call EXCEPT ![c].late = v] => call'[c].late = v /\ call'[c].phase = call[c].phase
<1>1. call = [d \in Calls |-> call[d]] /\ Shaped(call[c])
  BY DEF Formed
<1>2. call[c] = [args |-> call[c].args, got |-> call[c].got, late |-> call[c].late,
                 next |-> call[c].next, phase |-> call[c].phase]
  BY <1>1 DEF Shaped
<1>3. CASE call' = [call EXCEPT ![c].phase = v]
  <2>1. /\ call' = [d \in Calls |-> call'[d]] /\ \A d \in Calls \ {c} : call'[d] = call[d]
        /\ call'[c] = [args |-> call[c].args, got |-> call[c].got, late |-> call[c].late,
                       next |-> call[c].next, phase |-> v]
    BY <1>1, <1>2, <1>3
  <2>2. call' = [call EXCEPT ![c].late = v] => call'[c].late = v /\ call'[c].phase = call[c].phase
    BY <1>1, <1>2
  <2> QED
    BY <1>1, <2>1, <2>2 DEF Shaped
<1>4. CASE v \in BOOLEAN /\ call' = [call EXCEPT ![c].late = v]
  <2>1. /\ call' = [d \in Calls |-> call'[d]] /\ \A d \in Calls \ {c} : call'[d] = call[d]
        /\ call'[c] = [args |-> call[c].args, got |-> call[c].got, late |-> v,
                       next |-> call[c].next, phase |-> call[c].phase]
    BY <1>1, <1>2, <1>4
  <2>2. call' = [call EXCEPT ![c].phase = v] => call'[c].phase = v /\ call'[c].late = call[c].late
    BY <1>1, <1>2
  <2> QED
    BY <1>1, <1>4, <2>1, <2>2 DEF Shaped
<1> QED
  BY <1>3, <1>4

\* Those in the line wait in it when another call goes on.
LEMMA LineKeeps ==
  ASSUME Inv, NEW c \in Calls, call[c].phase # "line", line' = line,
         \A d \in Calls \ {c} : call'[d] = call[d]
  PROVE  line' \in Seq(Calls) /\ Queued'
<1>1. line \in Seq(Calls) /\ Queued
  BY DEF Inv, Formed
<1>2. \A i \in DOMAIN line : line[i] \in Calls
  BY <1>1
<1>3. \A i \in DOMAIN line : line[i] \in Calls \ {c} /\ call'[line[i]].phase = "line"
  BY <1>1, <1>2 DEF Queued
<1> QED
  BY <1>1, <1>3 DEF Queued

\* ... and the beginning of a call ...
LEMMA BeginKeeps ==
  ASSUME Inv, NEW c \in Calls, Begin(c)
  PROVE  Inv'
<1>1. /\ Formed /\ Queued /\ Spent(c) /\ Looked(c) /\ call[c].phase = "idle"
      /\ ha' = ha /\ joined' = joined /\ posts' = posts /\ flipped' = flipped
  BY DEF Inv, Begin, history
<1>2. posts[c] = 0 /\ c \notin flipped
  BY <1>1 DEF Formed, Spent, Looked
<1>t. PICK t \in Offered[c] : \E a \in Arguments(t) :
        /\ IF Rejected(a)
           THEN /\ call' = [call EXCEPT ![c] = [Idle EXCEPT !.args = a, !.next = Raise("INTERNAL_ERROR"),
                                                            !.phase = "answered"]]
                /\ UNCHANGED line
           ELSE Proceed(c, a, <<>>, FALSE)
        /\ task' = [task EXCEPT ![c] = IF t = "pve_wait_for_task" THEN "running" ELSE @]
  BY DEF Begin
<1>3. PICK a \in Arguments(t) :
        /\ IF Rejected(a)
           THEN /\ call' = [call EXCEPT ![c] = [Idle EXCEPT !.args = a, !.next = Raise("INTERNAL_ERROR"),
                                                            !.phase = "answered"]]
                /\ UNCHANGED line
           ELSE Proceed(c, a, <<>>, FALSE)
        /\ task' = [task EXCEPT ![c] = IF t = "pve_wait_for_task" THEN "running" ELSE @]
  BY <1>t
<1>4. a.tool = t /\ a.tool \in AllTools /\ a \in Arguments(a.tool)
  BY <1>3, OfferedAssumption DEF Arguments
<1>5. /\ task' = [d \in Calls |-> task'[d]]
      /\ \A d \in Calls : task'[d] \in {"none", "running", "well", "ill"}
  BY <1>1, <1>3 DEF Formed
<1>6. posts' \in [Calls -> Nat]
  BY <1>1 DEF Formed
<1>7. Sequence(<<>>)
  <2>1. <<>> \in Seq({})
    OBVIOUS
  <2> QED
    BY <2>1 DEF Sequence
<1>8. CASE Rejected(a)
  <2> DEFINE k == [Idle EXCEPT !.args = a, !.next = Raise("INTERNAL_ERROR"), !.phase = "answered"]
  <2>2. call' = [call EXCEPT ![c] = k] /\ line' = line
    BY <1>3, <1>8
  <2>r. k \in [args : {a}, got : {<<>>}, late : {FALSE}, next : {Raise("INTERNAL_ERROR")},
              phase : {"answered"}]
    BY DEF Idle
  <2> HIDE DEF k
  <2>1. k = [args |-> a, got |-> <<>>, late |-> FALSE, next |-> Raise("INTERNAL_ERROR"), phase |-> "answered"]
    BY <2>r
  <2>3. /\ call' = [d \in Calls |-> call'[d]] /\ call'[c] = k
        /\ \A d \in Calls \ {c} : call'[d] = call[d]
    BY <1>1, <2>2 DEF Formed
  <2>4. /\ k.args = a /\ k.got = <<>> /\ k.late = FALSE /\ ~k.next.ok
        /\ k.next = Raise("INTERNAL_ERROR") /\ k.phase = "answered"
    BY <2>1, Fields
  <2>5. Shaped(k)
    BY <1>7, <2>1, <2>4 DEF Shaped
  <2>6. Underway(k) /\ Concluded(k)
    BY <2>4 DEF Underway, Concluded, Active
  <2>7. Spent(c)' /\ Looked(c)'
    BY <1>1, <1>2, <2>3, <2>4 DEF Spent, Looked
  <2>8. line' \in Seq(Calls) /\ Queued'
    BY <1>1, <2>2, <2>3, LineKeeps
  <2> QED
    BY <1>1, <1>5, <1>6, <2>3, <2>5, <2>6, <2>7, <2>8, OthersKeep
<1>9. CASE ~Rejected(a)
  <2>1. Proceed(c, a, <<>>, FALSE)
    BY <1>3, <1>9
  <2>2. History(a, <<>>) /\ Patient(a, <<>>, FALSE)
    BY DEF History, Patient
  <2>3. /\ call' = [d \in Calls |-> call'[d]] /\ \A d \in Calls \ {c} : call'[d] = call[d]
        /\ Shaped(call'[c]) /\ Underway(call'[c]) /\ Concluded(call'[c])
        /\ call'[c].args = a /\ call'[c].got = <<>>
        /\ line' \in Seq(Calls) /\ Queued'
    BY <1>1, <1>4, <1>7, <1>9, <2>1, <2>2, Proceeding
  <2>4. Spent(c)' /\ Looked(c)'
    BY <1>1, <1>2, <2>3 DEF Spent, Looked
  <2> QED
    BY <1>1, <1>5, <1>6, <2>3, <2>4, OthersKeep
<1> QED
  BY <1>8, <1>9

\* ... and a request that is let in ...
LEMMA SendKeeps ==
  ASSUME Inv, NEW c \in Calls, Send(c)
  PROVE  Inv'
<1>1. /\ Formed /\ Queued /\ line # <<>> /\ Head(line) = c /\ line' = Tail(line)
      /\ call' = [call EXCEPT ![c].phase = "sent"]
      /\ task' = task /\ ha' = ha /\ joined' = joined /\ posts' = posts /\ flipped' = flipped
  BY DEF Inv, Send, history
<1>2. /\ call' = [d \in Calls |-> call'[d]] /\ \A d \in Calls \ {c} : call'[d] = call[d]
      /\ Shaped(call'[c]) /\ call'[c].args = call[c].args /\ call'[c].got = call[c].got
      /\ call'[c].next = call[c].next /\ call'[c].phase = "sent" /\ call'[c].late = call[c].late
  BY <1>1, FieldSet, Zenon
<1>3. /\ line \in Seq(Calls) /\ Len(line) \in Nat \ {0} /\ DOMAIN line = 1..Len(line) /\ line[1] = c
      /\ line' \in Seq(Calls) /\ DOMAIN line' = 1..(Len(line) - 1)
      /\ \A i \in 1..(Len(line) - 1) : line'[i] = line[i + 1]
  BY <1>1 DEF Formed
<1>4. call[c].phase = "line"
  BY <1>1, <1>3 DEF Queued
<1>5. Queued'
  <2>1. \A i \in DOMAIN line' : i + 1 \in DOMAIN line /\ i + 1 # 1 /\ line'[i] = line[i + 1]
    BY <1>3
  <2>2. \A i \in DOMAIN line' : line'[i] \in Calls \ {c} /\ call[line'[i]].phase = "line"
    BY <1>1, <1>3, <2>1 DEF Queued
  <2>3. \A i, j \in DOMAIN line' : line'[i] = line'[j] => i = j
    <3>1. SUFFICES ASSUME NEW i \in DOMAIN line', NEW j \in DOMAIN line', line'[i] = line'[j]
                   PROVE  i = j
      OBVIOUS
    <3>2. i + 1 = j + 1
      BY <1>1, <2>1, <3>1 DEF Queued
    <3> QED
      BY <1>3, <3>2
  <2> QED
    BY <1>2, <2>2, <2>3 DEF Queued
<1>6. Underway(call'[c]) /\ Concluded(call'[c]) /\ Spent(c)' /\ Looked(c)'
  <2>1. Underway(call[c]) /\ Spent(c) /\ Looked(c)
    BY DEF Inv
  <2>2. Underway(call'[c])
    BY <1>2, <1>4, <2>1 DEF Underway, Active
  <2>3. Spent(c)' /\ Looked(c)'
    BY <1>1, <1>2, <1>4, <2>1 DEF Spent, Looked, Active
  <2> QED
    BY <1>2, <2>2, <2>3 DEF Concluded
<1> QED
  BY <1>1, <1>2, <1>3, <1>5, <1>6, OthersKeep DEF Formed

\* ... and the end of a sleep ...
LEMMA WakeKeeps ==
  ASSUME Inv, NEW c \in Calls, Wake(c)
  PROVE  Inv'
<1> DEFINE a == call[c].args
           g == call[c].got
           l == call[c].late
           h == IF l THEN g ELSE SubSeq(g, 1, Len(g) - 1)
<1>1. /\ Formed /\ Queued /\ call[c].phase = "sleep" /\ Proceed(c, a, h, l)
      /\ task' = task /\ ha' = ha /\ joined' = joined /\ posts' = posts /\ flipped' = flipped
  BY DEF Inv, Wake, history
<1>2. Underway(call[c]) /\ Spent(c) /\ Looked(c) /\ Sequence(g) /\ l \in BOOLEAN
  BY DEF Inv, Formed, Shaped
<1>3. /\ a.tool \in AllTools /\ a \in Arguments(a.tool) /\ ~Rejected(a) /\ History(a, g)
      /\ g # <<>> /\ Patient(a, SubSeq(g, 1, Len(g) - 1), l)
      /\ a.tool \notin Reads => Len(g) > PostAt(a.tool)
  BY <1>1, <1>2 DEF Underway, Active
<1>4. Len(g) \in Nat \ {0} /\ Len(g) - 1 \in 0..Len(g)
  BY <1>2, <1>3, Indices
<1>5. /\ Sequence(h) /\ History(a, h) /\ Patient(a, h, l)
      /\ Len(h) >= Len(g) - 1 /\ Len(h) \in Nat /\ (h # <<>> => h[1] = g[1])
  <2>1. CASE l
    BY <1>2, <1>3, <1>4, <2>1 DEF Patient
  <2>2. CASE ~l
    <3>1. h = SubSeq(g, 1, Len(g) - 1)
      BY <2>2
    <3>2. Sequence(h) /\ Len(h) = Len(g) - 1 /\ \A i \in 1..(Len(g) - 1) : h[i] = g[i]
      BY <1>2, <1>4, <3>1, Beginning
    <3>3. History(a, h)
      BY <1>2, <1>3, <1>4, <3>1, HistoryBefore
    <3>4. h # <<>> => Len(h) # 0
      BY <3>2, Indices
    <3> QED
      BY <1>3, <1>4, <3>1, <3>2, <3>3, <3>4
  <2> QED
    BY <2>1, <2>2
<1> HIDE DEF h
<1>6. /\ call' = [d \in Calls |-> call'[d]] /\ \A d \in Calls \ {c} : call'[d] = call[d]
      /\ Shaped(call'[c]) /\ Underway(call'[c]) /\ Concluded(call'[c])
      /\ call'[c].args = a /\ call'[c].got = h /\ call'[c].phase \in Active \cup {"answered"}
      /\ line' \in Seq(Calls) /\ Queued'
  BY <1>1, <1>2, <1>3, <1>5, Proceeding
<1>7. PostAt(a.tool) \in Nat /\ (a.tool \in Stops => PostAt(a.tool) = 2 /\ a.tool \notin Reads)
  BY DEF PostAt, Stops, Reads, PveReads, NasReads, PfsReads
<1>8. Spent(c)'
  BY <1>1, <1>2, <1>3, <1>4, <1>5, <1>6, <1>7 DEF Spent, Active
<1>9. Looked(c)'
  <2>1. ASSUME a.tool \in Stops, h # <<>>
        PROVE  /\ h[1].path = HaCurrent /\ h[1].kind \in {"ill", "well"} \cup Failures
               /\ h[1].kind = "well" => ~ha \/ c \in joined
    BY <1>1, <1>2, <1>3, <1>5, <2>1 DEF Looked, Active
  <2>2. ASSUME c \in flipped
        PROVE  a.tool \in Stops /\ h # <<>> /\ (c \in joined \/ h[1].kind # "well")
    <3>1. a.tool \in Stops /\ (c \in joined \/ g[1].kind # "well")
      BY <1>1, <1>2, <2>2 DEF Looked
    <3>2. Len(h) # 0
      BY <1>3, <1>4, <1>5, <1>7, <3>1
    <3>3. h # <<>>
      BY <1>5, <3>2, Indices
    <3> QED
      BY <1>5, <3>1, <3>3
  <2> QED
    BY <1>1, <1>6, <2>1, <2>2 DEF Looked, Active
<1> QED
  BY <1>1, <1>6, <1>8, <1>9, OthersKeep DEF Formed

\* ... and a deadline that passes ...
LEMMA LateKeeps ==
  ASSUME Inv, NEW c \in Calls, Late(c)
  PROVE  Inv'
<1>1. /\ Formed /\ Queued /\ call[c].phase \in Active /\ line' = line
      /\ call' = [call EXCEPT ![c].late = TRUE]
      /\ task' = task /\ ha' = ha /\ joined' = joined /\ posts' = posts /\ flipped' = flipped
  BY DEF Inv, Late, history, Active
<1>2. /\ call' = [d \in Calls |-> call'[d]] /\ \A d \in Calls \ {c} : call'[d] = call[d]
      /\ Shaped(call'[c]) /\ call'[c].args = call[c].args /\ call'[c].got = call[c].got
      /\ call'[c].next = call[c].next /\ call'[c].phase = call[c].phase /\ call'[c].late = TRUE
  BY <1>1, FieldSet, Zenon
<1>3. Underway(call[c]) /\ Spent(c) /\ Looked(c)
  BY DEF Inv
<1>4. Underway(call'[c])
  BY <1>2, <1>3 DEF Underway, Patient
<1>5. Concluded(call'[c])
  BY <1>1, <1>2 DEF Concluded, Active
<1>6. Spent(c)' /\ Looked(c)'
  BY <1>1, <1>2, <1>3 DEF Spent, Looked
<1>7. line' \in Seq(Calls) /\ Queued'
  <2>1. line \in Seq(Calls) /\ \A d \in Calls : call'[d].phase = call[d].phase
    BY <1>1, <1>2 DEF Formed
  <2>2. \A i \in DOMAIN line : line[i] \in Calls
    BY <2>1
  <2> QED
    BY <1>1, <2>1, <2>2 DEF Queued
<1> QED
  BY <1>1, <1>2, <1>4, <1>5, <1>6, <1>7, OthersKeep DEF Formed

\* ... and a call that is given up ...
LEMMA CancelKeeps ==
  ASSUME Inv, NEW c \in Calls, Cancel(c)
  PROVE  Inv'
<1>1. /\ Formed /\ Queued /\ call[c].phase \in Active
      /\ call' = [call EXCEPT ![c].phase = "cancelled"]
      /\ IF call[c].phase = "line"
         THEN \E i \in DOMAIN line : line[i] = c /\ line' = RemoveAt(line, i)
         ELSE line' = line
      /\ ha' = ha /\ joined' = joined
  BY DEF Inv, Cancel, Active
<1>2. PICK effect \in {FALSE, call[c].phase = "sent" /\ call[c].next.do = "post"} : Happens(c, effect)
  BY DEF Cancel
<1>3. effect \in BOOLEAN
  BY <1>2
<1>4. /\ call' = [d \in Calls |-> call'[d]] /\ \A d \in Calls \ {c} : call'[d] = call[d]
      /\ Shaped(call'[c]) /\ call'[c].phase = "cancelled"
  BY <1>1, FieldSet, Zenon
<1>5. Underway(call'[c]) /\ Concluded(call'[c]) /\ Spent(c)' /\ Looked(c)'
  BY <1>4 DEF Underway, Concluded, Spent, Looked, Active
<1>6. line' \in Seq(Calls) /\ Queued'
  <2>1. CASE call[c].phase # "line"
    BY <1>1, <1>4, <2>1, LineKeeps
  <2>2. CASE call[c].phase = "line"
    <3>1. PICK i \in DOMAIN line : line[i] = c /\ line' = RemoveAt(line, i)
      BY <1>1, <2>2
    <3>2. /\ line \in Seq(Calls) /\ Len(line) \in Nat /\ DOMAIN line = 1..Len(line)
          /\ \A j \in DOMAIN line : line[j] \in Calls /\ call[line[j]].phase = "line"
          /\ \A j, m \in DOMAIN line : line[j] = line[m] => j = m
      <4>1. line \in Seq(Calls)
        BY <1>1 DEF Formed
      <4>2. /\ Len(line) \in Nat /\ DOMAIN line = 1..Len(line)
            /\ \A j \in DOMAIN line : line[j] \in Calls
        BY <4>1
      <4> QED
        BY <1>1, <4>1, <4>2 DEF Queued
    <3>3. /\ line' \in Seq(Calls) /\ DOMAIN line' \subseteq Nat
          /\ \A j \in DOMAIN line' : IF j < i THEN j \in DOMAIN line /\ line'[j] = line[j]
                                     ELSE j \in Nat /\ j + 1 \in DOMAIN line /\ line'[j] = line[j + 1]
      BY <3>1, <3>2, Leaves
    <3>4. \A j \in DOMAIN line' : line'[j] \in Calls \ {c} /\ call[line'[j]].phase = "line"
      <4>1. SUFFICES ASSUME NEW j \in DOMAIN line'
                     PROVE  line'[j] \in Calls \ {c} /\ call[line'[j]].phase = "line"
        OBVIOUS
      <4>2. PICK m \in DOMAIN line : m # i /\ line'[j] = line[m]
        BY <3>2, <3>3
      <4> QED
        BY <3>1, <3>2, <4>2
    <3>5. \A j, m \in DOMAIN line' : line'[j] = line'[m] => j = m
      <4>1. SUFFICES ASSUME NEW j \in DOMAIN line', NEW m \in DOMAIN line', line'[j] = line'[m]
                     PROVE  j = m
        OBVIOUS
      <4>2. j \in Nat /\ m \in Nat /\ i \in Nat
        BY <3>2, <3>3
      <4>3. (IF j < i THEN j ELSE j + 1) = (IF m < i THEN m ELSE m + 1)
        BY <3>2, <3>3, <4>1
      <4> QED
        BY <4>2, <4>3
    <3> QED
      BY <1>4, <3>3, <3>4, <3>5 DEF Queued
  <2> QED
    BY <2>1, <2>2
<1>7. /\ posts' \in [Calls -> Nat] /\ \A d \in Calls \ {c} : posts'[d] = posts[d]
      /\ task' = [d \in Calls |-> task'[d]]
      /\ \A d \in Calls : task'[d] \in {"none", "running", "well", "ill"}
      /\ flipped' \subseteq flipped \cup {c}
  BY <1>2, <1>3, Effects
<1> QED
  BY <1>1, <1>4, <1>5, <1>6, <1>7, OthersKeep

\* ... and a task that ends ...
LEMMA TaskEndsKeeps ==
  ASSUME Inv, NEW c \in Calls, TaskEnds(c)
  PROVE  Inv'
<1>1. /\ call' = call /\ line' = line /\ ha' = ha /\ joined' = joined /\ posts' = posts /\ flipped' = flipped
      /\ \E result \in {"well", "ill"} : task' = [task EXCEPT ![c] = result]
  BY DEF TaskEnds, history
<1>2. /\ task' = [d \in Calls |-> task'[d]]
      /\ \A d \in Calls : task'[d] \in {"none", "running", "well", "ill"}
  BY <1>1 DEF Inv, Formed
<1>3. Formed' /\ Queued'
  BY <1>1, <1>2 DEF Inv, Formed, Queued
<1>4. ASSUME NEW d \in Calls
      PROVE  Underway(call'[d]) /\ Concluded(call'[d]) /\ Spent(d)' /\ Looked(d)'
  BY <1>1 DEF Inv, Spent, Looked
<1> QED
  BY <1>3, <1>4 DEF Inv

\* ... and a guest that comes under HA or leaves it.
LEMMA HaChangesKeeps ==
  ASSUME Inv, HaChanges
  PROVE  Inv'
<1>1. /\ call' = call /\ line' = line /\ task' = task /\ posts' = posts /\ flipped' = flipped
      /\ ha' = ~ha
      /\ joined' = IF ha THEN joined ELSE joined \cup {c \in Calls : call[c].phase \in Active}
  BY DEF HaChanges, Active
<1>2. Formed' /\ Queued'
  BY <1>1 DEF Inv, Formed, Queued
<1>3. ASSUME NEW d \in Calls
      PROVE  Underway(call'[d]) /\ Concluded(call'[d]) /\ Spent(d)' /\ Looked(d)'
  <2>1. Underway(call[d]) /\ Concluded(call[d]) /\ Spent(d) /\ Looked(d)
    BY DEF Inv
  <2>2. d \in joined => d \in joined'
    BY <1>1
  <2>3. call[d].phase \in Active => ~ha' \/ d \in joined'
    BY <1>1
  <2>4. Looked(d)'
    BY <1>1, <2>1, <2>2, <2>3 DEF Looked
  <2> QED
    BY <1>1, <2>1, <2>4 DEF Spent
<1> QED
  BY <1>2, <1>3 DEF Inv

\* The invariant holds at first, and every step keeps it.
LEMMA InitHolds == Init => Inv
<1> SUFFICES ASSUME Init
             PROVE  Inv
  OBVIOUS
<1>1. /\ call = [c \in Calls |-> Idle] /\ line = <<>> /\ task = [c \in Calls |-> "none"] /\ ha \in BOOLEAN
      /\ posts = [c \in Calls |-> 0] /\ flipped = {} /\ joined = {}
  BY DEF Init
<1>2. Shaped(Idle) /\ Idle.phase = "idle" /\ Idle.got = <<>>
  <2>1. Sequence(<<>>)
    <3>1. <<>> \in Seq({})
      OBVIOUS
    <3> QED
      BY <3>1 DEF Sequence
  <2> QED
    BY <2>1 DEF Shaped, Idle
<1>3. Formed /\ Queued
  BY <1>1, <1>2 DEF Formed, Queued
<1>4. ASSUME NEW c \in Calls
      PROVE  Underway(call[c]) /\ Spent(c) /\ Concluded(call[c]) /\ Looked(c)
  <2>1. call[c].phase = "idle" /\ call[c].got = <<>> /\ posts[c] = 0 /\ c \notin flipped
    BY <1>1, <1>2
  <2> QED
    BY <2>1 DEF Underway, Spent, Concluded, Looked, Active
<1> QED
  BY <1>3, <1>4 DEF Inv

\* So every step keeps it.
LEMMA NextKeeps == Inv /\ [Next]_vars => Inv'
<1> SUFFICES ASSUME Inv, [Next]_vars
             PROVE  Inv'
  OBVIOUS
<1>1. CASE UNCHANGED vars
  BY <1>1 DEF vars, history, Inv, Formed, Queued, Spent, Looked
<1>2. CASE HaChanges
  BY <1>2, HaChangesKeeps
<1>3. ASSUME NEW c \in Calls,
             Begin(c) \/ Send(c) \/ Reply(c) \/ Fails(c) \/ Wake(c) \/ Late(c) \/ Cancel(c) \/ TaskEnds(c)
      PROVE  Inv'
  BY <1>3, BeginKeeps, SendKeeps, ReplyKeeps, FailsKeeps, WakeKeeps, LateKeeps, CancelKeeps, TaskEndsKeeps
<1> QED
  BY <1>1, <1>2, <1>3 DEF Next

\* In every reachable state each call has made the requests of its tool in
\* their order, has changed something at most once, and holds the answer of its
\* tool to the outcomes: tool_handler and the tools of the three servers.
THEOREM Invariance == Spec => []Inv
<1>1. Init => Inv
  BY InitHolds
<1>2. Inv /\ [Next]_vars => Inv'
  BY NextKeeps
<1> QED
  BY <1>1, <1>2, PTL DEF Spec

\* A step that changes something makes the one request a tool has for it.
LEMMA ChangesOnce ==
  ASSUME Inv, NEW c \in Calls, NEW effect \in BOOLEAN, Happens(c, effect),
         effect => call[c].phase = "sent" /\ call[c].next.do = "post"
  PROVE  \A d \in Calls : posts'[d] # posts[d] =>
           /\ posts[d] = 0 /\ call[d].args.tool \notin Reads
           /\ call[d].args.confirm /\ call[d].args.bad = "none"
<1>1. (\A d \in Calls \ {c} : posts'[d] = posts[d]) /\ (posts'[c] # posts[c] => effect)
  BY Effects
<1>2. ASSUME effect
      PROVE  /\ posts[c] = 0 /\ call[c].args.tool \notin Reads
             /\ call[c].args.confirm /\ call[c].args.bad = "none"
  <2>1. Underway(call[c]) /\ Spent(c) /\ posts[c] \in Nat /\ Sequence(call[c].got)
    BY DEF Inv, Formed, Shaped
  <2>2. /\ call[c].args.tool \in AllTools \ Reads /\ ~Rejected(call[c].args)
        /\ Len(call[c].got) + 1 = PostAt(call[c].args.tool)
    BY <1>2, <2>1 DEF Underway, Active
  <2>3. posts[c] = 0
    <3>1. Len(call[c].got) \in Nat
      BY <2>1, Indices
    <3> QED
      BY <1>2, <2>1, <2>2, <3>1 DEF Spent, Active
  <2>4. call[c].args.tool \in Confirmed
    BY <2>2 DEF AllTools, PveTools, Reads, PveWrites, PveDestructive, NasWrites,
                Confirmed, PveConfirmed, NasConfirmed
  <2> QED
    BY <2>2, <2>3, <2>4 DEF Rejected
<1> QED
  BY <1>1, <1>2

\* Whatever fails and whenever a call is given up, a call changes something at
\* most once, only by a tool that is registered as one that changes something,
\* and only with confirm=true and good inputs: require_confirm and parse_model
\* in front of every write, and no client sends a request again.
THEOREM NothingUnasked == Spec => OnlyWhatWasAsked
<1> DEFINE Asked == \A c \in Calls : posts'[c] # posts[c] =>
                      /\ posts[c] = 0 /\ call[c].args.tool \notin Reads
                      /\ call[c].args.confirm /\ call[c].args.bad = "none"
<1>1. Inv /\ [Next]_vars => [Asked]_vars
  <2> SUFFICES ASSUME Inv, Next
               PROVE  Asked
    OBVIOUS
  <2>1. CASE posts' = posts
    BY <2>1
  <2>2. ASSUME NEW c \in Calls, Reply(c)
        PROVE  Asked
    <3>1. Happens(c, call[c].next.do = "post") /\ call[c].phase = "sent"
      BY <2>2 DEF Reply
    <3> QED
      BY <3>1, ChangesOnce
  <2>3. ASSUME NEW c \in Calls, Fails(c)
        PROVE  Asked
    <3>1. /\ call[c].phase = "sent"
          /\ \E kind, effect : /\ effect \in {FALSE, call[c].next.do = "post" /\ kind \in Unclear}
                               /\ Happens(c, effect)
      BY <2>3 DEF Fails
    <3> QED
      BY <3>1, ChangesOnce
  <2>4. ASSUME NEW c \in Calls, Cancel(c)
        PROVE  Asked
    <3>1. \E effect \in {FALSE, call[c].phase = "sent" /\ call[c].next.do = "post"} : Happens(c, effect)
      BY <2>4 DEF Cancel
    <3> QED
      BY <3>1, ChangesOnce
  <2>5. ASSUME NEW c \in Calls, Begin(c) \/ Send(c) \/ Wake(c) \/ Late(c) \/ TaskEnds(c)
        PROVE  posts' = posts
    BY <2>5 DEF Begin, Send, Wake, Late, TaskEnds, history
  <2>6. HaChanges => posts' = posts
    BY DEF HaChanges
  <2> QED
    BY <2>1, <2>2, <2>3, <2>4, <2>5, <2>6 DEF Next
<1> QED
  BY <1>1, Invariance, PTL DEF Spec, OnlyWhatWasAsked

\* A call that stopped a guest under HA says so when it answers ok, or that it
\* could not tell, unless the guest came under HA after it had looked: in
\* pve_shutdown_guest, pve_stop_guest and pve_stopall_guests ha_placement is
\* asked before the request, and its failure is a warning.
THEOREM HaStopsAreWarned == Spec => []HaStopIsWarned
<1>1. Inv => HaStopIsWarned
  <2> SUFFICES ASSUME Inv, NEW c \in flipped \ joined, call[c].phase = "answered", call[c].next.ok
               PROVE  call[c].next.warnings \cap {"HA-managed", HaCurrent} # {}
    BY DEF HaStopIsWarned, Answered
  <2> DEFINE k == call[c]
             g == call[c].got
  <2>1. c \in Calls /\ Looked(c) /\ Concluded(k) /\ Sequence(g)
    BY DEF Inv, Formed, Shaped
  <2>2. k.args.tool \in Stops /\ g # <<>> /\ g[1].kind # "well"
        /\ g[1].path = HaCurrent /\ g[1].kind \in {"ill", "well"} \cup Failures
    BY <2>1 DEF Looked, Active
  <2>3. k.next = Step(k.args, g, k.late) /\ k.next.do = "answer"
    BY <2>1 DEF Concluded
  <2>4. HaWarnings(g, 1) \subseteq k.next.warnings
    BY <2>1, <2>2, <2>3, StopsLook
  <2>5. HaWarnings(g, 1) \cap {"HA-managed", HaCurrent} # {}
    <3>1. CASE g[1].kind = "ill"
      BY <3>1 DEF HaWarnings, Note
    <3>2. CASE g[1].kind \in Failures
      <4>1. HaCurrent \in Gaps(g, {1})
        BY <2>2, <3>2 DEF Gaps, Failed
      <4> QED
        BY <4>1 DEF HaWarnings
    <3> QED
      BY <2>2, <3>1, <3>2
  <2> QED
    BY <2>4, <2>5
<1> QED
  BY <1>1, Invariance, PTL

\* An answer that says ok names everything that could not be read, whatever
\* failed, and in whatever order the calls, the task and the deadline came.
THEOREM NothingIsUnsaid == Spec => []NothingGoesUnsaid
<1>1. ASSUME Inv
      PROVE  NothingGoesUnsaid
  <2> SUFFICES ASSUME NEW c \in Calls, Answered(c), call[c].next.ok
               PROVE  \A i \in DOMAIN call[c].got :
                        (Failed(call[c].got[i]) /\ ~PassedOver(call[c], i))
                          => call[c].got[i].path \in call[c].next.warnings
    BY DEF NothingGoesUnsaid
  <2> DEFINE k == call[c]
  <2>1. Shaped(k) /\ Concluded(k)
    BY <1>1 DEF Inv, Formed
  <2> HIDE DEF k
  <2>2. k.phase = "answered" /\ k.next.ok
    BY DEF Answered, k
  <2>3. Heard(k) /\ k.args.tool \in AllTools
    BY <2>1, <2>2 DEF Shaped, Concluded, Heard
  <2>4. Whole(k)
    BY <2>3, AnswersAreWhole
  <2> QED
    BY <2>4 DEF Whole, k
<1> QED
  BY <1>1, Invariance, PTL

=============================================================================
