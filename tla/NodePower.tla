----------------------------- MODULE NodePower -----------------------------
(***************************************************************************)
(* pve_shutdown_node, pve_wake_on_lan and pve_wait_nodes_state of          *)
(* proxmox-ve-mcp (tools/power.py, tools/waits.py, client/tasks.py), used  *)
(* by an operator who shuts nodes down one after the other.  The guards of *)
(* a shutdown are read in several requests, and a node that was told to go *)
(* stays a member for a while.                                             *)
(*                                                                         *)
(* A request is one step.  Left out: the list of running guests and the    *)
(* warnings, which decide nothing, plan_only, and node names unknown to    *)
(* the cluster, which every tool refuses.                                  *)
(***************************************************************************)
EXTENDS Integers, FiniteSets

CONSTANTS Nodes, Entry,     \* cluster members, and the one that has the API
          Placed,           \* nodes HA resources are placed on
          FaultKinds, MaxFaults,
          Null

Waits == [nodes : SUBSET Nodes, target : {"online", "offline"}]

ASSUME EntryAssumption  == Entry \in Nodes
ASSUME NodesAssumption  == IsFiniteSet(Nodes) /\ MaxFaults \in Nat
ASSUME NullAssumption   == Null \notin Waits
ASSUME PlacedAssumption == Placed \subseteq Nodes

VARIABLES
  power,     \* of each node: on, halting, restarting, off, booting
  qdevice,   \* none, connected, disconnected
  lrm,       \* nodes whose local HA resource manager is active
  policy,    \* ha.shutdown_policy
  call,      \* the call in progress
  watch,     \* the wait the operator has to do before he goes on: [nodes, target]
  reached,   \* what the last wait answered
  estimate,  \* history: [node, quorate], what the last shutdown announced
  faults

vars == <<power, qdevice, lrm, policy, call, watch, reached, estimate, faults>>
cluster == <<power, qdevice, lrm, policy>>

Online == {n \in Nodes : power[n] \in {"on", "halting", "restarting"}}
Api == Entry \in Online
Fault(k) == k \in FaultKinds /\ faults < MaxFaults /\ faults' = faults + 1
Fails(k) == IF Api THEN Fault(k) ELSE UNCHANGED faults

\* corosync: one vote a node and one for the QDevice, a strict majority.
QuorateOf(S) ==
  Cardinality(S) + (IF qdevice = "connected" THEN 1 ELSE 0)
    > (Cardinality(Nodes) + (IF qdevice = "none" THEN 0 ELSE 1)) \div 2
Quorate == QuorateOf(Online)

-----------------------------------------------------------------------------
(* The tools' arithmetic.                                                  *)

\* Mutant of QdeviceVotes: one that is not connected counts as live.
QdeviceVotesAlways(q) ==
  IF q \in {"connected", "disconnected"} THEN [expected |-> 1, live |-> 1] ELSE [expected |-> 0, live |-> 0]

\* qdevice_votes: expected and live; what cannot be read counts as none.
QdeviceVotes(q) == [expected |-> IF q \in {"connected", "disconnected"} THEN 1 ELSE 0,
                    live     |-> IF q = "connected" THEN 1 ELSE 0]

\* quorum_impact: whether the members seen are quorate without the target.
QuorumImpact(seen, target, votes) ==
  LET expected == Cardinality(Nodes) + votes.expected
      needed   == expected \div 2 + 1
      now      == Cardinality(seen) + votes.live
      after    == now - (IF target \in seen THEN 1 ELSE 0)
  IN after >= needed

\* HaPlacement.fence_risk: who would reset himself without quorum.
FenceRisk(ha, nodes) == {n \in nodes : n \in ha.placed \/ n \in ha.active}

-----------------------------------------------------------------------------
Idle == [tool |-> "none", pc |-> "idle"]
On(c) == [nodes |-> {c.node}, target |-> IF c.cmd = "shutdown" THEN "offline" ELSE "online"]

Init ==
  /\ power = [n \in Nodes |-> "on"]
  /\ qdevice \in {"none", "connected", "disconnected"}
  /\ \E S \in SUBSET Nodes : lrm = Placed \cup S
  /\ policy \in {"freeze", "conditional"}
  /\ call = Idle /\ watch = Null /\ reached = "none"
  /\ estimate = Null
  /\ faults = 0

\* The operator goes on when the wait that the last call asks for (next_step)
\* has come true.  A restart he watches himself, until the node is back: its
\* wait is over before the node has gone.
Free == call = Idle /\ watch = Null /\ \A n \in Nodes : power[n] \notin {"restarting", "booting"}

ShutdownNode(n, cmd, allow) ==
  /\ Free
  /\ call' = [tool |-> "shutdown", pc |-> "status", node |-> n, cmd |-> cmd, allow |-> allow,
              seen |-> {}, quorate |-> FALSE, votes |-> Null, refused |-> FALSE]
  /\ UNCHANGED <<cluster, watch, reached, estimate, faults>>

\* _cluster_members, and the refusals that follow from it.
ReadMembers ==
  /\ call.tool = "shutdown" /\ call.pc = "status" /\ Api
  /\ call' = [call EXCEPT !.pc = "options", !.seen = Online, !.quorate = Quorate,
                !.refused = call.node \notin Online \/ (call.node = Entry /\ ~call.allow)]
  /\ UNCHANGED <<cluster, watch, reached, estimate, faults>>

ReadPolicy ==
  /\ call.pc = "options" /\ Api
  /\ call' = [call EXCEPT !.pc = "qdevice", !.refused = @ \/ policy # "freeze"]
  /\ UNCHANGED <<cluster, watch, reached, estimate, faults>>

\* qdevice_status, and whether the HA status has to be looked at.
ReadQdevice ==
  /\ call.pc = "qdevice"
  /\ \E q \in {qdevice, "unreadable"} :
       /\ IF q = "unreadable" THEN Fails("qdevice") ELSE Api /\ UNCHANGED faults
       /\ LET votes == QdeviceVotes(q)
              loses == call.quorate /\ ~QuorumImpact(call.seen, call.node, votes)
          IN call' = [call EXCEPT !.pc = IF loses THEN "ha" ELSE "post", !.votes = votes]
  /\ UNCHANGED <<cluster, watch, reached, estimate>>

\* Mutant of ReadHa: the losing of quorum is announced and no more.
ReadHaAnyhow ==
  /\ call.pc = "ha" /\ Api
  /\ call' = [call EXCEPT !.pc = "post"]
  /\ UNCHANGED <<cluster, watch, reached, estimate, faults>>

\* Quorum would be lost: no node that stays may be one that fences itself.
ReadHa ==
  /\ call.pc = "ha"
  /\ \/ /\ Api
        /\ call' = [call EXCEPT !.pc = "post",
                      !.refused = @ \/ FenceRisk([placed |-> Placed, active |-> lrm],
                                                 call.seen \ {call.node}) # {}]
        /\ UNCHANGED faults
     \/ /\ Fails("ha")
        /\ call' = [call EXCEPT !.pc = "post", !.refused = TRUE]
  /\ UNCHANGED <<cluster, watch, reached, estimate>>

\* A request of the guards fails: the call ends in an error.
ReadFails ==
  /\ call.pc \in {"status", "options", "members"} /\ Fails("read")
  /\ call' = Idle
  /\ UNCHANGED <<cluster, watch, reached, estimate>>

Refuse ==
  /\ call.pc = "post" /\ call.tool = "shutdown" /\ call.refused
  /\ call' = Idle
  /\ UNCHANGED <<cluster, watch, reached, estimate, faults>>

\* The command, which the node carries out.
Told == [power EXCEPT ![call.node] =
           IF @ = "on" THEN IF call.cmd = "shutdown" THEN "halting" ELSE "restarting" ELSE @]
Announced == [node |-> call.node, quorate |-> QuorumImpact(call.seen, call.node, call.votes)]

Unheard == call.node = Entry \/ "unheard" \in FaultKinds

\* A connection lost in telling the entry node counts as told.  A peer that was
\* told although the answer is an error ("unheard") is not waited for.
Submit ==
  /\ call.pc = "post" /\ call.tool = "shutdown" /\ ~call.refused
  /\ \/ Api /\ UNCHANGED faults /\ power' = Told /\ watch' = On(call) /\ estimate' = Announced
     \/ /\ Fails("post")
        /\ \/ power' = power
           \/ Api /\ Unheard /\ power' = Told
        /\ watch' = IF call.node = Entry THEN On(call) ELSE watch
        /\ estimate' = IF call.node = Entry THEN Announced ELSE Null
  /\ call' = Idle
  /\ UNCHANGED <<qdevice, lrm, policy, reached>>

-----------------------------------------------------------------------------
\* pve_wait_nodes_state as the last call asks for it, or of any set.
WaitNodes(target, nodes) ==
  /\ call = Idle
  /\ watch # Null => nodes = watch.nodes /\ target = watch.target
  /\ call' = [tool |-> "wait", pc |-> "poll", target |-> target, watched |-> nodes]
  /\ UNCHANGED <<cluster, watch, reached, estimate, faults>>

Answer(r) ==
  /\ call' = Idle /\ reached' = r
  /\ watch' = IF r \in {"reached", "assumed"} THEN Null ELSE watch
  /\ UNCHANGED <<cluster, estimate>>

\* wait_for_nodes_state, a poll: an empty set of nodes watches every member.
Watched == IF call.watched = {} THEN Nodes ELSE call.watched

Poll ==
  /\ call.pc = "poll" /\ Api
  /\ \A n \in Watched : (n \in Online) <=> (call.target = "online")
  /\ Answer("reached") /\ UNCHANGED faults

PollTimesOut ==
  /\ call.pc = "poll" /\ Api
  /\ \E n \in Watched : (n \in Online) <=> (call.target # "online")
  /\ Answer("pending") /\ UNCHANGED faults

\* The API is lost: what is not known to be offline is assumed to be.
PollFails ==
  /\ call.pc = "poll" /\ Fails("poll")
  /\ Answer(IF call.target = "offline" THEN "assumed" ELSE "error")

-----------------------------------------------------------------------------
\* pve_wake_on_lan for all that are offline, or for one node.
WakeOnLan(nodes) ==
  /\ Free
  /\ call' = [tool |-> "wake", pc |-> "members", targets |-> nodes, todo |-> {}, sent |-> {}]
  /\ UNCHANGED <<cluster, watch, reached, estimate, faults>>

ReadTargets ==
  /\ call.pc = "members" /\ Api
  /\ LET todo == (IF call.targets = {} THEN Nodes ELSE call.targets) \ Online
     IN call' = IF todo = {} THEN Idle ELSE [call EXCEPT !.pc = "send", !.todo = todo]
  /\ UNCHANGED <<cluster, watch, reached, estimate, faults>>

\* One magic packet; a failed one is reported and the next one sent.
Send(n) ==
  /\ call.pc = "send" /\ n \in call.todo
  /\ \E told \in BOOLEAN :
       /\ IF told THEN Api /\ UNCHANGED faults ELSE Fails("wake")
       /\ power' = [power EXCEPT ![n] = IF told /\ @ = "off" THEN "booting" ELSE @]
       /\ LET sent == IF told THEN call.sent \cup {n} ELSE call.sent
          IN IF call.todo = {n}
             THEN /\ call' = Idle
                  /\ watch' = IF sent = {} THEN Null ELSE [nodes |-> sent, target |-> "online"]
             ELSE /\ call' = [call EXCEPT !.todo = @ \ {n}, !.sent = sent]
                  /\ UNCHANGED watch
  /\ UNCHANGED <<qdevice, lrm, policy, reached, estimate>>

-----------------------------------------------------------------------------
(* The cluster.                                                            *)

Rest == UNCHANGED <<policy, call, watch, reached, estimate>>

\* A node leaves the membership; a restarted one comes back by itself.
Leaves(n) ==
  /\ power[n] \in {"halting", "restarting"}
  /\ power' = [power EXCEPT ![n] = IF @ = "halting" THEN "off" ELSE "booting"]
  /\ lrm' = lrm \ {n}
  /\ Rest /\ UNCHANGED <<qdevice, faults>>

Joins(n) ==
  /\ power[n] = "booting"
  /\ power' = [power EXCEPT ![n] = "on"]
  /\ Rest /\ UNCHANGED <<qdevice, lrm, faults>>

\* Somebody starts the entry node of a lab that is down (wake-lab).
ColdStart ==
  /\ power[Entry] = "off"
  /\ power' = [power EXCEPT ![Entry] = "booting"]
  /\ Rest /\ UNCHANGED <<qdevice, lrm, faults>>

\* With quorum, an LRM is active where resources are placed, and idles where
\* there are none.
LrmChanges(n) ==
  /\ power[n] = "on"
  /\ IF n \in lrm THEN n \notin Placed ELSE n \in Placed /\ Quorate
  /\ lrm' = IF n \in lrm THEN lrm \ {n} ELSE lrm \cup {n}
  /\ Rest /\ UNCHANGED <<power, qdevice, faults>>

\* The QDevice comes and goes, but not between a shutdown's checks and its end,
\* where no check could see it, nor as the vote that the quorum hangs on.
QdeviceChanges ==
  /\ qdevice # "none" /\ Fault("votes")
  /\ call = Idle /\ \A n \in Nodes : power[n] \notin {"halting", "restarting"}
  /\ qdevice' = IF qdevice = "connected" THEN "disconnected" ELSE "connected"
  /\ Rest /\ UNCHANGED <<power, lrm>>
  /\ Quorate => Quorate'

CallStep ==
  \/ ReadMembers \/ ReadPolicy \/ ReadQdevice \/ ReadHa \/ ReadFails \/ Refuse \/ Submit
  \/ Poll \/ PollTimesOut \/ PollFails
  \/ ReadTargets \/ \E n \in Nodes : Send(n)

Begin ==
  \/ \E n \in Nodes, cmd \in {"shutdown", "reboot"}, allow \in BOOLEAN : ShutdownNode(n, cmd, allow)
  \/ \E nodes \in {{}} \cup {{n} : n \in Nodes} :
       WakeOnLan(nodes)
  \/ \E nodes \in SUBSET Nodes, target \in {"online", "offline"} : WaitNodes(target, nodes)

Progress == ColdStart \/ \E n \in Nodes : Leaves(n) \/ Joins(n)

Next == Begin \/ CallStep \/ Progress \/ QdeviceChanges \/ \E n \in Nodes : LrmChanges(n)

Spec == Init /\ [][Next]_vars

-----------------------------------------------------------------------------
(* Properties.                                                             *)

TypeOK ==
  /\ power \in [Nodes -> {"on", "halting", "restarting", "off", "booting"}]
  /\ qdevice \in {"none", "connected", "disconnected"}
  /\ lrm \subseteq Online
  /\ call.pc \in {"idle", "status", "options", "qdevice", "ha", "post", "poll", "members", "send"}
  /\ watch = Null \/ watch.nodes \subseteq Nodes
  /\ call.pc \in {"qdevice", "ha", "post"} => call.refused \/ call.node \in call.seen
  /\ faults \in 0..MaxFaults

\* Nodes shut down one after the other, each when the one before is offline,
\* never leave a running node without quorum and with an active LRM, which
\* its watchdog would reset.
NobodyFences ==
  Quorate \/ \A n \in lrm : power[n] # "on"

\* A cluster announced to be quorate after a shutdown is, when its node leaves,
\* also when the QDevice could not be read.  (That holds for an even number of
\* nodes, as the lab has: with an odd one, an unread QDevice that is
\* disconnected raises the majority.)
EstimateHolds ==
  [][\A n \in Nodes :
       n \in Online /\ n \notin Online' /\ estimate # Null
         /\ estimate.node = n /\ estimate.quorate
         => Quorate']_vars
=============================================================================
