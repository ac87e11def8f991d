-------------------------- MODULE ClusterShutdown --------------------------
(***************************************************************************)
(* pve_shutdown_cluster of proxmox-ve-mcp (tools/cluster_power.py): a tool *)
(* that keeps nothing between its calls.  Each call reads the cluster in   *)
(* several requests, picks the next stage, submits its actions and waits   *)
(* within a budget; the operator calls again to go on.  Between any two    *)
(* requests guests stop, nodes power off, tasks end, and requests fail.    *)
(*                                                                         *)
(* A request is one step.  Left out: the wording of warnings, history and  *)
(* next_steps; wait_for_completion=false, which answers as a wait whose    *)
(* budget is used up at once; a /cluster/status without the local node,    *)
(* which the API does not give.  The order of a stage's actions is free.   *)
(***************************************************************************)
EXTENDS Integers, FiniteSets

CONSTANTS Nodes, Entry,        \* cluster members, and the one that has the API
          Guests, Keep, Ha,    \* guests, those kept running, the HA-managed
          Places,              \* the placements of the guests to start from
          QVotes,              \* votes of the QDevice
          FaultKinds, MaxFaults,
          Null

ASSUME EntryAssumption == Entry \in Nodes
ASSUME BoundsAssumption == IsFiniteSet(Nodes) /\ {QVotes, MaxFaults} \subseteq Nat
ASSUME GuestAssumption == Keep \subseteq Guests /\ Ha \subseteq Guests \ Keep
ASSUME PlaceAssumption == Places \subseteq [Guests -> Nodes]
ASSUME DisjointAssumption == Nodes \cap Guests = {} /\ Null \notin Nodes \cup Guests

VARIABLES
  online,     \* nodes in the membership
  leaving,    \* nodes that carry out a shutdown command
  host,       \* the node of each guest
  running,    \* guests that run
  tasks,      \* number of workers that shut down a guest, or stop all of a node
  lrm,        \* nodes whose local HA resource manager is active
  policy,     \* ha.shutdown_policy
  call,       \* the call in progress
  answer,     \* what the last call answered
  asked,      \* history: guests asked to stop, or moved meanwhile
  lenient,    \* history: a call was made with continue_on_error
  blind,      \* history: a call could not list the tasks
  faults

env  == <<online, leaving, host, running, tasks, lrm, policy>>
hist == <<asked, lenient, blind>>
vars == <<env, call, answer, hist, faults>>

Plain == Guests \ (Keep \cup Ha)
On(n) == {g \in running : host[g] = n}
Api   == Entry \in online     \* the API answers as long as the entry node is up
Fault(k) == k \in FaultKinds /\ faults < MaxFaults /\ faults' = faults + 1
Fails(k) == IF Api THEN Fault(k) ELSE UNCHANGED faults

Votes   == Cardinality(online) + QVotes
Quorate == Votes >= (Cardinality(Nodes) + QVotes) \div 2 + 1

-----------------------------------------------------------------------------
(* The stage, from a snapshot (seen, run, ha): no request is made here.    *)

\* parse_ha_placement: where the HA guests are, and which LRMs are active.
Placement == [guests |-> Ha, placed |-> {host[g] : g \in Ha}, active |-> lrm]

FenceRisk(ha, n) == n \in ha.placed \/ n \in ha.active

Peers(c) == c.seen \ {Entry}
Managed(c) == IF c.ha = Null THEN {} ELSE c.ha.guests
RunOn(c, n) == {g \in DOMAIN c.run : c.run[g] = n}

\* Mutant of Misplaced: it is not looked where the guests to be kept run.
MisplacedNowhere(c) == {}

Misplaced(c) == {g \in DOMAIN c.run \cap Keep : c.run[g] # Entry}

\* stopall where nothing but plain guests runs, single shutdowns elsewhere.
StopAlls(c) == {n \in Peers(c) \ c.skip : RunOn(c, n) # {} /\ RunOn(c, n) \cap Managed(c) = {}}
\* Mutant of StopOnes: a node with HA guests is left to its own shutdown.
StopOnesOfEntry(c) == IF Entry \in c.skip THEN {} ELSE (RunOn(c, Entry) \ Keep) \ Managed(c)

StopOnes(c) ==
  (UNION {RunOn(c, n) \ Managed(c) : n \in (Peers(c) \ c.skip) \ StopAlls(c)})
    \cup (IF Entry \in c.skip THEN {} ELSE (RunOn(c, Entry) \ Keep) \ Managed(c))

\* Mutant of NextStage: the NAS may go while the peers power off.
NextStageUnwaited(c) ==
  IF Misplaced(c) # {} THEN [name |-> "blocked", todo |-> {}]
  ELSE IF StopAlls(c) \cup StopOnes(c) # {}
  THEN [name |-> "stop_guests", todo |-> StopAlls(c) \cup StopOnes(c)]
  ELSE IF Peers(c) \ c.downed # {} THEN [name |-> "shutdown_peers", todo |-> Peers(c)]
  ELSE IF c.allowed THEN [name |-> "shutdown_entry", todo |-> {Entry}]
  ELSE [name |-> "ready_for_nas", todo |-> {}]

\* next_stage: the first stage that still has something to do.
NextStage(c) ==
  IF Misplaced(c) # {}
  THEN [name |-> "blocked", todo |-> {}]
  ELSE IF StopAlls(c) \cup StopOnes(c) # {}
  THEN [name |-> "stop_guests", todo |-> StopAlls(c) \cup StopOnes(c)]
  ELSE IF Peers(c) # {}
  THEN [name |-> "shutdown_peers", todo |-> Peers(c)]
  ELSE IF c.allowed
  THEN [name |-> "shutdown_entry", todo |-> {Entry}]
  ELSE [name |-> "ready_for_nas", todo |-> {}]

\* The actions of the stage that this call has already tried.
Stuck(c, s) == s.todo \cap (IF s.name = "stop_guests" THEN c.tried ELSE c.downed)

-----------------------------------------------------------------------------
Idle == [pc |-> "idle"]

End(a) == call' = Idle /\ answer' = a

Init ==
  /\ online = Nodes /\ leaving = {}
  /\ host \in Places
  /\ running = Guests
  /\ tasks = [t \in Guests \cup Nodes |-> 0]
  /\ \E S \in SUBSET {Entry} : lrm = {host[g] : g \in Ha} \cup S
  /\ policy \in {"freeze", "conditional"}
  /\ call = Idle /\ answer = "none"
  /\ asked = {} /\ lenient = FALSE /\ blind = FALSE
  /\ faults = 0

\* A call begins; continue_on_error and include_entry_node are its arguments.
Begin(include, cont) ==
  /\ call.pc = "idle" /\ Api
  /\ call' = [pc |-> "status", first |-> TRUE, include |-> include, cont |-> cont,
              allowed |-> FALSE, seen |-> {}, run |-> << >>, ha |-> Null, ha0 |-> Null,
              stage |-> "none", todo |-> {}, active |-> {}, waiting |-> {},
              tried |-> {}, downed |-> {}, skip |-> {}]
  /\ lenient' = (lenient \/ cont)
  /\ UNCHANGED <<env, answer, asked, blind, faults>>

\* _snapshot, its three requests: members, running guests, HA placement.
ReadStatus ==
  /\ call.pc = "status" /\ Api
  /\ call' = [call EXCEPT !.pc = "resources", !.seen = online]
  /\ UNCHANGED <<env, answer, hist, faults>>

ReadResources ==
  /\ call.pc = "resources" /\ Api
  /\ call' = [call EXCEPT !.pc = "ha", !.run = [g \in running |-> host[g]]]
  /\ UNCHANGED <<env, answer, hist, faults>>

\* An unreadable HA status is a warning; the placement of the start of the
\* call is used in its place, when there is one.
ReadHa ==
  /\ call.pc = "ha"
  /\ \E h \in {Placement, Null} :
       /\ IF h = Null THEN Fails("ha") ELSE Api /\ UNCHANGED faults
       /\ call' = IF call.first
                  THEN [call EXCEPT !.pc = "options", !.ha = h, !.ha0 = h]
                  ELSE [call EXCEPT !.pc = "choose", !.ha = IF h = Null THEN call.ha0 ELSE h]
  /\ UNCHANGED <<env, answer, hist>>

\* Mutants of Refused: nobody asks who would fence himself; HA guests on any
\* node stand against the shutdown.
RefusedByPolicy(c) == policy # "freeze" \/ (Peers(c) # {} /\ c.ha = Null)
RefusedByAnyone(c) ==
  policy # "freeze" \/ (Peers(c) # {} /\ (c.ha = Null \/ \E n \in Nodes : FenceRisk(c.ha, n)))

\* The refusals, and whether this call may go as far as the entry node.
Refused(c) ==
  \/ policy # "freeze"
  \/ Peers(c) # {} /\ c.ha = Null
  \/ Peers(c) # {} /\ c.ha # Null /\ FenceRisk(c.ha, Entry)

ReadOptions ==
  /\ call.pc = "options" /\ Api
  /\ IF Refused(call)
     THEN End("refused")
     ELSE /\ call' = [call EXCEPT !.pc = "choose", !.first = FALSE,
                                  !.allowed = call.include /\ Peers(call) = {}]
          /\ UNCHANGED answer
  /\ UNCHANGED <<env, hist, faults>>

\* A request of the snapshot fails: the call ends in an error.
ReadFails ==
  /\ call.pc \in {"status", "resources", "options"}
  /\ Fails("lost")
  /\ End("error")
  /\ UNCHANGED <<env, hist>>

\* One turn of the loop up to its first request.
Choose ==
  /\ call.pc = "choose"
  /\ LET s == NextStage(call)
         stuck == Stuck(call, s)
     IN \/ /\ s.name \in {"blocked", "ready_for_nas"}
           /\ End(s.name)
        \/ /\ stuck # {}
           /\ s.name # "stop_guests" \/ ~call.cont
           /\ End("aborted")
        \/ /\ stuck # {} /\ s.name = "stop_guests" /\ call.cont
           /\ call' = [call EXCEPT !.skip = @ \cup {IF t \in Nodes THEN t ELSE call.run[t] : t \in stuck}]
           /\ UNCHANGED answer
        \/ /\ s.todo # {} /\ stuck = {}
           /\ call' = [call EXCEPT !.pc = IF s.name = "stop_guests" THEN "tasks" ELSE "post",
                                   !.stage = s.name, !.todo = s.todo,
                                   !.active = {}, !.waiting = {}]
           /\ UNCHANGED answer
  /\ UNCHANGED <<env, hist, faults>>

\* Mutant of ListTasks: what is in flight is not looked up.
ListNothing ==
  /\ call.pc = "tasks" /\ Api
  /\ call' = [call EXCEPT !.pc = "post"]
  /\ UNCHANGED <<env, answer, hist, faults>>

\* _active_tasks: what is in flight is reused, if it can be listed.
ListTasks ==
  /\ call.pc = "tasks"
  /\ \/ /\ Api
        /\ call' = [call EXCEPT !.pc = "post", !.active = {t \in DOMAIN tasks : tasks[t] > 0}]
        /\ UNCHANGED <<blind, faults>>
     \/ /\ Fails("list")
        /\ call' = [call EXCEPT !.pc = "post"]
        /\ blind' = TRUE
  /\ UNCHANGED <<env, answer, asked, lenient>>

\* What the cluster does on a stop request: stopall has a worker per guest,
\* and a guest is addressed under the node it had in the snapshot.
Covered(t) == IF t \in Nodes THEN On(t) ELSE {t} \cap On(call.run[t])
Workers(t) == Covered(t) \cup ({t} \cap Nodes)
Known(t)   == IF t \in Nodes THEN TRUE ELSE host[t] = call.run[t]
StartTask(t) == tasks' = [x \in DOMAIN tasks |-> tasks[x] + IF x \in Workers(t) THEN 1 ELSE 0]

\* The action has been dealt with; submitted ones are waited for.
Done(t, submitted) ==
  LET rest == call.todo \ {t}
      next == [call EXCEPT !.todo = rest,
                           !.pc = IF rest = {} THEN "wait" ELSE "post",
                           !.tried = IF call.stage = "stop_guests" THEN @ \cup {t} ELSE @,
                           !.downed = IF call.stage = "stop_guests" THEN @ ELSE @ \cup {t},
                           !.waiting = IF submitted THEN @ \cup {t} ELSE @]
  IN IF call.stage = "shutdown_entry"
     THEN End("entry_submitted")
     ELSE call' = next /\ UNCHANGED answer

\* _execute, a stop action: reused, submitted, refused (also when the guest
\* has moved), or submitted by a request whose answer is lost.
PostStop(t) ==
  /\ call.pc = "post" /\ call.stage = "stop_guests" /\ t \in call.todo
  /\ \/ /\ t \in call.active
        /\ Done(t, TRUE)
        /\ UNCHANGED <<tasks, asked, faults>>
     \/ /\ t \notin call.active /\ Api /\ Known(t)
        /\ StartTask(t) /\ Done(t, TRUE)
        /\ asked' = asked \cup Covered(t)
        /\ UNCHANGED faults
     \/ /\ t \notin call.active
        /\ IF Known(t) THEN Fails("post") ELSE UNCHANGED faults
        /\ (Api /\ StartTask(t)) \/ UNCHANGED tasks
        /\ asked' = asked \cup Covered(t)
        /\ Done(t, FALSE)
  /\ UNCHANGED <<online, leaving, host, running, lrm, policy, lenient, blind>>

\* _execute, a node: a timeout counts as submitted, an error does not; the
\* entry node's answers are not looked at.
PostShutdown(n) ==
  /\ call.pc = "post" /\ call.stage # "stop_guests" /\ n \in call.todo
  /\ \/ /\ Api /\ leaving' = leaving \cup ({n} \cap online)
        /\ Done(n, TRUE)
        /\ UNCHANGED faults
     \/ /\ Fails("post")
        /\ leaving' \in {leaving, IF Api THEN leaving \cup ({n} \cap online) ELSE leaving}
        /\ \E submitted \in BOOLEAN : Done(n, submitted)
  /\ UNCHANGED <<online, host, running, tasks, lrm, policy, hist>>

\* _wait ends: everything submitted is over, and the cluster is read again.
WaitEnds ==
  /\ call.pc = "wait" /\ Api
  /\ IF call.stage = "shutdown_peers"
     THEN call.waiting \cap online = {}
     ELSE \A t \in call.waiting : tasks[t] = 0
  /\ call' = [call EXCEPT !.pc = "status"]
  /\ UNCHANGED <<env, answer, hist, faults>>

\* The budget is used up, or the API is lost while peers power off.
WaitTimesOut ==
  /\ call.pc = "wait"
  /\ End("in_progress")
  /\ UNCHANGED <<env, hist, faults>>

\* The status of a task cannot be read: it is not waited for any longer.
PollFails ==
  /\ call.pc = "wait" /\ call.stage = "stop_guests" /\ Fails("poll")
  /\ \E t \in call.waiting : call' = [call EXCEPT !.waiting = @ \ {t}]
  /\ UNCHANGED <<env, answer, hist>>

-----------------------------------------------------------------------------
(* The cluster.                                                            *)

GuestStops(g) ==
  /\ tasks[g] > 0
  /\ running' = running \ {g}
  /\ tasks' = [tasks EXCEPT ![g] = 0]
  /\ UNCHANGED <<online, leaving, host, lrm, policy, call, answer, hist, faults>>

\* A shutdown worker gives up on its guest.
GuestHangs(g) ==
  /\ tasks[g] > 0 /\ g \in running /\ Fault("hang")
  /\ tasks' = [tasks EXCEPT ![g] = 0]
  /\ UNCHANGED <<online, leaving, host, running, lrm, policy, call, answer, hist>>

StopallEnds(n) ==
  /\ tasks[n] > 0 /\ \A g \in Guests : host[g] = n => tasks[g] = 0
  /\ tasks' = [tasks EXCEPT ![n] = 0]
  /\ UNCHANGED <<online, leaving, host, running, lrm, policy, call, answer, hist, faults>>

\* Mutant of PowersOff: a node that is off still carries out its shutdown.
PowersOffAgain(n) ==
  /\ n \in leaving
  /\ online' = online \ {n} /\ lrm' = lrm \ {n} /\ running' = running \ On(n)
  /\ UNCHANGED <<leaving, host, tasks, policy, call, answer, hist, faults>>

\* A node powers off, and with it what still runs on it (freeze: the HA
\* guests are not moved).
PowersOff(n) ==
  /\ n \in leaving
  /\ online' = online \ {n} /\ leaving' = leaving \ {n} /\ lrm' = lrm \ {n}
  /\ running' = running \ On(n)
  /\ tasks' = [t \in DOMAIN tasks |->
                 IF t = n \/ (t \in Guests /\ host[t] = n) THEN 0 ELSE tasks[t]]
  /\ UNCHANGED <<host, policy, call, answer, hist, faults>>

\* An LRM without services goes idle.
LrmIdles(n) ==
  /\ n \in lrm /\ \A g \in Ha : host[g] # n
  /\ lrm' = lrm \ {n}
  /\ UNCHANGED <<online, leaving, host, running, tasks, policy, call, answer, hist, faults>>

\* Between two calls the operator moves a guest to be kept to the entry node.
MoveKept(g) ==
  /\ call.pc = "idle" /\ g \in Keep \cap running /\ host[g] # Entry /\ tasks[g] = 0
  /\ Entry \in online
  /\ host' = [host EXCEPT ![g] = Entry]
  /\ UNCHANGED <<online, leaving, running, tasks, lrm, policy, call, answer, hist, faults>>

\* Between two calls the operator stops a hung guest (pve_stop_guest, the hint
\* of an aborted call) and waits for the task, which may fail.
StopsByHand(g) ==
  /\ call.pc = "idle" /\ Api /\ g \in Plain \cap running /\ tasks[g] = 0
  /\ \/ running' = running \ {g} /\ UNCHANGED faults
     \/ UNCHANGED running /\ Fault("post")
  /\ asked' = asked \cup {g}
  /\ UNCHANGED <<online, leaving, host, tasks, lrm, policy, call, answer, lenient, blind>>

\* Somebody moves a plain guest, also during a call: a lenient one may then
\* take the guest down without having asked it.
Migrates(g, n) ==
  /\ g \in Plain \cap running /\ tasks[g] = 0 /\ host[g] \in online \ leaving
  /\ n \in (online \ leaving) \ {host[g]} /\ Fault("migrate")
  /\ host' = [host EXCEPT ![g] = n]
  /\ asked' = asked \cup {g}
  /\ UNCHANGED <<online, leaving, running, tasks, lrm, policy, call, answer, lenient, blind>>

CallStep ==
  \/ ReadStatus \/ ReadResources \/ ReadHa \/ ReadOptions \/ ReadFails
  \/ Choose \/ ListTasks
  \/ \E t \in Guests \cup Nodes : PostStop(t)
  \/ \E n \in Nodes : PostShutdown(n)
  \/ WaitEnds \/ WaitTimesOut \/ PollFails

\* What the cluster does by itself on what it has been told.
Progress ==
  \/ \E g \in Guests : GuestStops(g)
  \/ \E n \in Nodes : StopallEnds(n) \/ PowersOff(n) \/ LrmIdles(n)

EnvStep ==
  \/ Progress
  \/ \E g \in Guests : GuestHangs(g) \/ MoveKept(g) \/ StopsByHand(g) \/ \E n \in Nodes : Migrates(g, n)

Next == (\E include, cont \in BOOLEAN : Begin(include, cont)) \/ CallStep \/ EnvStep

Spec == Init /\ [][Next]_vars

\* A call goes on; what was told to stop stops; the operator repeats the call,
\* also with include_entry_node, and moves what the tool says is misplaced.
Fairness ==
  /\ WF_vars(CallStep) /\ WF_vars(Progress)
  /\ SF_vars(\E cont \in BOOLEAN : Begin(TRUE, cont))
  /\ SF_vars(\E g \in Guests : MoveKept(g))

FairSpec == Spec /\ Fairness

-----------------------------------------------------------------------------
(* Properties.                                                             *)

TypeOK ==
  /\ online \subseteq Nodes /\ leaving \subseteq online /\ lrm \subseteq online
  /\ host \in [Guests -> Nodes] /\ running \subseteq Guests
  /\ tasks \in [Guests \cup Nodes -> Nat]
  /\ call.pc \in {"idle", "status", "resources", "ha", "options", "choose", "tasks", "post", "wait"}
  /\ call.pc # "idle" => call.todo \cup call.waiting \subseteq Guests \cup Nodes
  /\ asked \subseteq Guests /\ faults \in 0..MaxFaults

\* The calls together are an ordered shutdown: guests are asked before their
\* node goes, and the entry node goes last.
Ordered == INSTANCE OrderedShutdown WITH up <- online
ImplementsOrdered == Ordered!Spec

\* A guest to be kept running (the router in front of the NAS) runs until the
\* entry node itself goes, wherever it was when the shutdown began.
KeptRunning == Api => Keep \subseteq running

\* What is in flight is reused: no guest has two shutdown workers, and no node
\* two that stop all, unless a call could not list the tasks.
NothingTwice == blind \/ \A t \in DOMAIN tasks : tasks[t] <= 1

\* The entry node never sits without quorum with an active LRM, which would
\* reset it by its watchdog in the middle of the shutdown.
EntryNeverFences == Api /\ ~Quorate => Entry \notin lrm

\* ready_for_nas, on which the NAS is shut down, is answered only when no peer
\* is up and no guest the shutdown had to stop still runs.
ReadyIsTrue ==
  [][answer' = "ready_for_nas" /\ call'.pc = "idle" /\ call.pc # "idle" =>
       online \subseteq {Entry} /\ (lenient \/ Plain \cap running = {})]_vars

\* Whatever is lost, hangs or runs out of its budget, repeating the call brings
\* the lab down, once nothing stands against it that the tool refuses for.
EventuallyDown ==
  policy = "freeze" /\ (\A g \in Ha : host[g] # Entry) ~> online = {}
=============================================================================
