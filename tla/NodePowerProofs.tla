-------------------------- MODULE NodePowerProofs --------------------------
(***************************************************************************)
(* Proofs about NodePower: its state keeps its type, and nodes shut down   *)
(* one after the other leave no running node that would fence itself, for  *)
(* every even number of nodes, every placement and any number of faults.   *)
(***************************************************************************)
EXTENDS NodePower, FiniteSetTheorems, TLAPS

Powers == {"on", "halting", "restarting", "off", "booting"}

\* What the calls may look like.
Shutdowns ==
  [tool : {"shutdown"}, pc : {"status", "options", "qdevice", "ha", "post"}, node : Nodes,
   cmd : {"shutdown", "reboot"}, allow : BOOLEAN, seen : SUBSET Nodes, quorate : BOOLEAN,
   votes : {Null} \cup [expected : {0, 1}, live : {0, 1}], refused : BOOLEAN]
Waitings == [tool : {"wait"}, pc : {"poll"}, target : {"online", "offline"}, watched : SUBSET Nodes]
Wakings ==
  [tool : {"wake"}, pc : {"members", "send"}, targets : SUBSET Nodes, todo : SUBSET Nodes,
   sent : SUBSET Nodes]

Shaped ==
  /\ power \in [Nodes -> Powers]
  /\ qdevice \in {"none", "connected", "disconnected"}
  /\ lrm \subseteq Online
  /\ call \in {Idle} \cup Shutdowns \cup Waitings \cup Wakings
  /\ watch \in {Null} \cup Waits
  /\ estimate \in {Null} \cup [node : Nodes, quorate : BOOLEAN]
  /\ faults \in 0..MaxFaults

Going(n) == power[n] \in {"halting", "restarting"}

\* One node goes at a time, nobody looks at the guards meanwhile, and the
\* operator waits for a node that was told to halt.
InTurn ==
  /\ \A n \in Nodes : Going(n) =>
       /\ call = Idle \/ call.tool = "wait"
       /\ \A m \in Nodes \ {n} : power[m] \in {"on", "off"}
       /\ n # Entry => power[Entry] = "on"
  /\ \A n \in Nodes : power[n] = "halting" =>
       /\ watch = [nodes |-> {n}, target |-> "offline"]
       /\ call.tool = "wait" => call.watched = {n} /\ call.target = "offline"
  /\ call.tool = "shutdown" =>
       /\ \A n \in Nodes \ {Entry} : power[n] \in {"on", "off"}
       /\ call.pc # "status" => power[Entry] = "on"

\* Quorum does not hang on n, or nobody who stays would fence himself.
Spared(n) ==
  \/ ~Quorate
  \/ QuorateOf(Online \ {n})
  \/ \A m \in Online \ {n} : m \notin lrm /\ m \notin Placed

\* What the guards have read is still so, and what they let pass is safe.
SeenIsSo ==
  call.tool = "shutdown" /\ call.pc # "status" =>
    /\ call.seen = Online /\ (call.quorate <=> Quorate)
    /\ call.refused \/ call.node \in Online

VotesAreSo ==
  call.tool = "shutdown" /\ call.pc \in {"ha", "post"} =>
    call.votes \in {QdeviceVotes(qdevice), QdeviceVotes("unreadable")}

PassedIsSafe ==
  call.tool = "shutdown" /\ call.pc = "post" /\ ~call.refused =>
    \/ QuorumImpact(call.seen, call.node, call.votes)
    \/ ~call.quorate
    \/ \A m \in Online \ {call.node} : m \notin lrm /\ m \notin Placed

\* So a node that goes spares the others, and the announcement was right.
GoingIsSafe ==
  \A n \in Nodes : Going(n) =>
    /\ Spared(n)
    /\ estimate # Null /\ estimate.node = n /\ estimate.quorate => QuorateOf(Online \ {n})

Guarded == SeenIsSo /\ VotesAreSo /\ PassedIsSafe /\ GoingIsSafe

Inv == Shaped /\ InTurn /\ Guarded /\ NobodyFences

-----------------------------------------------------------------------------
(* The arithmetic of the votes.                                            *)

\* The lab has an even number of nodes.
EvenCluster == \E k \in Nat : Cardinality(Nodes) = 2 * k

\* While the entry node is on, a poll fails only when the API is gone, and a
\* command that is answered with an error was not carried out by a peer.
Faithful == "poll" \notin FaultKinds /\ "unheard" \notin FaultKinds

\* A set of nodes is finite, and a node more or less counts as one.
LEMMA Members ==
  ASSUME NEW S \in SUBSET Nodes, NEW n \in Nodes
  PROVE  /\ Cardinality(S) \in Nat
         /\ n \in S => Cardinality(S \ {n}) = Cardinality(S) - 1
         /\ n \notin S => Cardinality(S \cup {n}) = Cardinality(S) + 1
         /\ Cardinality(S \ {n}) \in Nat
<1>1. IsFiniteSet(S) /\ IsFiniteSet(S \ {n})
  BY NodesAssumption, FS_Subset
<1>2. Cardinality(S) \in Nat /\ Cardinality(S \ {n}) \in Nat
  BY <1>1, FS_CardinalityType
<1>3. n \in S => Cardinality(S \ {n}) = Cardinality(S) - 1
  BY <1>1, FS_RemoveElement
<1>4. n \notin S => Cardinality(S \cup {n}) = Cardinality(S) + 1
  BY <1>1, FS_AddElement
<1> QED
  BY <1>2, <1>3, <1>4

\* What quorum_impact promises, corosync keeps, with a QDevice that was read or
\* could not be: with an even number of nodes its vote does not raise the majority.
LEMMA ImpactIsQuorate ==
  ASSUME EvenCluster, qdevice \in {"none", "connected", "disconnected"},
         NEW S \in SUBSET Nodes, NEW n \in S,
         NEW votes \in {QdeviceVotes(qdevice), QdeviceVotes("unreadable")},
         QuorumImpact(S, n, votes)
  PROVE  QuorateOf(S \ {n})
<1>1. PICK k \in Nat : Cardinality(Nodes) = 2 * k
  BY DEF EvenCluster
<1>2. Cardinality(S) \in Nat /\ Cardinality(S \ {n}) = Cardinality(S) - 1
  BY Members
<1>3. (2 * k) \div 2 = k /\ (2 * k + 1) \div 2 = k /\ (2 * k + 0) \div 2 = k
  OBVIOUS
<1>4. votes = [expected |-> 0, live |-> 0] => Cardinality(S) - 1 > k
  BY <1>1, <1>2, <1>3 DEF QuorumImpact
<1>5. votes = [expected |-> 1, live |-> 0] => Cardinality(S) - 1 > k
  BY <1>1, <1>2, <1>3 DEF QuorumImpact
<1>6. votes = [expected |-> 1, live |-> 1] => Cardinality(S) > k
  BY <1>1, <1>2, <1>3 DEF QuorumImpact
<1>7. CASE qdevice = "none"
  BY <1>1, <1>2, <1>3, <1>4, <1>7 DEF QdeviceVotes, QuorateOf
<1>8. CASE qdevice = "disconnected"
  BY <1>1, <1>2, <1>3, <1>4, <1>5, <1>8 DEF QdeviceVotes, QuorateOf
<1>9. CASE qdevice = "connected"
  BY <1>1, <1>2, <1>3, <1>4, <1>6, <1>9 DEF QdeviceVotes, QuorateOf
<1> QED
  BY <1>7, <1>8, <1>9

\* A node that joins takes no quorum away.
LEMMA JoiningKeepsQuorum ==
  ASSUME NEW S \in SUBSET Nodes, NEW n \in Nodes, QuorateOf(S)
  PROVE  QuorateOf(S \cup {n})
<1>1. Cardinality(Nodes) \in Nat
  BY NodesAssumption, FS_CardinalityType
<1>2. CASE n \in S
  <2>1. S \cup {n} = S
    BY <1>2
  <2> QED
    BY <2>1
<1>3. CASE n \notin S
  <2>1. Cardinality(S) \in Nat /\ Cardinality(S \cup {n}) = Cardinality(S) + 1
    BY <1>3, Members
  <2> QED
    BY <1>1, <2>1 DEF QuorateOf
<1> QED
  BY <1>2, <1>3

-----------------------------------------------------------------------------
(* Type correctness.                                                       *)

\* Where a call is tells which tool it is of.
LEMMA CallKinds ==
  ASSUME call \in {Idle} \cup Shutdowns \cup Waitings \cup Wakings
  PROVE  /\ call.tool = "shutdown" \/ call.pc \in {"status", "options", "qdevice", "ha", "post"}
              => call \in Shutdowns
         /\ call.tool = "wait" \/ call.pc = "poll" => call \in Waitings
         /\ call.tool = "wake" \/ call.pc \in {"members", "send"} => call \in Wakings
BY DEF Idle, Shutdowns, Waitings, Wakings

\* Every step keeps the shape of the state.
LEMMA ShapedStep ==
  ASSUME Shaped, [Next]_vars
  PROVE  Shaped'
<1> USE DEF Shaped
<1>a. Online \in SUBSET Nodes /\ Entry \in Nodes /\ Placed \subseteq Nodes
  BY EntryAssumption, PlacedAssumption DEF Online
<1>b. \A k : UNCHANGED faults \/ Fault(k) \/ Fails(k) => faults' \in 0..MaxFaults
  BY NodesAssumption DEF Fault, Fails
<1>1. ASSUME NEW n \in Nodes, NEW cmd \in {"shutdown", "reboot"}, NEW allow \in BOOLEAN,
             ShutdownNode(n, cmd, allow)
      PROVE  Shaped'
  BY <1>1 DEF ShutdownNode, cluster, Shutdowns, Online
<1>2. ASSUME NEW nodes \in SUBSET Nodes, WakeOnLan(nodes)
      PROVE  Shaped'
  BY <1>2 DEF WakeOnLan, cluster, Wakings, Online
<1>3. ASSUME NEW nodes \in SUBSET Nodes, NEW target \in {"online", "offline"},
             WaitNodes(target, nodes)
      PROVE  Shaped'
  BY <1>3 DEF WaitNodes, cluster, Waitings, Online
<1>4. CASE ReadMembers
  <2>1. call \in Shutdowns
    BY <1>4, CallKinds DEF ReadMembers
  <2>2. Quorate \in BOOLEAN
    BY DEF Quorate, QuorateOf
  <2>3. call' \in Shutdowns
    BY <1>4, <1>a, <2>1, <2>2 DEF ReadMembers, Shutdowns
  <2> QED
    BY <1>4, <2>3 DEF ReadMembers, cluster, Online
<1>5. CASE ReadPolicy
  <2>1. call \in Shutdowns
    BY <1>5, CallKinds DEF ReadPolicy
  <2>2. call' \in Shutdowns
    BY <1>5, <2>1 DEF ReadPolicy, Shutdowns
  <2> QED
    BY <1>5, <2>2 DEF ReadPolicy, cluster, Online
<1>6. CASE ReadQdevice
  <2>1. call \in Shutdowns
    BY <1>6, CallKinds DEF ReadQdevice
  <2>2. \A q : QdeviceVotes(q) \in [expected : {0, 1}, live : {0, 1}]
    BY DEF QdeviceVotes
  <2>3. call' \in Shutdowns
    <3>1. PICK q : LET loses == call.quorate /\ ~QuorumImpact(call.seen, call.node, QdeviceVotes(q))
                   IN  call' = [call EXCEPT !.pc = IF loses THEN "ha" ELSE "post",
                                            !.votes = QdeviceVotes(q)]
      BY <1>6 DEF ReadQdevice
    <3>2. PICK pc \in {"ha", "post"} : call' = [call EXCEPT !.pc = pc, !.votes = QdeviceVotes(q)]
      BY <3>1
    <3> QED
      BY <2>1, <2>2, <3>2 DEF Shutdowns
  <2>4. faults' \in 0..MaxFaults
    BY <1>6, <1>b DEF ReadQdevice
  <2> QED
    BY <1>6, <2>3, <2>4 DEF ReadQdevice, cluster, Online
<1>7. CASE ReadHa
  <2>1. call \in Shutdowns
    BY <1>7, CallKinds DEF ReadHa
  <2>2. call' \in Shutdowns
    BY <1>7, <2>1 DEF ReadHa, Shutdowns
  <2>3. faults' \in 0..MaxFaults
    BY <1>7, <1>b DEF ReadHa
  <2> QED
    BY <1>7, <2>2, <2>3 DEF ReadHa, cluster, Online
<1>8. CASE ReadFails
  BY <1>8, <1>b DEF ReadFails, cluster, Online
<1>9. CASE Refuse
  BY <1>9 DEF Refuse, cluster, Online
<1>10. CASE Submit
  <2>1. call \in Shutdowns
    BY <1>10, CallKinds DEF Submit
  <2>2. power' = power \/ power' = Told
    BY <1>10 DEF Submit
  <2>3. power' \in [Nodes -> Powers] /\ Online' = Online
    BY <2>1, <2>2 DEF Told, Online, Powers, Shutdowns
  <2>4. On(call) \in Waits /\ Announced \in [node : Nodes, quorate : BOOLEAN]
    BY <2>1 DEF On, Waits, Announced, Shutdowns, QuorumImpact
  <2>5. watch' \in {Null} \cup Waits /\ estimate' \in {Null} \cup [node : Nodes, quorate : BOOLEAN]
    BY <1>10, <2>4 DEF Submit
  <2>6. faults' \in 0..MaxFaults
    BY <1>10, <1>b DEF Submit
  <2> QED
    BY <1>10, <2>3, <2>5, <2>6 DEF Submit
<1>11. CASE Poll \/ PollTimesOut \/ PollFails
  BY <1>11, <1>b DEF Poll, PollTimesOut, PollFails, Answer, cluster, Online
<1>12. CASE ReadTargets
  <2>1. call \in Wakings
    BY <1>12, CallKinds DEF ReadTargets
  <2>2. call' \in {Idle} \cup Wakings
    BY <1>12, <2>1 DEF ReadTargets, Wakings
  <2> QED
    BY <1>12, <2>2 DEF ReadTargets, cluster, Online
<1>13. ASSUME NEW n \in Nodes, Send(n)
       PROVE  Shaped'
  <2>1. call \in Wakings
    BY <1>13, CallKinds DEF Send
  <2>2. call' \in {Idle} \cup Wakings
    <3>1. PICK sent : /\ sent = call.sent \/ sent = call.sent \cup {n}
                      /\ call' = Idle \/ call' = [call EXCEPT !.todo = @ \ {n}, !.sent = sent]
      BY <1>13 DEF Send
    <3>2. CASE call' = [call EXCEPT !.todo = @ \ {n}, !.sent = sent]
      BY <2>1, <3>1, <3>2 DEF Wakings
    <3> QED
      BY <3>1, <3>2
  <2>3. power' \in [Nodes -> Powers] /\ Online' = Online
    BY <1>13 DEF Send, Powers, Online
  <2>4. watch' \in {Null} \cup Waits
    BY <1>13, <2>1 DEF Send, Wakings, Waits
  <2>5. faults' \in 0..MaxFaults
    BY <1>13, <1>b DEF Send
  <2> QED
    BY <1>13, <2>2, <2>3, <2>4, <2>5 DEF Send
<1>14. ASSUME NEW n \in Nodes, Leaves(n)
       PROVE  Shaped'
  BY <1>14 DEF Leaves, Rest, Powers, Online
<1>15. ASSUME NEW n \in Nodes, Joins(n)
       PROVE  Shaped'
  BY <1>15 DEF Joins, Rest, Powers, Online
<1>16. CASE ColdStart
  BY <1>16, <1>a DEF ColdStart, Rest, Powers, Online
<1>17. ASSUME NEW n \in Nodes, LrmChanges(n)
       PROVE  Shaped'
  BY <1>17 DEF LrmChanges, Rest, Online
<1>18. CASE QdeviceChanges
  BY <1>18, <1>b DEF QdeviceChanges, Rest, Online
<1>19. CASE UNCHANGED vars
  BY <1>19 DEF vars, Online
<1> QED
  BY <1>1, <1>2, <1>3, <1>4, <1>5, <1>6, <1>7, <1>8, <1>9, <1>10, <1>11, <1>12, <1>13, <1>14,
     <1>15, <1>16, <1>17, <1>18, <1>19 DEF Next, Begin, CallStep, Progress

-----------------------------------------------------------------------------
(* One node at a time.                                                     *)

\* Nobody is going while the guards are read or packets are sent, and nobody is
\* on the way when the operator begins.
LEMMA Quiet ==
  ASSUME Shaped, InTurn
  PROVE  /\ call.tool \in {"shutdown", "wake"} => \A n \in Nodes : ~Going(n)
         /\ Free => \A n \in Nodes : power[n] \in {"on", "off"}
<1>1. call.tool \in {"shutdown", "wake"} => call # Idle /\ call.tool # "wait"
  BY DEF Idle
<1>2. \A n \in Nodes : power[n] = "halting" => watch # Null
  BY NullAssumption DEF InTurn, Waits
<1> QED
  BY <1>1, <1>2 DEF InTurn, Free, Going, Shaped, Powers

\* Every step keeps the turns.
LEMMA TurnStep ==
  ASSUME Faithful, Shaped, InTurn, [Next]_vars
  PROVE  InTurn'
<1> USE DEF InTurn, Going
<1>a. Entry \in Nodes /\ Idle.tool = "none"
  BY EntryAssumption DEF Idle
<1>1. ASSUME NEW n \in Nodes, NEW cmd \in {"shutdown", "reboot"}, NEW allow \in BOOLEAN,
             ShutdownNode(n, cmd, allow)
      PROVE  InTurn'
  BY <1>1, Quiet DEF ShutdownNode, cluster
<1>2. ASSUME NEW nodes \in SUBSET Nodes, WakeOnLan(nodes)
      PROVE  InTurn'
  BY <1>2, Quiet DEF WakeOnLan, cluster
<1>3. ASSUME NEW nodes \in SUBSET Nodes, NEW target \in {"online", "offline"},
             WaitNodes(target, nodes)
      PROVE  InTurn'
  <2>1. \A n \in Nodes : power[n] = "halting" => watch # Null
    BY NullAssumption DEF Waits
  <2> QED
    BY <1>3, <2>1 DEF WaitNodes, cluster
<1>4. CASE ReadMembers
  <2>1. call \in Shutdowns /\ \A n \in Nodes : ~Going(n)
    BY <1>4, CallKinds, Quiet DEF ReadMembers, Shaped
  <2>2. call'.tool = "shutdown"
    BY <1>4, <2>1 DEF ReadMembers, Shutdowns
  <2>3. power[Entry] = "on"
    BY <1>4, <1>a, <2>1 DEF ReadMembers, Api, Online
  <2> QED
    BY <1>4, <2>1, <2>2, <2>3 DEF ReadMembers, cluster
<1>5. CASE ReadPolicy \/ ReadQdevice \/ ReadHa
  <2>1. call \in Shutdowns /\ call.tool = "shutdown" /\ \A n \in Nodes : ~Going(n)
    BY <1>5, CallKinds, Quiet DEF ReadPolicy, ReadQdevice, ReadHa, Shaped, Shutdowns
  <2>2. call.pc # "status" /\ power' = power /\ watch' = watch
    BY <1>5 DEF ReadPolicy, ReadQdevice, ReadHa, cluster
  <2>3. call'.tool = "shutdown"
    BY <1>5, <2>1 DEF ReadPolicy, ReadQdevice, ReadHa, Shutdowns
  <2> QED
    BY <2>1, <2>2, <2>3
<1>6. CASE ReadFails \/ Refuse
  BY <1>6, <1>a DEF ReadFails, Refuse, cluster
<1>7. CASE Submit
  <2>1. call \in Shutdowns /\ \A n \in Nodes : ~Going(n)
    BY <1>7, Quiet, CallKinds DEF Submit, Shaped
  <2>2. /\ \A n \in Nodes \ {Entry} : power[n] \in {"on", "off"}
        /\ power[Entry] = "on"
        /\ power \in [Nodes -> Powers] /\ call.node \in Nodes
    BY <1>7, <2>1 DEF Submit, Shaped, Shutdowns
  <2>3. CASE power' = power
    BY <1>7, <1>a, <2>1, <2>3 DEF Submit
  <2>4. CASE power' = Told /\ watch' = On(call)
    <3>1. \A n \in Nodes \ {call.node} : power'[n] \in {"on", "off"} /\ power'[n] = power[n]
      BY <2>2, <2>4, <1>a DEF Told
    <3>2. power'[call.node] = "halting" => On(call) = [nodes |-> {call.node}, target |-> "offline"]
      BY <2>1, <2>2, <2>4 DEF Told, On, Powers
    <3> QED
      BY <1>7, <1>a, <2>2, <2>4, <3>1, <3>2 DEF Submit
  <2> QED
    BY <1>7, <2>3, <2>4 DEF Submit, Unheard, Faithful
<1>8. CASE Poll
  <2>1. call \in Waitings
    BY <1>8, CallKinds DEF Poll, Shaped
  <2>2. ASSUME NEW n \in Nodes, power[n] = "halting"
        PROVE  FALSE
    <3>1. call.watched = {n} /\ call.target = "offline"
      BY <2>1, <2>2 DEF Waitings
    <3>2. n \notin Online
      BY <1>8, <3>1 DEF Poll, Watched
    <3> QED
      BY <2>2, <3>2 DEF Online
  <2> QED
    BY <1>8, <1>a, <2>2 DEF Poll, Answer, cluster
<1>9. CASE PollTimesOut
  BY <1>9, <1>a DEF PollTimesOut, Answer, cluster
<1>10. CASE PollFails
  <2>1. Entry \notin Online
    BY <1>10 DEF PollFails, Fails, Fault, Faithful, Api
  <2>2. \A n \in Nodes : power[n] # "halting"
    BY <2>1, <1>a DEF Online
  <2> QED
    BY <1>10, <1>a, <2>2 DEF PollFails, Answer, cluster
<1>11. CASE ReadTargets
  <2>1. call \in Wakings /\ \A n \in Nodes : ~Going(n)
    BY <1>11, CallKinds, Quiet DEF ReadTargets, Shaped, Wakings
  <2>2. call'.tool # "shutdown"
    BY <1>11, <1>a, <2>1 DEF ReadTargets, Wakings
  <2> QED
    BY <1>11, <2>1, <2>2 DEF ReadTargets, cluster
<1>12. ASSUME NEW n \in Nodes, Send(n)
       PROVE  InTurn'
  <2>1. call \in Wakings /\ \A m \in Nodes : ~Going(m)
    BY <1>12, CallKinds, Quiet DEF Send, Shaped, Wakings
  <2>2. call'.tool # "shutdown"
    BY <1>12, <1>a, <2>1 DEF Send, Wakings
  <2>3. \A m \in Nodes : ~Going(m)'
    BY <1>12, <2>1 DEF Send, Shaped
  <2> QED
    BY <2>2, <2>3
<1>13. ASSUME NEW n \in Nodes, Leaves(n)
       PROVE  InTurn'
  <2>1. call.tool # "shutdown" /\ call' = call
    BY <1>13, Quiet DEF Leaves, Rest
  <2>2. \A m \in Nodes : ~Going(m)'
    BY <1>13 DEF Leaves, Shaped
  <2> QED
    BY <2>1, <2>2
<1>14. ASSUME NEW n \in Nodes, Joins(n)
       PROVE  InTurn'
  <2>1. \A m \in Nodes : ~Going(m)
    BY <1>14 DEF Joins
  <2>2. \A m \in Nodes : ~Going(m)'
    BY <1>14, <2>1 DEF Joins, Shaped
  <2>3. \A m \in Nodes : power[m] \in {"on", "off"} => power'[m] \in {"on", "off"}
    BY <1>14 DEF Joins, Shaped
  <2>4. power[Entry] = "on" => power'[Entry] = "on"
    BY <1>14 DEF Joins, Shaped
  <2> QED
    BY <1>14, <2>2, <2>3, <2>4 DEF Joins, Rest
<1>15. CASE ColdStart
  <2>1. \A m \in Nodes : ~Going(m)
    BY <1>15, <1>a DEF ColdStart
  <2>2. \A m \in Nodes : ~Going(m)'
    BY <1>15, <2>1 DEF ColdStart, Shaped
  <2>3. \A m \in Nodes \ {Entry} : power'[m] = power[m]
    BY <1>15 DEF ColdStart, Shaped
  <2> QED
    BY <1>15, <1>a, <2>2, <2>3 DEF ColdStart, Rest
<1>16. ASSUME NEW n \in Nodes, LrmChanges(n)
       PROVE  InTurn'
  BY <1>16 DEF LrmChanges, Rest
<1>17. CASE QdeviceChanges
  BY <1>17 DEF QdeviceChanges, Rest
<1>18. CASE UNCHANGED vars
  BY <1>18 DEF vars
<1> QED
  BY <1>1, <1>2, <1>3, <1>4, <1>5, <1>6, <1>7, <1>8, <1>9, <1>10, <1>11, <1>12, <1>13, <1>14,
     <1>15, <1>16, <1>17, <1>18 DEF Next, Begin, CallStep, Progress

-----------------------------------------------------------------------------
(* The guards.                                                             *)

\* A step that leaves the nodes and the QDevice alone changes no quorum.
LEMMA Unmoved ==
  ASSUME power' = power, qdevice' = qdevice
  PROVE  /\ Online' = Online
         /\ Quorate' <=> Quorate
         /\ \A n : QuorateOf(Online \ {n})' <=> QuorateOf(Online \ {n})
         /\ \A n : Going(n)' <=> Going(n)
<1>1. Online' = Online
  BY DEF Online
<1> QED
  BY <1>1 DEF Quorate, QuorateOf, Going

\* One that tells nobody to go, and activates no LRM but where resources are
\* placed, keeps what is said of the nodes that go.
LEMMA GoingStays ==
  ASSUME GoingIsSafe, power' = power, qdevice' = qdevice, estimate' = estimate,
         \A m \in lrm' : m \in lrm \/ m \in Placed
  PROVE  GoingIsSafe'
<1>1. ASSUME NEW n \in Nodes, Going(n)
      PROVE  Spared(n)'
  BY <1>1, Unmoved DEF GoingIsSafe, Spared
<1> QED
  BY <1>1, Unmoved DEF GoingIsSafe

\* One that does so and is not of a shutdown keeps the guards.
LEMMA OtherCalls ==
  ASSUME Guarded, power' = power, qdevice' = qdevice, lrm' = lrm, estimate' = estimate,
         call'.tool # "shutdown"
  PROVE  Guarded'
<1>1. GoingIsSafe'
  BY GoingStays DEF Guarded
<1> QED
  BY <1>1 DEF Guarded, SeenIsSo, VotesAreSo, PassedIsSafe

\* Every step keeps the guards.
LEMMA GuardedStep ==
  ASSUME EvenCluster, Faithful, Shaped, InTurn, Guarded, [Next]_vars
  PROVE  Guarded'
<1>a. Entry \in Nodes /\ Idle.tool = "none" /\ Online \in SUBSET Nodes
  BY EntryAssumption DEF Idle, Online
<1>1. ASSUME NEW n \in Nodes, NEW cmd \in {"shutdown", "reboot"}, NEW allow \in BOOLEAN,
             ShutdownNode(n, cmd, allow)
      PROVE  Guarded'
  <2>1. GoingIsSafe'
    BY <1>1, GoingStays DEF ShutdownNode, cluster, Guarded
  <2> QED
    BY <1>1, <2>1 DEF ShutdownNode, Guarded, SeenIsSo, VotesAreSo, PassedIsSafe
<1>2. ASSUME NEW nodes \in SUBSET Nodes, WakeOnLan(nodes)
      PROVE  Guarded'
  BY <1>2, OtherCalls DEF WakeOnLan, cluster
<1>3. ASSUME NEW nodes \in SUBSET Nodes, NEW target \in {"online", "offline"},
             WaitNodes(target, nodes)
      PROVE  Guarded'
  BY <1>3, OtherCalls DEF WaitNodes, cluster
<1>4. CASE ReadMembers
  <2>1. call \in Shutdowns /\ power' = power /\ qdevice' = qdevice
    BY <1>4, CallKinds DEF ReadMembers, Shaped, cluster
  <2>2. GoingIsSafe'
    BY <1>4, GoingStays DEF ReadMembers, cluster, Guarded
  <2>3. /\ call'.pc = "options" /\ call'.seen = Online /\ (call'.quorate <=> Quorate)
        /\ call'.refused \/ call'.node \in Online
    BY <1>4, <2>1 DEF ReadMembers, Shutdowns
  <2>4. SeenIsSo'
    BY <2>1, <2>3, Unmoved DEF SeenIsSo
  <2> QED
    BY <2>2, <2>3, <2>4 DEF Guarded, VotesAreSo, PassedIsSafe
<1>5. CASE ReadPolicy
  <2>1. call \in Shutdowns /\ call.tool = "shutdown" /\ power' = power /\ qdevice' = qdevice
    BY <1>5, CallKinds DEF ReadPolicy, Shaped, cluster, Shutdowns
  <2>2. GoingIsSafe'
    BY <1>5, GoingStays DEF ReadPolicy, cluster, Guarded
  <2>3. /\ call'.pc = "qdevice" /\ call'.seen = call.seen /\ call'.quorate = call.quorate
        /\ call'.node = call.node /\ (call.refused => call'.refused)
    BY <1>5, <2>1 DEF ReadPolicy, Shutdowns
  <2>4. SeenIsSo'
    BY <1>5, <2>1, <2>3, Unmoved DEF SeenIsSo, Guarded, ReadPolicy
  <2> QED
    BY <2>2, <2>3, <2>4 DEF Guarded, VotesAreSo, PassedIsSafe
<1>6. CASE ReadQdevice
  <2>1. call \in Shutdowns /\ call.tool = "shutdown" /\ power' = power /\ qdevice' = qdevice
    BY <1>6, CallKinds DEF ReadQdevice, Shaped, cluster, Shutdowns
  <2>2. GoingIsSafe'
    BY <1>6, GoingStays DEF ReadQdevice, cluster, Guarded
  <2>3. PICK q \in {qdevice, "unreadable"} :
          call' = [call EXCEPT
                     !.pc = IF call.quorate /\ ~QuorumImpact(call.seen, call.node, QdeviceVotes(q))
                            THEN "ha" ELSE "post",
                     !.votes = QdeviceVotes(q)]
    BY <1>6 DEF ReadQdevice
  <2>4. /\ call'.seen = call.seen /\ call'.quorate = call.quorate
        /\ call'.node = call.node /\ call'.refused = call.refused
        /\ call'.votes = QdeviceVotes(q)
        /\ call'.pc = "post" => ~call.quorate \/ QuorumImpact(call.seen, call.node, QdeviceVotes(q))
    BY <2>1, <2>3 DEF Shutdowns
  <2>5. SeenIsSo'
    BY <1>6, <2>1, <2>4, Unmoved DEF SeenIsSo, Guarded, ReadQdevice
  <2>6. VotesAreSo'
    BY <2>1, <2>4 DEF VotesAreSo
  <2>7. PassedIsSafe'
    <3>1. QuorumImpact(call.seen, call.node, QdeviceVotes(q))
            => QuorumImpact(call.seen, call.node, call.votes)'
      BY <2>4 DEF QuorumImpact
    <3> QED
      BY <2>4, <3>1 DEF PassedIsSafe
  <2> QED
    BY <2>2, <2>5, <2>6, <2>7 DEF Guarded
<1>7. CASE ReadHa
  <2>1. call \in Shutdowns /\ call.tool = "shutdown" /\ power' = power /\ qdevice' = qdevice
    BY <1>7, CallKinds DEF ReadHa, Shaped, cluster, Shutdowns
  <2>2. GoingIsSafe'
    BY <1>7, GoingStays DEF ReadHa, cluster, Guarded
  <2>3. /\ call'.seen = call.seen /\ call'.quorate = call.quorate /\ call'.node = call.node
        /\ call'.votes = call.votes /\ (call.refused => call'.refused)
        /\ ~call'.refused =>
             FenceRisk([placed |-> Placed, active |-> lrm], call.seen \ {call.node}) = {}
    BY <1>7, <2>1 DEF ReadHa, Shutdowns
  <2>4. SeenIsSo /\ call.pc = "ha"
    BY <1>7 DEF Guarded, ReadHa
  <2>5. SeenIsSo'
    BY <2>1, <2>3, <2>4, Unmoved DEF SeenIsSo
  <2>6. VotesAreSo'
    BY <2>1, <2>3, <2>4 DEF VotesAreSo, Guarded, QdeviceVotes
  <2>7. PassedIsSafe'
    <3>1. ~call'.refused => \A m \in Online \ {call.node} : m \notin lrm /\ m \notin Placed
      BY <2>1, <2>3, <2>4 DEF FenceRisk, SeenIsSo
    <3> QED
      BY <1>7, <2>1, <2>3, <3>1, Unmoved DEF PassedIsSafe, ReadHa, cluster
  <2> QED
    BY <2>2, <2>5, <2>6, <2>7 DEF Guarded
<1>8. CASE ReadFails \/ Refuse
  BY <1>8, <1>a, OtherCalls DEF ReadFails, Refuse, cluster
<1>9. CASE Submit
  <2>1. call \in Shutdowns /\ call.tool = "shutdown" /\ \A n \in Nodes : ~Going(n)
    BY <1>9, Quiet, CallKinds DEF Submit, Shaped, Shutdowns
  <2>2. /\ call.pc = "post" /\ ~call.refused /\ call' = Idle /\ qdevice' = qdevice /\ lrm' = lrm
        /\ power' = power \/ power' = Told
    BY <1>9 DEF Submit
  <2>3. /\ call.seen = Online /\ (call.quorate <=> Quorate) /\ call.node \in Online
        /\ call.votes \in {QdeviceVotes(qdevice), QdeviceVotes("unreadable")}
    BY <2>1, <2>2 DEF Guarded, SeenIsSo, VotesAreSo
  <2>4. Online' = Online /\ \A n \in Nodes : Going(n)' => n = call.node
    BY <2>1, <2>2 DEF Told, Online, Going, Shaped, Shutdowns
  <2>5. PICK n \in Nodes : n = call.node
    BY <2>1 DEF Shutdowns
  <2>6. Cardinality(Online \ {n})' = Cardinality(Online \ {n})
    BY <2>4
  <2>7. QuorateOf(Online \ {n})' <=> QuorateOf(Online \ {n})
    BY <2>2, <2>6 DEF QuorateOf
  <2>8. Quorate' <=> Quorate
    BY <2>2, <2>4 DEF Quorate, QuorateOf
  <2>9. QuorumImpact(call.seen, call.node, call.votes) => QuorateOf(Online \ {n})'
    BY <1>a, <2>3, <2>5, <2>7, ImpactIsQuorate DEF Shaped
  <2>10. Spared(n)'
    <3>1. \/ QuorumImpact(call.seen, call.node, call.votes)
          \/ ~call.quorate
          \/ \A m \in Online \ {n} : m \notin lrm /\ m \notin Placed
      BY <2>1, <2>2, <2>5 DEF Guarded, PassedIsSafe
    <3> QED
      BY <2>2, <2>3, <2>4, <2>8, <2>9, <3>1 DEF Spared
  <2>11. power' = Told => estimate' = Null \/ estimate' = Announced
    BY <1>9 DEF Submit
  <2>12. CASE power' = power
    BY <1>a, <2>1, <2>2, <2>12, Unmoved DEF Guarded, SeenIsSo, VotesAreSo, PassedIsSafe, GoingIsSafe
  <2>13. CASE power' = Told
    <3>1. estimate' # Null /\ estimate'.quorate => QuorateOf(Online \ {n})'
      BY <2>9, <2>11, <2>13 DEF Announced
    <3>2. GoingIsSafe'
      BY <2>4, <2>5, <2>10, <3>1 DEF GoingIsSafe
    <3> QED
      BY <1>a, <2>2, <3>2 DEF Guarded, SeenIsSo, VotesAreSo, PassedIsSafe
  <2> QED
    BY <2>2, <2>12, <2>13
<1>10. CASE Poll \/ PollTimesOut \/ PollFails
  <2>1. call'.tool # "shutdown"
    BY <1>10, <1>a DEF Poll, PollTimesOut, PollFails, Answer
  <2> QED
    BY <1>10, <2>1, OtherCalls DEF Poll, PollTimesOut, PollFails, Answer, cluster
<1>11. CASE ReadTargets
  <2>1. call \in Wakings
    BY <1>11, CallKinds DEF ReadTargets, Shaped
  <2>2. call'.tool # "shutdown"
    BY <1>11, <1>a, <2>1 DEF ReadTargets, Wakings
  <2> QED
    BY <1>11, <2>2, OtherCalls DEF ReadTargets, cluster
<1>12. ASSUME NEW n \in Nodes, Send(n)
       PROVE  Guarded'
  <2>1. call \in Wakings /\ \A m \in Nodes : ~Going(m)
    BY <1>12, CallKinds, Quiet DEF Send, Shaped, Wakings
  <2>2. call'.tool # "shutdown"
    BY <1>12, <1>a, <2>1 DEF Send, Wakings
  <2>3. \A m \in Nodes : ~Going(m)'
    BY <1>12, <2>1 DEF Send, Shaped, Going
  <2> QED
    BY <2>2, <2>3 DEF Guarded, SeenIsSo, VotesAreSo, PassedIsSafe, GoingIsSafe
<1>13. ASSUME NEW n \in Nodes, Leaves(n)
       PROVE  Guarded'
  <2>1. call'.tool # "shutdown"
    BY <1>13, Quiet DEF Leaves, Rest, Going
  <2>2. \A m \in Nodes : ~Going(m)'
    BY <1>13 DEF Leaves, Shaped, InTurn, Going
  <2> QED
    BY <2>1, <2>2 DEF Guarded, SeenIsSo, VotesAreSo, PassedIsSafe, GoingIsSafe
<1>14. ASSUME NEW n \in Nodes, Joins(n)
       PROVE  Guarded'
  <2>1. \A m \in Nodes : ~Going(m)'
    BY <1>14 DEF Joins, Shaped, InTurn, Going
  <2>2. call.tool = "shutdown" => n = Entry /\ call.pc = "status" /\ call' = call
    BY <1>14, <1>a DEF Joins, Rest, InTurn
  <2>3. call'.tool = call.tool
    BY <1>14 DEF Joins, Rest
  <2> QED
    BY <2>1, <2>2, <2>3 DEF Guarded, SeenIsSo, VotesAreSo, PassedIsSafe, GoingIsSafe
<1>15. CASE ColdStart
  <2>1. \A m \in Nodes : ~Going(m)'
    BY <1>15, <1>a DEF ColdStart, Shaped, InTurn, Going
  <2>2. call.tool = "shutdown" => call.pc = "status"
    BY <1>15, <1>a DEF ColdStart, InTurn
  <2>3. call' = call
    BY <1>15 DEF ColdStart, Rest
  <2> QED
    BY <2>1, <2>2, <2>3 DEF Guarded, SeenIsSo, VotesAreSo, PassedIsSafe, GoingIsSafe
<1>16. ASSUME NEW n \in Nodes, LrmChanges(n)
       PROVE  Guarded'
  <2>1. /\ power' = power /\ qdevice' = qdevice /\ call' = call /\ estimate' = estimate
        /\ \A m \in lrm' : m \in lrm \/ m \in Placed
    BY <1>16 DEF LrmChanges, Rest
  <2>2. GoingIsSafe'
    BY <2>1, GoingStays DEF Guarded
  <2>3. SeenIsSo' /\ VotesAreSo'
    BY <2>1, Unmoved DEF Guarded, SeenIsSo, VotesAreSo, QdeviceVotes
  <2>4. QuorumImpact(call.seen, call.node, call.votes)
          => QuorumImpact(call.seen, call.node, call.votes)'
    BY <2>1 DEF QuorumImpact
  <2>5. PassedIsSafe'
    BY <2>1, <2>4, Unmoved DEF Guarded, PassedIsSafe
  <2> QED
    BY <2>2, <2>3, <2>5 DEF Guarded
<1>17. CASE QdeviceChanges
  <2>1. (\A m \in Nodes : ~Going(m)') /\ call'.tool # "shutdown"
    BY <1>17, <1>a DEF QdeviceChanges, Rest, Going
  <2> QED
    BY <2>1 DEF Guarded, SeenIsSo, VotesAreSo, PassedIsSafe, GoingIsSafe
<1>18. CASE UNCHANGED vars
  <2>1. /\ power' = power /\ qdevice' = qdevice /\ lrm' = lrm /\ call' = call
        /\ estimate' = estimate
    BY <1>18 DEF vars
  <2>2. GoingIsSafe'
    BY <2>1, GoingStays DEF Guarded
  <2>3. SeenIsSo' /\ VotesAreSo'
    BY <2>1, Unmoved DEF Guarded, SeenIsSo, VotesAreSo, QdeviceVotes
  <2>4. QuorumImpact(call.seen, call.node, call.votes)
          => QuorumImpact(call.seen, call.node, call.votes)'
    BY <2>1 DEF QuorumImpact
  <2>5. PassedIsSafe'
    BY <2>1, <2>4, Unmoved DEF Guarded, PassedIsSafe
  <2> QED
    BY <2>2, <2>3, <2>5 DEF Guarded
<1> QED
  BY <1>1, <1>2, <1>3, <1>4, <1>5, <1>6, <1>7, <1>8, <1>9, <1>10, <1>11, <1>12, <1>13, <1>14,
     <1>15, <1>16, <1>17, <1>18 DEF Next, Begin, CallStep, Progress

\* Every step keeps NobodyFences: who leaves spares the others, who joins takes
\* no quorum away, and an LRM becomes active with quorum only.
LEMMA FencesStep ==
  ASSUME Shaped, InTurn, Guarded, NobodyFences, [Next]_vars
  PROVE  NobodyFences'
<1>a. Entry \in Nodes /\ Online \in SUBSET Nodes
  BY EntryAssumption DEF Online
<1>b. ASSUME power' = power, qdevice' = qdevice, lrm' \subseteq lrm
      PROVE  NobodyFences'
  BY <1>b, Unmoved DEF NobodyFences
<1>1. CASE Begin
  BY <1>1, <1>b DEF Begin, ShutdownNode, WakeOnLan, WaitNodes, cluster
<1>2. CASE ReadMembers \/ ReadPolicy \/ ReadQdevice \/ ReadHa \/ ReadFails \/ Refuse
  BY <1>2, <1>b DEF ReadMembers, ReadPolicy, ReadQdevice, ReadHa, ReadFails, Refuse, cluster
<1>3. CASE Submit
  <2>1. call \in Shutdowns
    BY <1>3, CallKinds DEF Submit, Shaped
  <2>2. /\ qdevice' = qdevice /\ lrm' = lrm
        /\ power' = power \/ power' = Told
    BY <1>3 DEF Submit
  <2>3. Online' = Online /\ \A n \in Nodes : power'[n] = "on" => power[n] = "on"
    BY <2>1, <2>2 DEF Told, Online, Shaped, Shutdowns
  <2>4. Quorate' <=> Quorate
    BY <2>2, <2>3 DEF Quorate, QuorateOf
  <2> QED
    BY <1>a, <2>2, <2>3, <2>4 DEF NobodyFences, Shaped
<1>4. CASE Poll \/ PollTimesOut \/ PollFails \/ ReadTargets
  BY <1>4, <1>b DEF Poll, PollTimesOut, PollFails, Answer, ReadTargets, cluster
<1>5. ASSUME NEW n \in Nodes, Send(n)
      PROVE  NobodyFences'
  <2>1. /\ qdevice' = qdevice /\ lrm' = lrm /\ Online' = Online
        /\ \A m \in Nodes : power'[m] = "on" => power[m] = "on"
    BY <1>5 DEF Send, Online, Shaped
  <2>2. Quorate' <=> Quorate
    BY <2>1 DEF Quorate, QuorateOf
  <2> QED
    BY <1>a, <2>1, <2>2 DEF NobodyFences, Shaped
<1>6. ASSUME NEW n \in Nodes, Leaves(n)
      PROVE  NobodyFences'
  <2>1. /\ qdevice' = qdevice /\ lrm' = lrm \ {n} /\ Online' = Online \ {n}
        /\ \A m \in Nodes \ {n} : power'[m] = power[m]
    BY <1>6 DEF Leaves, Rest, Online, Shaped
  <2>2. Quorate' <=> QuorateOf(Online \ {n})
    BY <2>1 DEF Quorate, QuorateOf
  <2>3. Spared(n)
    BY <1>6 DEF Leaves, Guarded, GoingIsSafe, Going
  <2>4. CASE ~Quorate
    BY <1>a, <2>1, <2>4 DEF NobodyFences, Shaped
  <2>5. CASE QuorateOf(Online \ {n})
    BY <2>2, <2>5 DEF NobodyFences
  <2>6. CASE \A m \in Online \ {n} : m \notin lrm
    BY <2>1, <2>6 DEF NobodyFences, Shaped
  <2> QED
    BY <2>3, <2>4, <2>5, <2>6 DEF Spared
<1>7. ASSUME NEW n \in Nodes, Joins(n)
      PROVE  NobodyFences'
  <2>1. /\ qdevice' = qdevice /\ lrm' = lrm /\ Online' = Online \cup {n} /\ n \notin Online
        /\ \A m \in Nodes \ {n} : power'[m] = power[m]
    BY <1>7 DEF Joins, Rest, Online, Shaped
  <2>2. Quorate' <=> QuorateOf(Online \cup {n})
    BY <2>1 DEF Quorate, QuorateOf
  <2>3. Quorate => Quorate'
    BY <1>a, <2>2, JoiningKeepsQuorum DEF Quorate
  <2> QED
    BY <1>a, <2>1, <2>3 DEF NobodyFences, Shaped
<1>8. CASE ColdStart
  <2>1. /\ qdevice' = qdevice /\ lrm' = lrm /\ Online' = Online
        /\ \A m \in Nodes : power'[m] = "on" => power[m] = "on"
    BY <1>8, <1>a DEF ColdStart, Rest, Online, Shaped
  <2>2. Quorate' <=> Quorate
    BY <2>1 DEF Quorate, QuorateOf
  <2> QED
    BY <1>a, <2>1, <2>2 DEF NobodyFences, Shaped
<1>9. ASSUME NEW n \in Nodes, LrmChanges(n)
      PROVE  NobodyFences'
  <2>1. power' = power /\ qdevice' = qdevice
    BY <1>9 DEF LrmChanges, Rest
  <2>2. lrm' \subseteq lrm \/ Quorate
    BY <1>9 DEF LrmChanges
  <2> QED
    BY <1>b, <2>1, <2>2, Unmoved DEF NobodyFences
<1>10. CASE QdeviceChanges
  BY <1>10 DEF QdeviceChanges, Rest, NobodyFences
<1>11. CASE UNCHANGED vars
  BY <1>11, <1>b DEF vars
<1> QED
  BY <1>1, <1>2, <1>3, <1>4, <1>5, <1>6, <1>7, <1>8, <1>9, <1>10, <1>11 DEF Next, CallStep, Progress

\* In the beginning all nodes are on and there is no call.
LEMMA InitHolds ==
  ASSUME Init
  PROVE  Shaped /\ InTurn /\ Guarded
<1>1. Entry \in Nodes /\ Placed \subseteq Nodes /\ Idle.tool = "none"
  BY EntryAssumption, PlacedAssumption DEF Idle
<1>2. Online = Nodes /\ \A n \in Nodes : ~Going(n) /\ power[n] # "halting"
  BY DEF Init, Online, Going
<1>3. Shaped
  BY <1>1, <1>2, NodesAssumption DEF Init, Shaped, Powers
<1>4. InTurn
  BY <1>1, <1>2 DEF Init, InTurn
<1>5. Guarded
  BY <1>1, <1>2 DEF Init, Guarded, SeenIsSo, VotesAreSo, PassedIsSafe, GoingIsSafe
<1> QED
  BY <1>3, <1>4, <1>5

-----------------------------------------------------------------------------
(* The theorems.                                                           *)

\* A strict majority of an even number is less than all of them, so the cluster
\* begins with quorum.
LEMMA InitNobodyFences ==
  ASSUME EvenCluster, Init
  PROVE  NobodyFences
<1>1. Online = Nodes
  BY DEF Init, Online
<1>2. PICK k \in Nat : Cardinality(Nodes) = 2 * k
  BY DEF EvenCluster
<1>3. Cardinality(Nodes) # 0
  BY EntryAssumption, NodesAssumption, FS_EmptySet
<1>4. (2 * k) \div 2 = k /\ (2 * k + 1) \div 2 = k /\ (2 * k + 0) \div 2 = k /\ 2 * k > k
  BY <1>2, <1>3
<1>5. QuorateOf(Nodes)
  BY <1>2, <1>4 DEF QuorateOf
<1> QED
  BY <1>1, <1>5 DEF NobodyFences, Quorate

\* The shape implies the type invariant that the run checks: every call keeps
\* it, whatever fails.
LEMMA ShapeIsType ==
  ASSUME Shaped, Guarded
  PROVE  TypeOK
<1>1. call.pc \in {"idle", "status", "options", "qdevice", "ha", "post", "poll", "members", "send"}
  BY DEF Shaped, Idle, Shutdowns, Waitings, Wakings
<1>2. watch = Null \/ watch.nodes \subseteq Nodes
  BY DEF Shaped, Waits
<1>3. call.pc \in {"qdevice", "ha", "post"} => call.refused \/ call.node \in call.seen
  <2>1. call.pc \in {"qdevice", "ha", "post"} => call.tool = "shutdown"
    BY CallKinds DEF Shaped, Shutdowns
  <2> QED
    BY <2>1 DEF Guarded, SeenIsSo
<1> QED
  BY <1>1, <1>2, <1>3 DEF Shaped, TypeOK, Powers

\* The inductive invariant of an even cluster.
THEOREM Invariance ==
  ASSUME EvenCluster, Faithful
  PROVE  Spec => []Inv
<1>1. Init => Inv
  BY InitHolds, InitNobodyFences DEF Inv
<1>2. Inv /\ [Next]_vars => Inv'
  BY ShapedStep, TurnStep, GuardedStep, FencesStep DEF Inv
<1> QED
  BY <1>1, <1>2, PTL DEF Spec

\* The state keeps its type, and a shutdown that was not refused is of a node
\* that was seen online.
THEOREM TypeCorrect ==
  ASSUME EvenCluster, Faithful
  PROVE  Spec => []TypeOK
<1>1. Inv => TypeOK
  BY ShapeIsType DEF Inv
<1> QED
  BY <1>1, Invariance, PTL

\* In a cluster of any even number of nodes, with resources placed anywhere and
\* however many reads, commands and packets fail, shutdowns one after the other
\* leave no running node that its watchdog would reset.
THEOREM ShutdownsFenceNobody ==
  ASSUME EvenCluster, Faithful
  PROVE  Spec => []NobodyFences
<1>1. Inv => NobodyFences
  BY DEF Inv
<1> QED
  BY <1>1, Invariance, PTL

\* What a shutdown announced of the quorum is so when the node has left.
THEOREM AnnouncementsHold ==
  ASSUME EvenCluster, Faithful
  PROVE  Spec => EstimateHolds
<1> DEFINE Held == \A n \in Nodes :
                     n \in Online /\ n \notin Online' /\ estimate # Null
                       /\ estimate.node = n /\ estimate.quorate
                       => Quorate'
<1>1. ASSUME Inv, [Next]_vars
      PROVE  [Held]_vars
  <2>1. SUFFICES ASSUME NEW n \in Nodes, n \in Online, n \notin Online', estimate # Null,
                        estimate.node = n, estimate.quorate
                 PROVE  Quorate'
    OBVIOUS
  <2>2. Leaves(n)
    <3>1. power'[n] # power[n] /\ power'[n] \in {"off", "booting"}
      BY <1>1, <2>1, ShapedStep DEF Inv, Shaped, Online, Powers
    <3>2. ~Submit
      BY <1>1, <3>1, CallKinds DEF Submit, Told, Inv, Shaped, Shutdowns
    <3>3. power \in [Nodes -> Powers] /\ power[n] \in {"on", "halting", "restarting"}
      BY <1>1, <2>1 DEF Inv, Shaped, Online
    <3>4. ~ColdStart /\ \A m \in Nodes : ~Joins(m)
      BY <3>1, <3>3 DEF ColdStart, Joins
    <3>5. ASSUME NEW m \in Nodes, Send(m)
          PROVE  FALSE
      <4>1. power'[n] = power[n] \/ (n = m /\ power[n] = "off")
        BY <3>3, <3>5 DEF Send
      <4> QED
        BY <3>1, <3>3, <4>1
    <3>6. \A m \in Nodes : Leaves(m) => m = n
      BY <1>1, <3>1 DEF Leaves, Inv, Shaped
    <3>7. power' # power
      BY <3>1
    <3>8. ~Begin /\ ~QdeviceChanges /\ (\A m \in Nodes : ~LrmChanges(m)) /\ ~UNCHANGED vars
      BY <3>7 DEF Begin, ShutdownNode, WakeOnLan, WaitNodes, cluster, QdeviceChanges, LrmChanges,
                  Rest, vars
    <3>9. CallStep => Submit \/ \E m \in Nodes : Send(m)
      BY <3>7 DEF CallStep, ReadMembers, ReadPolicy, ReadQdevice, ReadHa, ReadFails, Refuse,
                  Poll, PollTimesOut, PollFails, Answer, ReadTargets, cluster
    <3> QED
      BY <1>1, <3>2, <3>4, <3>5, <3>6, <3>8, <3>9 DEF Next, Progress
  <2>3. qdevice' = qdevice /\ Online' = Online \ {n}
    BY <1>1, <2>2 DEF Leaves, Rest, Online, Inv, Shaped
  <2>4. QuorateOf(Online \ {n})
    BY <1>1, <2>1, <2>2 DEF Leaves, Inv, Guarded, GoingIsSafe, Going
  <2> QED
    BY <2>3, <2>4 DEF Quorate, QuorateOf
<1> QED
  BY <1>1, Invariance, PTL DEF Spec, EstimateHolds
=============================================================================
