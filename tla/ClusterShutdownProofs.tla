----------------------- MODULE ClusterShutdownProofs -----------------------
(***************************************************************************)
(* What the cluster shutdown of ClusterShutdown.tla is proved to do, for   *)
(* any nodes and guests, any placement to start from, any faults and any   *)
(* number of them.  The tool keeps nothing between its calls, so what it   *)
(* promises rests on what it reads: the invariant Inv says of the cluster  *)
(* what no request has yet undone (Kept, Hosted, Worked, Going), and of    *)
(* a call which part of its snapshot still holds when it acts (Snapped,    *)
(* Judged, Tried, Staged), although guests stop and move, nodes power off  *)
(* and requests fail between any two of its requests.                      *)
(***************************************************************************)
EXTENDS ClusterShutdown, FiniteSetTheorems, TLAPS

Pcs == {"status", "resources", "ha", "options", "choose", "tasks", "post", "wait"}
Stages == {"none", "stop_guests", "shutdown_peers", "shutdown_entry"}
Placements == [guests : SUBSET Guests, placed : SUBSET Nodes, active : SUBSET Nodes]
Runs == UNION {[S -> Nodes] : S \in SUBSET Guests}
Calls ==
  [pc : Pcs, first : BOOLEAN, include : BOOLEAN, cont : BOOLEAN, allowed : BOOLEAN,
   seen : SUBSET Nodes, run : Runs, ha : Placements \cup {Null}, ha0 : Placements \cup {Null},
   stage : Stages, todo : SUBSET (Guests \cup Nodes), active : SUBSET (Guests \cup Nodes),
   waiting : SUBSET (Guests \cup Nodes), tried : SUBSET (Guests \cup Nodes),
   downed : SUBSET (Guests \cup Nodes), skip : SUBSET Nodes]

\* What the variables may hold.
Typed ==
  /\ online \subseteq Nodes /\ leaving \subseteq online /\ lrm \subseteq online
  /\ host \in [Guests -> Nodes] /\ running \subseteq Guests
  /\ tasks \in [Guests \cup Nodes -> Nat]
  /\ call = Idle \/ call \in Calls
  /\ asked \subseteq Guests /\ lenient \in BOOLEAN /\ blind \in BOOLEAN
  /\ faults \in 0..MaxFaults

\* The guests that the shutdown is responsible for and has not dealt with; when
\* the nodes may go: there are none, or the operator said to go on over those
\* that were asked.  Both only ever come true.
Unasked == (Plain \cap running) \ asked
Cleared == Plain \cap running = {} \/ (lenient /\ Unasked = {})

\* A peer without HA guests: its guests are stopped all at once.
Bare(n) == n # Entry /\ \A h \in Ha : host[h] # n

\* The kept guests run, and are where they have to be once a node goes.
Kept ==
  /\ Api => Keep \subseteq running
  /\ \A k \in Keep : tasks[k] = 0
  /\ leaving # {} => \A k \in Keep : host[k] = Entry

\* Guests run on nodes that are up, HA guests until their peer goes.
Hosted ==
  /\ \A g \in running : host[g] \in online
  /\ \A h \in Ha : host[h] # Entry /\ host[h] \in online => h \in running /\ tasks[h] = 0

\* Workers are of guests that were asked; on a bare peer there is one only
\* while its stopall runs.
Worked ==
  /\ \A g \in Unasked : tasks[g] = 0 /\ tasks[host[g]] = 0
  /\ \A g \in Guests : tasks[g] > 0 /\ Bare(host[g]) => tasks[host[g]] > 0
  /\ blind \/ \A t \in Guests \cup Nodes : tasks[t] <= 1

\* Nodes go when that may be, the entry node last, and not while it would fence
\* itself for it.
Going ==
  /\ leaving # {} => Cleared
  /\ leaving \ {Entry} # {} \/ online # Nodes => Entry \notin lrm
  /\ Entry \in leaving => online = {Entry}

Cluster == Kept /\ Hosted /\ Worked /\ Going

\* What the snapshot of a call says is true, or was asked to change.
RunRight(c) ==
  /\ running \cup Keep \subseteq DOMAIN c.run
  /\ \A g \in DOMAIN c.run : /\ c.run[g] \in c.seen
                             /\ (g \in Plain /\ g \in asked) \/ c.run[g] = host[g]
  /\ \A h \in Ha, g \in DOMAIN c.run :
       c.run[g] = host[h] /\ host[h] # Entry => h \in DOMAIN c.run
Snapped(c) ==
  /\ ~c.first \/ c.pc # "status" => online \subseteq c.seen
  /\ c.pc \in {"ha", "options", "choose", "tasks", "post", "wait"} => RunRight(c)

\* What the refusals of the call have established, and still holds.
Judged(c) ==
  /\ \A r \in {c.ha, c.ha0} : r # Null => r.guests = Ha /\ lrm \subseteq r.active
  /\ c.pc = "options" => c.first /\ c.ha = c.ha0
  /\ c.first => c.pc \in {"status", "resources", "ha", "options"}
  /\ ~c.first => c.seen \subseteq {Entry} \/ (c.ha # Null /\ c.ha0 # Null /\ Entry \notin lrm)

\* A round over the guests leaves none of them unasked; only after one, and if
\* it was asked to, the call goes on over a node that does not come free.
Stopping(c) == c.pc \in {"tasks", "post"} /\ c.stage = "stop_guests"
Tried(c) ==
  /\ c.cont => lenient
  /\ c.skip # {} => c.cont /\ Unasked = {}
  /\ c.tried = {} \/ Unasked = {} \/ Stopping(c)

\* What the actions of a round are about.
Aimed(c) ==
  /\ \A t \in c.todo \cap Nodes : Bare(t)
  /\ \A t \in c.todo \cap Guests : /\ t \notin Keep /\ t \in DOMAIN c.run /\ ~Bare(c.run[t])
                                   /\ t \in Ha => c.run[t] = Entry
  /\ \A g \in Unasked : g \in c.todo \/ host[g] \in c.todo
  /\ \A t \in c.active : t \notin Unasked /\ \A g \in Unasked : host[g] # t
  /\ blind \/ c.pc = "tasks"
       \/ \A t \in c.todo \ c.active : tasks[t] = 0 \/ (t \in Guests /\ host[t] # c.run[t])

\* The stage of a call is one for which the cluster is ready.
Staged(c) ==
  /\ c.pc \in {"tasks", "post"} => c.stage # "none" /\ \A k \in Keep : host[k] = Entry
  /\ c.pc = "tasks" => c.stage = "stop_guests"
  /\ Stopping(c) => Aimed(c)
  /\ c.pc = "post" /\ c.stage # "stop_guests" =>
       /\ Cleared
       /\ \/ c.todo \subseteq Nodes \ {Entry}
          \/ c.todo \subseteq {Entry} /\ online \subseteq {Entry}

Called(c) == Snapped(c) /\ Judged(c) /\ Tried(c) /\ Staged(c)

Inv == Typed /\ Cluster /\ (call # Idle => Called(call))

-----------------------------------------------------------------------------
(* What the sets of guests are to each other, and what only ever grows.     *)

\* What the assumptions say of the constants: kinds of guests that do not overlap,
\* and nodes that are none of them.
LEMMA Sorts ==
  /\ Plain \subseteq Guests /\ Keep \subseteq Guests /\ Ha \subseteq Guests
  /\ Plain \cap Keep = {} /\ Plain \cap Ha = {} /\ Ha \cap Keep = {}
  /\ Nodes \cap Guests = {} /\ Entry \in Nodes
  /\ MaxFaults \in Nat
BY GuestAssumption, EntryAssumption, DisjointAssumption, BoundsAssumption DEF Plain

\* A call is idle exactly when it is at no request.
LEMMA CallIsIdle ==
  ASSUME Typed
  PROVE  /\ call.pc = "idle" <=> call = Idle
         /\ call # Idle => call \in Calls /\ call.pc \in Pcs
<1>1. Idle.pc = "idle" /\ \A c \in Calls : c.pc \in Pcs /\ c.pc # "idle"
  BY DEF Idle, Calls, Pcs
<1> QED
  BY <1>1 DEF Typed

\* Guests only come to be asked or stop, and then nothing stands against nodes
\* going that did not before.
Advances ==
  running' \subseteq running /\ asked \subseteq asked' /\ (lenient => lenient')

\* What has advanced leaves no more guests unasked and no fewer nodes cleared.
LEMMA Advancing ==
  ASSUME Advances
  PROVE  Unasked' \subseteq Unasked /\ (Cleared => Cleared')
BY DEF Advances, Unasked, Cleared

\* What the cluster, the operator and others do while a call waits for the
\* answer to a request: whoever moves a guest has it taken for asked, and does
\* not move one that a worker is shutting down.
Moves ==
  /\ call' = call /\ lenient' = lenient /\ blind' = blind
  /\ Advances /\ online' \subseteq online /\ lrm' \subseteq lrm
  /\ host' \in [Guests -> Nodes]
  /\ \A t \in Guests \cup Nodes : tasks'[t] = tasks[t] \/ tasks'[t] = 0
  /\ \A g \in Guests : \/ host'[g] = host[g]
                       \/ g \in Plain /\ tasks[g] = 0 /\ g \in asked'
                       \/ g \in Keep /\ call = Idle

\* What a call knows outlasts that.
LEMMA MovesKeepCalled ==
  ASSUME Inv, Moves, call # Idle
  PROVE  Called(call)'
<1> USE DEF Inv
<1>1. /\ call' = call /\ lenient' = lenient /\ blind' = blind /\ call \in Calls
      /\ running' \subseteq running /\ asked \subseteq asked'
      /\ online' \subseteq online /\ lrm' \subseteq lrm
      /\ Unasked' \subseteq Unasked /\ (Cleared => Cleared')
  BY Advancing, CallIsIdle DEF Moves, Advances
<1>2. /\ \A g \in Guests : host'[g] = host[g] \/ (g \in Plain /\ tasks[g] = 0 /\ g \in asked')
      /\ \A h \in Ha \cup Keep : host'[h] = host[h]
      /\ \A g \in Unasked' : host'[g] = host[g]
  BY Sorts DEF Moves, Unasked
<1>3. \A n : Bare(n) <=> Bare(n)'
  BY <1>2 DEF Bare
<1>4. DOMAIN call.run \subseteq Guests
  BY <1>1 DEF Calls, Runs
<1>5. Snapped(call)'
  <2>1. RunRight(call) => RunRight(call)'
    <3> SUFFICES ASSUME RunRight(call) PROVE RunRight(call)'
      OBVIOUS
    <3>1. (running \cup Keep \subseteq DOMAIN call.run)'
      BY <1>1 DEF RunRight
    <3>2. (\A g \in DOMAIN call.run : /\ call.run[g] \in call.seen
                                      /\ (g \in Plain /\ g \in asked) \/ call.run[g] = host[g])'
      BY <1>1, <1>2, <1>4 DEF RunRight
    <3>3. (\A h \in Ha, g \in DOMAIN call.run :
             call.run[g] = host[h] /\ host[h] # Entry => h \in DOMAIN call.run)'
      BY <1>1, <1>2 DEF RunRight
    <3> QED
      BY <3>1, <3>2, <3>3 DEF RunRight
  <2> QED
    BY <1>1, <2>1 DEF Called, Snapped
<1>6. Judged(call)'
  BY <1>1 DEF Called, Judged
<1>7. Tried(call)'
  BY <1>1 DEF Called, Tried, Stopping
<1>8. Staged(call)'
  <2>1. ASSUME Stopping(call)
        PROVE  Aimed(call)'
    <3>1. Aimed(call) /\ RunRight(call) /\ call.pc \in {"tasks", "post"}
      BY <2>1 DEF Called, Staged, Snapped, Stopping
    <3>2. (\A t \in call.todo \cap Nodes : Bare(t))'
      BY <1>1, <1>3, <3>1 DEF Aimed
    <3>3. (\A t \in call.todo \cap Guests : /\ t \notin Keep /\ t \in DOMAIN call.run
                                            /\ ~Bare(call.run[t])
                                            /\ t \in Ha => call.run[t] = Entry)'
      BY <1>1, <1>3, <3>1 DEF Aimed
    <3>4. (\A g \in Unasked : g \in call.todo \/ host[g] \in call.todo)'
      BY <1>1, <1>2, <3>1 DEF Aimed
    <3>5. (\A t \in call.active : t \notin Unasked /\ \A g \in Unasked : host[g] # t)'
      BY <1>1, <1>2, <3>1 DEF Aimed
    <3>6. ASSUME ~blind, call.pc # "tasks", NEW t \in call.todo \ call.active
          PROVE  tasks'[t] = 0 \/ (t \in Guests /\ host'[t] # call.run[t])
      <4>1. t \in Guests \cup Nodes
        BY <1>1 DEF Calls
      <4>2. tasks[t] = 0 => tasks'[t] = 0
        BY <4>1 DEF Moves
      <4>3. tasks[t] = 0 \/ (t \in Guests /\ host[t] # call.run[t])
        BY <3>1, <3>6 DEF Aimed
      <4> QED
        BY <1>2, <4>2, <4>3
    <3> QED
      BY <1>1, <3>2, <3>3, <3>4, <3>5, <3>6 DEF Aimed
  <2>2. call.pc \in {"tasks", "post"} => \A k \in Keep : host'[k] = Entry
    BY <1>2 DEF Called, Staged
  <2>3. Stopping(call)' => Stopping(call)
    BY <1>1 DEF Stopping
  <2> QED
    BY <1>1, <2>1, <2>2, <2>3 DEF Called, Staged
<1> QED
  BY <1>5, <1>6, <1>7, <1>8 DEF Called

-----------------------------------------------------------------------------
(* The cluster.                                                            *)

\* A worker ends, with its guest stopped or not; a stopall ends last.
LEMMA WorkerEnds ==
  ASSUME Inv, NEW t \in Guests \cup Nodes,
         \/ t \in Guests /\ (GuestStops(t) \/ GuestHangs(t))
         \/ t \in Nodes /\ StopallEnds(t)
  PROVE  Inv'
<1> USE DEF Inv
<1>1. /\ UNCHANGED <<online, leaving, host, lrm, policy, call, answer, hist>>
      /\ tasks[t] > 0 /\ tasks' = [tasks EXCEPT ![t] = 0]
      /\ running' \in {running, running \ {t}} /\ faults' \in 0..MaxFaults
      /\ t \in Guests \/ (running' = running /\ \A g \in Guests : host[g] = t => tasks[g] = 0)
  BY Sorts DEF GuestStops, GuestHangs, StopallEnds, Fault, Typed, hist
<1>2. /\ tasks'[t] = 0 /\ \A x \in (Guests \cup Nodes) \ {t} : tasks'[x] = tasks[x]
      /\ tasks' \in [Guests \cup Nodes -> Nat]
  BY <1>1 DEF Typed
<1>3. Typed'
  BY <1>1, <1>2 DEF Typed, hist
<1>4. Advances /\ Moves
  BY <1>1, <1>2, <1>3 DEF Moves, Advances, Typed, hist
<1>5. Unasked' \subseteq Unasked /\ (Cleared => Cleared')
  BY <1>4, Advancing
<1>6. \A h \in Ha : host[h] # Entry /\ host[h] \in online => h # t
  BY <1>1 DEF Cluster, Hosted
<1>7. Kept'
  <2>1. t \notin Keep
    BY <1>1 DEF Cluster, Kept
  <2> QED
    BY <1>1, <1>2, <2>1, Sorts DEF Cluster, Kept, Api
<1>8. Hosted'
  BY <1>1, <1>2, <1>6, Sorts DEF Cluster, Hosted
<1>9. Worked'
  <2>1. \A g \in Unasked' : tasks'[g] = 0 /\ tasks'[host[g]] = 0
    BY <1>1, <1>2, <1>5, Sorts DEF Cluster, Worked, Unasked, Typed
  <2>2. \A g \in Guests : tasks'[g] > 0 /\ Bare(host[g]) => tasks'[host[g]] > 0
    BY <1>1, <1>2, Sorts DEF Cluster, Worked, Typed
  <2>3. blind \/ \A x \in Guests \cup Nodes : tasks'[x] <= 1
    BY <1>1, <1>2 DEF Cluster, Worked
  <2> QED
    BY <1>1, <2>1, <2>2, <2>3 DEF Worked, Bare, hist
<1>10. Going'
  BY <1>1, <1>5 DEF Cluster, Going
<1> QED
  BY <1>1, <1>3, <1>4, <1>7, <1>8, <1>9, <1>10, MovesKeepCalled DEF Cluster

\* A node powers off, with whatever still runs on it.
LEMMA PowersOffStep ==
  ASSUME Inv, NEW n \in Nodes, PowersOff(n)
  PROVE  Inv'
<1> USE DEF Inv
<1>1. /\ UNCHANGED <<host, policy, call, answer, hist, faults>>
      /\ n \in leaving /\ n \in online
      /\ online' = online \ {n} /\ leaving' = leaving \ {n} /\ lrm' = lrm \ {n}
      /\ running' = running \ On(n)
      /\ tasks' = [t \in DOMAIN tasks |->
                     IF t = n \/ (t \in Guests /\ host[t] = n) THEN 0 ELSE tasks[t]]
  BY DEF PowersOff, Typed
<1>2. /\ \A t \in Guests \cup Nodes :
           tasks'[t] = IF t = n \/ (t \in Guests /\ host[t] = n) THEN 0 ELSE tasks[t]
      /\ tasks' \in [Guests \cup Nodes -> Nat]
  BY <1>1 DEF Typed
<1>3. Typed'
  BY <1>1, <1>2 DEF Typed, hist
<1>4. Advances /\ Moves
  BY <1>1, <1>2, <1>3 DEF Moves, Advances, Typed, hist
<1>5. Unasked' \subseteq Unasked /\ (Cleared => Cleared')
  BY <1>4, Advancing
<1>6. Kept'
  <2>1. Api' => \A k \in Keep : k \notin On(n)
    BY <1>1 DEF Cluster, Kept, On, Api
  <2> QED
    BY <1>1, <1>2, <2>1, Sorts DEF Cluster, Kept, Api
<1>7. Hosted'
  BY <1>1, <1>2, Sorts DEF Cluster, Hosted, On, Typed
<1>8. Worked'
  <2>1. \A g \in Unasked' : tasks'[g] = 0 /\ tasks'[host[g]] = 0
    BY <1>1, <1>2, <1>5, Sorts DEF Cluster, Worked, Unasked, Typed
  <2>2. \A g \in Guests : tasks'[g] > 0 /\ Bare(host[g]) => tasks'[host[g]] > 0
    BY <1>1, <1>2, Sorts DEF Cluster, Worked, Typed
  <2>3. blind \/ \A x \in Guests \cup Nodes : tasks'[x] <= 1
    BY <1>1, <1>2 DEF Cluster, Worked
  <2> QED
    BY <1>1, <2>1, <2>2, <2>3 DEF Worked, Bare, hist
<1>9. Going'
  <2>1. leaving' # {} => Cleared'
    BY <1>1, <1>5 DEF Cluster, Going
  <2>2. Entry \notin lrm'
    BY <1>1 DEF Cluster, Going
  <2>3. Entry \in leaving' => online' = {Entry}
    BY <1>1 DEF Cluster, Going
  <2> QED
    BY <2>1, <2>2, <2>3 DEF Going
<1> QED
  BY <1>1, <1>3, <1>4, <1>6, <1>7, <1>8, <1>9, MovesKeepCalled DEF Cluster

\* A resource manager goes idle.
LEMMA LrmIdlesStep ==
  ASSUME Inv, NEW n \in Nodes, LrmIdles(n)
  PROVE  Inv'
<1> USE DEF Inv
<1>1. /\ UNCHANGED <<online, leaving, host, running, tasks, policy, call, answer, hist, faults>>
      /\ lrm' = lrm \ {n}
  BY DEF LrmIdles
<1>2. Typed'
  BY <1>1 DEF Typed, hist
<1>3. Moves
  BY <1>1 DEF Moves, Advances, Typed, hist
<1>4. Kept' /\ Hosted'
  BY <1>1 DEF Cluster, Kept, Hosted, Api
<1>5. Worked' /\ Going'
  BY <1>1 DEF Cluster, Worked, Going, Unasked, Cleared, Bare, hist
<1> QED
  BY <1>1, <1>2, <1>3, <1>4, <1>5, MovesKeepCalled DEF Cluster

\* The operator moves a guest or stops one by hand, and others move guests.
LEMMA HandStep ==
  ASSUME Inv, NEW g \in Guests,
         MoveKept(g) \/ StopsByHand(g) \/ \E n \in Nodes : Migrates(g, n)
  PROVE  Inv'
<1> USE DEF Inv
<1>1. /\ UNCHANGED <<online, leaving, tasks, lrm, policy, call, answer, lenient, blind>>
      /\ tasks[g] = 0 /\ g \in running /\ faults' \in 0..MaxFaults
  <2>1. CASE MoveKept(g)
    BY <2>1 DEF MoveKept, hist, Typed
  <2>2. CASE StopsByHand(g)
    BY <2>2, Sorts DEF StopsByHand, Fault, Typed
  <2>3. ASSUME NEW n \in Nodes, Migrates(g, n)
        PROVE  <1>1!1 /\ <1>1!2
    BY <2>3, Sorts DEF Migrates, Fault, Typed
  <2> QED
    BY <2>1, <2>2, <2>3
<1>2. \/ /\ g \in Keep /\ call = Idle /\ host' = [host EXCEPT ![g] = Entry] /\ Entry \in online
         /\ asked' = asked /\ running' = running
      \/ /\ g \in Plain /\ asked' = asked \cup {g}
         /\ \/ host' = host /\ running' \in {running, running \ {g}}
            \/ \E n \in online \ leaving : host' = [host EXCEPT ![g] = n] /\ running' = running
  BY CallIsIdle DEF MoveKept, StopsByHand, Migrates, hist
<1>3. /\ host' \in [Guests -> Nodes] /\ \A x \in Guests \ {g} : host'[x] = host[x]
      /\ host'[g] = host[g] \/ host'[g] \in online
      /\ g \in Keep => host'[g] = Entry
      /\ asked' \subseteq Guests /\ asked \subseteq asked' /\ running' \subseteq running
      /\ g \in Plain => g \in asked' /\ running \subseteq running' \cup {g}
      /\ g \in Keep => asked' = asked /\ running' = running
      /\ g \in Plain \cup Keep
  BY <1>2, Sorts DEF Typed
<1>4. Typed'
  BY <1>1, <1>3 DEF Typed
<1>5. Advances /\ Moves
  <2>1. \A x \in Guests : \/ host'[x] = host[x]
                          \/ x \in Plain /\ tasks[x] = 0 /\ x \in asked'
                          \/ x \in Keep /\ call = Idle
    BY <1>1, <1>2, <1>3
  <2> QED
    BY <1>1, <1>3, <2>1 DEF Moves, Advances, Typed
<1>6. Unasked' \subseteq Unasked /\ (Cleared => Cleared')
  BY <1>5, Advancing
<1>7. /\ \A h \in Ha : h # g /\ host'[h] = host[h]
      /\ \A x \in Unasked' : x # g /\ host'[x] = host[x]
  BY <1>3, Sorts DEF Unasked
<1>8. \A n : Bare(n)' <=> Bare(n)
  BY <1>7 DEF Bare
<1>9. Kept'
  BY <1>1, <1>3, Sorts DEF Cluster, Kept, Api
<1>10. Hosted'
  <2>1. \A x \in running' : host'[x] \in online
    BY <1>1, <1>3 DEF Cluster, Hosted, Typed
  <2>2. \A h \in Ha : h \in running => h \in running'
    BY <1>3, <1>7
  <2> QED
    BY <1>1, <1>7, <2>1, <2>2 DEF Cluster, Hosted
<1>11. Worked'
  BY <1>1, <1>3, <1>6, <1>7, <1>8, Sorts DEF Cluster, Worked, Typed
<1>12. Going'
  BY <1>1, <1>6 DEF Cluster, Going
<1> QED
  BY <1>1, <1>4, <1>5, <1>9, <1>10, <1>11, <1>12, MovesKeepCalled DEF Cluster

\* A step of the cluster, the operator or others keeps the invariant ...
LEMMA EnvStepKeeps ==
  ASSUME Inv, EnvStep
  PROVE  Inv'
<1>1. ASSUME NEW g \in Guests,
             GuestStops(g) \/ GuestHangs(g) \/ MoveKept(g) \/ StopsByHand(g) \/ \E n \in Nodes : Migrates(g, n)
      PROVE  Inv'
  BY <1>1, WorkerEnds, HandStep
<1>2. ASSUME NEW n \in Nodes, StopallEnds(n) \/ PowersOff(n) \/ LrmIdles(n)
      PROVE  Inv'
  BY <1>2, WorkerEnds, PowersOffStep, LrmIdlesStep
<1> QED
  BY <1>1, <1>2 DEF EnvStep, Progress

-----------------------------------------------------------------------------
(* The requests of a call that only read.                                  *)

\* What a call does by itself leaves the cluster as it is.
LEMMA Unmoved ==
  ASSUME Cluster, UNCHANGED env, asked' = asked, lenient => lenient', blind => blind'
  PROVE  Cluster'
<1>1. Unasked' = Unasked /\ (Cleared => Cleared')
  BY DEF env, Unasked, Cleared
<1>2. Kept' /\ Hosted'
  BY DEF env, Cluster, Kept, Hosted, Api
<1>3. Worked' /\ Going'
  BY <1>1 DEF env, Cluster, Worked, Going, Bare
<1> QED
  BY <1>2, <1>3 DEF Cluster

\* ... and so does the end of a call with an error, whatever it ended at ...
LEMMA EndKeeps ==
  ASSUME Inv, UNCHANGED <<env, hist>>, call' = Idle, faults' \in 0..MaxFaults
  PROVE  Inv'
<1>1. Cluster'
  BY Unmoved DEF Inv, hist
<1>2. Typed'
  BY DEF Inv, Typed, env, hist
<1> QED
  BY <1>1, <1>2 DEF Inv

\* A request that fails counts as a fault at most.
LEMMA FailuresCount ==
  ASSUME Typed, NEW k, Fails(k)
  PROVE  faults' \in 0..MaxFaults
BY Sorts DEF Typed, Fails, Fault

\* ... the call of pve_cluster_shutdown ...
LEMMA BeginKeeps ==
  ASSUME Inv, NEW include \in BOOLEAN, NEW cont \in BOOLEAN, Begin(include, cont)
  PROVE  Inv'
<1> USE DEF Inv
<1> DEFINE new == [pc |-> "status", first |-> TRUE, include |-> include, cont |-> cont,
              allowed |-> FALSE, seen |-> {}, run |-> << >>, ha |-> Null, ha0 |-> Null,
              stage |-> "none", todo |-> {}, active |-> {}, waiting |-> {},
              tried |-> {}, downed |-> {}, skip |-> {}]
<1>1. /\ call' = new /\ lenient' = (lenient \/ cont)
      /\ UNCHANGED <<env, answer, asked, blind, faults>>
  BY DEF Begin
<1>2. << >> \in Runs
  <2>1. << >> \in [{} -> Nodes]
    OBVIOUS
  <2> QED
    BY <2>1 DEF Runs
<1>3. /\ new.pc = "status" /\ new.first = TRUE /\ new.ha = Null /\ new.ha0 = Null
      /\ new.tried = {} /\ new.skip = {} /\ new.cont = cont
  OBVIOUS
<1>4. new \in Calls
  BY <1>2 DEF Calls, Pcs, Stages
<1> HIDE DEF new
<1>5. Cluster'
  BY <1>1, Unmoved
<1>6. Typed'
  BY <1>1, <1>4 DEF Typed, env
<1>7. Called(call)'
  BY <1>1, <1>3 DEF Called, Snapped, Judged, Tried, Staged, Stopping
<1> QED
  BY <1>5, <1>6, <1>7

\* ... each of the three reads: of the nodes ...
LEMMA ReadStatusKeeps ==
  ASSUME Inv, ReadStatus
  PROVE  Inv'
<1> USE DEF Inv
<1>1. /\ call \in Calls /\ Called(call) /\ call.pc = "status" /\ UNCHANGED <<env, answer, hist, faults>>
      /\ call' = [call EXCEPT !.pc = "resources", !.seen = online]
  BY CallIsIdle DEF ReadStatus
<1>2. call' \in Calls
  BY <1>1 DEF Typed, Calls, Pcs
<1>3. /\ call'.pc = "resources" /\ call'.seen = online /\ call'.first = call.first
      /\ call'.ha = call.ha /\ call'.ha0 = call.ha0
      /\ call'.cont = call.cont /\ call'.skip = call.skip /\ call'.tried = call.tried
  BY <1>1 DEF Calls
<1>4. Cluster' /\ Typed'
  BY <1>1, <1>2, Unmoved DEF Typed, env, hist
<1>5. Snapped(call)'
  BY <1>1, <1>3 DEF Snapped, env
<1>6. Judged(call)'
  BY <1>1, <1>3 DEF Called, Judged, Snapped, env
<1>7. Tried(call)' /\ Staged(call)'
  BY <1>1, <1>3 DEF Called, Tried, Staged, Stopping, Unasked, env, hist
<1> QED
  BY <1>4, <1>5, <1>6, <1>7 DEF Called

\* ... of the guests ...
LEMMA ReadResourcesKeeps ==
  ASSUME Inv, ReadResources
  PROVE  Inv'
<1> USE DEF Inv
<1> DEFINE run == [g \in running |-> host[g]]
<1>1. /\ call \in Calls /\ Called(call) /\ call.pc = "resources" /\ UNCHANGED <<env, answer, hist, faults>>
      /\ call' = [call EXCEPT !.pc = "ha", !.run = run] /\ Api
  BY CallIsIdle DEF ReadResources
<1>2. run \in Runs /\ DOMAIN run = running /\ \A g \in running : run[g] = host[g]
  <2>1. run \in [running -> Nodes] /\ running \in SUBSET Guests
    BY DEF Typed
  <2> HIDE DEF run
  <2>2. run \in Runs
    BY <2>1 DEF Runs
  <2> QED
    BY <2>2 DEF run
<1> HIDE DEF run
<1>3. call' \in Calls
  BY <1>1, <1>2 DEF Calls, Pcs
<1>4. /\ call'.pc = "ha" /\ call'.run = run /\ call'.seen = call.seen /\ call'.first = call.first
      /\ call'.ha = call.ha /\ call'.ha0 = call.ha0
      /\ call'.cont = call.cont /\ call'.skip = call.skip /\ call'.tried = call.tried
  BY <1>1 DEF Calls
<1>5. Cluster' /\ Typed'
  BY <1>1, <1>3, Unmoved DEF Typed, env, hist
<1>6. Snapped(call)'
  <2>1. online \subseteq call.seen
    BY <1>1 DEF Called, Snapped
  <2>2. (running \cup Keep \subseteq DOMAIN call.run)'
    BY <1>1, <1>2, <1>4 DEF Cluster, Kept, env
  <2>3. (\A g \in DOMAIN call.run : /\ call.run[g] \in call.seen
                                    /\ (g \in Plain /\ g \in asked) \/ call.run[g] = host[g])'
    BY <1>1, <1>2, <1>4, <2>1 DEF Cluster, Hosted, env
  <2>4. (\A h \in Ha, g \in DOMAIN call.run :
           call.run[g] = host[h] /\ host[h] # Entry => h \in DOMAIN call.run)'
    BY <1>1, <1>2, <1>4 DEF Cluster, Hosted, env
  <2> QED
    BY <1>1, <1>4, <2>1, <2>2, <2>3, <2>4 DEF Snapped, RunRight, env
<1>7. Judged(call)'
  BY <1>1, <1>4 DEF Called, Judged, env
<1>8. Tried(call)' /\ Staged(call)'
  BY <1>1, <1>4 DEF Called, Tried, Staged, Stopping, Unasked, env, hist
<1> QED
  BY <1>5, <1>6, <1>7, <1>8 DEF Called

\* While a call only goes on to another request, its snapshot stays right.
LEMMA SnapshotStays ==
  ASSUME call \in Calls, UNCHANGED env, asked' = asked, call'.run = call.run, call'.seen = call.seen,
         RunRight(call), online \subseteq call.seen
  PROVE  Snapped(call)'
BY DEF Snapped, RunRight, env

\* ... and of the placement of HA ...
LEMMA ReadHaKeeps ==
  ASSUME Inv, ReadHa
  PROVE  Inv'
<1> USE DEF Inv
<1>1. PICK h \in {Placement, Null} :
        /\ faults' = faults \/ Fails("ha")
        /\ call' = IF call.first
                   THEN [call EXCEPT !.pc = "options", !.ha = h, !.ha0 = h]
                   ELSE [call EXCEPT !.pc = "choose", !.ha = IF h = Null THEN call.ha0 ELSE h]
  BY DEF ReadHa
<1>2. /\ call \in Calls /\ Called(call) /\ call.pc = "ha" /\ UNCHANGED <<env, answer, hist>>
      /\ faults' \in 0..MaxFaults
  BY <1>1, CallIsIdle, FailuresCount DEF ReadHa, Typed
<1>3. h \in Placements \cup {Null} /\ (h # Null => h.guests = Ha /\ h.active = lrm)
  <2>1. Placement \in Placements /\ Placement.guests = Ha /\ Placement.active = lrm
    BY Sorts DEF Placement, Placements, Typed
  <2> QED
    BY <2>1
<1>4. /\ call' \in Calls
      /\ call'.run = call.run /\ call'.seen = call.seen /\ call'.first = call.first
      /\ call'.cont = call.cont /\ call'.skip = call.skip /\ call'.tried = call.tried
      /\ \/ call.first /\ call'.pc = "options" /\ call'.ha = h /\ call'.ha0 = h
         \/ /\ ~call.first /\ call'.pc = "choose" /\ call'.ha0 = call.ha0
            /\ call'.ha = IF h = Null THEN call.ha0 ELSE h
  <2>1. CASE call.first
    BY <1>1, <1>2, <1>3, <2>1 DEF Calls, Pcs
  <2>2. CASE ~call.first
    <3> DEFINE x == IF h = Null THEN call.ha0 ELSE h
    <3>1. x \in Placements \cup {Null}
      BY <1>2, <1>3 DEF Calls
    <3>2. call' = [call EXCEPT !.pc = "choose", !.ha = x]
      BY <1>1, <2>2
    <3> HIDE DEF x
    <3>3. /\ call' \in Calls
          /\ call'.run = call.run /\ call'.seen = call.seen /\ call'.first = call.first
          /\ call'.cont = call.cont /\ call'.skip = call.skip /\ call'.tried = call.tried
          /\ call'.pc = "choose" /\ call'.ha0 = call.ha0 /\ call'.ha = x
      BY <1>2, <3>1, <3>2 DEF Calls, Pcs
    <3> QED
      BY <2>2, <3>3 DEF x
  <2> QED
    BY <2>1, <2>2
<1>5. Cluster' /\ Typed'
  BY <1>2, <1>4, Unmoved DEF Typed, env, hist
<1>6. Snapped(call)'
  BY <1>2, <1>4, SnapshotStays DEF Called, Snapped, hist
<1>7. Judged(call)'
  BY <1>2, <1>3, <1>4 DEF Called, Judged, env
<1>8. Tried(call)' /\ Staged(call)'
  BY <1>2, <1>4 DEF Called, Tried, Staged, Stopping, Unasked, env, hist
<1> QED
  BY <1>5, <1>6, <1>7, <1>8 DEF Called

\* The call goes past the refusals: with peers, the entry node has no active
\* resource manager.
LEMMA ReadOptionsKeeps ==
  ASSUME Inv, ReadOptions
  PROVE  Inv'
<1> USE DEF Inv
<1>1. /\ call \in Calls /\ Called(call) /\ call.pc = "options" /\ UNCHANGED <<env, hist, faults>>
  BY CallIsIdle DEF ReadOptions
<1>2. CASE Refused(call)
  <2>1. call' = Idle
    BY <1>2 DEF ReadOptions, End
  <2> QED
    BY <1>1, <2>1, EndKeeps DEF Typed
<1>3. CASE ~Refused(call)
  <2> DEFINE x == (call.include /\ Peers(call) = {})
  <2>1. call' = [call EXCEPT !.pc = "choose", !.first = FALSE, !.allowed = x]
    BY <1>3 DEF ReadOptions
  <2>2. x \in BOOLEAN
    OBVIOUS
  <2> HIDE DEF x
  <2>3. /\ call' \in Calls /\ call'.pc = "choose" /\ call'.first = FALSE
        /\ call'.run = call.run /\ call'.seen = call.seen
        /\ call'.ha = call.ha /\ call'.ha0 = call.ha0
        /\ call'.cont = call.cont /\ call'.skip = call.skip /\ call'.tried = call.tried
    BY <1>1, <2>1, <2>2 DEF Calls, Pcs
  <2>4. call.seen \subseteq {Entry} \/ (call.ha # Null /\ call.ha0 # Null /\ Entry \notin lrm)
    BY <1>1, <1>3 DEF Refused, Peers, FenceRisk, Called, Judged
  <2>5. Cluster' /\ Typed'
    BY <1>1, <2>3, Unmoved DEF Typed, env, hist
  <2>6. Snapped(call)'
    BY <1>1, <2>3, SnapshotStays DEF Called, Snapped, hist
  <2>7. Judged(call)'
    BY <1>1, <2>3, <2>4 DEF Called, Judged, env
  <2>8. Tried(call)' /\ Staged(call)'
    BY <1>1, <2>3 DEF Called, Tried, Staged, Stopping, Unasked, env, hist
  <2> QED
    BY <2>5, <2>6, <2>7, <2>8 DEF Called
<1> QED
  BY <1>2, <1>3

\* What is in flight is of guests that were asked.
LEMMA ListTasksKeeps ==
  ASSUME Inv, ListTasks
  PROVE  Inv'
<1> USE DEF Inv
<1> DEFINE found == {t \in DOMAIN tasks : tasks[t] > 0}
<1>1. /\ call \in Calls /\ Called(call) /\ call.pc = "tasks"
      /\ UNCHANGED <<env, answer, asked, lenient>> /\ faults' \in 0..MaxFaults
  BY CallIsIdle, FailuresCount DEF ListTasks, Typed
<1>2. \/ call' = [call EXCEPT !.pc = "post", !.active = found] /\ blind' = blind
      \/ call' = [call EXCEPT !.pc = "post"] /\ blind' = TRUE
  BY DEF ListTasks
<1>3. found \in SUBSET (Guests \cup Nodes) /\ \A t \in Guests \cup Nodes : t \notin found => tasks[t] = 0
  BY DEF Typed
<1>4. \A t \in found : t \notin Unasked /\ \A g \in Unasked : host[g] # t
  BY DEF Cluster, Worked
<1> HIDE DEF found
<1>5. /\ call' \in Calls /\ call'.pc = "post"
      /\ call'.run = call.run /\ call'.seen = call.seen /\ call'.first = call.first
      /\ call'.ha = call.ha /\ call'.ha0 = call.ha0 /\ call'.stage = call.stage /\ call'.todo = call.todo
      /\ call'.cont = call.cont /\ call'.skip = call.skip /\ call'.tried = call.tried
      /\ \/ call'.active = found /\ blind' = blind
         \/ call'.active = call.active /\ blind' = TRUE
  BY <1>1, <1>2, <1>3 DEF Calls, Pcs
<1>6. Cluster' /\ Typed'
  <2>0. blind' = blind \/ blind' = TRUE
    BY <1>2
  <2>1. (blind => blind') /\ blind' \in BOOLEAN /\ UNCHANGED env
    BY <1>1, <2>0 DEF Typed
  <2>2. Cluster'
    BY <1>1, <2>1, Unmoved
  <2> QED
    BY <1>1, <1>5, <2>1, <2>2 DEF Typed, env
<1>7. Snapped(call)'
  BY <1>1, <1>5, SnapshotStays DEF Called, Snapped
<1>8. Judged(call)'
  BY <1>1, <1>5 DEF Called, Judged, env
<1>9. Tried(call)'
  BY <1>1, <1>5 DEF Called, Tried, Staged, Stopping, Unasked, env
<1>10. Staged(call)'
  <2>1. call.stage = "stop_guests" /\ Aimed(call) /\ \A k \in Keep : host[k] = Entry
    BY <1>1 DEF Called, Staged, Stopping
  <2>2. /\ (\A t \in call.todo \cap Nodes : Bare(t))'
        /\ (\A t \in call.todo \cap Guests : /\ t \notin Keep /\ t \in DOMAIN call.run
                                             /\ ~Bare(call.run[t])
                                             /\ t \in Ha => call.run[t] = Entry)'
        /\ (\A g \in Unasked : g \in call.todo \/ host[g] \in call.todo)'
    BY <1>1, <1>5, <2>1 DEF Aimed, Bare, Unasked, env
  <2>3. (\A t \in call.active : t \notin Unasked /\ \A g \in Unasked : host[g] # t)'
    BY <1>1, <1>4, <1>5, <2>1 DEF Aimed, Unasked, env
  <2>4. blind' \/ \A t \in call'.todo \ call'.active : tasks'[t] = 0
    BY <1>1, <1>3, <1>5 DEF env, Calls
  <2>5. Aimed(call)'
    BY <2>2, <2>3, <2>4 DEF Aimed
  <2> QED
    BY <1>1, <1>5, <2>1, <2>5 DEF Staged, env
<1> QED
  BY <1>6, <1>7, <1>8, <1>9, <1>10 DEF Called

\* The call waits, and reads the cluster again or ends.
LEMMA WaitKeeps ==
  ASSUME Inv, WaitEnds \/ WaitTimesOut \/ PollFails
  PROVE  Inv'
<1> USE DEF Inv
<1>1. /\ call \in Calls /\ Called(call) /\ call.pc = "wait" /\ UNCHANGED <<env, hist>>
      /\ faults' \in 0..MaxFaults
  BY CallIsIdle, FailuresCount DEF WaitEnds, WaitTimesOut, PollFails, Typed
<1>2. CASE WaitTimesOut
  BY <1>1, <1>2, EndKeeps DEF WaitTimesOut, End
<1>3. CASE WaitEnds \/ PollFails
  <2>1. \/ call' = [call EXCEPT !.pc = "status"]
        \/ \E t \in call.waiting : call' = [call EXCEPT !.waiting = @ \ {t}]
    BY <1>3 DEF WaitEnds, PollFails
  <2>2. /\ call' \in Calls /\ call'.pc \in {"status", "wait"}
        /\ call'.run = call.run /\ call'.seen = call.seen /\ call'.first = call.first
        /\ call'.ha = call.ha /\ call'.ha0 = call.ha0
        /\ call'.cont = call.cont /\ call'.skip = call.skip /\ call'.tried = call.tried
    BY <1>1, <2>1 DEF Calls, Pcs
  <2>3. Cluster' /\ Typed'
    BY <1>1, <2>2, Unmoved DEF Typed, env, hist
  <2>4. Snapped(call)'
    BY <1>1, <2>2, SnapshotStays DEF Called, Snapped, hist
  <2>5. Judged(call)'
    BY <1>1, <2>2 DEF Called, Judged, env
  <2>6. Tried(call)' /\ Staged(call)'
    BY <1>1, <2>2 DEF Called, Tried, Staged, Stopping, Unasked, env, hist
  <2> QED
    BY <2>2, <2>3, <2>4, <2>5, <2>6 DEF Called
<1> QED
  BY <1>2, <1>3

-----------------------------------------------------------------------------
(* The choice of the stage.                                                *)

\* The guests that are stopped one by one.
LEMMA OnesAre ==
  ASSUME NEW c
  PROVE  \A t : t \in StopOnes(c) <=>
                \/ \E n \in (Peers(c) \ c.skip) \ StopAlls(c) : t \in RunOn(c, n) \ Managed(c)
                \/ Entry \notin c.skip /\ t \in (RunOn(c, Entry) \ Keep) \ Managed(c)
<1> DEFINE S == (Peers(c) \ c.skip) \ StopAlls(c)
           R(n) == RunOn(c, n) \ Managed(c)
           E == (RunOn(c, Entry) \ Keep) \ Managed(c)
           U == UNION {R(n) : n \in S}
           F == IF Entry \in c.skip THEN {} ELSE E
<1>1. StopOnes(c) = U \cup F
  BY DEF StopOnes
<1>2. \A t : t \in F <=> Entry \notin c.skip /\ t \in E
  <2> HIDE DEF E
  <2>1. CASE Entry \in c.skip
    BY <2>1
  <2>2. CASE Entry \notin c.skip
    BY <2>2
  <2> QED
    BY <2>1, <2>2
<1>3. \A t : t \in U <=> \E n \in S : t \in R(n)
  <2> HIDE DEF S, R
  <2> QED
    OBVIOUS
<1> HIDE DEF U, F
<1>4. \A t : t \in StopOnes(c) <=> t \in U \/ t \in F
  BY <1>1
<1> QED
  BY <1>2, <1>3, <1>4

\* A stage, its actions, and what was found when it came to it.
LEMMA StageIs ==
  ASSUME Typed, call \in Calls, RunRight(call)
  PROVE  LET s == NextStage(call)
         IN /\ StopAlls(call) \subseteq Nodes /\ StopOnes(call) \subseteq DOMAIN call.run \cap Guests
            /\ s.todo \subseteq Guests \cup Nodes
            /\ \/ s.name = "blocked" /\ s.todo = {}
               \/ s.name = "stop_guests" /\ Misplaced(call) = {} /\ s.todo = StopAlls(call) \cup StopOnes(call)
               \/ /\ Misplaced(call) = {} /\ StopAlls(call) \cup StopOnes(call) = {}
                  /\ \/ s.name = "shutdown_peers" /\ s.todo = Peers(call)
                     \/ s.name = "shutdown_entry" /\ s.todo = {Entry} /\ Peers(call) = {}
                     \/ s.name = "ready_for_nas" /\ s.todo = {} /\ Peers(call) = {}
<1>1. StopAlls(call) \subseteq Nodes /\ Peers(call) \subseteq Nodes
  BY DEF StopAlls, Peers, Calls
<1>2. \A n : RunOn(call, n) \subseteq DOMAIN call.run \cap Guests
  BY DEF RunOn, Calls, Runs
<1>3. StopOnes(call) \subseteq DOMAIN call.run \cap Guests
  BY <1>2, OnesAre
<1> QED
  BY <1>1, <1>3, Sorts DEF NextStage

\* The round goes over every guest there is.
LEMMA EveryGuest ==
  ASSUME Inv, call.pc = "choose", call.skip = {}, NEW g \in Plain \cap running
  PROVE  /\ g \in DOMAIN call.run
         /\ g \in StopOnes(call) \/ (call.run[g] \in StopAlls(call))
<1> USE DEF Inv
<1>1. call \in Calls /\ RunRight(call) /\ Judged(call)
  BY CallIsIdle DEF Called, Snapped
<1>2. g \in DOMAIN call.run /\ call.run[g] \in call.seen
  BY <1>1 DEF RunRight
<1>3. g \notin Keep /\ g \notin Managed(call)
  BY <1>1, Sorts DEF Judged, Managed
<1> DEFINE n == call.run[g]
<1>4. g \in RunOn(call, n)
  BY <1>2 DEF RunOn
<1>5. CASE n = Entry
  BY <1>2, <1>3, <1>4, <1>5, OnesAre
<1>6. CASE n # Entry /\ n \notin StopAlls(call)
  <2>1. n \in (Peers(call) \ call.skip) \ StopAlls(call)
    BY <1>2, <1>6 DEF Peers
  <2>2. g \in RunOn(call, n) \ Managed(call)
    BY <1>3, <1>4
  <2> HIDE DEF n
  <2> QED
    BY <1>2, <2>1, <2>2, OnesAre
<1> QED
  BY <1>2, <1>5, <1>6

\* Where nothing is left to stop, the nodes may go.
LEMMA NoneToStop ==
  ASSUME Inv, call.pc = "choose", StopAlls(call) \cup StopOnes(call) = {}
  PROVE  Cleared
<1> USE DEF Inv
<1>1. Tried(call)
  BY CallIsIdle DEF Called
<1>2. CASE call.skip = {}
  BY <1>2, EveryGuest DEF Cleared
<1>3. CASE call.skip # {}
  BY <1>1, <1>3 DEF Tried, Cleared
<1> QED
  BY <1>2, <1>3

\* The actions of a round are what they should be.
LEMMA Aiming ==
  ASSUME Inv, call.pc = "choose", Misplaced(call) = {}
  PROVE  /\ \A t \in StopAlls(call) : Bare(t)
         /\ \A t \in StopOnes(call) : /\ t \notin Keep /\ t \in DOMAIN call.run /\ ~Bare(call.run[t])
                                      /\ t \in Ha => call.run[t] = Entry
         /\ \A g \in Unasked : g \in StopOnes(call) \/ host[g] \in StopAlls(call)
         /\ \A k \in Keep : host[k] = Entry
<1> USE DEF Inv
<1>1. call \in Calls /\ RunRight(call) /\ Judged(call) /\ Tried(call) /\ ~call.first
  BY CallIsIdle DEF Called, Snapped, Judged
<1>2. Peers(call) # {} => Managed(call) = Ha
  BY <1>1 DEF Judged, Managed, Peers
<1>3. \A h \in Ha \cup Keep : h \in DOMAIN call.run => call.run[h] = host[h]
  BY <1>1, Sorts DEF RunRight
<1>4. \A k \in Keep : k \in DOMAIN call.run /\ call.run[k] = Entry
  BY <1>1 DEF RunRight, Misplaced
<1>5. ASSUME NEW t \in StopAlls(call)
      PROVE  Bare(t)
  <2>1. t \in Peers(call) /\ RunOn(call, t) # {} /\ RunOn(call, t) \cap Ha = {}
    BY <1>2 DEF StopAlls
  <2>2. PICK g \in DOMAIN call.run : call.run[g] = t
    BY <2>1 DEF RunOn
  <2>3. ASSUME NEW h \in Ha, host[h] = t
        PROVE  FALSE
    <3>1. h \in DOMAIN call.run
      BY <1>1, <2>1, <2>2, <2>3 DEF RunRight, Peers
    <3>2. h \in RunOn(call, t)
      BY <1>3, <2>3, <3>1 DEF RunOn
    <3> QED
      BY <2>1, <3>2
  <2> QED
    BY <2>1, <2>3 DEF Bare, Peers
<1>6. ASSUME NEW t \in StopOnes(call)
      PROVE  /\ t \notin Keep /\ t \in DOMAIN call.run /\ ~Bare(call.run[t])
             /\ t \in Ha => call.run[t] = Entry
  <2>1. CASE t \in (RunOn(call, Entry) \ Keep) \ Managed(call)
    BY <2>1 DEF RunOn, Bare
  <2>2. CASE \E n \in (Peers(call) \ call.skip) \ StopAlls(call) : t \in RunOn(call, n) \ Managed(call)
    <3>1. PICK n \in (Peers(call) \ call.skip) \ StopAlls(call) : t \in RunOn(call, n) \ Managed(call)
      BY <2>2
    <3>2. t \in DOMAIN call.run /\ call.run[t] = n /\ n # Entry /\ t \notin Ha /\ Managed(call) = Ha
      BY <1>2, <3>1 DEF RunOn, Peers
    <3>3. t \notin Keep
      BY <1>4, <3>2
    <3>4. RunOn(call, n) \cap Ha # {}
      BY <3>1, <3>2 DEF StopAlls
    <3>5. PICK h \in Ha : h \in DOMAIN call.run /\ call.run[h] = n
      BY <3>4 DEF RunOn
    <3>6. ~Bare(n)
      BY <1>3, <3>5 DEF Bare
    <3> QED
      BY <3>2, <3>3, <3>6
  <2>3. \/ t \in (RunOn(call, Entry) \ Keep) \ Managed(call)
        \/ \E n \in (Peers(call) \ call.skip) \ StopAlls(call) : t \in RunOn(call, n) \ Managed(call)
    BY OnesAre
  <2> QED
    BY <2>1, <2>2, <2>3
<1>7. ASSUME NEW g \in Unasked
      PROVE  g \in StopOnes(call) \/ host[g] \in StopAlls(call)
  <2>1. call.skip = {} /\ g \in Plain \cap running /\ g \notin asked
    BY <1>1, <1>7 DEF Tried, Unasked
  <2>2. g \in DOMAIN call.run /\ (g \in StopOnes(call) \/ call.run[g] \in StopAlls(call))
    BY <2>1, EveryGuest
  <2>3. call.run[g] = host[g]
    BY <1>1, <2>1, <2>2 DEF RunRight
  <2> QED
    BY <2>2, <2>3
<1> QED
  BY <1>3, <1>4, <1>5, <1>6, <1>7

\* ... and the choice of the stage, with the answer of a dry run, a refusal or
\* the end of the last one.
LEMMA ChooseKeeps ==
  ASSUME Inv, Choose
  PROVE  Inv'
<1> USE DEF Inv
<1> DEFINE s == NextStage(call)
           stuck == Stuck(call, s)
           over == {IF t \in Nodes THEN t ELSE call.run[t] : t \in stuck}
<1>1. /\ call \in Calls /\ Called(call) /\ call.pc = "choose" /\ RunRight(call) /\ ~call.first
      /\ online \subseteq call.seen
      /\ UNCHANGED <<env, hist, faults>> /\ faults' \in 0..MaxFaults
  BY CallIsIdle DEF Choose, Called, Snapped, Judged, Typed
<1>2. \/ call' = Idle
      \/ /\ stuck # {} /\ s.name = "stop_guests" /\ call.cont
         /\ call' = [call EXCEPT !.skip = @ \cup over]
      \/ /\ s.todo # {}
         /\ call' = [call EXCEPT !.pc = IF s.name = "stop_guests" THEN "tasks" ELSE "post",
                                 !.stage = s.name, !.todo = s.todo,
                                 !.active = {}, !.waiting = {}]
  BY DEF Choose, End
<1>3. /\ StopAlls(call) \subseteq Nodes /\ StopOnes(call) \subseteq DOMAIN call.run \cap Guests
      /\ s.todo \subseteq Guests \cup Nodes
      /\ \/ s.name = "blocked" /\ s.todo = {}
         \/ s.name = "stop_guests" /\ Misplaced(call) = {} /\ s.todo = StopAlls(call) \cup StopOnes(call)
         \/ /\ Misplaced(call) = {} /\ StopAlls(call) \cup StopOnes(call) = {}
            /\ \/ s.name = "shutdown_peers" /\ s.todo = Peers(call)
               \/ s.name = "shutdown_entry" /\ s.todo = {Entry} /\ Peers(call) = {}
               \/ s.name = "ready_for_nas" /\ s.todo = {} /\ Peers(call) = {}
  BY <1>1, StageIs
<1>4. stuck \subseteq s.todo /\ (s.name = "stop_guests" => stuck \subseteq call.tried)
  BY DEF Stuck
<1>5. over \subseteq Nodes
  <2>1. \A t \in stuck \ Nodes : t \in DOMAIN call.run
    BY <1>1, <1>3, <1>4, Sorts DEF Peers, Calls
  <2>2. \A t \in DOMAIN call.run : call.run[t] \in Nodes
    BY <1>1 DEF Calls, Runs
  <2> HIDE DEF stuck
  <2> QED
    BY <2>1, <2>2
<1>6. Cluster'
  BY <1>1, Unmoved DEF hist
<1> HIDE DEF s, stuck, over
<1>7. CASE call' = Idle
  BY <1>1, <1>7, EndKeeps
<1>8. CASE /\ stuck # {} /\ s.name = "stop_guests" /\ call.cont
           /\ call' = [call EXCEPT !.skip = @ \cup over]
  <2>1. call' \in Calls /\ call'.pc = "choose" /\ call'.skip \subseteq Nodes
        /\ call'.run = call.run /\ call'.seen = call.seen /\ call'.first = call.first
        /\ call'.ha = call.ha /\ call'.ha0 = call.ha0
        /\ call'.cont = call.cont /\ call'.tried = call.tried
    BY <1>1, <1>5, <1>8 DEF Calls
  <2>2. Snapped(call)'
    BY <1>1, <2>1, SnapshotStays DEF hist
  <2>3. Judged(call)'
    BY <1>1, <2>1 DEF Called, Judged, env
  <2>4. Unasked = {}
    BY <1>1, <1>4, <1>8 DEF Called, Tried, Stopping
  <2>5. Tried(call)' /\ Staged(call)'
    BY <1>1, <1>8, <2>1, <2>4 DEF Called, Tried, Staged, Stopping, Unasked, env, hist
  <2> QED
    BY <1>1, <1>6, <2>1, <2>2, <2>3, <2>5 DEF Called, Typed, env, hist
<1>9. CASE /\ s.todo # {}
           /\ call' = [call EXCEPT !.pc = IF s.name = "stop_guests" THEN "tasks" ELSE "post",
                                   !.stage = s.name, !.todo = s.todo,
                                   !.active = {}, !.waiting = {}]
  <2>1. s.name \in {"stop_guests", "shutdown_peers", "shutdown_entry"} /\ Misplaced(call) = {}
    BY <1>3, <1>9
  <2>2. /\ call' \in Calls /\ call'.pc = IF s.name = "stop_guests" THEN "tasks" ELSE "post"
        /\ call'.stage = s.name /\ call'.todo = s.todo /\ call'.active = {}
        /\ call'.run = call.run /\ call'.seen = call.seen /\ call'.first = call.first
        /\ call'.ha = call.ha /\ call'.ha0 = call.ha0
        /\ call'.cont = call.cont /\ call'.skip = call.skip /\ call'.tried = call.tried
    BY <1>1, <1>3, <1>9, <2>1 DEF Calls, Pcs, Stages
  <2>3. Snapped(call)'
    BY <1>1, <2>2, SnapshotStays DEF hist
  <2>4. Judged(call)'
    BY <1>1, <2>2 DEF Called, Judged, env
  <2>5. Tried(call)'
    BY <1>1, <2>2 DEF Called, Tried, Stopping, Unasked, env, hist
  <2>6. \A k \in Keep : host[k] = Entry
    BY <1>1, <2>1, Aiming
  <2>7. CASE s.name = "stop_guests"
    <3>1. s.todo = StopAlls(call) \cup StopOnes(call)
      BY <1>3, <2>7
    <3>2. s.todo \cap Nodes = StopAlls(call) /\ s.todo \cap Guests = StopOnes(call)
      BY <1>3, <3>1, Sorts
    <3>3. /\ (\A t \in call.todo \cap Nodes : Bare(t))'
          /\ (\A t \in call.todo \cap Guests : /\ t \notin Keep /\ t \in DOMAIN call.run
                                               /\ ~Bare(call.run[t])
                                               /\ t \in Ha => call.run[t] = Entry)'
      BY <1>1, <2>1, <2>2, <3>2, Aiming DEF Bare, env
    <3>4. (\A g \in Unasked : g \in call.todo \/ host[g] \in call.todo)'
      BY <1>1, <2>1, <2>2, <3>1, Aiming DEF Unasked, env, hist
    <3>5. Aimed(call)'
      BY <2>2, <2>7, <3>3, <3>4 DEF Aimed
    <3> QED
      BY <1>1, <1>6, <2>2, <2>3, <2>4, <2>5, <2>6, <2>7, <3>5 DEF Called, Staged, Stopping, Typed, env, hist
  <2>8. CASE s.name # "stop_guests"
    <3>1. Cleared'
      <4>1. Cleared
        BY <1>1, <1>3, <2>1, <2>8, NoneToStop
      <4> QED
        BY <1>1, <4>1 DEF Cleared, Unasked, env, hist
    <3>2. \/ call'.todo \subseteq Nodes \ {Entry}
          \/ call'.todo \subseteq {Entry} /\ online' \subseteq {Entry}
      BY <1>1, <1>3, <2>1, <2>2, <2>8 DEF Peers, Calls, env
    <3>3. Staged(call)'
      BY <1>1, <2>1, <2>2, <2>6, <2>8, <3>1, <3>2 DEF Staged, Stopping, env
    <3> QED
      BY <1>1, <1>6, <2>2, <2>3, <2>4, <2>5, <3>3 DEF Called, Typed, env, hist
  <2> QED
    BY <2>7, <2>8
<1> QED
  BY <1>2, <1>7, <1>8, <1>9

-----------------------------------------------------------------------------
(* The requests of a call that do something.                               *)

\* What Done makes of the call.
LEMMA DoneIs ==
  ASSUME Typed, call \in Calls, call.pc = "post", NEW t \in call.todo,
         NEW submitted \in BOOLEAN, Done(t, submitted)
  PROVE  IF call.stage = "shutdown_entry" THEN call' = Idle
         ELSE /\ call' \in Calls /\ call'.todo = call.todo \ {t}
              /\ call'.pc = IF call'.todo = {} THEN "wait" ELSE "post"
              /\ call'.tried = IF call.stage = "stop_guests" THEN call.tried \cup {t} ELSE call.tried
              /\ call'.run = call.run /\ call'.seen = call.seen /\ call'.first = call.first
              /\ call'.ha = call.ha /\ call'.ha0 = call.ha0 /\ call'.stage = call.stage
              /\ call'.active = call.active
              /\ call'.cont = call.cont /\ call'.skip = call.skip
<1>1. CASE call.stage = "shutdown_entry"
  BY <1>1 DEF Done, End
<1>2. CASE call.stage # "shutdown_entry"
  <2> DEFINE rest == call.todo \ {t}
             pc == IF rest = {} THEN "wait" ELSE "post"
             tried == IF call.stage = "stop_guests" THEN call.tried \cup {t} ELSE call.tried
             downed == IF call.stage = "stop_guests" THEN call.downed ELSE call.downed \cup {t}
             waiting == IF submitted THEN call.waiting \cup {t} ELSE call.waiting
  <2>1. call' = [call EXCEPT !.todo = rest, !.pc = pc, !.tried = tried, !.downed = downed,
                             !.waiting = waiting]
    BY <1>2 DEF Done
  <2>2. /\ rest \subseteq Guests \cup Nodes /\ pc \in Pcs /\ tried \subseteq Guests \cup Nodes
        /\ downed \subseteq Guests \cup Nodes /\ waiting \subseteq Guests \cup Nodes
    BY DEF Calls, Pcs
  <2> HIDE DEF rest, pc, tried, downed, waiting
  <2>3. /\ call' \in Calls /\ call'.todo = rest /\ call'.pc = pc /\ call'.tried = tried
        /\ call'.run = call.run /\ call'.seen = call.seen /\ call'.first = call.first
        /\ call'.ha = call.ha /\ call'.ha0 = call.ha0 /\ call'.stage = call.stage
        /\ call'.active = call.active
        /\ call'.cont = call.cont /\ call'.skip = call.skip
    BY <2>1, <2>2 DEF Calls
  <2> QED
    BY <1>2, <2>3 DEF rest, pc, tried
<1> QED
  BY <1>1, <1>2

\* A stop request: whoever it has a worker for has been asked, and it has no
\* second worker for anybody.
LEMMA PostStopKeeps ==
  ASSUME Inv, NEW t \in Guests \cup Nodes, PostStop(t)
  PROVE  Inv'
<1> USE DEF Inv
<1>1. /\ call \in Calls /\ Called(call) /\ call.pc = "post" /\ call.stage = "stop_guests"
      /\ t \in call.todo
      /\ UNCHANGED <<online, leaving, host, running, lrm, policy, lenient, blind>>
      /\ RunRight(call) /\ Aimed(call) /\ online \subseteq call.seen
      /\ \A k \in Keep : host[k] = Entry
  BY CallIsIdle DEF PostStop, Called, Staged, Stopping, Snapped
<1>2. /\ faults' \in 0..MaxFaults
      /\ \E submitted \in BOOLEAN : Done(t, submitted)
      /\ \/ t \in call.active /\ UNCHANGED <<tasks, asked>>
         \/ t \notin call.active /\ asked' = asked \cup Covered(t) /\ (StartTask(t) \/ tasks' = tasks)
  BY FailuresCount DEF PostStop, Typed
<1>3. /\ call' \in Calls /\ call'.todo = call.todo \ {t}
      /\ call'.pc = IF call'.todo = {} THEN "wait" ELSE "post"
      /\ call'.tried = call.tried \cup {t}
      /\ call'.run = call.run /\ call'.seen = call.seen /\ call'.first = call.first
      /\ call'.ha = call.ha /\ call'.ha0 = call.ha0 /\ call'.stage = call.stage
      /\ call'.active = call.active
      /\ call'.cont = call.cont /\ call'.skip = call.skip
  BY <1>1, <1>2, DoneIs
<1>4. Covered(t) \subseteq running /\ Covered(t) \subseteq Guests
  BY DEF Covered, On, Typed
<1>5. /\ t \in Nodes => Bare(t) /\ Covered(t) = On(t) /\ Workers(t) = On(t) \cup {t}
      /\ t \in Guests => /\ t \notin Keep /\ t \in DOMAIN call.run /\ ~Bare(call.run[t])
                         /\ t \in Ha => call.run[t] = Entry
                         /\ Covered(t) = {t} \cap On(call.run[t]) /\ Workers(t) = Covered(t)
  BY <1>1, Sorts DEF Aimed, Covered, Workers
<1>6. /\ \A x \in Guests \cup Nodes :
           tasks'[x] = tasks[x] \/ (x \in Workers(t) /\ tasks'[x] = tasks[x] + 1)
      /\ tasks' \in [Guests \cup Nodes -> Nat]
      /\ \/ tasks' = tasks
         \/ /\ t \notin call.active /\ asked' = asked \cup Covered(t)
            /\ \A x \in Workers(t) : tasks'[x] = tasks[x] + 1
  <2>1. CASE tasks' = tasks
    BY <2>1 DEF Typed
  <2>2. CASE StartTask(t) /\ t \notin call.active /\ asked' = asked \cup Covered(t)
    <3>1. \A x \in Guests \cup Nodes : tasks'[x] = tasks[x] + IF x \in Workers(t) THEN 1 ELSE 0
      BY <2>2 DEF StartTask, Typed
    <3>2. tasks' \in [Guests \cup Nodes -> Nat]
      BY <2>2 DEF StartTask, Typed
    <3>3. Workers(t) \subseteq Guests \cup Nodes
      BY <1>4 DEF Workers
    <3> QED
      BY <2>2, <3>1, <3>2, <3>3 DEF Typed
  <2> QED
    BY <1>2, <2>1, <2>2
<1>7. Advances /\ asked' \subseteq Guests
  BY <1>1, <1>2, <1>4 DEF Advances, Typed
<1>8. Unasked' \subseteq Unasked /\ (Cleared => Cleared')
  BY <1>7, Advancing
<1>9. \A g \in Unasked' : g # t /\ host[g] # t /\ g \notin Workers(t) /\ host[g] \notin Workers(t)
  <2> SUFFICES ASSUME NEW g \in Unasked'
               PROVE  g # t /\ host[g] # t /\ g \notin Workers(t) /\ host[g] \notin Workers(t)
    OBVIOUS
  <2>1. g \in Unasked /\ g \in Guests /\ g \in running /\ host[g] \in Nodes /\ g \notin asked'
    BY <1>1, <1>8, Sorts DEF Unasked, Typed
  <2>2. g \in DOMAIN call.run /\ call.run[g] = host[g]
    BY <1>1, <2>1 DEF RunRight, Unasked
  <2>3. CASE t \in call.active
    <3>1. g # t /\ host[g] # t
      BY <1>1, <2>1, <2>3 DEF Aimed
    <3>2. CASE t \in Guests
      BY <1>5, <3>1, <3>2
    <3>3. CASE t \in Nodes
      BY <1>4, <1>5, <2>1, <3>1, <3>3, Sorts DEF On
    <3> QED
      BY <3>1, <3>2, <3>3
  <2>4. CASE asked' = asked \cup Covered(t)
    <3>1. g \notin Covered(t)
      BY <2>1, <2>4
    <3>2. CASE t \in Guests
      <4>1. g # t
        BY <1>5, <2>1, <2>2, <3>1, <3>2 DEF On
      <4>2. host[g] # t
        BY <2>1, <3>2, Sorts
      <4> QED
        BY <1>5, <3>2, <4>1, <4>2
    <3>3. CASE t \in Nodes
      <4>1. g # t /\ host[g] \notin Covered(t)
        BY <1>4, <2>1, <3>3, Sorts
      <4>2. host[g] # t
        BY <1>5, <2>1, <3>1, <3>3 DEF On
      <4> QED
        BY <1>5, <3>1, <3>3, <4>1, <4>2
    <3> QED
      BY <3>2, <3>3
  <2> QED
    BY <1>2, <2>3, <2>4
<1>10. Typed'
  BY <1>1, <1>2, <1>3, <1>6, <1>7 DEF Typed
<1>11. \A n : Bare(n)' <=> Bare(n)
  BY <1>1 DEF Bare
<1>12. Kept'
  <2>1. \A k \in Keep : k \notin Workers(t)
    BY <1>1, <1>5, Sorts DEF On, Bare
  <2> QED
    BY <1>1, <1>6, <2>1, Sorts DEF Cluster, Kept, Api
<1>13. Hosted'
  <2>1. \A h \in Ha : host[h] # Entry => h \notin Workers(t)
    BY <1>5, Sorts DEF On, Bare
  <2> QED
    BY <1>1, <1>6, <2>1, Sorts DEF Cluster, Hosted
<1>14. blind \/ \A x \in Workers(t) : tasks'[x] = tasks[x] \/ tasks[x] = 0
  <2> SUFFICES ASSUME ~blind, tasks' # tasks, NEW x \in Workers(t)
               PROVE  tasks[x] = 0
    OBVIOUS
  <2>1. tasks[t] = 0 \/ (t \in Guests /\ host[t] # call.run[t])
    BY <1>1, <1>6 DEF Aimed
  <2>2. CASE t \in Guests
    BY <1>5, <2>1, <2>2 DEF On
  <2>3. CASE t \in Nodes
    <3>1. tasks[t] = 0 /\ Bare(t)
      BY <1>5, <2>1, <2>3, Sorts
    <3>2. CASE x \in On(t)
      <4>1. x \in Guests /\ host[x] = t
        BY <3>2 DEF On, Typed
      <4> QED
        BY <3>1, <4>1 DEF Cluster, Worked, Typed
    <3> QED
      BY <1>5, <2>3, <3>1, <3>2
  <2> QED
    BY <2>2, <2>3
<1>15. Worked'
  <2>1. \A g \in Unasked' : tasks'[g] = 0 /\ tasks'[host[g]] = 0
    <3> SUFFICES ASSUME NEW g \in Unasked' PROVE tasks'[g] = 0 /\ tasks'[host[g]] = 0
      OBVIOUS
    <3>1. g \in Unasked /\ g \in Guests /\ host[g] \in Nodes
      BY <1>8, Sorts DEF Unasked, Typed
    <3> QED
      BY <1>6, <1>9, <3>1 DEF Cluster, Worked
  <2>2. ASSUME NEW g \in Guests, tasks'[g] > 0, Bare(host[g])
        PROVE  tasks'[host[g]] > 0
    <3>1. host[g] \in Nodes /\ tasks[g] \in Nat /\ tasks[host[g]] \in Nat
      BY DEF Typed
    <3>2. tasks'[host[g]] = tasks[host[g]] \/ tasks'[host[g]] = tasks[host[g]] + 1
      BY <1>6, <3>1
    <3>3. CASE tasks[g] > 0
      BY <2>2, <3>1, <3>2, <3>3 DEF Cluster, Worked
    <3>4. CASE ~(tasks[g] > 0)
      <4>1. g \in Workers(t) /\ \A x \in Workers(t) : tasks'[x] = tasks[x] + 1
        BY <1>6, <2>2, <3>1, <3>4
      <4>2. t \in Nodes /\ host[g] = t
        BY <1>5, <2>2, <4>1, Sorts DEF On
      <4> QED
        BY <1>5, <3>1, <4>1, <4>2
    <3> QED
      BY <3>3, <3>4
  <2>3. blind \/ \A x \in Guests \cup Nodes : tasks'[x] <= 1
    <3> SUFFICES ASSUME ~blind, NEW x \in Guests \cup Nodes PROVE tasks'[x] <= 1
      OBVIOUS
    <3>1. tasks[x] \in Nat /\ tasks[x] <= 1
      BY DEF Typed, Cluster, Worked
    <3> QED
      BY <1>6, <1>14, <3>1
  <2> QED
    BY <1>1, <1>11, <2>1, <2>2, <2>3 DEF Worked
<1>16. Going'
  BY <1>1, <1>8 DEF Cluster, Going
<1>17. Snapped(call)'
  <2>1. (running \cup Keep \subseteq DOMAIN call.run)'
    BY <1>1, <1>3 DEF RunRight
  <2>2. (\A g \in DOMAIN call.run : /\ call.run[g] \in call.seen
                                    /\ (g \in Plain /\ g \in asked) \/ call.run[g] = host[g])'
    BY <1>1, <1>3, <1>7 DEF RunRight, Advances
  <2>3. (\A h \in Ha, g \in DOMAIN call.run :
           call.run[g] = host[h] /\ host[h] # Entry => h \in DOMAIN call.run)'
    BY <1>1, <1>3 DEF RunRight
  <2> QED
    BY <1>1, <1>3, <2>1, <2>2, <2>3 DEF Snapped, RunRight
<1>18. Judged(call)'
  BY <1>1, <1>3 DEF Called, Judged
<1>19. \A g \in Unasked' : g \in call'.todo \/ host'[g] \in call'.todo
  BY <1>1, <1>3, <1>8, <1>9 DEF Aimed
<1>20. Tried(call)'
  <2>1. call'.todo = {} => Unasked' = {}
    BY <1>19
  <2> QED
    BY <1>1, <1>3, <1>8, <2>1 DEF Called, Tried, Stopping
<1>21. Staged(call)'
  <2>1. /\ (\A x \in call.todo \cap Nodes : Bare(x))'
        /\ (\A x \in call.todo \cap Guests : /\ x \notin Keep /\ x \in DOMAIN call.run
                                             /\ ~Bare(call.run[x])
                                             /\ x \in Ha => call.run[x] = Entry)'
    BY <1>1, <1>3, <1>11 DEF Aimed
  <2>2. (\A x \in call.active : x \notin Unasked /\ \A g \in Unasked : host[g] # x)'
    BY <1>1, <1>3, <1>8 DEF Aimed
  <2>3. ASSUME ~blind, NEW x \in call.todo, x # t, x \notin call.active
        PROVE  tasks'[x] = 0 \/ (x \in Guests /\ host[x] # call.run[x])
    <3>1. x \in Guests \cup Nodes /\ (tasks[x] = 0 \/ (x \in Guests /\ host[x] # call.run[x]))
      BY <1>1, <2>3 DEF Aimed, Calls
    <3>2. CASE x \in Workers(t)
      <4>1. t \in Nodes /\ x \in Guests /\ host[x] = t
        BY <1>5, <2>3, <3>2, Sorts DEF On, Typed
      <4>2. ~Bare(call.run[x])
        BY <1>1, <2>3, <4>1 DEF Aimed
      <4> QED
        BY <1>5, <4>1, <4>2
    <3>3. CASE x \notin Workers(t)
      BY <1>6, <3>1, <3>3
    <3> QED
      BY <3>2, <3>3
  <2>4. Aimed(call)'
    BY <1>1, <1>3, <1>19, <2>1, <2>2, <2>3 DEF Aimed
  <2> QED
    BY <1>1, <1>3, <2>4 DEF Staged
<1> QED
  BY <1>10, <1>12, <1>13, <1>15, <1>16, <1>17, <1>18, <1>20, <1>21 DEF Called, Cluster

\* A node is told to go when that may be; the entry node when it is alone.
LEMMA PostShutdownKeeps ==
  ASSUME Inv, NEW n \in Nodes, PostShutdown(n)
  PROVE  Inv'
<1> USE DEF Inv
<1>1. /\ call \in Calls /\ Called(call) /\ call.pc = "post" /\ call.stage # "stop_guests"
      /\ n \in call.todo
      /\ UNCHANGED <<online, host, running, tasks, lrm, policy, hist>>
      /\ RunRight(call) /\ online \subseteq call.seen /\ ~call.first
      /\ \A k \in Keep : host[k] = Entry
  BY CallIsIdle DEF PostShutdown, Called, Staged, Snapped, Judged
<1>2. /\ faults' \in 0..MaxFaults
      /\ \E submitted \in BOOLEAN : Done(n, submitted)
      /\ leaving' = leaving \/ leaving' = leaving \cup ({n} \cap online)
  BY FailuresCount DEF PostShutdown, Typed
<1>3. IF call.stage = "shutdown_entry" THEN call' = Idle
      ELSE /\ call' \in Calls /\ call'.todo = call.todo \ {n}
           /\ call'.pc = IF call'.todo = {} THEN "wait" ELSE "post"
           /\ call'.tried = call.tried
           /\ call'.run = call.run /\ call'.seen = call.seen /\ call'.first = call.first
           /\ call'.ha = call.ha /\ call'.ha0 = call.ha0 /\ call'.stage = call.stage
           /\ call'.cont = call.cont /\ call'.skip = call.skip
  BY <1>1, <1>2, DoneIs
<1>4. /\ Cleared
      /\ \/ call.todo \subseteq Nodes \ {Entry}
         \/ call.todo \subseteq {Entry} /\ online \subseteq {Entry}
  BY <1>1 DEF Called, Staged
<1>5. Typed'
  BY <1>1, <1>2, <1>3 DEF Typed, hist
<1>6. Cleared' /\ Unasked' = Unasked
  BY <1>1, <1>4 DEF Cleared, Unasked, hist
<1>7. Kept' /\ Hosted'
  BY <1>1 DEF Cluster, Kept, Hosted, Api
<1>8. Worked'
  BY <1>1, <1>6 DEF Cluster, Worked, Bare, hist
<1>9. Going'
  <2>1. n \in online /\ n # Entry => Entry \notin lrm
    BY <1>1 DEF Called, Judged
  <2>2. n \in online /\ n = Entry => online = {Entry}
    BY <1>1, <1>4
  <2>3. leaving' \ {Entry} # {} \/ online' # Nodes => Entry \notin lrm'
    BY <1>1, <1>2, <2>1 DEF Cluster, Going
  <2>4. Entry \in leaving' => online' = {Entry}
    BY <1>1, <1>2, <2>2 DEF Cluster, Going
  <2> QED
    BY <1>6, <2>3, <2>4 DEF Going
<1>10. ASSUME call' # Idle
       PROVE  Called(call)'
  <2>1. Snapped(call)'
    BY <1>1, <1>3, <1>10 DEF Snapped, RunRight, hist
  <2>2. Judged(call)'
    BY <1>1, <1>3, <1>10 DEF Called, Judged
  <2>3. Tried(call)'
    BY <1>1, <1>3, <1>6, <1>10 DEF Called, Tried, Stopping, hist
  <2>4. Staged(call)'
    BY <1>1, <1>3, <1>4, <1>6, <1>10 DEF Called, Staged, Stopping
  <2> QED
    BY <2>1, <2>2, <2>3, <2>4 DEF Called
<1> QED
  BY <1>5, <1>7, <1>8, <1>9, <1>10 DEF Cluster

\* So every step of a call keeps it.
LEMMA CallStepKeeps ==
  ASSUME Inv, CallStep
  PROVE  Inv'
<1>1. CASE ReadFails
  <2>1. call' = Idle /\ UNCHANGED <<env, hist>> /\ faults' \in 0..MaxFaults
    BY <1>1, FailuresCount DEF ReadFails, End, Inv
  <2> QED
    BY <2>1, EndKeeps
<1> QED
  BY <1>1, ReadStatusKeeps, ReadResourcesKeeps, ReadHaKeeps, ReadOptionsKeeps, ChooseKeeps,
     ListTasksKeeps, PostStopKeeps, PostShutdownKeeps, WaitKeeps DEF CallStep

\* Every step keeps the invariant.
LEMMA InvStep ==
  ASSUME Inv, [Next]_vars
  PROVE  Inv'
<1>1. CASE UNCHANGED vars
  <2>1. UNCHANGED <<env, call, hist, faults>>
    BY <1>1 DEF vars
  <2>2. Cluster' /\ Typed'
    BY <2>1, Unmoved DEF Inv, Typed, env, hist
  <2>3. Moves
    BY <2>1 DEF Moves, Advances, Inv, Typed, env, hist
  <2> QED
    BY <2>1, <2>2, <2>3, MovesKeepCalled DEF Inv
<1> QED
  BY <1>1, BeginKeeps, CallStepKeeps, EnvStepKeeps DEF Next

\* The invariant holds at first: nobody has been asked for anything.
LEMMA InitHolds == Init => Inv
<1> SUFFICES ASSUME Init PROVE Inv
  OBVIOUS
<1>1. /\ online = Nodes /\ leaving = {} /\ host \in [Guests -> Nodes] /\ running = Guests
      /\ tasks = [t \in Guests \cup Nodes |-> 0] /\ lrm \subseteq Nodes
      /\ call = Idle /\ asked = {} /\ lenient = FALSE /\ blind = FALSE /\ faults = 0
  <2>1. host \in [Guests -> Nodes]
    BY PlaceAssumption DEF Init
  <2>2. lrm \subseteq Nodes
    <3>1. PICK S \in SUBSET {Entry} : lrm = {host[g] : g \in Ha} \cup S
      BY DEF Init
    <3> QED
      BY <2>1, <3>1, EntryAssumption, Sorts
  <2> QED
    BY <2>1, <2>2 DEF Init
<1>2. Typed
  <2>1. tasks \in [Guests \cup Nodes -> Nat]
    BY <1>1
  <2>2. faults \in 0..MaxFaults
    BY <1>1, Sorts
  <2> QED
    BY <1>1, <2>1, <2>2 DEF Typed
<1>3. Kept /\ Hosted
  BY <1>1, Sorts DEF Kept, Hosted, Api
<1>4. Worked /\ Going
  BY <1>1, Sorts DEF Worked, Going, Unasked
<1> QED
  BY <1>1, <1>2, <1>3, <1>4 DEF Inv, Cluster

-----------------------------------------------------------------------------
(* The theorems.                                                           *)

\* The inductive invariant holds in every state of every behaviour.
THEOREM Invariance == Spec => []Inv
<1> QED
  BY InitHolds, InvStep, PTL DEF Spec

\* Every variable keeps its type, and only members are told to go or have an
\* active LRM.
THEOREM TypeCorrect == Spec => []TypeOK
<1>1. Inv => TypeOK
  <2> SUFFICES ASSUME Inv PROVE TypeOK
    OBVIOUS
  <2>1. call.pc \in Pcs \cup {"idle"}
    BY CallIsIdle DEF Inv, Idle
  <2>2. call.pc # "idle" => call.todo \cup call.waiting \subseteq Guests \cup Nodes
    BY CallIsIdle DEF Inv, Calls
  <2> QED
    BY <2>1, <2>2 DEF Inv, Typed, TypeOK, Pcs
<1> QED
  BY <1>1, Invariance, PTL

\* A guest to be kept runs as long as the entry node is up: no stop request is
\* about it, and no node goes before it is on the entry node (Kept).
THEOREM KeptStayRunning == Spec => []KeptRunning
<1>1. Inv => KeptRunning
  BY DEF Inv, Cluster, Kept, KeptRunning
<1> QED
  BY <1>1, Invariance, PTL

\* No guest and no node has two workers unless a call could not list them: what
\* _active_tasks did not list had none then, and only this call adds any since
\* (Worked, Aimed).
THEOREM NothingSubmittedTwice == Spec => []NothingTwice
<1>1. Inv => NothingTwice
  BY DEF Inv, Typed, Cluster, Worked, NothingTwice
<1> QED
  BY <1>1, Invariance, PTL

\* Quorum can only be lost once a node has gone, and none goes while the LRM of
\* the entry node is active: the refusal of a call outlasts the call (Judged,
\* Going).
THEOREM EntryNeverFencesItself == Spec => []EntryNeverFences
<1>1. Inv => EntryNeverFences
  <2> SUFFICES ASSUME Inv, ~Quorate PROVE Entry \notin lrm
    BY DEF EntryNeverFences
  <2>1. Cardinality(Nodes) \in Nat /\ QVotes \in Nat
    BY BoundsAssumption, FS_CardinalityType
  <2>2. Cardinality(Nodes) # 0
    BY BoundsAssumption, EntryAssumption, FS_EmptySet
  <2>3. Cardinality(Nodes) + QVotes >= (Cardinality(Nodes) + QVotes) \div 2 + 1
    BY <2>1, <2>2
  <2>4. online # Nodes
    BY <2>3 DEF Quorate, Votes
  <2> QED
    BY <2>4 DEF Inv, Cluster, Going
<1> QED
  BY <1>1, Invariance, PTL

\* ready_for_nas is the answer of a choice alone, made on a snapshot of earlier
\* requests: what it says is still so when it is given (RunRight, NoneToStop).
THEOREM ReadySaysTrue == Spec => ReadyIsTrue
<1> DEFINE Says == answer' = "ready_for_nas" /\ call'.pc = "idle" /\ call.pc # "idle"
           True == online \subseteq {Entry} /\ (lenient \/ Plain \cap running = {})
<1>1. ASSUME Inv, [Next]_vars, Says
      PROVE  True
  <2> USE DEF Inv
  <2>1. call \in Calls /\ call' # call /\ Called(call)
    BY <1>1, CallIsIdle
  <2>2. CallStep
    <3>1. CASE UNCHANGED vars
      BY <2>1, <3>1 DEF vars
    <3>2. CASE \E include, cont \in BOOLEAN : Begin(include, cont)
      BY <1>1, <3>2 DEF Begin
    <3>3. CASE EnvStep
      BY <2>1, <3>3 DEF EnvStep, Progress, GuestStops, StopallEnds, PowersOff, LrmIdles,
                        GuestHangs, MoveKept, StopsByHand, Migrates
    <3> QED
      BY <1>1, <3>1, <3>2, <3>3 DEF Next
  <2>3. \/ ReadStatus \/ ReadResources \/ ReadHa \/ ListTasks \/ WaitEnds \/ PollFails
        => call'.pc # "idle"
    BY <2>1 DEF ReadStatus, ReadResources, ReadHa, ListTasks, WaitEnds, PollFails, Calls, Pcs
  <2>4. ~(ReadOptions \/ ReadFails \/ WaitTimesOut)
    BY <1>1, <2>1 DEF ReadOptions, ReadFails, WaitTimesOut, End, Calls
  <2>5. ASSUME NEW t \in Guests \cup Nodes, PostStop(t)
        PROVE  FALSE
    <3>1. call.stage = "stop_guests" /\ call.pc = "post" /\ t \in call.todo
          /\ \E submitted \in BOOLEAN : Done(t, submitted)
      BY <2>5 DEF PostStop
    <3> QED
      BY <1>1, <2>1, <3>1, DoneIs DEF Calls, Pcs
  <2>6. ASSUME NEW n \in Nodes, PostShutdown(n)
        PROVE  FALSE
    <3>1. call.pc = "post" /\ n \in call.todo /\ \E submitted \in BOOLEAN : Done(n, submitted)
      BY <2>6 DEF PostShutdown
    <3>2. call.stage = "shutdown_entry"
      BY <1>1, <2>1, <3>1, DoneIs
    <3> QED
      BY <1>1, <3>1, <3>2 DEF Done, End
  <2>7. Choose
    BY <1>1, <2>2, <2>3, <2>4, <2>5, <2>6 DEF CallStep
  <2>8. call.pc = "choose" /\ RunRight(call) /\ online \subseteq call.seen
    BY <2>1, <2>7 DEF Choose, Called, Snapped
  <2>9. NextStage(call).name = "ready_for_nas"
    <3> DEFINE s == NextStage(call)
    <3>1. \/ End(s.name)
          \/ answer' = "aborted"
          \/ call'.pc # "idle"
      BY <2>1, <2>7 DEF Choose, End, Calls
    <3> QED
      BY <1>1, <3>1 DEF End
  <2>10. Peers(call) = {} /\ StopAlls(call) \cup StopOnes(call) = {}
    BY <1>1, <2>1, <2>8, <2>9, StageIs
  <2>11. Cleared
    BY <1>1, <2>8, <2>10, NoneToStop
  <2> QED
    BY <2>8, <2>10, <2>11 DEF Peers, Cleared
<1>2. Inv /\ [Next]_vars => [Says => True]_vars
  BY <1>1
<1> QED
  BY <1>2, Invariance, PTL DEF Spec, ReadyIsTrue

\* A node that goes takes nothing from under the shutdown.
LEMMA GoingIsOrdered ==
  ASSUME Inv, NEW n \in Nodes, PowersOff(n)
  PROVE  Ordered!PeerGoes \/ Ordered!EntryGoes
<1>1. /\ n \in online /\ Cleared /\ (n = Entry => online = {Entry})
      /\ online' = online \ {n} /\ running' = running \ On(n)
      /\ UNCHANGED <<host, asked, lenient>>
  BY DEF PowersOff, Inv, Typed, Cluster, Going, hist
<1>2. On(n) = Ordered!On(n) /\ Ordered!MayGo(n)
  BY <1>1 DEF On, Ordered!On, Ordered!MayGo, Cleared, Unasked
<1>3. CASE n = Entry
  BY <1>1, <1>2, <1>3 DEF Ordered!EntryGoes
<1>4. CASE n # Entry
  BY <1>1, <1>2, <1>4 DEF Ordered!PeerGoes
<1> QED
  BY <1>3, <1>4

\* Every step of the tool and of the cluster is one of an ordered shutdown.
LEMMA StepIsOrdered ==
  ASSUME Inv, [Next]_vars
  PROVE  [Ordered!Next]_(Ordered!vars)
<1> USE DEF Inv
<1>1. CASE UNCHANGED vars
  BY <1>1 DEF vars, env, hist, Ordered!vars
<1>2. ASSUME NEW include \in BOOLEAN, NEW cont \in BOOLEAN, Begin(include, cont)
      PROVE  [Ordered!Next]_(Ordered!vars)
  <2>1. UNCHANGED <<online, host, running, asked>> /\ lenient' = (lenient \/ cont)
    BY <1>2 DEF Begin, env
  <2>2. lenient' = TRUE \/ lenient' = lenient
    BY <2>1 DEF Typed
  <2> QED
    BY <2>1, <2>2 DEF Ordered!Next, Ordered!Relax, Ordered!vars
<1>3. ASSUME CallStep
      PROVE  [Ordered!Next]_(Ordered!vars)
  <2>1. ASSUME NEW t \in Guests \cup Nodes, PostStop(t)
        PROVE  [Ordered!Next]_(Ordered!vars)
    <3>1. UNCHANGED <<online, host, running, lenient>> /\ asked' \in {asked, asked \cup Covered(t)}
      BY <2>1 DEF PostStop
    <3>2. Covered(t) \in SUBSET running
      BY DEF Covered, On
    <3> QED
      BY <3>1, <3>2 DEF Ordered!Next, Ordered!Ask, Ordered!vars
  <2>2. \/ ReadStatus \/ ReadResources \/ ReadHa \/ ReadOptions \/ ReadFails \/ Choose
        \/ WaitEnds \/ WaitTimesOut \/ PollFails
        => UNCHANGED <<env, hist>>
    BY DEF ReadStatus, ReadResources, ReadHa, ReadOptions, ReadFails, Choose, WaitEnds,
           WaitTimesOut, PollFails
  <2>3. ListTasks => UNCHANGED <<env, asked, lenient>>
    BY DEF ListTasks
  <2>4. (\E n \in Nodes : PostShutdown(n)) => UNCHANGED <<online, host, running, hist>>
    BY DEF PostShutdown
  <2> QED
    BY <1>3, <2>1, <2>2, <2>3, <2>4 DEF CallStep, env, hist, Ordered!vars
<1>4. ASSUME Progress
      PROVE  [Ordered!Next]_(Ordered!vars)
  <2>1. ASSUME NEW g \in Guests, GuestStops(g)
        PROVE  [Ordered!Next]_(Ordered!vars)
    <3>1. UNCHANGED <<online, host, asked, lenient>> /\ running' = running \ {g}
      BY <2>1 DEF GuestStops, hist
    <3>2. CASE g \in running
      BY <3>1, <3>2 DEF Ordered!Next, Ordered!Stop
    <3>3. CASE g \notin running
      BY <3>1, <3>3 DEF Ordered!vars
    <3> QED
      BY <3>2, <3>3
  <2>2. ASSUME NEW n \in Nodes, StopallEnds(n) \/ LrmIdles(n)
        PROVE  [Ordered!Next]_(Ordered!vars)
    BY <2>2 DEF StopallEnds, LrmIdles, hist, Ordered!vars
  <2> QED
    BY <1>4, <2>1, <2>2, GoingIsOrdered DEF Progress, Ordered!Next
<1>5. ASSUME NEW g \in Guests, GuestHangs(g) \/ MoveKept(g) \/ StopsByHand(g)
      PROVE  [Ordered!Next]_(Ordered!vars)
  <2>1. CASE GuestHangs(g)
    BY <2>1 DEF GuestHangs, hist, Ordered!vars
  <2>2. CASE MoveKept(g)
    BY <2>2 DEF MoveKept, hist, Ordered!Next, Ordered!Move
  <2>3. CASE StopsByHand(g)
    <3>1. /\ UNCHANGED <<online, host, lenient>> /\ g \in running /\ asked' = asked \cup {g}
          /\ running' = running \ {g} \/ running' = running
      BY <2>3 DEF StopsByHand
    <3>2. CASE running' = running \ {g}
      BY <3>1, <3>2 DEF Ordered!Next, Ordered!Stop
    <3>3. CASE running' = running
      <4>1. {g} \in SUBSET running
        BY <3>1
      <4> QED
        BY <3>1, <3>3, <4>1 DEF Ordered!Next, Ordered!Ask
    <3> QED
      BY <3>1, <3>2, <3>3
  <2> QED
    BY <1>5, <2>1, <2>2, <2>3
<1>6. ASSUME NEW g \in Guests, NEW n \in Nodes, Migrates(g, n)
      PROVE  [Ordered!Next]_(Ordered!vars)
  BY <1>6 DEF Migrates, Ordered!Next, Ordered!Move
<1> QED
  BY <1>1, <1>2, <1>3, <1>4, <1>5, <1>6 DEF Next, EnvStep

\* The calls, whatever fails in them or comes between them, are an ordered
\* shutdown.
THEOREM CallsAreOrdered == Spec => ImplementsOrdered
<1>1. Init => Ordered!Init
  BY DEF Init, Ordered!Init
<1> QED
  BY <1>1, StepIsOrdered, Invariance, PTL DEF Spec, ImplementsOrdered, Ordered!Spec
============================================================================
