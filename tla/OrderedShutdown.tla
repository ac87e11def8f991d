-------------------------- MODULE OrderedShutdown --------------------------
(***************************************************************************)
(* What an ordered shutdown of the lab promises, whoever carries it out:   *)
(* a guest is asked to stop before its node goes, the entry node goes when *)
(* no peer is left, and only a lenient shutdown may take a node from under *)
(* a guest that was asked and did not stop.  (Header of cluster_power.py,  *)
(* docs/MCP_POWER_PLAN.md steps 3 to 7.)                                   *)
(***************************************************************************)
CONSTANTS Nodes, Entry,
          Plain     \* the guests the shutdown has to stop by itself

VARIABLES up,       \* the nodes that are members of the cluster
          host,     \* the node of each guest
          running,  \* the guests that run
          asked,    \* the guests that have been asked to stop
          lenient   \* guests may be left to the shutdown of their node

vars == <<up, host, running, asked, lenient>>

On(n) == {g \in running : host[g] = n}

\* Nothing the shutdown is responsible for is lost with node n.
MayGo(n) == \A g \in On(n) \cap Plain : lenient /\ g \in asked

Init == asked = {} /\ lenient = FALSE

Ask == \E S \in SUBSET running :
         asked' = asked \cup S /\ UNCHANGED <<up, host, running, lenient>>

Relax == lenient' = TRUE /\ UNCHANGED <<up, host, running, asked>>

Stop == /\ \E g \in running : running' = running \ {g} /\ asked' \in {asked, asked \cup {g}}
        /\ UNCHANGED <<up, host, lenient>>

\* Whoever moves a guest meanwhile answers for it, as if it had been asked.
Move == /\ \E g \in running, n \in up : /\ host' = [host EXCEPT ![g] = n]
                                        /\ asked' \in {asked, asked \cup {g}}
        /\ UNCHANGED <<up, running, lenient>>

PeerGoes == \E n \in up \ {Entry} :
              /\ MayGo(n)
              /\ up' = up \ {n}
              /\ running' = running \ On(n)
              /\ UNCHANGED <<host, asked, lenient>>

EntryGoes == /\ up = {Entry} /\ MayGo(Entry)
             /\ up' = {}
             /\ running' = running \ On(Entry)
             /\ UNCHANGED <<host, asked, lenient>>

Next == Ask \/ Relax \/ Stop \/ Move \/ PeerGoes \/ EntryGoes
Spec == Init /\ [][Next]_vars
=============================================================================
