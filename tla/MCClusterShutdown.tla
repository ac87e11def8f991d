------------------------- MODULE MCClusterShutdown -------------------------
(***************************************************************************)
(* The entry node and two peers.  Guests: the router (kept), a plain guest *)
(* on the entry node, one on each peer, and an HA guest beside one of them. *)
(***************************************************************************)
EXTENDS ClusterShutdown, TLC

CONSTANTS e, p, q, router, own, mixed, alone, ha

\* As it should be; the router on a peer; the HA guest on the entry node.
MCUsual == (router :> e) @@ (own :> e) @@ (mixed :> p) @@ (alone :> q) @@ (ha :> p)
MCPlaces == {MCUsual, [MCUsual EXCEPT ![router] = q], [MCUsual EXCEPT ![ha] = e]}
=============================================================================
