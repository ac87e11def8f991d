---------------------------- MODULE MCRouterAgent ------------------------------
(***************************************************************************)
(* A router with two firewall sections, one for the plans and one of the   *)
(* administrator's, a plan that adds a rule and a plan that deletes it.    *)
(***************************************************************************)
EXTENDS RouterAgent, TLC

CONSTANTS add, del, g1, g2, ours, theirs, rule, other

MCPlanOf == (g1 :> add) @@ (g2 :> del)
MCOperations == (add :> (ours :> rule)) @@ (del :> (ours :> Absent))

\* Two plans of which either can be applied without the other.
MCApart == (add :> (ours :> rule)) @@ (del :> (theirs :> rule))
===============================================================================
