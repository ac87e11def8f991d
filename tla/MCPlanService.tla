---------------------------- MODULE MCPlanService ------------------------------
(***************************************************************************)
(* Two plans with a grant each, and one or two tool calls at a time.       *)
(* Nothing is chosen by the identity of a call or of a plan, so calls may  *)
(* be exchanged, and the plans together with their grants.                 *)
(***************************************************************************)
EXTENDS PlanService, TLC

CONSTANTS c1, c2, p1, p2, g1, g2

MCPlanOf == (g1 :> p1) @@ (g2 :> p2)

Exchange == (p1 :> p2) @@ (p2 :> p1) @@ (g1 :> g2) @@ (g2 :> g1)
MCSymmetry == Permutations(Calls) \cup {Exchange}
===============================================================================
