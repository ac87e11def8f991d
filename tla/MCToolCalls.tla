---------------------------- MODULE MCToolCalls -----------------------------
\* A call of any tool, and one that shares the places of the client.
EXTENDS ToolCalls

MCCalls == {"c1", "c2"}
MCOffered == [c \in MCCalls |-> IF c = "c1" THEN AllTools ELSE {"pve_list_nodes"}]
MCKinds == {"timeout", "refused", "404", "errors"}
=============================================================================
