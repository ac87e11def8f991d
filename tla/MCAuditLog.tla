----------------------------- MODULE MCAuditLog ------------------------------
(* The instance of AuditLog that TLC checks.                               *)
EXTENDS AuditLog, TLC

CONSTANTS server, other, approve, plan, apply, grant

MCServers == {server, other}
MCCommands == {approve}
MCEvents == {plan, apply}
MCApprovals == {grant}
OneServer == {server}

Alike == Permutations(MCServers) \cup Permutations(MCEvents)
=============================================================================
