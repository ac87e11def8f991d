------------------------- MODULE MCFirewallPolicy -------------------------
(* Up to four rules out of eleven: compliant ones, older and narrower forms *)
(* of them, rules that block, and rules of somebody else.                   *)
EXTENDS FirewallPolicy

Rule(dest, descr, tcp, port) ==
  [auth |-> TRUE, pass |-> TRUE, dest |-> dest, descr |-> descr, tcp |-> tcp, port |-> port]
Blocking(rule) == [rule EXCEPT !.pass = FALSE]

MCTemplates ==
  { Rule("(self)", "self", TRUE, "any"),            Rule("(self)", "self", TRUE, "443"),
    Rule("(self)", "none", FALSE, "80"),            Blocking(Rule("(self)", "self", TRUE, "80")),
    Rule("172.16.0.1", "gateway", TRUE, "any"),     Rule("172.16.0.1/32", "gateway", FALSE, "80"),
    Rule("172.16.0.0/16", "lan", FALSE, "any"),     Rule("lan", "none", FALSE, "any"),
    Rule("172.16.0.0/16", "lan", FALSE, "443"),     Blocking(Rule("any", "none", TRUE, "80")),
    [Rule("(self)", "none", FALSE, "any") EXCEPT !.auth = FALSE] }

\* What does not hold: a run deletes no rule of somebody else, whatever the
\* list (FirewallPolicy_ids.cfg); it locks nobody out, if it has one rule to
\* delete at most (FirewallPolicy_narrow.cfg).
NothingElseDeleted == [][SameOthers(rules, rules')]_vars
NeverLockedOut     == [][start.single => Permitted(rules) \subseteq Permitted(rules')]_vars
=============================================================================
