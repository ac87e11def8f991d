--------------------------- MODULE FirewallPolicy ---------------------------
(***************************************************************************)
(* The two command-line tools of pfsense-mcp that change the firewall:     *)
(* pfsense-mcp-firewall, which plans the AUTH_CLIENTS rules of the         *)
(* Tailscale tab and carries the plan out request by request               *)
(* (firewall_policy.py, firewall_cli.py), and pfsense-mcp-bootstrap        *)
(* allow-all-interfaces, which opens the API they need (bootstrap_cli.py). *)
(* A request fails before or after it took effect, or the tool is          *)
(* interrupted; the operator runs it again.                                *)
(*                                                                         *)
(* An id is the place of a rule in the list, as pfREST has it: a delete    *)
(* moves those behind it up, and the ids of the plan are not read again.   *)
(*                                                                         *)
(* Left out: the IP protocol and the log flag of a rule, which nothing     *)
(* depends on, the smoke test after a change, and the limit of 200 rules.  *)
(***************************************************************************)
EXTENDS Integers, FiniteSets, FiniteSetsExt

CONSTANTS
  Templates,        \* rules the firewall may have
  MaxRules,
  Ports,            \* ports of the firewall and the LAN that clients connect to
  Host,             \* the way to PFSENSE_HOST: tailscale, or lan
  MaxRuns, MaxFaults

\* auth is a rule of the Tailscale tab that is enabled and for AUTH_CLIENTS;
\* pass one that does not block.
IsRule(rule) ==
  /\ rule = [auth |-> rule.auth, pass |-> rule.pass, dest |-> rule.dest, tcp |-> rule.tcp,
             descr |-> rule.descr, port |-> rule.port]
  /\ {rule.auth, rule.pass, rule.tcp} \subseteq BOOLEAN

ASSUME TemplatesAssumption == \A rule \in Templates : IsRule(rule)
ASSUME BoundsAssumption == {MaxRules, MaxRuns, MaxFaults} \subseteq Nat /\ "any" \notin Ports
ASSUME HostAssumption == Host \in {"tailscale", "lan"}

VARIABLES
  rules,      \* the rules that are saved, by their ids
  loaded,     \* the rules in force
  allowed,    \* allowed_interfaces of the API; none stands for all
  run,        \* the tool that is running
  start,      \* history: what is true of the list before the first run
  runs, faults

vars == <<rules, loaded, allowed, run, start, runs, faults>>

-----------------------------------------------------------------------------
(* Rules.                                                                  *)

Roles == {"self", "gateway", "lan"}
DestOf == [self |-> "(self)", gateway |-> "172.16.0.1", lan |-> "172.16.0.0/16"]

\* classify_tailscale_auth_rules, of one enabled AUTH_CLIENTS rule
Role(rule) ==
  CASE rule.dest = "(self)" -> "self"
    [] rule.dest \in {"172.16.0.1", "172.16.0.1/32"} -> "gateway"
    [] rule.dest \in {"172.16.0.0/16", "vtnet1", "lan"} -> "lan"
    [] OTHER -> "other"

\* Mutant of Group: whoever the rule is for.
GroupOfAll(rs, role) == {i \in DOMAIN rs : Role(rs[i]) = role}

\* The rules of a role; the one with the least id is the first.
Group(rs, role) == {i \in DOMAIN rs : rs[i].auth /\ Role(rs[i]) = role}
First(rs, role) == Min(Group(rs, role))
Rest(rs, role) == {i \in Group(rs, role) : \E j \in Group(rs, role) : j < i}

\* _self_rule_compliant, _gateway_rule_compliant, _lan_rule_compliant
RuleCompliant(rule, role) ==
  /\ rule.pass /\ rule.descr = role
  /\ CASE role = "self"    -> rule.tcp
       [] role = "gateway" -> rule.tcp /\ rule.dest = DestOf.gateway
       [] role = "lan"     -> rule.dest \in {DestOf.lan, "vtnet1"}

Body(role) == [auth |-> TRUE, pass |-> TRUE, dest |-> DestOf[role], tcp |-> role # "lan",
               descr |-> role, port |-> "any"]

Create(role) == [action |-> "create", kind |-> role, id |-> -1]
Patch(role, id) == [action |-> "patch", kind |-> role, id |-> id]
Delete(id) == [action |-> "delete", kind |-> "duplicate", id |-> id]

\* What the plan does about the first rule of a role.
Due(rs, role) ==
  IF Group(rs, role) = {} THEN {Create(role)}
  ELSE LET rule == rs[First(rs, role)]
       IN IF RuleCompliant(rule, role) /\ (role = "self" => rule.port \in {"any", "443"})
          THEN {} ELSE {Patch(role, First(rs, role))}

Duplicates(rs) == UNION {Rest(rs, role) : role \in Roles}

\* Mutants of Plan: what is superfluous is kept; the first rule of self is
\* turned into that of the gateway, and not the second one.
PlanKeeps(rs) == UNION {Due(rs, role) : role \in Roles}
PlanTurns(rs) ==
  LET spare == IF Group(rs, "gateway") = {} THEN Group(rs, "self") ELSE {}
  IN Due(rs, "self") \cup Due(rs, "lan")
     \cup (IF spare = {} THEN Due(rs, "gateway") ELSE {Patch("gateway", Min(spare))})

\* plan_tailscale_firewall_changes.  Without a rule of the gateway the second
\* one of self, spare_self_id, is turned into it.
Plan(rs) ==
  LET spare == IF Group(rs, "gateway") = {} THEN Rest(rs, "self") ELSE {}
      turned == IF spare = {} THEN {} ELSE {Min(spare)}
  IN Due(rs, "self") \cup Due(rs, "lan")
     \cup (IF turned = {} THEN Due(rs, "gateway") ELSE {Patch("gateway", id) : id \in turned})
     \cup {Delete(id) : id \in Duplicates(rs) \ turned}

\* The order of the changes: self, gateway, lan, and the sorted deletes.
Place(change) ==
  CASE change.action = "delete" -> 3 + change.id
    [] change.kind = "self"    -> 0
    [] change.kind = "gateway" -> 1
    [] OTHER                   -> 2

\* evaluate_tailscale_firewall_policy
Compliant(rs) ==
  /\ \A role \in Roles : /\ Group(rs, role) # {} /\ Rest(rs, role) = {}
                          /\ RuleCompliant(rs[First(rs, role)], role)
  /\ Group(rs, "other") = {}
  /\ Plan(rs) = {}

-----------------------------------------------------------------------------
(* pfREST.                                                                 *)

\* What a patch of the plan sets; that of a LAN rule leaves its protocol and port.
Patched(rule, role) ==
  CASE role = "self"    -> [rule EXCEPT !.descr = "self", !.tcp = TRUE, !.port = "any"]
    [] role = "gateway" -> [rule EXCEPT !.dest = DestOf.gateway, !.descr = "gateway",
                                        !.tcp = TRUE, !.port = "any"]
    [] role = "lan"     -> [rule EXCEPT !.dest = DestOf.lan, !.descr = "lan"]

NewId(rs) == 1 + Max({-1} \cup DOMAIN rs)

Added(rs, rule) == [i \in DOMAIN rs \cup {NewId(rs)} |-> IF i = NewId(rs) THEN rule ELSE rs[i]]

\* The rules behind it move up by one.
Removed(rs, id) ==
  [i \in {j \in DOMAIN rs : j + 1 \in DOMAIN rs} |-> IF i < id THEN rs[i] ELSE rs[i + 1]]

\* An id that is not taken is answered with 404.
Known(rs, change) == change.action = "create" \/ change.id \in DOMAIN rs

After(rs, change) ==
  CASE ~Known(rs, change)         -> rs
    [] change.action = "create" -> Added(rs, Body(change.kind))
    [] change.action = "patch"  -> [rs EXCEPT ![change.id] = Patched(@, change.kind)]
    [] change.action = "delete" -> Removed(rs, change.id)

\* Where AUTH_CLIENTS get by a rule: the gateway is an address of the firewall
\* itself, and one in the LAN.
Covers(rule) ==
  CASE Role(rule) = "self"    -> {"self", "gateway"}
    [] Role(rule) = "gateway" -> {"gateway"}
    [] Role(rule) = "lan"     -> {"gateway", "lan"}
    [] OTHER -> IF rule.dest = "any" THEN Roles ELSE {}

\* The TCP connections that the rules let pass: the first that matches decides.
Ways == Roles \X Ports
Matching(rs, way) ==
  {i \in DOMAIN rs : rs[i].auth /\ way[1] \in Covers(rs[i]) /\ rs[i].port \in {"any", way[2]}}
Permitted(rs) == {way \in Ways : Matching(rs, way) # {} /\ rs[Min(Matching(rs, way))].pass}

\* The API answers on the interfaces it is allowed on.
Reached(path) == allowed = {} \/ path \in allowed

-----------------------------------------------------------------------------
Idle == [pc |-> "idle", result |-> "none"]
Finished(result) == [pc |-> "idle", result |-> result]

\* The plan deletes one rule at most.
OneDelete(rs) == \A c, d \in Plan(rs) : c.action = "delete" /\ d.action = "delete" => c = d

\* The rules that the plan keeps let pass, and are for every port, or will be.
Kept(rs) == {i \in UNION {Group(rs, role) : role \in Roles} : Delete(i) \notin Plan(rs)}
Open(rs) ==
  \A i \in Kept(rs) :
    rs[i].pass /\ (rs[i].port = "any" \/ \E role \in {"self", "gateway"} : Patch(role, i) \in Plan(rs))

Init ==
  /\ \E n \in 0..MaxRules : rules \in [0..n-1 -> Templates]
  /\ loaded = rules
  /\ start = [single |-> OneDelete(rules), open |-> Open(rules)]
  /\ allowed \in {{}, {"lan"}}
  /\ run = Idle /\ runs = 0 /\ faults = 0

Begin ==
  /\ run.pc = "idle" /\ runs < MaxRuns /\ runs' = runs + 1
  /\ \/ run' = [pc |-> "fetch"]
     \/ run' = [pc |-> "settings", path |-> Host]
  /\ UNCHANGED <<rules, loaded, allowed, start, faults>>

\* A request that fails, before it has taken effect or after, and a tool that
\* is interrupted, end it with what it has done so far.
Fails == faults < MaxFaults /\ faults' = faults + 1 /\ run' = Finished("error")

\* apply_tailscale_firewall_rules: the rules are read and the plan is made.
Fetch ==
  /\ run.pc = "fetch"
  /\ \/ /\ Reached(Host)
        /\ run' = [pc |-> "change", todo |-> Plan(rules), applied |-> FALSE,
                   found |-> Cardinality(Duplicates(rules))]
        /\ UNCHANGED faults
     \/ /\ ~Reached(Host) /\ run' = Finished("error") /\ UNCHANGED faults
     \/ Fails
  /\ UNCHANGED <<rules, loaded, allowed, start, runs>>

\* _patch_rule, _delete_rule, _create_rule, in the order of the plan
Change ==
  /\ run.pc = "change"
  /\ \E change \in run.todo :
       /\ \A other \in run.todo : Place(change) <= Place(other)
       /\ \/ /\ rules' = After(rules, change)
             /\ \/ /\ run' = IF Known(rules, change)
                             THEN [run EXCEPT !.todo = @ \ {change}, !.applied = TRUE]
                             ELSE Finished("error")
                   /\ UNCHANGED faults
                \/ Fails
          \/ rules' = rules /\ Fails
  /\ UNCHANGED <<loaded, allowed, start, runs>>

Verifying == [pc |-> "verify", found |-> run.found]

\* _apply_firewall, which a run without changes skips
Apply ==
  /\ run.pc = "change" /\ run.todo = {}
  /\ IF ~run.applied THEN loaded' = loaded /\ run' = Verifying /\ UNCHANGED faults
     ELSE \/ loaded' = rules /\ run' = Verifying /\ UNCHANGED faults
          \/ loaded' \in {loaded, rules} /\ Fails
  /\ UNCHANGED <<rules, allowed, start, runs>>

\* The rules are read again; main exits with 0 when they are compliant.
Verify ==
  /\ run.pc = "verify"
  /\ \/ run' = Finished(IF Compliant(rules) THEN "compliant" ELSE "drift") /\ UNCHANGED faults
     \/ Fails
  /\ UNCHANGED <<rules, loaded, allowed, start, runs>>

\* _run_action: the host, and then the LAN address when that has failed.
TryNext == IF run.path = "tailscale" THEN run' = [pc |-> "settings", path |-> "lan"]
           ELSE run' = Finished("error")

Failing == faults < MaxFaults /\ faults' = faults + 1 /\ TryNext

\* allow_all_interfaces reads the settings, ...
ReadSettings ==
  /\ run.pc = "settings"
  /\ \/ Reached(run.path) /\ run' = [run EXCEPT !.pc = "open"] /\ UNCHANGED faults
     \/ ~Reached(run.path) /\ TryNext /\ UNCHANGED faults
     \/ Failing
  /\ UNCHANGED <<rules, loaded, allowed, start, runs>>

\* ... and clears allowed_interfaces.
OpenApi ==
  /\ run.pc = "open"
  /\ \/ allowed' = {} /\ run' = Finished("opened") /\ UNCHANGED faults
     \/ allowed' \in {allowed, {}} /\ Failing
  /\ UNCHANGED <<rules, loaded, start, runs>>

Next == Begin \/ Fetch \/ Change \/ Apply \/ Verify \/ ReadSettings \/ OpenApi

Spec == Init /\ [][Next]_vars

-----------------------------------------------------------------------------
(* Properties.                                                             *)

Blocks(rs) == {role \in Roles : Group(rs, role) # {} /\ ~rs[First(rs, role)].pass}

\* A run that ends without an error leaves nothing to do, if the list was one
\* to delete a rule of at most, and however many runs before it broke off: it
\* says compliant when that is so, and drift for what no plan mends, a first
\* rule that blocks and rules with a destination of their own.  What is saved is
\* then in force, unless a run before it broke off.
RunsConverge ==
  start.single /\ run.pc = "idle" /\ run.result \in {"compliant", "drift"}
    => /\ IF run.result = "compliant" THEN Compliant(rules)
          ELSE Blocks(rules) # {} \/ Group(rules, "other") # {}
       /\ loaded = rules \/ faults > 0

\* With more to delete the ids of the second and later ones name other rules
\* by then, or none (404).  A run still leaves fewer duplicates than it found,
\* so that running the tool again gets there.
RunsAdvance ==
  [][run.pc \in {"change", "verify"} /\ run'.pc = "idle" /\ faults' = faults
       => Cardinality(Duplicates(rules')) <= Max({0, run.found - 1})]_vars

\* No step takes away a connection that got through, neither by the rules that
\* are saved nor by those in force, so that a run that breaks off in the middle
\* locks nobody out, and no apply brings it about later: if there was one rule
\* to delete at most, and the rules that are kept let pass, on every port.
NobodyLockedOut ==
  [][start.single /\ start.open
       => Permitted(rules) \subseteq Permitted(rules') /\ Permitted(loaded) \subseteq Permitted(loaded')]_vars

\* The rules that are not AUTH_CLIENTS rules of the Tailscale tab stay as they
\* are and in their order, when one rule is to be deleted at most.
OthersOf(rs) == {i \in DOMAIN rs : ~rs[i].auth}
SameOthers(rs, rt) ==
  \E from \in [OthersOf(rt) -> OthersOf(rs)] :
    /\ \A i \in OthersOf(rt) : rt[i] = rs[from[i]]
    /\ \A i, j \in OthersOf(rt) : i < j => from[i] < from[j]
    /\ \A k \in OthersOf(rs) : \E i \in OthersOf(rt) : from[i] = k
OthersUntouched == [][start.single => SameOthers(rules, rules')]_vars

\* Once the API has been opened it stays so, and the firewall tool reaches it.
OpenedIsReached == run.pc = "idle" /\ run.result = "opened" => Reached(Host)

=============================================================================
