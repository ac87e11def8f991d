------------------------ MODULE FirewallPolicyProofs ------------------------
(***************************************************************************)
(* What the plan of the Tailscale rules does, for every list of rules of   *)
(* which one is to be deleted at most, any number of runs and of failures. *)
(*                                                                         *)
(* A run carries out, one request after the other, a plan it made for the  *)
(* rules as they were before the first.  The lemma about one change says   *)
(* that the plan for the rules after it is the rest of that plan, apart    *)
(* from what no plan mends, so that the run goes on as if it had read the  *)
(* rules again.  All the rest follows from it.  The delete comes last: the *)
(* ids that it moves are not used any more.                                *)
(***************************************************************************)
EXTENDS FirewallPolicy, FiniteSetTheorems, WellFoundedInduction, TLAPS

\* Rules by their ids, which are the places in a list.
Table(rs) ==
  /\ rs = [i \in DOMAIN rs |-> rs[i]]
  /\ \A i \in DOMAIN rs : IsRule(rs[i])
  /\ \E n \in Nat : DOMAIN rs = 0..(n-1)

\* The patches that leave a rule as it is, in the eyes of the next plan.
Stuck(rs) == {Patch(role, First(rs, role)) : role \in Blocks(rs)}

Changes == [action : {"create", "patch", "delete"}, kind : Roles \cup {"duplicate"}, id : Int]

Running ==
  [pc : {"idle"}, result : {"none", "error", "compliant", "drift", "opened"}]
  \cup [pc : {"fetch"}] \cup [pc : {"verify"}, found : Nat]
  \cup [pc : {"settings", "open"}, path : {"tailscale", "lan"}]
  \cup [pc : {"change"}, todo : SUBSET Changes, applied : BOOLEAN, found : Nat]

Typed ==
  /\ Table(rules) /\ run \in Running /\ faults \in Nat

\* What a run has still to do is the plan for the rules as they are now.
Left(todo) == todo \subseteq Plan(rules) /\ Plan(rules) \ todo \subseteq Stuck(rules)
Remaining ==
  /\ run.pc = "change" => Left(run.todo)
  /\ run.pc = "verify" => Left({})

\* What is saved is in force, but for a run that is at it or has broken off,
\* and lets no less through.
InForce ==
  /\ loaded = rules \/ faults > 0 \/ (run.pc = "change" /\ run.applied)
  /\ start.open => Open(rules) /\ Permitted(loaded) \subseteq Permitted(rules)

Inv == start.single => Typed /\ OneDelete(rules) /\ Remaining /\ InForce /\ RunsConverge

-----------------------------------------------------------------------------
(* Least and greatest numbers.                                             *)

LEMMA LeastExists ==
  ASSUME NEW S \in SUBSET Nat, S # {}
  PROVE  \E m \in S : \A i \in S : m <= i
<1> DEFINE R == OpToRel(<, Nat)
<1>1. IsWellFoundedOn(R, Nat)
  BY NatLessThanWellFounded
<1>2. PICK m \in S : \A i \in S : ~(<<i, m>> \in R)
  BY <1>1, WFMin
<1>3. \A i \in S : ~(i < m)
  BY <1>2 DEF OpToRel
<1> QED
  BY <1>3

LEMMA MinIsLeast ==
  ASSUME NEW S \in SUBSET Nat, S # {}
  PROVE  Min(S) \in S /\ \A i \in S : Min(S) <= i
<1>1. \E m \in S : \A i \in S : m <= i
  BY LeastExists
<1> QED
  BY <1>1 DEF Min

\* A set that loses others than its least number keeps that one.
LEMMA MinStays ==
  ASSUME NEW S \in SUBSET Nat, S # {}, NEW T, T \subseteq S, Min(S) \in T
  PROVE  Min(T) = Min(S)
<1>1. Min(S) \in S /\ \A i \in S : Min(S) <= i
  BY MinIsLeast
<1>2. T \in SUBSET Nat /\ T # {}
  OBVIOUS
<1>3. Min(T) \in T /\ \A i \in T : Min(T) <= i
  BY <1>2, MinIsLeast
<1>4. Min(T) \in Nat /\ Min(S) \in Nat /\ Min(T) <= Min(S) /\ Min(S) <= Min(T)
  BY <1>1, <1>2, <1>3
<1> QED
  BY <1>4

\* If numbers are named anew in their order, the least one stays the least.
LEMMA MinMoves ==
  ASSUME NEW S \in SUBSET Nat, S # {}, NEW T \in SUBSET Nat, NEW e,
         \A i \in T : e[i] \in S,
         \A i, j \in T : i < j => e[i] < e[j],
         NEW t \in T, e[t] = Min(S)
  PROVE  e[Min(T)] = Min(S) /\ Min(T) \in T
<1>1. Min(T) \in T /\ Min(T) <= t /\ Min(T) \in Nat /\ t \in Nat
  BY MinIsLeast
<1>2. \A i \in S : Min(S) <= i
  BY MinIsLeast
<1>3. ~(Min(T) < t)
  <2> SUFFICES ASSUME Min(T) < t PROVE FALSE
    OBVIOUS
  <2>1. e[Min(T)] < e[t] /\ e[Min(T)] \in S /\ e[t] \in S /\ e[Min(T)] \in Nat /\ e[t] \in Nat
    BY <1>1
  <2>2. e[t] <= e[Min(T)]
    BY <1>2, <2>1
  <2> QED
    BY <2>1, <2>2
<1> QED
  BY <1>1, <1>3

\* A new rule goes to the end of the list.
LEMMA NewIdIsNew ==
  ASSUME NEW rs, Table(rs)
  PROVE  NewId(rs) \in Nat /\ DOMAIN rs = 0..(NewId(rs) - 1)
<1>1. PICK n \in Nat : DOMAIN rs = 0..(n-1)
  BY DEF Table
<1> DEFINE S == {-1} \cup DOMAIN rs
<1>2. n - 1 \in S /\ \A y \in S : y \in Int /\ n - 1 >= y
  BY <1>1
<1>3. Max(S) \in S /\ \A y \in S : Max(S) >= y
  BY <1>2 DEF Max
<1>4. Max(S) = n - 1
  <2> HIDE DEF S
  <2> QED
    BY <1>2, <1>3
<1>5. NewId(rs) = 1 + Max(S)
  BY DEF NewId
<1> QED
  BY <1>1, <1>4, <1>5

-----------------------------------------------------------------------------
(* The rules of a role.                                                    *)

LEMMA RoleOf ==
  ASSUME NEW rule
  PROVE  Role(rule) \in Roles \cup {"other"}
BY DEF Role, Roles

LEMMA FirstOf ==
  ASSUME NEW rs, Table(rs), NEW role
  PROVE  /\ Group(rs, role) \subseteq DOMAIN rs /\ DOMAIN rs \subseteq Nat
         /\ Group(rs, role) # {} =>
              /\ First(rs, role) \in Group(rs, role)
              /\ \A i \in Group(rs, role) : First(rs, role) <= i
              /\ Rest(rs, role) = Group(rs, role) \ {First(rs, role)}
         /\ Group(rs, role) = {} => Rest(rs, role) = {}
<1>1. Group(rs, role) \subseteq DOMAIN rs /\ DOMAIN rs \subseteq Nat
  BY DEF Group, Table
<1>2. ASSUME Group(rs, role) # {}
      PROVE  /\ First(rs, role) \in Group(rs, role)
             /\ \A i \in Group(rs, role) : First(rs, role) <= i
  BY <1>1, <1>2, MinIsLeast DEF First
<1>3. ASSUME Group(rs, role) # {}
      PROVE  Rest(rs, role) = Group(rs, role) \ {First(rs, role)}
  <2> DEFINE G == Group(rs, role)
             m == First(rs, role)
  <2>1. G \subseteq Nat /\ m \in G /\ \A i \in G : m <= i
    BY <1>1, <1>2, <1>3
  <2>2. Rest(rs, role) = {i \in G : \E j \in G : j < i}
    BY DEF Rest
  <2> HIDE DEF G, m
  <2>3. ASSUME NEW i \in G
        PROVE  (\E j \in G : j < i) <=> i # m
    <3>1. i \in Nat /\ m \in Nat /\ m <= i /\ \A j \in G : j \in Nat /\ m <= j
      BY <2>1
    <3>2. i # m => m < i
      BY <3>1
    <3> QED
      BY <2>1, <3>1, <3>2
  <2> QED
    BY <2>2, <2>3 DEF G, m
<1>4. Group(rs, role) = {} => Rest(rs, role) = {}
  BY DEF Rest
<1> QED
  BY <1>1, <1>2, <1>3, <1>4

\* A rule has one role.
LEMMA GroupsApart ==
  ASSUME NEW rs, NEW r, NEW q, r # q
  PROVE  Group(rs, r) \cap Group(rs, q) = {}
BY DEF Group

\* The groups and first rules, and what these let pass, decide what is
\* permitted and what is stuck.
Keeps(rs, rt, role) ==
  Group(rs, role) # {} => /\ Group(rt, role) # {} /\ First(rt, role) = First(rs, role)
                          /\ rt[First(rt, role)].pass = rs[First(rs, role)].pass

LEMMA KeptStuck ==
  ASSUME NEW rs, NEW rt, \A role \in Roles : Keeps(rs, rt, role)
  PROVE  Stuck(rs) \subseteq Stuck(rt)
<1>1. Blocks(rs) \subseteq Blocks(rt)
  BY DEF Keeps, Blocks
<1>2. \A role \in Blocks(rs) : Patch(role, First(rs, role)) = Patch(role, First(rt, role))
  BY DEF Keeps, Blocks
<1> QED
  BY <1>1, <1>2 DEF Stuck

LEMMA OthersSame ==
  ASSUME NEW rs, NEW rt, DOMAIN rs \subseteq Nat,
         \A i \in DOMAIN rs : ~rs[i].auth => i \in DOMAIN rt /\ rt[i] = rs[i],
         \A i \in DOMAIN rt : ~rt[i].auth => i \in DOMAIN rs /\ rt[i] = rs[i]
  PROVE  SameOthers(rs, rt)
<1>1. OthersOf(rt) = OthersOf(rs) /\ \A i \in OthersOf(rt) : rt[i] = rs[i]
  BY DEF OthersOf
<1> DEFINE from == [i \in OthersOf(rt) |-> i]
<1>2. from \in [OthersOf(rt) -> OthersOf(rs)] /\ \A i \in OthersOf(rt) : from[i] = i
  BY <1>1
<1> HIDE DEF from
<1> QED
  BY <1>1, <1>2 DEF SameOthers

-----------------------------------------------------------------------------
(* What gets through.                                                      *)

\* Rules of one role are about the same places.
LEMMA CoversSame ==
  ASSUME NEW a, NEW b, Role(a) = Role(b), Role(a) \in Roles
  PROVE  Covers(a) = Covers(b)
BY DEF Covers, Roles

LEMMA MatchingIs ==
  ASSUME NEW rs, Table(rs), NEW way
  PROVE  Matching(rs, way) \in SUBSET Nat /\ Matching(rs, way) \subseteq DOMAIN rs
BY DEF Matching, Table

\* A connection gets through when a rule lets it, and every one before that
\* matches it does too.
LEMMA WaysKept ==
  ASSUME NEW rs, NEW rt, Table(rs), Table(rt),
         \A way \in Ways : \A m \in Matching(rs, way) :
           rs[m].pass /\ (\A i \in Matching(rs, way) : m <= i)
             => \E t \in Matching(rt, way) :
                  rt[t].pass /\ \A u \in Matching(rt, way) : u < t => rt[u].pass
  PROVE  Permitted(rs) \subseteq Permitted(rt)
<1> SUFFICES ASSUME NEW way \in Permitted(rs) PROVE way \in Permitted(rt)
  OBVIOUS
<1> DEFINE m == Min(Matching(rs, way))
           u == Min(Matching(rt, way))
<1>1. way \in Ways /\ Matching(rs, way) # {} /\ rs[m].pass
  BY DEF Permitted
<1>2. m \in Matching(rs, way) /\ \A i \in Matching(rs, way) : m <= i
  BY <1>1, MatchingIs, MinIsLeast
<1> HIDE DEF m
<1>3. PICK t \in Matching(rt, way) :
        rt[t].pass /\ \A i \in Matching(rt, way) : i < t => rt[i].pass
  BY <1>1, <1>2
<1>4. u \in Matching(rt, way) /\ u <= t
  BY <1>3, MatchingIs, MinIsLeast
<1>5. u \in Nat /\ t \in Nat
  BY <1>3, <1>4, MatchingIs
<1> HIDE DEF u
<1>6. rt[u].pass
  BY <1>3, <1>4, <1>5
<1> QED
  BY <1>1, <1>3, <1>6 DEF Permitted, u

-----------------------------------------------------------------------------
(* The plan in its parts.                                                  *)

Turned(rs) == IF Group(rs, "gateway") = {} /\ Rest(rs, "self") # {}
              THEN {Min(Rest(rs, "self"))} ELSE {}
GatewayDue(rs) == IF Turned(rs) = {} THEN Due(rs, "gateway")
                  ELSE {Patch("gateway", id) : id \in Turned(rs)}
Deletes(rs) == {Delete(id) : id \in Duplicates(rs) \ Turned(rs)}

LEMMA PlanParts ==
  ASSUME NEW rs
  PROVE  /\ Plan(rs) = Due(rs, "self") \cup Due(rs, "lan") \cup GatewayDue(rs) \cup Deletes(rs)
         /\ Duplicates(rs) = Rest(rs, "self") \cup Rest(rs, "gateway") \cup Rest(rs, "lan")
<1>1. Duplicates(rs) = Rest(rs, "self") \cup Rest(rs, "gateway") \cup Rest(rs, "lan")
  BY DEF Duplicates, Roles
<1> DEFINE spare == IF Group(rs, "gateway") = {} THEN Rest(rs, "self") ELSE {}
           turned == IF spare = {} THEN {} ELSE {Min(spare)}
<1>2. turned = Turned(rs)
  BY DEF Turned
<1> HIDE DEF turned
<1>3. Plan(rs) = Due(rs, "self") \cup Due(rs, "lan")
         \cup (IF turned = {} THEN Due(rs, "gateway") ELSE {Patch("gateway", id) : id \in turned})
         \cup {Delete(id) : id \in Duplicates(rs) \ turned}
  BY DEF Plan, turned
<1> QED
  BY <1>1, <1>2, <1>3 DEF GatewayDue, Deletes

LEMMA DueIs ==
  ASSUME NEW rs, NEW role, NEW c \in Due(rs, role)
  PROVE  \/ Group(rs, role) = {} /\ c = Create(role)
         \/ Group(rs, role) # {} /\ c = Patch(role, First(rs, role))
BY DEF Due

\* What is due about a role depends on its first rule alone.
LEMMA DueSame ==
  ASSUME NEW rs, NEW rt, NEW role, Group(rt, role) = {} <=> Group(rs, role) = {},
         Group(rs, role) # {} => /\ First(rt, role) = First(rs, role)
                                 /\ rt[First(rs, role)] = rs[First(rs, role)]
  PROVE  Due(rt, role) = Due(rs, role)
BY DEF Due

\* A rule that is as the plan wants it has nothing due.
Fine(rule, role) ==
  RuleCompliant(rule, role) /\ (role = "self" => rule.port \in {"any", "443"})

LEMMA FineIsDone ==
  ASSUME NEW rs, NEW role, Group(rs, role) # {}, Fine(rs[First(rs, role)], role)
  PROVE  Due(rs, role) = {}
BY DEF Due, Fine

\* What the plan keeps are the rules of the roles, without the duplicates it
\* does not turn; nothing is stuck that is open.
LEMMA KeptIs ==
  ASSUME NEW rs, Table(rs)
  PROVE  /\ Kept(rs) = (UNION {Group(rs, role) : role \in Roles}) \ (Duplicates(rs) \ Turned(rs))
         /\ \A role \in Roles : Group(rs, role) # {} => First(rs, role) \in Kept(rs)
         /\ Open(rs) => Blocks(rs) = {} /\ Stuck(rs) = {}
<1>1. \A i : Delete(i) \in Plan(rs) <=> i \in Duplicates(rs) \ Turned(rs)
  <2> TAKE i
  <2>1. \A r : Delete(i) \notin Due(rs, r)
    BY DueIs DEF Create, Patch, Delete
  <2>2. Delete(i) \notin GatewayDue(rs)
    BY <2>1 DEF GatewayDue, Patch, Delete
  <2>3. Delete(i) \in Deletes(rs) <=> i \in Duplicates(rs) \ Turned(rs)
    <3>1. \A k : Delete(i) = Delete(k) <=> i = k
      BY DEF Delete
    <3> QED
      BY <3>1 DEF Deletes
  <2> QED
    BY <2>1, <2>2, <2>3, PlanParts
<1>2. Kept(rs) = (UNION {Group(rs, role) : role \in Roles}) \ (Duplicates(rs) \ Turned(rs))
  BY <1>1 DEF Kept
<1>3. ASSUME NEW role \in Roles, Group(rs, role) # {}
      PROVE  First(rs, role) \in Kept(rs)
  <2>1. First(rs, role) \in Group(rs, role) /\ First(rs, role) \notin Rest(rs, role)
    BY <1>3, FirstOf
  <2>2. \A r \in Roles \ {role} : First(rs, role) \notin Rest(rs, r)
    BY <2>1, GroupsApart DEF Rest
  <2>3. First(rs, role) \notin Duplicates(rs)
    BY <2>1, <2>2 DEF Duplicates
  <2> QED
    BY <1>2, <2>1, <2>3
<1>4. Open(rs) => Blocks(rs) = {}
  BY <1>3 DEF Open, Blocks
<1> QED
  BY <1>2, <1>3, <1>4 DEF Stuck

-----------------------------------------------------------------------------
(* One change of a plan.                                                   *)

\* What one change does, by the plan and the properties, of which rs is the
\* table before and rt the one after it.
Follows(rs, rt, c) ==
  /\ Table(rt)
  /\ Plan(rs) \ {c} \subseteq Plan(rt) /\ Plan(rt) \subseteq Plan(rs)
  /\ c \in Plan(rt) => c \in Stuck(rt)
  /\ Stuck(rs) \subseteq Stuck(rt)
  /\ Open(rs) => Open(rt) /\ Permitted(rs) \subseteq Permitted(rt)
  /\ SameOthers(rs, rt)

\* The same with what is left to do; the delete, which moves ids, has this only.
Advances(rs, rt, todo) ==
  /\ Table(rt) /\ OneDelete(rt)
  /\ todo \subseteq Plan(rt) /\ Plan(rt) \ todo \subseteq Stuck(rt)
  /\ Open(rs) => Open(rt) /\ Permitted(rs) \subseteq Permitted(rt)
  /\ SameOthers(rs, rt)

LEMMA FollowsAdvances ==
  ASSUME NEW rs, NEW rt, NEW c, Follows(rs, rt, c), OneDelete(rs),
         NEW todo, todo \subseteq Plan(rs), Plan(rs) \ todo \subseteq Stuck(rs)
  PROVE  Advances(rs, rt, todo \ {c})
<1>1. OneDelete(rt)
  BY DEF Follows, OneDelete
<1>2. todo \ {c} \subseteq Plan(rt) /\ Plan(rt) \ (todo \ {c}) \subseteq Stuck(rt)
  BY DEF Follows
<1> QED
  BY <1>1, <1>2 DEF Follows, Advances

\* A rule that is patched to be wider lets through what got through before, also
\* where it is not for it any more and a rule before it is.
LEMMA WaysWider ==
  ASSUME NEW rs, NEW rt, Table(rs), Table(rt), DOMAIN rt = DOMAIN rs,
         NEW id \in DOMAIN rs, \A i \in DOMAIN rs : i # id => rt[i] = rs[i], rt[id].pass,
         \A way \in Ways : id \in Matching(rs, way) =>
           id \in Matching(rt, way) \/ \E j \in Matching(rs, way) : j < id
  PROVE  Permitted(rs) \subseteq Permitted(rt)
<1> SUFFICES ASSUME NEW way \in Ways, NEW m \in Matching(rs, way),
                    rs[m].pass, \A i \in Matching(rs, way) : m <= i
             PROVE  \E t \in Matching(rt, way) :
                      rt[t].pass /\ \A u \in Matching(rt, way) : u < t => rt[u].pass
  BY WaysKept
<1>1. \A i \in DOMAIN rs : i # id => (i \in Matching(rt, way) <=> i \in Matching(rs, way))
  BY DEF Matching
<1>2. Matching(rs, way) \subseteq Nat /\ Matching(rs, way) \subseteq DOMAIN rs
      /\ Matching(rt, way) \subseteq Nat /\ Matching(rt, way) \subseteq DOMAIN rs
  BY MatchingIs
<1>3. m = id => ~(\E j \in Matching(rs, way) : j < id)
  BY <1>2
<1>4. m \in Matching(rt, way)
  BY <1>1, <1>2, <1>3
<1>5. rt[m].pass
  BY <1>2
<1>6. \A u \in Matching(rt, way) : u < m => rt[u].pass
  BY <1>1, <1>2
<1> QED
  BY <1>4, <1>5, <1>6

\* What a patch is for.
LEMMA PatchIs ==
  ASSUME NEW rs, Table(rs), NEW role \in Roles, NEW i, Patch(role, i) \in Plan(rs)
  PROVE  \/ Patch(role, i) \in Due(rs, role) /\ i \in Group(rs, role)
         \/ role = "gateway" /\ i \in Turned(rs) /\ i \in Rest(rs, "self")
<1>1. \A r, j : Patch(role, i) = Patch(r, j) <=> role = r /\ i = j
  BY DEF Patch
<1>2. \A r : Patch(role, i) \in Due(rs, r) => r = role /\ i \in Group(rs, role)
  BY <1>1, DueIs, FirstOf DEF Create, Patch
<1>3. Patch(role, i) \notin Deletes(rs)
  BY DEF Deletes, Delete, Patch
<1>4. Rest(rs, "self") \in SUBSET Nat
  BY FirstOf DEF Rest
<1>5. Turned(rs) \subseteq Rest(rs, "self")
  BY <1>4, MinIsLeast DEF Turned
<1>6. CASE Patch(role, i) \in GatewayDue(rs) /\ Turned(rs) # {}
  BY <1>1, <1>5, <1>6 DEF GatewayDue
<1>7. CASE Patch(role, i) \in GatewayDue(rs) /\ Turned(rs) = {}
  BY <1>2, <1>7 DEF GatewayDue
<1> QED
  BY <1>2, <1>3, <1>6, <1>7, PlanParts

\* What makes a rule fine, role by role.
LEMMA FineRules ==
  ASSUME NEW rule, rule.pass
  PROVE  /\ rule.descr = "self" /\ rule.tcp /\ rule.port = "any" => Fine(rule, "self")
         /\ rule.descr = "gateway" /\ rule.tcp /\ rule.dest = "172.16.0.1" => Fine(rule, "gateway")
         /\ rule.descr = "lan" /\ rule.dest = "172.16.0.0/16" => Fine(rule, "lan")
<1>1. DestOf.gateway = "172.16.0.1" /\ DestOf.lan = "172.16.0.0/16"
  BY DEF DestOf
<1>2. rule.descr = "self" /\ rule.tcp /\ rule.port = "any" => Fine(rule, "self")
  BY DEF Fine, RuleCompliant
<1>3. rule.descr = "gateway" /\ rule.tcp /\ rule.dest = "172.16.0.1" => Fine(rule, "gateway")
  BY <1>1 DEF Fine, RuleCompliant
<1>4. rule.descr = "lan" /\ rule.dest = "172.16.0.0/16" => Fine(rule, "lan")
  BY <1>1 DEF Fine, RuleCompliant
<1> QED
  BY <1>2, <1>3, <1>4

\* The role is by the destination.
LEMMA RoleRules ==
  ASSUME NEW rule
  PROVE  /\ Role(rule) = "self" <=> rule.dest = "(self)"
         /\ Role(rule) = "gateway" <=> rule.dest \in {"172.16.0.1", "172.16.0.1/32"}
         /\ Role(rule) = "lan" <=> rule.dest \in {"172.16.0.0/16", "vtnet1", "lan"}
BY DEF Role

\* A patched rule keeps what decides for whom it is and whether it lets pass,
\* has the role it is patched for, and is fine if it lets pass.
LEMMA PatchedRule ==
  ASSUME NEW rule, IsRule(rule), NEW role \in Roles,
         Role(rule) = role \/ role = "gateway"
  PROVE  /\ IsRule(Patched(rule, role))
         /\ Patched(rule, role).auth = rule.auth /\ Patched(rule, role).pass = rule.pass
         /\ Role(Patched(rule, role)) = role
         /\ rule.pass => Fine(Patched(rule, role), role)
         /\ Patched(rule, role).port = IF role = "lan" THEN rule.port ELSE "any"
<1> DEFINE new == Patched(rule, role)
<1>1. CASE role = "self"
  <2>1. new = [rule EXCEPT !.descr = "self", !.tcp = TRUE, !.port = "any"]
    BY <1>1 DEF Patched
  <2> HIDE DEF new
  <2>2. IsRule(new) /\ new.auth = rule.auth /\ new.pass = rule.pass /\ new.dest = rule.dest
        /\ new.descr = "self" /\ new.tcp /\ new.port = "any"
    BY <2>1 DEF IsRule
  <2>3. Role(new) = "self"
    BY <1>1, <2>2, RoleRules
  <2> QED
    BY <1>1, <2>2, <2>3, FineRules DEF new
<1>2. CASE role = "gateway"
  <2>1. new = [rule EXCEPT !.dest = "172.16.0.1", !.descr = "gateway", !.tcp = TRUE, !.port = "any"]
    BY <1>2 DEF Patched, DestOf
  <2> HIDE DEF new
  <2>2. IsRule(new) /\ new.auth = rule.auth /\ new.pass = rule.pass /\ new.dest = "172.16.0.1"
        /\ new.descr = "gateway" /\ new.tcp /\ new.port = "any"
    BY <2>1 DEF IsRule
  <2>3. Role(new) = "gateway"
    BY <2>2, RoleRules
  <2> QED
    BY <1>2, <2>2, <2>3, FineRules DEF new
<1>3. CASE role = "lan"
  <2>1. new = [rule EXCEPT !.dest = "172.16.0.0/16", !.descr = "lan"]
    BY <1>3 DEF Patched, DestOf
  <2> HIDE DEF new
  <2>2. IsRule(new) /\ new.auth = rule.auth /\ new.pass = rule.pass /\ new.dest = "172.16.0.0/16"
        /\ new.descr = "lan" /\ new.port = rule.port
    BY <2>1 DEF IsRule
  <2>3. Role(new) = "lan"
    BY <2>2, RoleRules
  <2> QED
    BY <1>3, <2>2, <2>3, FineRules DEF new
<1> QED
  BY <1>1, <1>2, <1>3 DEF Roles

LEMMA BodyIsFine ==
  ASSUME NEW role \in Roles
  PROVE  /\ IsRule(Body(role)) /\ Body(role).auth /\ Body(role).pass /\ Body(role).port = "any"
         /\ Role(Body(role)) = role /\ Fine(Body(role), role)
<1>1. /\ IsRule(Body(role)) /\ Body(role).auth /\ Body(role).pass
      /\ Body(role).dest = DestOf[role] /\ Body(role).descr = role
      /\ Body(role).port = "any" /\ (Body(role).tcp <=> role # "lan")
  BY DEF Body, IsRule
<1>2. /\ DestOf["self"] = "(self)" /\ DestOf["gateway"] = "172.16.0.1"
      /\ DestOf["lan"] = "172.16.0.0/16"
  BY DEF DestOf
<1> QED
  BY <1>1, <1>2, RoleRules, FineRules DEF Roles

\* A patch of a first rule, which stays what it is.
LEMMA PatchFollows ==
  ASSUME NEW rs, Table(rs), NEW role \in Roles, Group(rs, role) # {},
         NEW c \in Plan(rs), c = Patch(role, First(rs, role))
  PROVE  Follows(rs, After(rs, c), c)
<1> DEFINE id == First(rs, role)
           rt == [rs EXCEPT ![id] = Patched(@, role)]
<1>1. id \in Group(rs, role) /\ id \in DOMAIN rs
  BY FirstOf
<1>2. After(rs, c) = rt
  BY <1>1 DEF After, Known, Patch
<1>3. IsRule(rs[id]) /\ rs[id].auth /\ Role(rs[id]) = role
  BY <1>1 DEF Group, Table
<1>4. /\ IsRule(rt[id]) /\ rt[id].auth /\ rt[id].pass = rs[id].pass
      /\ Role(rt[id]) = role /\ (rs[id].pass => Fine(rt[id], role))
  BY <1>1, <1>3, PatchedRule
<1>5. DOMAIN rt = DOMAIN rs /\ \A i \in DOMAIN rs : i # id => rt[i] = rs[i]
  OBVIOUS
<1>6. Table(rt)
  BY <1>4, <1>5 DEF Table
<1> HIDE DEF id, rt
<1>7. \A r : Group(rt, r) = Group(rs, r)
  BY <1>1, <1>3, <1>4, <1>5 DEF Group
<1>8. \A r : First(rt, r) = First(rs, r) /\ Rest(rt, r) = Rest(rs, r)
  BY <1>7 DEF First, Rest
<1>9. \A r \in Roles \ {role} : Due(rt, r) = Due(rs, r)
  <2> TAKE r \in Roles \ {role}
  <2>1. Group(rs, r) # {} => First(rs, r) \in Group(rs, r) /\ First(rs, r) \in DOMAIN rs
    BY FirstOf
  <2>2. Group(rs, r) # {} => First(rs, r) # id
    BY <1>1, <2>1, GroupsApart
  <2> QED
    BY <1>5, <1>7, <1>8, <2>1, <2>2, DueSame
<1>10. \A r \in Roles : Keeps(rs, rt, r)
  <2> TAKE r \in Roles
  <2>1. Group(rs, r) # {} => First(rs, r) \in DOMAIN rs
    BY FirstOf
  <2> QED
    BY <1>4, <1>5, <1>7, <1>8, <2>1 DEF Keeps
<1>11. Stuck(rs) \subseteq Stuck(rt)
  BY <1>10, KeptStuck
<1>12. SameOthers(rs, rt)
  BY <1>3, <1>4, <1>5, FirstOf, OthersSame
<1>13. Turned(rt) = Turned(rs) /\ Deletes(rt) = Deletes(rs)
  BY <1>7, <1>8, PlanParts DEF Turned, Deletes
<1>14. Due(rt, role) \subseteq {c} /\ Due(rs, role) \subseteq {c}
  BY <1>7, <1>8, DueIs DEF id
<1>15. c \in Due(rt, role) => c \in Stuck(rt)
  <2>1. rs[id].pass => Due(rt, role) = {}
    BY <1>4, <1>7, <1>8, FineIsDone DEF id
  <2>2. ~rs[id].pass => role \in Blocks(rt)
    BY <1>4, <1>7, <1>8 DEF Blocks, id
  <2>3. role \in Blocks(rt) => c \in Stuck(rt)
    BY <1>8 DEF Stuck, id
  <2> QED
    BY <2>1, <2>2, <2>3
<1>16. /\ Plan(rs) = Due(rs, "self") \cup Due(rs, "lan") \cup GatewayDue(rs) \cup Deletes(rs)
       /\ Plan(rt) = Due(rt, "self") \cup Due(rt, "lan") \cup GatewayDue(rt) \cup Deletes(rt)
  BY PlanParts
<1>17. role # "gateway" => GatewayDue(rt) = GatewayDue(rs)
  BY <1>9, <1>13 DEF GatewayDue, Roles
<1>18. role = "gateway" => GatewayDue(rs) = Due(rs, role) /\ GatewayDue(rt) = Due(rt, role)
  BY <1>13 DEF GatewayDue, Turned
<1>19. \A d \in Deletes(rt) : d # c
  BY DEF Deletes, Delete, Patch
<1>20. c \in Plan(rt) => c \in Due(rt, role)
  <2>1. \A r \in Roles \ {role} : c \notin Due(rt, r)
    BY DueIs DEF Create, Patch, Roles
  <2>2. role # "gateway" => c \notin GatewayDue(rt)
    BY <2>1 DEF GatewayDue, Patch, Roles
  <2> QED
    BY <1>16, <1>18, <1>19, <2>1, <2>2 DEF Roles
<1>21. Plan(rs) \ {c} \subseteq Plan(rt) /\ Plan(rt) \ {c} \subseteq Plan(rs)
  BY <1>9, <1>13, <1>14, <1>16, <1>17, <1>18 DEF Roles
<1>22. id \in Kept(rs) /\ rt[id].port = IF role = "lan" THEN rs[id].port ELSE "any"
  BY <1>1, <1>3, KeptIs, PatchedRule DEF id, rt
<1>23. Open(rs) /\ role = "lan" => rs[id].port = "any"
  <2>1. \A r \in {"self", "gateway"} : role = "lan" => Patch(r, id) \notin Plan(rs)
    BY <1>1, PatchIs, GroupsApart DEF Rest, Roles
  <2> QED
    BY <1>22, <2>1 DEF Open
<1>24. Kept(rt) = Kept(rs)
  <2>1. Duplicates(rt) = Duplicates(rs)
    BY <1>8 DEF Duplicates
  <2>2. Kept(rs) = (UNION {Group(rs, r) : r \in Roles}) \ (Duplicates(rs) \ Turned(rs))
    BY KeptIs
  <2>3. Kept(rt) = (UNION {Group(rt, r) : r \in Roles}) \ (Duplicates(rt) \ Turned(rt))
    BY <1>6, KeptIs
  <2>4. (UNION {Group(rt, r) : r \in Roles}) = (UNION {Group(rs, r) : r \in Roles})
    BY <1>7
  <2> QED
    BY <1>13, <2>1, <2>2, <2>3, <2>4
<1>25. Open(rs) => Open(rt)
  <2> SUFFICES ASSUME Open(rs), NEW i \in Kept(rs)
               PROVE  rt[i].pass /\ (rt[i].port = "any" \/ \E r \in {"self", "gateway"} : Patch(r, i) \in Plan(rt))
    BY <1>24 DEF Open
  <2>1. CASE i = id
    BY <1>4, <1>22, <1>23, <2>1 DEF Open
  <2>2. CASE i # id
    <3>1. i \in DOMAIN rs
      BY FirstOf DEF Kept
    <3>2. \A r : Patch(r, i) # c
      BY <2>2 DEF Patch, id
    <3> QED
      BY <1>5, <1>21, <2>2, <3>1, <3>2 DEF Open
  <2> QED
    BY <2>1, <2>2
<1>26. Open(rs) => Permitted(rs) \subseteq Permitted(rt)
  <2> SUFFICES ASSUME Open(rs) PROVE Permitted(rs) \subseteq Permitted(rt)
    OBVIOUS
  <2>1. rt[id].pass
    BY <1>4, <1>22 DEF Open
  <2>2. Covers(rt[id]) = Covers(rs[id])
    BY <1>3, <1>4, CoversSame
  <2>3. \A way \in Ways : id \in Matching(rs, way) => id \in Matching(rt, way)
    BY <1>1, <1>4, <1>5, <1>22, <2>2 DEF Matching
  <2> QED
    BY <1>1, <1>5, <1>6, <2>1, <2>3, WaysWider
<1> QED
  BY <1>2, <1>6, <1>11, <1>12, <1>15, <1>20, <1>21, <1>25, <1>26 DEF Follows

\* A rule for a role that has none.
LEMMA CreateFollows ==
  ASSUME NEW rs, Table(rs), NEW role \in Roles, Group(rs, role) = {},
         role = "gateway" => Rest(rs, "self") = {},
         NEW c \in Plan(rs), c = Create(role)
  PROVE  Follows(rs, After(rs, c), c)
<1> DEFINE n == NewId(rs)
           rt == [i \in DOMAIN rs \cup {n} |-> IF i = n THEN Body(role) ELSE rs[i]]
<1>1. After(rs, c) = rt
  BY DEF After, Known, Create, Added
<1>2. n \in Nat /\ n \notin DOMAIN rs /\ DOMAIN rs = 0..(n-1)
  BY NewIdIsNew
<1>3. DOMAIN rt = DOMAIN rs \cup {n} /\ rt[n] = Body(role) /\ \A i \in DOMAIN rs : rt[i] = rs[i]
  BY <1>2
<1>4. IsRule(rt[n]) /\ rt[n].auth /\ rt[n].pass /\ Role(rt[n]) = role /\ Fine(rt[n], role)
      /\ rt[n].port = "any"
  BY <1>3, BodyIsFine
<1>5. Table(rt)
  <2>1. n + 1 \in Nat /\ DOMAIN rt = 0..((n+1)-1)
    BY <1>2, <1>3
  <2>2. \A i \in DOMAIN rt : IsRule(rt[i])
    BY <1>3, <1>4 DEF Table
  <2> QED
    BY <2>1, <2>2 DEF Table
<1> HIDE DEF n, rt
<1>6. Group(rt, role) = {n} /\ \A r : r # role => Group(rt, r) = Group(rs, r)
  <2>1. \A r : Group(rt, r) = Group(rs, r) \cup (IF r = role THEN {n} ELSE {})
    BY <1>3, <1>4 DEF Group
  <2> QED
    BY <2>1
<1>7. First(rt, role) = n /\ Rest(rt, role) = {} /\ Rest(rs, role) = {}
  BY <1>5, <1>6, FirstOf
<1>8. \A r : r # role => First(rt, r) = First(rs, r) /\ Rest(rt, r) = Rest(rs, r)
  BY <1>6 DEF First, Rest
<1>9. \A r : r # role /\ Group(rs, r) # {} => rt[First(rs, r)] = rs[First(rs, r)]
  BY <1>3, FirstOf
<1>10. \A r : r # role => Due(rt, r) = Due(rs, r)
  BY <1>6, <1>8, <1>9, DueSame
<1>11. Due(rt, role) = {} /\ Due(rs, role) = {c}
  BY <1>4, <1>6, <1>7, FineIsDone DEF Due
<1>12. \A r \in Roles : Keeps(rs, rt, r)
  BY <1>6, <1>8, <1>9 DEF Keeps
<1>13. Stuck(rs) \subseteq Stuck(rt)
  BY <1>12, KeptStuck
<1>14. SameOthers(rs, rt)
  BY <1>2, <1>3, <1>4, FirstOf, OthersSame
<1>15. Turned(rt) = Turned(rs) /\ (role = "gateway" => Turned(rs) = {})
  BY <1>6, <1>7, <1>8 DEF Turned, Roles
<1>16. Deletes(rt) = Deletes(rs)
  BY <1>7, <1>8, <1>15, PlanParts DEF Deletes
<1>17. /\ role # "gateway" => GatewayDue(rt) = GatewayDue(rs)
       /\ role = "gateway" => GatewayDue(rt) = {} /\ GatewayDue(rs) = {c}
  BY <1>10, <1>11, <1>15 DEF GatewayDue
<1>18. /\ Plan(rs) = Due(rs, "self") \cup Due(rs, "lan") \cup GatewayDue(rs) \cup Deletes(rs)
       /\ Plan(rt) = Due(rt, "self") \cup Due(rt, "lan") \cup GatewayDue(rt) \cup Deletes(rt)
  BY PlanParts
<1>19. c \notin Plan(rt)
  <2>1. \A r \in Roles : c \notin Due(rt, r)
    BY <1>10, <1>11, DueIs DEF Create, Patch
  <2>2. c \notin GatewayDue(rt)
    BY <2>1 DEF GatewayDue, Create, Patch, Roles
  <2>3. c \notin Deletes(rt)
    BY DEF Deletes, Delete, Create
  <2> QED
    BY <1>18, <2>1, <2>2, <2>3 DEF Roles
<1>20. Plan(rs) \ {c} \subseteq Plan(rt) /\ Plan(rt) \subseteq Plan(rs)
  BY <1>10, <1>11, <1>16, <1>17, <1>18 DEF Roles
<1>21. Kept(rt) \subseteq Kept(rs) \cup {n}
  <2>1. Duplicates(rt) = Duplicates(rs)
    BY <1>7, <1>8, PlanParts
  <2>2. \A r \in Roles : Group(rt, r) \subseteq Group(rs, r) \cup {n}
    BY <1>6
  <2> QED
    BY <1>5, <1>15, <2>1, <2>2, KeptIs
<1>22. Open(rs) => Open(rt)
  <2> SUFFICES ASSUME Open(rs), NEW i \in Kept(rs)
               PROVE  rt[i].pass /\ (rt[i].port = "any" \/ \E r \in {"self", "gateway"} : Patch(r, i) \in Plan(rt))
    BY <1>4, <1>21 DEF Open
  <2>1. i \in DOMAIN rs
    BY FirstOf DEF Kept
  <2>2. \A r : Patch(r, i) # c
    BY DEF Patch, Create
  <2> QED
    BY <1>3, <1>20, <2>1, <2>2 DEF Open
<1>23. Permitted(rs) \subseteq Permitted(rt)
  <2> SUFFICES ASSUME NEW way \in Ways, NEW m \in Matching(rs, way),
                      rs[m].pass, \A i \in Matching(rs, way) : m <= i
               PROVE  \E t \in Matching(rt, way) :
                        rt[t].pass /\ \A u \in Matching(rt, way) : u < t => rt[u].pass
    BY <1>5, WaysKept
  <2>1. m \in DOMAIN rs /\ Matching(rs, way) \subseteq DOMAIN rs
    BY MatchingIs
  <2>2. m \in Matching(rt, way) /\ rt[m].pass
    BY <1>3, <2>1 DEF Matching
  <2>3. \A u \in Matching(rt, way) : u = n \/ u \in Matching(rs, way)
    BY <1>3 DEF Matching
  <2>4. \A u \in Matching(rt, way) : ~(u < m)
    BY <1>2, <2>1, <2>3
  <2> QED
    BY <2>2, <2>4
<1> QED
  BY <1>1, <1>5, <1>13, <1>14, <1>19, <1>20, <1>22, <1>23 DEF Follows

\* The second rule of self, turned into that of the gateway.
LEMMA TurnFollows ==
  ASSUME NEW rs, Table(rs), Group(rs, "gateway") = {}, Rest(rs, "self") # {},
         Open(rs) => Due(rs, "self") = {},
         NEW c \in Plan(rs), c = Patch("gateway", Min(Rest(rs, "self")))
  PROVE  Follows(rs, After(rs, c), c)
<1> DEFINE id == Min(Rest(rs, "self"))
           rt == [rs EXCEPT ![id] = Patched(@, "gateway")]
<1>1. /\ id \in Rest(rs, "self") /\ id \in Group(rs, "self") /\ id \in DOMAIN rs
      /\ First(rs, "self") \in Group(rs, "self") \ {id}
      /\ Rest(rs, "self") = Group(rs, "self") \ {First(rs, "self")}
      /\ DOMAIN rs \subseteq Nat /\ Group(rs, "self") \subseteq DOMAIN rs
  <2>1. Rest(rs, "self") \subseteq Group(rs, "self")
    BY DEF Rest
  <2>2. Group(rs, "self") # {} /\ Group(rs, "self") \subseteq DOMAIN rs /\ DOMAIN rs \subseteq Nat
    BY <2>1, FirstOf
  <2>3. id \in Rest(rs, "self")
    BY <2>1, <2>2, MinIsLeast
  <2> QED
    BY <2>1, <2>2, <2>3, FirstOf
<1>2. After(rs, c) = rt
  BY <1>1 DEF After, Known, Patch
<1>3. IsRule(rs[id]) /\ rs[id].auth /\ Role(rs[id]) = "self"
  BY <1>1 DEF Group, Table
<1>4. /\ IsRule(rt[id]) /\ rt[id].auth /\ rt[id].pass = rs[id].pass
      /\ Role(rt[id]) = "gateway" /\ (rs[id].pass => Fine(rt[id], "gateway"))
  BY <1>1, <1>3, PatchedRule DEF Roles
<1>5. DOMAIN rt = DOMAIN rs /\ \A i \in DOMAIN rs : i # id => rt[i] = rs[i]
  OBVIOUS
<1>6. Table(rt)
  BY <1>4, <1>5 DEF Table
<1> HIDE DEF id, rt
<1>7. /\ Group(rt, "self") = Group(rs, "self") \ {id}
      /\ Group(rt, "gateway") = {id}
      /\ Group(rt, "lan") = Group(rs, "lan")
  <2>1. Group(rt, "self") = Group(rs, "self") \ {id}
    BY <1>1, <1>3, <1>4, <1>5 DEF Group
  <2>2. Group(rt, "gateway") = Group(rs, "gateway") \cup {id}
    BY <1>1, <1>3, <1>4, <1>5 DEF Group
  <2>3. Group(rt, "lan") = Group(rs, "lan")
    BY <1>1, <1>3, <1>4, <1>5 DEF Group
  <2> QED
    BY <2>1, <2>2, <2>3
<1>8. First(rt, "self") = First(rs, "self")
  BY <1>1, <1>7, MinStays DEF First
<1>9. First(rt, "gateway") = id /\ Rest(rt, "gateway") = {} /\ Rest(rs, "gateway") = {}
  BY <1>6, <1>7, FirstOf
<1>10. Rest(rt, "self") = Rest(rs, "self") \ {id}
  BY <1>1, <1>6, <1>7, <1>8, FirstOf
<1>11. First(rt, "lan") = First(rs, "lan") /\ Rest(rt, "lan") = Rest(rs, "lan") /\ id \notin Rest(rs, "lan")
  BY <1>1, <1>7, GroupsApart DEF First, Rest
<1>12. Group(rs, "lan") # {} => rt[First(rs, "lan")] = rs[First(rs, "lan")]
  BY <1>1, <1>5, FirstOf, GroupsApart
<1>13. rt[First(rs, "self")] = rs[First(rs, "self")]
  BY <1>1, <1>5
<1>14. Due(rt, "self") = Due(rs, "self") /\ Due(rt, "lan") = Due(rs, "lan")
  BY <1>1, <1>7, <1>8, <1>11, <1>12, <1>13, DueSame
<1>15. \A r \in Roles : Keeps(rs, rt, r)
  BY <1>1, <1>7, <1>8, <1>11, <1>12, <1>13 DEF Keeps, Roles
<1>16. Stuck(rs) \subseteq Stuck(rt)
  BY <1>15, KeptStuck
<1>17. SameOthers(rs, rt)
  BY <1>1, <1>3, <1>4, <1>5, OthersSame
<1>18. Turned(rs) = {id} /\ Turned(rt) = {}
  BY <1>7 DEF Turned, id
<1>19. Deletes(rt) = Deletes(rs)
  BY <1>9, <1>10, <1>11, <1>18, PlanParts DEF Deletes
<1>20. GatewayDue(rs) = {c} /\ GatewayDue(rt) = Due(rt, "gateway") /\ Due(rt, "gateway") \subseteq {c}
  BY <1>9, <1>18, DueIs, <1>7 DEF GatewayDue, id
<1>21. c \in Due(rt, "gateway") => c \in Stuck(rt)
  <2>1. rs[id].pass => Due(rt, "gateway") = {}
    BY <1>4, <1>7, <1>9, FineIsDone
  <2>2. ~rs[id].pass => "gateway" \in Blocks(rt)
    BY <1>4, <1>7, <1>9 DEF Blocks, Roles
  <2>3. "gateway" \in Blocks(rt) => c \in Stuck(rt)
    BY <1>9 DEF Stuck, id
  <2> QED
    BY <2>1, <2>2, <2>3
<1>22. /\ Plan(rs) = Due(rs, "self") \cup Due(rs, "lan") \cup GatewayDue(rs) \cup Deletes(rs)
       /\ Plan(rt) = Due(rt, "self") \cup Due(rt, "lan") \cup GatewayDue(rt) \cup Deletes(rt)
  BY PlanParts
<1>23. c \in Plan(rt) => c \in Due(rt, "gateway")
  <2>1. c \notin Due(rt, "self") /\ c \notin Due(rt, "lan")
    BY DueIs DEF Create, Patch
  <2>2. c \notin Deletes(rt)
    BY DEF Deletes, Delete, Patch
  <2> QED
    BY <1>20, <1>22, <2>1, <2>2
<1>24. Plan(rs) \ {c} \subseteq Plan(rt) /\ Plan(rt) \subseteq Plan(rs)
  BY <1>14, <1>19, <1>20, <1>22
<1>25. rt[id].port = "any"
  BY <1>1, <1>3, PatchedRule DEF id, rt, Roles
<1>26. id \in Kept(rs) /\ Kept(rt) \subseteq Kept(rs)
  <2>1. Duplicates(rt) = Duplicates(rs) \ {id}
    BY <1>9, <1>10, <1>11, PlanParts
  <2>2. \A r \in Roles : \A i \in Group(rt, r) : \E q \in Roles : i \in Group(rs, q)
    BY <1>1, <1>7 DEF Roles
  <2> QED
    BY <1>1, <1>6, <1>18, <2>1, <2>2, KeptIs DEF Roles
<1>27. Open(rs) => Open(rt)
  <2> SUFFICES ASSUME Open(rs), NEW i \in Kept(rs)
               PROVE  rt[i].pass /\ (rt[i].port = "any" \/ \E r \in {"self", "gateway"} : Patch(r, i) \in Plan(rt))
    BY <1>26 DEF Open
  <2>1. CASE i = id
    BY <1>4, <1>25, <2>1 DEF Open
  <2>2. CASE i # id
    <3>1. i \in DOMAIN rs
      BY FirstOf DEF Kept
    <3>2. \A r : Patch(r, i) # c
      BY <2>2 DEF Patch, id
    <3> QED
      BY <1>5, <1>24, <2>2, <3>1, <3>2 DEF Open
  <2> QED
    BY <2>1, <2>2
<1>28. Open(rs) => Permitted(rs) \subseteq Permitted(rt)
  <2> SUFFICES ASSUME Open(rs) PROVE Permitted(rs) \subseteq Permitted(rt)
    OBVIOUS
  <2> DEFINE f == First(rs, "self")
  <2>1. f \in Group(rs, "self") /\ f \in DOMAIN rs /\ f \in Nat /\ id \in Nat /\ f < id
    <3>1. \A i \in Group(rs, "self") : f <= i
      BY <1>1, FirstOf
    <3>2. f \in Group(rs, "self") /\ f # id /\ f <= id
      BY <1>1, <3>1
    <3> QED
      BY <1>1, <3>2
  <2> HIDE DEF f
  <2>2. f \in Kept(rs)
    BY <2>1, KeptIs DEF Roles, f
  <2>3. \A r \in {"self", "gateway"} : Patch(r, f) \notin Plan(rs)
    BY <1>18, <2>1, PatchIs DEF Roles
  <2>4. rs[f].auth /\ rs[f].port = "any" /\ Role(rs[f]) = "self"
    BY <2>1, <2>2, <2>3 DEF Open, Group
  <2>5. Covers(rs[f]) = Covers(rs[id])
    BY <1>3, <2>4, CoversSame DEF Roles
  <2>6. \A way \in Ways : id \in Matching(rs, way) => f \in Matching(rs, way)
    BY <2>1, <2>4, <2>5 DEF Matching
  <2>7. rt[id].pass
    BY <1>4, <1>26 DEF Open
  <2> QED
    BY <1>1, <1>5, <1>6, <2>1, <2>6, <2>7, WaysWider
<1> QED
  BY <1>2, <1>6, <1>16, <1>17, <1>21, <1>23, <1>24, <1>27, <1>28 DEF Follows

\* The last change: a rule behind the first of its role is deleted, and those
\* behind it move up.
LEMMA DeleteAdvances ==
  ASSUME NEW rs, Table(rs), OneDelete(rs), Group(rs, "gateway") # {},
         NEW role \in Roles, NEW id \in Rest(rs, role),
         NEW c \in Plan(rs), c = Delete(id), Plan(rs) \ {c} \subseteq Stuck(rs)
  PROVE  Advances(rs, After(rs, c), {})
<1> DEFINE rt == Removed(rs, id)
           e == [i \in DOMAIN rt |-> IF i < id THEN i ELSE i + 1]
<1>1. /\ id \in Group(rs, role) /\ id \in DOMAIN rs /\ id # First(rs, role)
      /\ DOMAIN rs \subseteq Nat
  <2>1. id \in Group(rs, role)
    BY DEF Rest
  <2> QED
    BY <2>1, FirstOf
<1>2. After(rs, c) = rt
  BY <1>1 DEF After, Known, Delete
<1>3. PICK n \in Nat : DOMAIN rs = 0..(n-1)
  BY DEF Table
<1>4. DOMAIN rt = 0..((n-1)-1) /\ n - 1 \in Nat /\ id \in 0..(n-1)
  BY <1>1, <1>3 DEF Removed
<1>5. \A i \in DOMAIN rt : e[i] \in DOMAIN rs \ {id} /\ rt[i] = rs[e[i]]
  BY <1>1, <1>3, <1>4 DEF Removed
<1>6. \A i, j \in DOMAIN rt : i < j => e[i] < e[j]
  BY <1>1, <1>4
<1>7. \A k \in DOMAIN rs \ {id} : \E i \in DOMAIN rt : e[i] = k
  <2> SUFFICES ASSUME NEW k \in DOMAIN rs \ {id} PROVE \E i \in DOMAIN rt : e[i] = k
    OBVIOUS
  <2>1. CASE k < id
    BY <1>3, <1>4, <2>1
  <2>2. CASE id < k
    <3>1. k - 1 \in DOMAIN rt /\ ~(k - 1 < id)
      BY <1>3, <1>4, <2>2
    <3> QED
      BY <1>3, <3>1
  <2> QED
    BY <1>1, <1>3, <2>1, <2>2
<1>8. Table(rt)
  <2>1. rt = [i \in DOMAIN rt |-> rt[i]]
    BY DEF Removed
  <2>2. \A i \in DOMAIN rt : IsRule(rt[i])
    BY <1>5 DEF Table
  <2> QED
    BY <1>4, <2>1, <2>2 DEF Table
<1> HIDE DEF rt, e
<1>9. \A r : \A i \in DOMAIN rt : i \in Group(rt, r) <=> e[i] \in Group(rs, r)
  BY <1>5 DEF Group
<1>10. \A r : Group(rs, r) # {} => First(rs, r) \in Group(rs, r) \ {id}
  BY <1>1, FirstOf, GroupsApart
<1>11. \A r : Group(rs, r) # {} => Group(rt, r) # {} /\ rt[First(rt, r)] = rs[First(rs, r)]
  <2> SUFFICES ASSUME NEW r, Group(rs, r) # {}
               PROVE  Group(rt, r) # {} /\ rt[First(rt, r)] = rs[First(rs, r)]
    OBVIOUS
  <2>1. /\ Group(rs, r) \in SUBSET Nat /\ Group(rs, r) \subseteq DOMAIN rs
        /\ Group(rt, r) \in SUBSET Nat /\ Group(rt, r) \subseteq DOMAIN rt
    BY <1>8, FirstOf
  <2>2. PICK t \in DOMAIN rt : e[t] = First(rs, r)
    BY <1>7, <1>10, <2>1
  <2>3. t \in Group(rt, r)
    BY <1>9, <1>10, <2>2
  <2>4. e[First(rt, r)] = First(rs, r) /\ First(rt, r) \in Group(rt, r)
    <3>1. \A i \in Group(rt, r) : e[i] \in Group(rs, r)
      BY <1>9, <2>1
    <3>2. \A i, j \in Group(rt, r) : i < j => e[i] < e[j]
      BY <1>6, <2>1
    <3> QED
      BY <2>1, <2>2, <2>3, <3>1, <3>2, MinMoves DEF First
  <2> QED
    BY <1>5, <2>1, <2>4
<1>12. \A r : Group(rs, r) = {} => Group(rt, r) = {}
  <2> SUFFICES ASSUME NEW r, Group(rs, r) = {}, NEW i \in Group(rt, r) PROVE FALSE
    OBVIOUS
  <2>1. i \in DOMAIN rt
    BY DEF Group
  <2> QED
    BY <1>9, <2>1
<1>13. Turned(rs) = {} /\ \A k \in Duplicates(rs) : k = id
  <2>1. Turned(rs) = {}
    BY DEF Turned
  <2>2. \A k \in Duplicates(rs) : Delete(k) \in Plan(rs)
    BY <2>1, PlanParts DEF Deletes
  <2>3. \A k : Delete(k).action = "delete" /\ Delete(k).id = k
    BY DEF Delete
  <2>4. \A k \in Duplicates(rs) : Delete(k) = c
    BY <2>2, <2>3 DEF OneDelete
  <2> QED
    BY <2>1, <2>3, <2>4
<1>14. Duplicates(rt) = {}
  <2> SUFFICES ASSUME NEW r \in Roles, NEW i \in Rest(rt, r) PROVE FALSE
    BY DEF Duplicates
  <2>1. PICK j \in Group(rt, r) : j < i /\ i \in Group(rt, r)
    BY DEF Rest
  <2>2. i \in DOMAIN rt /\ j \in DOMAIN rt
    BY <2>1 DEF Group
  <2>3. e[i] \in Group(rs, r) /\ e[j] \in Group(rs, r) /\ e[j] < e[i]
    BY <1>6, <1>9, <2>1, <2>2
  <2>4. e[i] \in Duplicates(rs)
    BY <2>3 DEF Rest, Duplicates
  <2> QED
    BY <1>5, <1>13, <2>2, <2>4
<1>15. Turned(rt) = {} /\ Deletes(rt) = {}
  BY <1>11, <1>14 DEF Turned, Deletes
<1>16. \A r \in Roles : Due(rs, r) \subseteq Stuck(rs)
  <2>1. \A r \in Roles : Due(rs, r) \subseteq Plan(rs)
    BY <1>13, PlanParts DEF GatewayDue, Roles
  <2>2. \A r : c \notin Due(rs, r)
    BY DueIs DEF Create, Patch, Delete
  <2> QED
    BY <2>1, <2>2
<1>17. ASSUME NEW r \in Roles, NEW d \in Due(rt, r) PROVE d \in Stuck(rt)
  <2>1. CASE Group(rs, r) = {}
    <3>1. Create(r) \in Due(rs, r)
      BY <2>1 DEF Due
    <3>2. Create(r) \notin Stuck(rs)
      BY DEF Stuck, Create, Patch
    <3> QED
      BY <1>16, <3>1, <3>2
  <2>2. CASE Group(rs, r) # {}
    <3>1. d = Patch(r, First(rt, r)) /\ Group(rt, r) # {}
      BY <1>11, <1>17, <2>2, DueIs
    <3>2. Patch(r, First(rs, r)) \in Due(rs, r)
      BY <1>11, <1>17, <2>2, <3>1 DEF Due
    <3>3. PICK q \in Blocks(rs) : Patch(r, First(rs, r)) = Patch(q, First(rs, q))
      BY <1>16, <3>2 DEF Stuck
    <3>4. q = r
      BY <3>3 DEF Patch
    <3>5. r \in Blocks(rt)
      BY <1>11, <3>1, <3>3, <3>4 DEF Blocks
    <3> QED
      BY <3>1, <3>5 DEF Stuck
  <2> QED
    BY <2>1, <2>2
<1>18. Plan(rt) \subseteq Stuck(rt)
  BY <1>15, <1>17, PlanParts DEF GatewayDue, Roles
<1>19. OneDelete(rt)
  <2>1. \A d \in Plan(rt) : d.action = "patch"
    BY <1>18 DEF Stuck, Patch
  <2> QED
    BY <2>1 DEF OneDelete
<1>20. ASSUME Open(rs)
       PROVE  /\ \A k \in Kept(rs) : rs[k].pass /\ rs[k].port = "any"
              /\ Open(rt) /\ Permitted(rs) \subseteq Permitted(rt)
  <2>1. \A r, k : Patch(r, k) \notin Plan(rs)
    <3>1. Stuck(rs) = {}
      BY <1>20, KeptIs
    <3>2. \A r, k : Patch(r, k) # c
      BY DEF Patch, Delete
    <3> QED
      BY <3>1, <3>2
  <2>2. \A k \in Kept(rs) : rs[k].pass /\ rs[k].port = "any"
    BY <1>20, <2>1 DEF Open
  <2>3. ASSUME NEW i \in Kept(rt) PROVE rt[i].pass /\ rt[i].port = "any"
    <3>1. PICK r \in Roles : i \in Group(rt, r)
      BY <2>3 DEF Kept
    <3>2. i \in DOMAIN rt
      BY <3>1 DEF Group
    <3>3. e[i] \in Group(rs, r) /\ e[i] # id /\ rt[i] = rs[e[i]]
      BY <1>5, <1>9, <3>1, <3>2
    <3>4. e[i] \notin Duplicates(rs)
      BY <1>13, <3>3
    <3>5. e[i] \in Kept(rs)
      BY <3>3, <3>4, KeptIs
    <3> QED
      BY <2>2, <3>3, <3>5
  <2>4. Open(rt)
    BY <2>3 DEF Open
  <2>5. Permitted(rs) \subseteq Permitted(rt)
    <3> SUFFICES ASSUME NEW way \in Ways, NEW m \in Matching(rs, way),
                        rs[m].pass, \A i \in Matching(rs, way) : m <= i
                 PROVE  \E t \in Matching(rt, way) :
                          rt[t].pass /\ \A u \in Matching(rt, way) : u < t => rt[u].pass
      BY <1>8, WaysKept
    <3> DEFINE f == First(rs, role)
    <3>1. f \in Group(rs, role) /\ f \in DOMAIN rs /\ f < id /\ f \in Kept(rs)
      <4>1. f \in Group(rs, role) /\ f <= id /\ Group(rs, role) \subseteq DOMAIN rs
        BY <1>1, FirstOf
      <4>2. f \in Nat /\ id \in Nat /\ f # id
        BY <1>1, <4>1
      <4> QED
        BY <4>1, <4>2, KeptIs
    <3> HIDE DEF f
    <3>2. Role(rs[f]) = role /\ Role(rs[id]) = role /\ rs[f].auth
      BY <1>1, <3>1 DEF Group
    <3>3. Covers(rs[f]) = Covers(rs[id])
      BY <3>2, CoversSame
    <3>4. m # id
      <4> SUFFICES ASSUME m = id PROVE FALSE
        OBVIOUS
      <4>1. f \in Matching(rs, way)
        BY <2>2, <3>1, <3>2, <3>3 DEF Matching
      <4> QED
        BY <1>1, <3>1, <4>1
    <3>5. m \in DOMAIN rs /\ Matching(rs, way) \subseteq DOMAIN rs /\ Matching(rt, way) \subseteq DOMAIN rt
      BY <1>8, MatchingIs
    <3>6. PICK t \in DOMAIN rt : e[t] = m
      BY <1>7, <3>4, <3>5
    <3>7. \A u \in DOMAIN rt : u \in Matching(rt, way) <=> e[u] \in Matching(rs, way)
      BY <1>5 DEF Matching
    <3>8. t \in Matching(rt, way) /\ rt[t].pass
      BY <1>5, <3>6, <3>7
    <3>9. ASSUME NEW u \in Matching(rt, way) PROVE ~(u < t)
      <4>1. e[u] \in Matching(rs, way) /\ (u < t => e[u] < e[t])
        BY <1>6, <3>5, <3>6, <3>7, <3>9
      <4>2. m <= e[u] /\ m \in Nat /\ e[u] \in Nat
        BY <1>1, <3>5, <4>1
      <4> QED
        BY <3>6, <4>1, <4>2
    <3> QED
      BY <3>8, <3>9
  <2> QED
    BY <2>2, <2>4, <2>5
<1>21. SameOthers(rs, rt)
  <2> DEFINE from == [i \in OthersOf(rt) |-> e[i]]
  <2>1. rs[id].auth
    BY <1>1 DEF Group
  <2>2. OthersOf(rt) \subseteq DOMAIN rt /\ \A i \in OthersOf(rt) : e[i] \in OthersOf(rs)
    BY <1>5 DEF OthersOf
  <2>3. \A k \in OthersOf(rs) : \E i \in OthersOf(rt) : e[i] = k
    BY <1>5, <1>7, <2>1 DEF OthersOf
  <2>4. from \in [OthersOf(rt) -> OthersOf(rs)] /\ \A i \in OthersOf(rt) : from[i] = e[i]
    BY <2>2
  <2>5. \A i \in OthersOf(rt) : rt[i] = rs[from[i]]
    BY <1>5, <2>2, <2>4
  <2>6. \A i, j \in OthersOf(rt) : i < j => from[i] < from[j]
    BY <1>6, <2>2, <2>4
  <2>7. \A k \in OthersOf(rs) : \E i \in OthersOf(rt) : from[i] = k
    BY <2>3, <2>4
  <2> HIDE DEF from
  <2> QED
    BY <2>4, <2>5, <2>6, <2>7 DEF SameOthers
<1> QED
  BY <1>2, <1>8, <1>18, <1>19, <1>20, <1>21 DEF Advances

\* The changes of a plan are there to be made in their order: no delete before
\* there is a rule for the gateway.
LEMMA ChangeFollows ==
  ASSUME NEW rs, Table(rs), OneDelete(rs),
         NEW todo, todo \subseteq Plan(rs), Plan(rs) \ todo \subseteq Stuck(rs),
         NEW c \in todo, \A d \in todo : Place(c) <= Place(d)
  PROVE  Advances(rs, After(rs, c), todo \ {c}) /\ Known(rs, c)
<1>1. c \in Plan(rs)
  OBVIOUS
<1>2. Plan(rs) = Due(rs, "self") \cup Due(rs, "lan") \cup GatewayDue(rs) \cup Deletes(rs)
  BY PlanParts
<1>3. ASSUME NEW role \in Roles, c \in Due(rs, role), role = "gateway" => Turned(rs) = {}
      PROVE  Follows(rs, After(rs, c), c) /\ Known(rs, c)
  <2>1. CASE Group(rs, role) = {} /\ c = Create(role)
    <3>1. role = "gateway" => Rest(rs, "self") = {}
      BY <1>3, <2>1 DEF Turned
    <3> QED
      BY <1>1, <2>1, <3>1, CreateFollows DEF Known, Create
  <2>2. CASE Group(rs, role) # {} /\ c = Patch(role, First(rs, role))
    <3>1. First(rs, role) \in DOMAIN rs
      BY <2>2, FirstOf
    <3> QED
      BY <1>1, <2>2, <3>1, PatchFollows DEF Known, Patch
  <2> QED
    BY <1>3, <2>1, <2>2, DueIs
<1>4. ASSUME c \in GatewayDue(rs), Turned(rs) # {}
      PROVE  Follows(rs, After(rs, c), c) /\ Known(rs, c)
  <2>1. /\ Group(rs, "gateway") = {} /\ Rest(rs, "self") # {}
        /\ c = Patch("gateway", Min(Rest(rs, "self")))
    BY <1>4 DEF GatewayDue, Turned
  <2>2. Rest(rs, "self") \in SUBSET Nat /\ Rest(rs, "self") \subseteq DOMAIN rs
    BY FirstOf DEF Rest
  <2>3. Min(Rest(rs, "self")) \in DOMAIN rs
    BY <2>1, <2>2, MinIsLeast
  <2>4. Open(rs) => Due(rs, "self") = {}
    <3> SUFFICES ASSUME Open(rs), NEW d \in Due(rs, "self") PROVE FALSE
      OBVIOUS
    <3>1. d \in todo
      BY <1>2, KeptIs
    <3>2. Place(c) = 1
      BY <2>1 DEF Place, Patch
    <3>3. Place(d) = 0
      BY DueIs DEF Place, Create, Patch
    <3> QED
      BY <3>1, <3>2, <3>3
  <2> QED
    BY <1>1, <2>1, <2>3, <2>4, TurnFollows DEF Known, Patch
<1>5. ASSUME c \in Deletes(rs)
      PROVE  Advances(rs, After(rs, c), todo \ {c}) /\ Known(rs, c)
  <2>1. PICK id \in Duplicates(rs) : c = Delete(id)
    BY <1>5 DEF Deletes
  <2>2. PICK role \in Roles : id \in Rest(rs, role)
    BY <2>1 DEF Duplicates
  <2>3. id \in DOMAIN rs /\ id \in Nat
    BY <2>2, FirstOf DEF Rest
  <2>4. Place(c) = 3 + id
    BY <2>1 DEF Place, Delete
  <2>5. \A d \in todo : d.action = "delete"
    <3> SUFFICES ASSUME NEW d \in todo, d.action # "delete" PROVE FALSE
      OBVIOUS
    <3>1. Place(d) \in {0, 1, 2}
      BY DEF Place
    <3> QED
      BY <2>3, <2>4, <3>1
  <2>6. todo = {c}
    <3>1. \A d \in todo : d = c
      BY <1>1, <2>5 DEF OneDelete
    <3> QED
      BY <3>1
  <2>7. \A d \in Stuck(rs) : \E r : Group(rs, r) # {} /\ d = Patch(r, First(rs, r))
    BY DEF Stuck, Blocks
  <2>8. Group(rs, "gateway") # {}
    <3> SUFFICES ASSUME Group(rs, "gateway") = {} PROVE FALSE
      OBVIOUS
    <3>1. CASE Turned(rs) = {}
      <4>1. Create("gateway") \in Plan(rs)
        BY <1>2, <3>1 DEF GatewayDue, Due
      <4>2. Create("gateway").action = "create" /\ \A r, i : Patch(r, i).action = "patch"
        BY DEF Create, Patch
      <4> QED
        BY <2>5, <2>7, <4>1, <4>2
    <3>2. CASE Turned(rs) # {}
      <4>1. PICK i : Patch("gateway", i) \in Plan(rs)
        BY <1>2, <3>2 DEF GatewayDue
      <4>2. \A r, j : Patch(r, j).action = "patch" /\ Patch(r, j).kind = r
        BY DEF Patch
      <4> QED
        BY <2>5, <2>7, <4>1, <4>2
    <3> QED
      BY <3>1, <3>2
  <2>9. Advances(rs, After(rs, c), {})
    BY <1>1, <2>1, <2>2, <2>6, <2>8, DeleteAdvances
  <2>10. todo \ {c} = {}
    BY <2>6
  <2> QED
    BY <2>1, <2>3, <2>9, <2>10 DEF Known, Delete
<1>6. Follows(rs, After(rs, c), c) => Advances(rs, After(rs, c), todo \ {c})
  BY FollowsAdvances
<1> QED
  BY <1>2, <1>3, <1>4, <1>5, <1>6 DEF GatewayDue, Roles

\* When nothing is left but what is stuck, and nothing is stuck, the policy
\* holds.
LEMMA NothingLeft ==
  ASSUME NEW rs, Table(rs), Plan(rs) \subseteq Stuck(rs), Blocks(rs) = {},
         Group(rs, "other") = {}
  PROVE  Compliant(rs)
<1>1. Plan(rs) = {}
  BY DEF Stuck
<1>2. /\ Due(rs, "self") = {} /\ Due(rs, "lan") = {} /\ GatewayDue(rs) = {}
      /\ Deletes(rs) = {}
  BY <1>1, PlanParts
<1>3. Turned(rs) = {} /\ Due(rs, "gateway") = {}
  BY <1>2 DEF GatewayDue
<1>4. \A role \in Roles : Due(rs, role) = {}
  BY <1>2, <1>3 DEF Roles
<1>5. Duplicates(rs) = {}
  BY <1>2, <1>3 DEF Deletes
<1>6. \A role \in Roles : Rest(rs, role) = {}
  BY <1>5 DEF Duplicates
<1>7. \A role \in Roles : Group(rs, role) # {} /\ RuleCompliant(rs[First(rs, role)], role)
  BY <1>4 DEF Due
<1> QED
  BY <1>1, <1>6, <1>7 DEF Compliant

-----------------------------------------------------------------------------
(* The steps.                                                              *)

LEMMA PlanTyped ==
  ASSUME NEW rs, Table(rs)
  PROVE  Plan(rs) \subseteq Changes
<1>1. \A role \in Roles : Due(rs, role) \subseteq Changes
  <2> SUFFICES ASSUME NEW role \in Roles, NEW c \in Due(rs, role) PROVE c \in Changes
    OBVIOUS
  <2>1. Group(rs, role) # {} => First(rs, role) \in Nat
    BY FirstOf
  <2> QED
    BY <2>1, DueIs DEF Changes, Create, Patch
<1>2. Duplicates(rs) \subseteq Nat /\ Rest(rs, "self") \in SUBSET Nat
  BY FirstOf DEF Duplicates, Rest
<1>3. Turned(rs) \subseteq Nat
  BY <1>2, MinIsLeast DEF Turned
<1>4. GatewayDue(rs) \subseteq Changes
  BY <1>1, <1>3 DEF GatewayDue, Changes, Patch, Roles
<1>5. Deletes(rs) \subseteq Changes
  BY <1>2 DEF Deletes, Changes, Delete
<1> QED
  BY <1>1, <1>4, <1>5, PlanParts DEF Roles

LEMMA InitHolds == Init => Inv
<1> SUFFICES ASSUME Init, start.single PROVE Inv
  BY DEF Inv
<1>1. PICK n \in 0..MaxRules : rules \in [0..n-1 -> Templates]
  BY DEF Init
<1>2. Table(rules)
  <2>1. n \in Nat /\ DOMAIN rules = 0..(n-1)
    BY <1>1, BoundsAssumption
  <2>2. \A i \in DOMAIN rules : IsRule(rules[i])
    BY <1>1, TemplatesAssumption
  <2> QED
    BY <1>1, <2>1, <2>2 DEF Table
<1>3. /\ run = [pc |-> "idle", result |-> "none"] /\ faults = 0 /\ loaded = rules
      /\ OneDelete(rules) /\ (start.open => Open(rules))
  BY DEF Init, Idle
<1> QED
  BY <1>2, <1>3 DEF Inv, Typed, Remaining, InForce, RunsConverge, Running

\* There are finitely many duplicates.
LEMMA FoundTyped ==
  ASSUME NEW rs, Table(rs)
  PROVE  Cardinality(Duplicates(rs)) \in Nat
<1>1. PICK n \in Nat : DOMAIN rs = 0..(n-1)
  BY DEF Table
<1>2. IsFiniteSet(DOMAIN rs)
  BY <1>1, FS_Interval
<1>3. Duplicates(rs) \subseteq DOMAIN rs
  BY FirstOf DEF Duplicates, Rest
<1> QED
  BY <1>2, <1>3, FS_Subset, FS_CardinalityType

LEMMA SameAsBefore ==
  ASSUME NEW rs, Table(rs)
  PROVE  SameOthers(rs, rs)
<1>1. DOMAIN rs \subseteq Nat
  BY DEF Table
<1> QED
  BY <1>1, OthersSame

\* A change of the run, made or failed, keeps the plan what is left to do.
LEMMA ChangeStep ==
  ASSUME Inv, start.single, Change
  PROVE  /\ Inv' /\ SameOthers(rules, rules')
         /\ start.open => Permitted(rules) \subseteq Permitted(rules')
<1>1. PICK c \in run.todo :
        /\ \A d \in run.todo : Place(c) <= Place(d)
        /\ \/ /\ rules' = After(rules, c)
              /\ \/ /\ run' = IF Known(rules, c)
                              THEN [run EXCEPT !.todo = @ \ {c}, !.applied = TRUE]
                              ELSE Finished("error")
                    /\ UNCHANGED faults
                 \/ Fails
           \/ rules' = rules /\ Fails
  BY DEF Change
<1>2. run.pc = "change" /\ loaded' = loaded /\ start' = start
  BY DEF Change
<1>3. /\ Table(rules) /\ faults \in Nat /\ Left(run.todo) /\ OneDelete(rules)
      /\ start.open => Open(rules) /\ Permitted(loaded) \subseteq Permitted(rules)
  BY <1>2 DEF Inv, Typed, Remaining, InForce
<1>4. run \in [pc : {"change"}, todo : SUBSET Changes, applied : BOOLEAN, found : Nat]
  BY <1>2 DEF Inv, Typed, Running
<1>5. Advances(rules, After(rules, c), run.todo \ {c}) /\ Known(rules, c)
  BY <1>1, <1>3, ChangeFollows DEF Left
<1>6. /\ Table(rules') /\ OneDelete(rules') /\ SameOthers(rules, rules')
      /\ start.open => /\ Open(rules') /\ Permitted(rules) \subseteq Permitted(rules')
                       /\ Permitted(loaded) \subseteq Permitted(rules')
  <2>1. CASE rules' = After(rules, c)
    BY <1>3, <1>5, <2>1 DEF Advances
  <2>2. CASE rules' = rules
    BY <1>3, <2>2, SameAsBefore
  <2> QED
    BY <1>1, <2>1, <2>2
<1>7. CASE Fails
  <2>1. run' = [pc |-> "idle", result |-> "error"] /\ faults' = faults + 1
    BY <1>7 DEF Fails, Finished
  <2> QED
    BY <1>2, <1>3, <1>6, <2>1 DEF Inv, Typed, Running, Remaining, InForce, RunsConverge
<1>8. CASE /\ rules' = After(rules, c) /\ UNCHANGED faults
           /\ run' = [run EXCEPT !.todo = @ \ {c}, !.applied = TRUE]
  <2>1. /\ run' \in [pc : {"change"}, todo : SUBSET Changes, applied : BOOLEAN, found : Nat]
        /\ run'.pc = "change" /\ run'.applied /\ run'.todo = run.todo \ {c}
    BY <1>4, <1>8
  <2>2. Left(run.todo)'
    BY <1>5, <1>8, <2>1 DEF Left, Advances
  <2> QED
    BY <1>2, <1>3, <1>6, <1>8, <2>1, <2>2
       DEF Inv, Typed, Running, Remaining, InForce, RunsConverge
<1> QED
  BY <1>1, <1>5, <1>6, <1>7, <1>8

LEMMA InvStep ==
  ASSUME Inv, [Next]_vars
  PROVE  Inv'
<1>0. start' = start
  BY DEF Next, Begin, Fetch, Change, Apply, Verify, ReadSettings, OpenApi, vars
<1> SUFFICES ASSUME start.single PROVE Inv'
  BY <1>0 DEF Inv
<1>1. Table(rules) /\ faults \in Nat /\ run \in Running
  BY DEF Inv, Typed
<1>2. CASE Begin
  <2>1. run' \in Running /\ run'.pc \in {"fetch", "settings"}
    BY <1>2, HostAssumption DEF Begin, Running
  <2>2. loaded = rules \/ faults > 0
    BY <1>2 DEF Begin, Inv, InForce
  <2> QED
    BY <1>2, <2>1, <2>2 DEF Begin, Inv, Typed, Remaining, InForce, RunsConverge
<1>3. CASE Fetch
  <2>1. Plan(rules) \subseteq Changes /\ Cardinality(Duplicates(rules)) \in Nat
    BY <1>1, PlanTyped, FoundTyped
  <2> DEFINE next == [pc |-> "change", todo |-> Plan(rules), applied |-> FALSE,
                      found |-> Cardinality(Duplicates(rules))]
  <2>2. CASE run' = next /\ UNCHANGED faults
    <3>1. /\ next \in [pc : {"change"}, todo : SUBSET Changes, applied : BOOLEAN, found : Nat]
          /\ next.todo = Plan(rules) /\ next.pc = "change"
      BY <2>1
    <3> HIDE DEF next
    <3> QED
      BY <1>3, <2>2, <3>1 DEF Fetch, Inv, Typed, Running, Remaining, Left, InForce, RunsConverge
  <2>3. CASE run' = Finished("error") /\ faults' \in {faults, faults + 1}
    BY <1>3, <2>3 DEF Fetch, Finished, Inv, Typed, Running, Remaining, InForce, RunsConverge
  <2> QED
    BY <1>3, <2>2, <2>3 DEF Fetch, Fails
<1>4. CASE Change
  BY <1>4, ChangeStep
<1>5. CASE Apply
  <2>1. run.pc = "change" /\ run.todo = {} /\ rules' = rules /\ loaded' \in {loaded, rules}
        /\ start' = start /\ run.found \in Nat
    BY <1>1, <1>5 DEF Apply, Running
  <2>2. Left({})
    BY <2>1 DEF Inv, Remaining
  <2>3. CASE run' = Verifying /\ UNCHANGED faults /\ (loaded' = rules \/ (~run.applied /\ loaded' = loaded))
    BY <2>1, <2>2, <2>3 DEF Verifying, Inv, Typed, Running, Remaining, Left, InForce, RunsConverge
  <2>4. CASE run' = Finished("error") /\ faults' = faults + 1
    BY <2>1, <2>4 DEF Finished, Inv, Typed, Running, Remaining, InForce, RunsConverge
  <2> QED
    BY <1>5, <2>3, <2>4 DEF Apply, Fails
<1>6. CASE Verify
  <2>1. run.pc = "verify" /\ rules' = rules /\ loaded' = loaded /\ start' = start
    BY <1>6 DEF Verify
  <2>2. Plan(rules) \subseteq Stuck(rules) /\ (loaded = rules \/ faults > 0)
    BY <2>1 DEF Inv, Remaining, Left, InForce
  <2>3. CASE Fails
    BY <2>1, <2>3 DEF Fails, Finished, Inv, Typed, Running, Remaining, InForce, RunsConverge
  <2>4. CASE run' = Finished("compliant") /\ Compliant(rules) /\ UNCHANGED faults
    BY <2>1, <2>2, <2>4 DEF Finished, Inv, Typed, Running, Remaining, InForce, RunsConverge, Compliant
  <2>5. CASE run' = Finished("drift") /\ ~Compliant(rules) /\ UNCHANGED faults
    <3>1. Blocks(rules) # {} \/ Group(rules, "other") # {}
      BY <1>1, <2>2, <2>5, NothingLeft
    <3> QED
      BY <2>1, <2>2, <2>5, <3>1 DEF Finished, Inv, Typed, Running, Remaining, InForce, RunsConverge
  <2> QED
    BY <1>6, <2>3, <2>4, <2>5 DEF Verify
<1>7. CASE ReadSettings
  BY <1>7 DEF ReadSettings, TryNext, Failing, Finished, Inv, Typed, Running, Remaining, InForce,
              RunsConverge
<1>8. CASE OpenApi
  BY <1>8 DEF OpenApi, TryNext, Failing, Finished, Inv, Typed, Running, Remaining, InForce,
              RunsConverge
<1>9. CASE UNCHANGED vars
  BY <1>9 DEF vars, Inv, Typed, Running, Remaining, Left, InForce, RunsConverge
<1> QED
  BY <1>2, <1>3, <1>4, <1>5, <1>6, <1>7, <1>8, <1>9 DEF Next

-----------------------------------------------------------------------------
(* The theorems.                                                           *)

\* A run that ends well has left nothing to do that a plan could, if the list
\* was one to delete a rule of at most: it says so when the policy holds, and
\* otherwise a first rule blocks or a rule has a destination of its own, however
\* many runs before it broke off.
THEOREM RunsAlwaysConverge == Spec => []RunsConverge
<1>1. Inv => RunsConverge
  BY DEF Inv, RunsConverge
<1> QED
  BY <1>1, InitHolds, InvStep, PTL DEF Spec

\* No request of a run, made or broken off, and no apply of what an earlier run
\* has left, takes away a connection that got through, if one rule was to be
\* deleted at most and the rules that are kept let pass, on every port.
THEOREM WaysStayOpen == Spec => NobodyLockedOut
<1> DEFINE Through ==
      start.single /\ start.open
        => Permitted(rules) \subseteq Permitted(rules') /\ Permitted(loaded) \subseteq Permitted(loaded')
<1>1. Inv /\ [Next]_vars => [Through]_vars
  <2> SUFFICES ASSUME Inv, Next, start.single, start.open
               PROVE  Permitted(rules) \subseteq Permitted(rules') /\ Permitted(loaded) \subseteq Permitted(loaded')
    OBVIOUS
  <2>1. CASE Change
    BY <2>1, ChangeStep DEF Change
  <2>2. CASE Apply
    BY <2>2 DEF Apply, Inv, InForce
  <2>3. CASE rules' = rules /\ loaded' = loaded
    BY <2>3
  <2> QED
    BY <2>1, <2>2, <2>3 DEF Next, Begin, Fetch, Verify, ReadSettings, OpenApi
<1> QED
  BY <1>1, InitHolds, InvStep, PTL DEF Spec, NobodyLockedOut

\* The rules of somebody else stay, and in their order, if one rule was to be
\* deleted at most: the id of the delete, which was read before the first request,
\* is still that of the rule it was read of.
THEOREM OthersStay == Spec => OthersUntouched
<1>1. Inv /\ [Next]_vars => [start.single => SameOthers(rules, rules')]_vars
  <2> SUFFICES ASSUME Inv, Next, start.single PROVE SameOthers(rules, rules')
    OBVIOUS
  <2>1. CASE Change
    BY <2>1, ChangeStep
  <2>2. CASE rules' = rules
    BY <2>2, SameAsBefore DEF Inv, Typed
  <2> QED
    BY <2>1, <2>2 DEF Next, Begin, Fetch, Apply, Verify, ReadSettings, OpenApi
<1> QED
  BY <1>1, InitHolds, InvStep, PTL DEF Spec, OthersUntouched

\* When the bootstrap tool says opened, the interface that the firewall tool
\* comes in by is allowed, whichever of the two ways it took.
THEOREM OpenedStaysReached == Spec => []OpenedIsReached
<1> DEFINE Shaped == \/ run = [pc |-> "idle", result |-> run.result]
                     \/ run.pc \in {"fetch", "verify"}
                     \/ run = [pc |-> "change", todo |-> run.todo, applied |-> run.applied,
                               found |-> run.found]
                     \/ /\ run = [pc |-> run.pc, path |-> run.path]
                        /\ run.pc \in {"settings", "open"}
           Opened == Shaped /\ (run.pc = "idle" /\ run.result = "opened" => allowed = {})
<1>1. Init => Opened
  BY DEF Init, Idle
<1>2. Opened /\ [Next]_vars => Opened'
  <2> SUFFICES ASSUME Opened, [Next]_vars PROVE Opened'
    OBVIOUS
  <2>1. CASE Begin
    BY <2>1 DEF Begin
  <2>2. CASE Fetch
    BY <2>2 DEF Fetch, Fails, Finished
  <2>3. CASE Change
    <3>1. run = [pc |-> "change", todo |-> run.todo, applied |-> run.applied, found |-> run.found]
      BY <2>3 DEF Change
    <3>2. CASE run' = Finished("error")
      BY <3>2 DEF Finished
    <3>3. ASSUME NEW todo, run' = [run EXCEPT !.todo = todo, !.applied = TRUE]
          PROVE  Opened'
      <4>1. run \in [pc : {"change"}, todo : {run.todo, todo}, applied : {run.applied, TRUE},
                     found : {run.found}]
        BY <3>1
      <4>2. run' \in [pc : {"change"}, todo : {run.todo, todo}, applied : {run.applied, TRUE},
                      found : {run.found}]
        BY <3>3, <4>1
      <4> QED
        BY <4>2
    <3>4. run' = Finished("error") \/ \E todo : run' = [run EXCEPT !.todo = todo, !.applied = TRUE]
      BY <2>3, Zenon DEF Change, Fails
    <3> QED
      BY <3>2, <3>3, <3>4
  <2>4. CASE Apply
    BY <2>4 DEF Apply, Fails, Finished, Verifying
  <2>5. CASE Verify
    BY <2>5 DEF Verify, Fails, Finished
  <2>6. CASE ReadSettings
    <3>1. run = [pc |-> "settings", path |-> run.path]
      BY <2>6 DEF ReadSettings
    <3>2. CASE run' = [run EXCEPT !.pc = "open"]
      <4>1. run' = [pc |-> "open", path |-> run.path]
        BY <3>1, <3>2
      <4> QED
        BY <4>1
    <3>3. CASE TryNext
      BY <3>3 DEF TryNext, Finished
    <3> QED
      BY <2>6, <3>2, <3>3 DEF ReadSettings, Failing
  <2>7. CASE OpenApi
    BY <2>7 DEF OpenApi, TryNext, Failing, Finished
  <2>8. CASE UNCHANGED vars
    BY <2>8 DEF vars
  <2> QED
    BY <2>1, <2>2, <2>3, <2>4, <2>5, <2>6, <2>7, <2>8 DEF Next
<1>3. Opened => OpenedIsReached
  BY DEF OpenedIsReached, Reached
<1> QED
  BY <1>1, <1>2, <1>3, PTL DEF Spec
=============================================================================
