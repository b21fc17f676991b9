----------------------------- MODULE AclFilter -----------------------------
(***************************************************************************)
(* The two filters of acl.rs and config.rs and how they decide: the domain *)
(* filter on the name a client asks for, the egress filter on the address  *)
(* it resolves to.  The lists change one rule at a time, as the admin API  *)
(* changes them.                                                           *)
(*                                                                         *)
(* A name is its sequence of labels, normalised; which keywords occur in   *)
(* which names is given.  A network is [prefix, len] over addresses of W   *)
(* bits.                                                                   *)
(***************************************************************************)
EXTENDS Integers, Sequences, FiniteSets, FiniteSetsExt

CONSTANTS Hosts,        \* names that clients ask for
          DomainRules,  \* rules: [kind, value], a keyword's value is opaque
          Occurs,       \* {<<keyword, host>>} with the keyword in the name
          W,            \* bits of an address
          Nets,         \* entries of the egress lists
          Builtins      \* builtin_blocked_nets

ASSUME HostAssumption == Hosts \subseteq Seq(STRING)
ASSUME RuleAssumption == \A r \in DomainRules : r.kind \in {"full", "domain", "keyword"}
ASSUME WidthAssumption == W \in Nat
ASSUME NetAssumption == Nets \cup Builtins \subseteq [prefix : 0..(2^W - 1), len : 0..W]

VARIABLES domain, egress        \* the effective lists, [allow, deny] each

vars == <<domain, egress>>

Init == /\ domain = [allow |-> {}, deny |-> {}]
        /\ egress = [allow |-> {}, deny |-> {}]

----------------------------------------------------------------------------
(* acl.rs *)

NoMatch == <<>>

\* The order of specificities: by tier, then by detail.
Above(a, d) == a[1] > d[1] \/ (a[1] = d[1] /\ a[2] > d[2])

\* Fault: the comparison is the wrong way round.
DecideSwapped(bestAllow, bestDeny, allowIsEmpty) ==
    IF bestAllow = NoMatch THEN bestDeny = NoMatch /\ allowIsEmpty
    ELSE bestDeny = NoMatch \/ Above(bestDeny, bestAllow)

\* Only one side matched: it decides.  Both did: the more specific one, and deny
\* on a tie.  None: an empty allow list lets everything through.
decide(bestAllow, bestDeny, allowIsEmpty) ==
    IF bestAllow = NoMatch THEN bestDeny = NoMatch /\ allowIsEmpty
    ELSE bestDeny = NoMatch \/ Above(bestAllow, bestDeny)

Suffix(h, i) == SubSeq(h, i, Len(h))

Valued(rules, kind) == {r.value : r \in {x \in rules : x.kind = kind}}

\* Fault: the walk goes on to the shortest zone.
BestMatchShortest(rules, h) ==
    LET zones == {i \in 1..Len(h) : Suffix(h, i) \in Valued(rules, "domain")} IN
    IF h \in Valued(rules, "full") THEN <<3, 0>>
    ELSE IF zones # {} THEN <<2, Len(h) - Max(zones) + 1>>
    ELSE IF \E k \in Valued(rules, "keyword") : <<k, h>> \in Occurs THEN <<1, 0>>
    ELSE NoMatch

\* An exact name first; then the suffixes, from the longest on, until one is a
\* zone, whose number of labels counts; then the keywords.
best_match(rules, h) ==
    LET zones == {i \in 1..Len(h) : Suffix(h, i) \in Valued(rules, "domain")} IN
    IF h \in Valued(rules, "full") THEN <<3, 0>>
    ELSE IF zones # {} THEN <<2, Len(h) - Min(zones) + 1>>
    ELSE IF \E k \in Valued(rules, "keyword") : <<k, h>> \in Occurs THEN <<1, 0>>
    ELSE NoMatch

DomainAllowed(f, h) ==
    decide(best_match(f.allow, h), best_match(f.deny, h), f.allow = {})

----------------------------------------------------------------------------
(* config.rs *)

InNet(n, ip) == ip \div 2^(W - n.len) = n.prefix \div 2^(W - n.len)

\* The longest prefix of a list that holds the address.
BestNet(nets, ip) ==
    LET lens == {n.len : n \in {m \in nets : InNet(m, ip)}} IN
    IF lens = {} THEN NoMatch ELSE <<Max(lens), 0>>

\* Fault: the special-use networks are not added.
BareDeny(f) == f.deny

\* EgressFilter::build adds the special-use networks to deny.
DenyNets(f) == f.deny \cup Builtins

EgressAllowed(f, ip) ==
    decide(BestNet(f.allow, ip), BestNet(DenyNets(f), ip), f.allow = {})

----------------------------------------------------------------------------
(* Changes of the effective lists *)

\* A list gains the rule or loses it.
Toggled(f, side, r) == [f EXCEPT ![side] = IF r \in @ THEN @ \ {r} ELSE @ \cup {r}]

Sides == {"allow", "deny"}

EditDomain == /\ \E s \in Sides, r \in DomainRules : domain' = Toggled(domain, s, r)
              /\ UNCHANGED egress

EditEgress == /\ \E s \in Sides, n \in Nets : egress' = Toggled(egress, s, n)
              /\ UNCHANGED domain

Next == EditDomain \/ EditEgress

Spec == Init /\ [][Next]_vars

----------------------------------------------------------------------------
(* Properties *)

Addresses == 0..(2^W - 1)

\* What a rule matches and how specific it is, rule by rule.
RuleMatches(r, h) == CASE r.kind = "full"    -> h = r.value
                       [] r.kind = "domain"  -> \E i \in 1..Len(h) : Suffix(h, i) = r.value
                       [] r.kind = "keyword" -> <<r.value, h>> \in Occurs

RuleSpecificity(r) == CASE r.kind = "full"    -> <<3, 0>>
                        [] r.kind = "domain"  -> <<2, Len(r.value)>>
                        [] r.kind = "keyword" -> <<1, 0>>

NetSpecificity(n) == <<n.len, 0>>

\* README, "model B (most-specific wins)": a target passes when some allow rule
\* that matches it is more specific than every deny rule that does, or when no
\* rule matches it and there is no allow rule at all.
ModelB(allow, deny, Matches(_), Specificity(_)) ==
    \/ \E a \in allow : /\ Matches(a)
                        /\ \A d \in deny : Matches(d) => Above(Specificity(a), Specificity(d))
    \/ allow = {} /\ \A d \in deny : ~Matches(d)

\* Both filters implement model B: the shortcuts of the compiled matcher (early
\* returns, the walk over suffixes, the longest prefix) lose nothing.
DecisionIsModelB ==
    /\ \A h \in Hosts :
         DomainAllowed(domain, h) <=>
           ModelB(domain.allow, domain.deny, LAMBDA r : RuleMatches(r, h), RuleSpecificity)
    /\ \A ip \in Addresses :
         EgressAllowed(egress, ip) <=>
           ModelB(egress.allow, egress.deny \cup Builtins, LAMBDA n : InNet(n, ip),
                  NetSpecificity)

\* A deny rule can only close: adding one never lets a target through that was
\* blocked, and removing one never blocks a target.
DenyOnlyRestricts ==
    [][/\ domain.allow = domain'.allow /\ domain.deny \subseteq domain'.deny =>
            \A h \in Hosts : DomainAllowed(domain', h) => DomainAllowed(domain, h)
       /\ egress.allow = egress'.allow /\ egress.deny \subseteq egress'.deny =>
            \A ip \in Addresses : EgressAllowed(egress', ip) => EgressAllowed(egress, ip)]_vars

\* config.rs: special-use ranges are "always denied unless an explicit `allow`
\* entry overrides them": the entry has to be more specific than the range, and no
\* edit of the deny list opens one.
BuiltinsHold ==
    \A ip \in Addresses, b \in Builtins :
      InNet(b, ip) /\ EgressAllowed(egress, ip) =>
        \E n \in egress.allow : InNet(n, ip) /\ n.len > b.len
============================================================================
