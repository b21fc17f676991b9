-------------------------- MODULE AclFilterProofs --------------------------
(***************************************************************************)
(* Theorems about the decisions of AclFilter, for every list of rules, of  *)
(* names and of networks and every address width.                          *)
(*                                                                         *)
(* The argument: what each compiled matcher returns is the greatest        *)
(* specificity among the rules that match, and nothing when none does; and *)
(* comparing the greatest of the two sides is comparing the sides.         *)
(***************************************************************************)
EXTENDS AclFilter, SequenceTheorems, WellFoundedInduction, TLAPS

\* The lists hold the rules they were given.
Lists == /\ domain \in [allow : SUBSET DomainRules, deny : SUBSET DomainRules]
         /\ egress \in [allow : SUBSET Nets, deny : SUBSET Nets]

Specificities == Nat \X Nat

\* m is the greatest of the specificities S, and no match when there is none.
IsBest(m, S) == /\ S \subseteq Specificities
                /\ IF S = {} THEN m = NoMatch
                   ELSE m \in S /\ \A x \in S : ~Above(x, m)

\* The specificities of the rules, or the networks, that match.
DomainSpecs(rules, h) == {RuleSpecificity(r) : r \in {x \in rules : RuleMatches(x, h)}}
NetSpecs(nets, ip) == {NetSpecificity(n) : n \in {m \in nets : InNet(m, ip)}}

----------------------------------------------------------------------------
(* Least and greatest elements *)

LEMMA LeastNat ==
  ASSUME NEW S \in SUBSET Nat, S # {}
  PROVE  Min(S) \in S /\ \A y \in S : Min(S) <= y
  <1>1. PICK x \in S : \A y \in S : ~(<<y, x>> \in OpToRel(<, Nat))
    BY NatLessThanWellFounded, WFMin
  <1>2. ASSUME NEW y \in S, y < x PROVE FALSE
    <2>1. <<y, x>> \in Nat \X Nat /\ <<y, x>>[1] < <<y, x>>[2]
      BY <1>2
    <2>2. <<y, x>> \in OpToRel(<, Nat)
      BY <2>1 DEF OpToRel
    <2> QED BY <1>1, <2>2
  <1>3. \A y \in S : x <= y
    BY <1>2
  <1> QED BY <1>3 DEF Min

LEMMA GreatestNat ==
  ASSUME NEW n \in Nat, NEW S \in SUBSET (0..n), S # {}
  PROVE  Max(S) \in S /\ \A y \in S : Max(S) >= y
  <1> DEFINE T == {n - y : y \in S}
  <1>0. \A y \in S : y \in Nat /\ n - y \in Nat
    OBVIOUS
  <1>1. T \in SUBSET Nat /\ T # {}
    BY <1>0
  <1>2. Min(T) \in T /\ \A z \in T : Min(T) <= z
    BY <1>1, LeastNat
  <1>3. PICK x \in S : Min(T) = n - x
    BY <1>2
  <1>4. ASSUME NEW y \in S PROVE x >= y
    <2>1. n - x <= n - y
      BY <1>2, <1>3
    <2> QED BY <1>0, <2>1
  <1> QED BY <1>4 DEF Max

----------------------------------------------------------------------------
(* decide *)

\* decide looks at the two best matches only, and that is enough.
LEMMA BestDecides ==
  ASSUME NEW A, NEW D, NEW a, NEW d, IsBest(a, A), IsBest(d, D)
  PROVE  /\ a = NoMatch <=> A = {}
         /\ d = NoMatch <=> D = {}
         /\ a # NoMatch => (d = NoMatch \/ Above(a, d) <=> \E x \in A : \A y \in D : Above(x, y))
  <1>1. \A x \in Specificities : x # NoMatch /\ x[1] \in Nat /\ x[2] \in Nat
    BY DEF Specificities, NoMatch
  <1>2. (a = NoMatch <=> A = {}) /\ (d = NoMatch <=> D = {})
    BY <1>1 DEF IsBest
  <1>3. CASE A # {} /\ D # {}
    <2>1. /\ a \in A /\ d \in D
          /\ A \subseteq Specificities /\ D \subseteq Specificities
          /\ \A x \in A : ~Above(x, a)
          /\ \A y \in D : ~Above(y, d)
      BY <1>3 DEF IsBest
    <2>2. ASSUME NEW x \in Specificities, NEW y \in Specificities, NEW z \in Specificities
          PROVE  /\ Above(x, y) /\ ~Above(x, z) => Above(z, y)
                 /\ Above(x, y) /\ ~Above(z, y) => Above(x, z)
      BY <1>1 DEF Above
    <2>3. ASSUME NEW x \in A, \A y \in D : Above(x, y) PROVE Above(a, d)
      BY <2>1, <2>2, <2>3
    <2>4. ASSUME Above(a, d), NEW y \in D PROVE Above(a, y)
      BY <2>1, <2>2, <2>4
    <2> QED BY <1>2, <1>3, <2>1, <2>3, <2>4
  <1>4. CASE A = {} \/ D = {}
    BY <1>2, <1>4
  <1> QED BY <1>3, <1>4

----------------------------------------------------------------------------
(* The matchers *)

LEMMA SuffixLength ==
  ASSUME NEW h \in Seq(STRING), NEW i \in 1..Len(h)
  PROVE  Len(Suffix(h, i)) = Len(h) - i + 1
  <1>1. Len(h) \in Nat /\ i \in 1..(Len(h) + 1) /\ Len(h) \in i..Len(h) /\ i <= Len(h)
    BY LenProperties
  <1>2. Len(SubSeq(h, i, Len(h))) = IF i <= Len(h) THEN Len(h) - i + 1 ELSE 0
    BY <1>1, SubSeqProperties
  <1> QED BY <1>1, <1>2 DEF Suffix

LEMMA DomainSpecsTyped ==
  ASSUME NEW rules \in SUBSET DomainRules, NEW h \in Hosts
  PROVE  DomainSpecs(rules, h) \in SUBSET Specificities
  <1> SUFFICES ASSUME NEW r \in rules, RuleMatches(r, h)
               PROVE  RuleSpecificity(r) \in Specificities
    BY DEF DomainSpecs
  <1>1. CASE r.kind = "domain"
    <2>1. PICK i \in 1..Len(h) : Suffix(h, i) = r.value
      BY <1>1 DEF RuleMatches
    <2>2. Len(r.value) = Len(h) - i + 1 /\ Len(h) \in Nat
      BY <2>1, SuffixLength, HostAssumption, LenProperties
    <2>3. Len(r.value) \in Nat
      BY <2>2
    <2> QED BY <1>1, <2>3 DEF RuleSpecificity, Specificities
  <1>2. CASE r.kind \in {"full", "keyword"}
    BY <1>2 DEF RuleSpecificity, Specificities
  <1> QED BY <1>1, <1>2, RuleAssumption

\* The early returns and the walk over the suffixes find the most specific rule.
LEMMA BestMatch ==
  ASSUME NEW rules \in SUBSET DomainRules, NEW h \in Hosts
  PROVE  IsBest(best_match(rules, h), DomainSpecs(rules, h))
  <1> DEFINE zones == {i \in 1..Len(h) : Suffix(h, i) \in Valued(rules, "domain")}
             S == DomainSpecs(rules, h)
             m == best_match(rules, h)
  <1>0. S \subseteq Specificities
    BY DomainSpecsTyped
  <1>1. h \in Seq(STRING) /\ Len(h) \in Nat
    BY HostAssumption, LenProperties
  \* What each kind of rule adds to the specificities.
  <1>2. ASSUME NEW r \in rules, RuleMatches(r, h)
        PROVE  \/ r.kind = "full" /\ h \in Valued(rules, "full") /\ RuleSpecificity(r) = <<3, 0>>
               \/ /\ r.kind = "domain"
                  /\ \E i \in zones : RuleSpecificity(r) = <<2, Len(h) - i + 1>>
               \/ /\ r.kind = "keyword" /\ RuleSpecificity(r) = <<1, 0>>
                  /\ \E k \in Valued(rules, "keyword") : <<k, h>> \in Occurs
    <2>1. CASE r.kind = "full"
      BY <1>2, <2>1 DEF RuleMatches, RuleSpecificity, Valued
    <2>2. CASE r.kind = "domain"
      <3>1. PICK i \in 1..Len(h) : Suffix(h, i) = r.value
        BY <1>2, <2>2 DEF RuleMatches
      <3>2. i \in zones
        BY <2>2, <3>1 DEF Valued
      <3>3. RuleSpecificity(r) = <<2, Len(h) - i + 1>>
        BY <1>1, <2>2, <3>1, SuffixLength DEF RuleSpecificity
      <3> QED BY <2>2, <3>2, <3>3
    <2>3. CASE r.kind = "keyword"
      BY <1>2, <2>3 DEF RuleMatches, RuleSpecificity, Valued
    <2> QED BY <2>1, <2>2, <2>3, RuleAssumption
  \* And each rule the matcher finds is one that matches.
  <1>3. h \in Valued(rules, "full") => <<3, 0>> \in S
    BY DEF Valued, DomainSpecs, RuleMatches, RuleSpecificity
  <1>4. ASSUME NEW i \in zones PROVE <<2, Len(h) - i + 1>> \in S
    <2>1. PICK r \in rules : r.kind = "domain" /\ r.value = Suffix(h, i)
      BY <1>4 DEF Valued
    <2>2. RuleMatches(r, h) /\ RuleSpecificity(r) = <<2, Len(h) - i + 1>>
      BY <1>1, <2>1, SuffixLength DEF RuleMatches, RuleSpecificity
    <2> QED BY <2>2 DEF DomainSpecs
  <1>5. (\E k \in Valued(rules, "keyword") : <<k, h>> \in Occurs) => <<1, 0>> \in S
    BY DEF Valued, DomainSpecs, RuleMatches, RuleSpecificity
  <1>6. ASSUME NEW x \in S
        PROVE  \/ x = <<3, 0>> /\ h \in Valued(rules, "full")
               \/ \E i \in zones : x = <<2, Len(h) - i + 1>>
               \/ /\ x = <<1, 0>>
                  /\ \E k \in Valued(rules, "keyword") : <<k, h>> \in Occurs
    <2>1. PICK r \in rules : RuleMatches(r, h) /\ x = RuleSpecificity(r)
      BY DEF DomainSpecs
    <2> HIDE DEF zones
    <2> QED BY <1>2, <2>1
  <1>7. zones \in SUBSET Nat
    BY <1>1
  <1>8. m = IF h \in Valued(rules, "full") THEN <<3, 0>>
            ELSE IF zones # {} THEN <<2, Len(h) - Min(zones) + 1>>
            ELSE IF \E k \in Valued(rules, "keyword") : <<k, h>> \in Occurs THEN <<1, 0>>
            ELSE NoMatch
    BY DEF best_match
  <1> HIDE DEF zones, S, m
  <1>9. CASE h \in Valued(rules, "full")
    <2>1. m = <<3, 0>> /\ m \in S
      BY <1>3, <1>8, <1>9
    <2>2. \A x \in S : ~Above(x, m)
      BY <1>6, <2>1 DEF Above
    <2> QED BY <1>0, <2>1, <2>2 DEF IsBest, m, S
  <1>10. CASE h \notin Valued(rules, "full") /\ zones # {}
    <2>1. Min(zones) \in zones /\ \A i \in zones : Min(zones) <= i
      BY <1>7, <1>10, LeastNat
    <2>2. m = <<2, Len(h) - Min(zones) + 1>> /\ m \in S
      BY <1>4, <1>8, <1>10, <2>1
    <2>3. ASSUME NEW i \in zones PROVE Len(h) - i + 1 <= Len(h) - Min(zones) + 1
      <3>1. i \in Nat /\ Min(zones) \in Nat /\ Min(zones) <= i
        BY <1>7, <2>1
      <3> QED BY <1>1, <3>1
    <2>4. \A x \in S : ~Above(x, m)
      BY <1>1, <1>6, <1>7, <1>10, <2>1, <2>2, <2>3 DEF Above
    <2> QED BY <1>0, <2>2, <2>4 DEF IsBest, m, S
  <1>11. CASE h \notin Valued(rules, "full") /\ zones = {}
    <2>1. CASE \E k \in Valued(rules, "keyword") : <<k, h>> \in Occurs
      <3>1. m = <<1, 0>> /\ m \in S
        BY <1>5, <1>8, <1>11, <2>1
      <3>2. \A x \in S : ~Above(x, m)
        BY <1>6, <1>11, <3>1 DEF Above
      <3> QED BY <1>0, <3>1, <3>2 DEF IsBest, m, S
    <2>2. CASE ~\E k \in Valued(rules, "keyword") : <<k, h>> \in Occurs
      <3>1. m = NoMatch /\ S = {}
        BY <1>6, <1>8, <1>11, <2>2
      <3> QED BY <1>0, <3>1 DEF IsBest, m, S
    <2> QED BY <2>1, <2>2
  <1> QED BY <1>9, <1>10, <1>11

LEMMA NetLengths ==
  ASSUME NEW nets \in SUBSET (Nets \cup Builtins), NEW ip
  PROVE  /\ {n.len : n \in {m \in nets : InNet(m, ip)}} \in SUBSET (0..W)
         /\ NetSpecs(nets, ip) \in SUBSET Specificities
         /\ NetSpecs(nets, ip) = {<<l, 0>> : l \in {n.len : n \in {m \in nets : InNet(m, ip)}}}
  <1>1. \A n \in nets : n.len \in 0..W /\ n.len \in Nat
    BY NetAssumption, WidthAssumption
  <1> QED BY <1>1 DEF NetSpecs, NetSpecificity, Specificities

\* The longest prefix is the most specific entry.
LEMMA BestNetIsBest ==
  ASSUME NEW nets \in SUBSET (Nets \cup Builtins), NEW ip
  PROVE  IsBest(BestNet(nets, ip), NetSpecs(nets, ip))
  <1> DEFINE lens == {n.len : n \in {m \in nets : InNet(m, ip)}}
  <1>0. NetSpecs(nets, ip) \subseteq Specificities
    BY NetLengths
  <1>1. /\ lens \in SUBSET (0..W) /\ NetSpecs(nets, ip) = {<<l, 0>> : l \in lens}
        /\ BestNet(nets, ip) = IF lens = {} THEN NoMatch ELSE <<Max(lens), 0>>
    BY NetLengths DEF BestNet
  <1> HIDE DEF lens
  <1>2. CASE lens = {}
    BY <1>0, <1>1, <1>2 DEF IsBest
  <1>3. CASE lens # {}
    <2>1. Max(lens) \in lens /\ \A l \in lens : Max(lens) >= l
      BY <1>1, <1>3, GreatestNat, WidthAssumption
    <2>2. ASSUME NEW l \in lens PROVE ~Above(<<l, 0>>, <<Max(lens), 0>>)
      <3>1. lens \subseteq Nat
        BY <1>1, WidthAssumption
      <3>2. l \in Nat /\ Max(lens) \in Nat /\ Max(lens) >= l
        BY <2>1, <3>1
      <3> QED BY <3>2 DEF Above
    <2> QED BY <1>0, <1>1, <1>3, <2>1, <2>2 DEF IsBest
  <1> QED BY <1>2, <1>3

----------------------------------------------------------------------------
(* Model B *)

LEMMA DomainModelB ==
  ASSUME NEW f \in [allow : SUBSET DomainRules, deny : SUBSET DomainRules], NEW h \in Hosts
  PROVE  DomainAllowed(f, h) <=>
           ModelB(f.allow, f.deny, LAMBDA r : RuleMatches(r, h), RuleSpecificity)
  <1> DEFINE A == DomainSpecs(f.allow, h)
             D == DomainSpecs(f.deny, h)
  <1>1. IsBest(best_match(f.allow, h), A) /\ IsBest(best_match(f.deny, h), D)
    BY BestMatch
  <1>2. f.allow = {} => A = {}
    BY DEF DomainSpecs
  <1> HIDE DEF A, D
  <1>3. DomainAllowed(f, h) <=> \/ \E x \in A : \A y \in D : Above(x, y)
                                \/ f.allow = {} /\ D = {}
    BY <1>1, <1>2, BestDecides DEF DomainAllowed, decide
  <1> USE DEF A, D
  <1>4. (\E x \in A : \A y \in D : Above(x, y)) <=>
          \E a \in f.allow :
            /\ RuleMatches(a, h)
            /\ \A d \in f.deny : RuleMatches(d, h) =>
                                   Above(RuleSpecificity(a), RuleSpecificity(d))
    BY DEF DomainSpecs
  <1>5. D = {} <=> \A d \in f.deny : ~RuleMatches(d, h)
    BY DEF DomainSpecs
  <1> QED BY <1>3, <1>4, <1>5 DEF ModelB

LEMMA EgressModelB ==
  ASSUME NEW f \in [allow : SUBSET Nets, deny : SUBSET Nets], NEW ip
  PROVE  EgressAllowed(f, ip) <=>
           ModelB(f.allow, f.deny \cup Builtins, LAMBDA n : InNet(n, ip), NetSpecificity)
  <1> DEFINE deny == f.deny \cup Builtins
             A == NetSpecs(f.allow, ip)
             D == NetSpecs(deny, ip)
  <1>1. f.allow \in SUBSET (Nets \cup Builtins) /\ deny \in SUBSET (Nets \cup Builtins)
    OBVIOUS
  <1>2. IsBest(BestNet(f.allow, ip), A) /\ IsBest(BestNet(deny, ip), D)
    BY <1>1, BestNetIsBest
  <1>3. f.allow = {} => A = {}
    BY DEF NetSpecs
  <1> HIDE DEF A, D
  <1>4. EgressAllowed(f, ip) <=> \/ \E x \in A : \A y \in D : Above(x, y)
                                 \/ f.allow = {} /\ D = {}
    BY <1>2, <1>3, BestDecides DEF EgressAllowed, DenyNets, decide
  <1> USE DEF A, D
  <1>5. (\E x \in A : \A y \in D : Above(x, y)) <=>
          \E a \in f.allow :
            /\ InNet(a, ip)
            /\ \A d \in deny : InNet(d, ip) => Above(NetSpecificity(a), NetSpecificity(d))
    BY DEF NetSpecs
  <1>6. D = {} <=> \A d \in deny : ~InNet(d, ip)
    BY DEF NetSpecs
  <1> QED BY <1>4, <1>5, <1>6 DEF ModelB

LEMMA ListsKept == Spec => []Lists
  <1>1. Init => Lists
    BY DEF Init, Lists
  <1>2. ASSUME NEW R, NEW f \in [allow : SUBSET R, deny : SUBSET R], NEW s \in Sides, NEW r \in R
        PROVE  Toggled(f, s, r) \in [allow : SUBSET R, deny : SUBSET R]
    <2>1. CASE s = "allow"
      BY <2>1 DEF Toggled
    <2>2. CASE s = "deny"
      BY <2>2 DEF Toggled
    <2> QED BY <2>1, <2>2 DEF Sides
  <1>3. Lists /\ [Next]_vars => Lists'
    <2> SUFFICES ASSUME Lists, [Next]_vars PROVE Lists'
      OBVIOUS
    <2>1. CASE EditDomain
      BY <1>2, <2>1 DEF EditDomain, Lists
    <2>2. CASE EditEgress
      BY <1>2, <2>2 DEF EditEgress, Lists
    <2>3. CASE UNCHANGED vars
      BY <2>3 DEF vars, Lists
    <2> QED BY <2>1, <2>2, <2>3 DEF Next
  <1> QED BY <1>1, <1>3, PTL DEF Spec

\* Both filters decide as the documented model B does, whatever the lists: the
\* early returns of the domain matcher, its walk over suffixes and the longest
\* prefix of the egress filter lose nothing.
THEOREM FiltersImplementModelB == Spec => []DecisionIsModelB
  <1>1. Lists => DecisionIsModelB
    BY DomainModelB, EgressModelB DEF Lists, DecisionIsModelB, ModelB
  <1> QED BY <1>1, ListsKept, PTL

\* A special-use network is reached only through an allow entry that lies inside
\* it, whatever is added to or deleted from either list.
THEOREM SpecialUseStaysClosed == Spec => []BuiltinsHold
  <1>1. Lists => BuiltinsHold
    <2> SUFFICES ASSUME Lists, NEW ip \in Addresses, NEW b \in Builtins, InNet(b, ip),
                        EgressAllowed(egress, ip)
                 PROVE  \E n \in egress.allow : InNet(n, ip) /\ n.len > b.len
      BY DEF BuiltinsHold
    <2>1. ModelB(egress.allow, egress.deny \cup Builtins, LAMBDA n : InNet(n, ip),
                 NetSpecificity)
      BY EgressModelB DEF Lists, ModelB
    <2>2. PICK a \in egress.allow :
            /\ InNet(a, ip)
            /\ \A d \in egress.deny \cup Builtins :
                 InNet(d, ip) => Above(NetSpecificity(a), NetSpecificity(d))
      BY <2>1 DEF ModelB
    <2>3. Above(<<a.len, 0>>, <<b.len, 0>>)
      BY <2>2 DEF NetSpecificity
    <2>4. a.len > b.len
      BY <2>3 DEF Above
    <2> QED BY <2>2, <2>4
  <1> QED BY <1>1, ListsKept, PTL

\* Over any names and addresses, a deny rule can only close, and taking one away
\* can only open.
THEOREM DenyNeverOpens == Spec => DenyOnlyRestricts
  <1>1. ASSUME Lists, Lists', domain.allow = domain'.allow, domain.deny \subseteq domain'.deny,
               NEW h \in Hosts, DomainAllowed(domain', h)
        PROVE  DomainAllowed(domain, h)
    <2>1. ModelB(domain'.allow, domain'.deny, LAMBDA r : RuleMatches(r, h), RuleSpecificity)
      BY <1>1, DomainModelB DEF Lists
    <2>2. ModelB(domain.allow, domain.deny, LAMBDA r : RuleMatches(r, h), RuleSpecificity)
      BY <1>1, <2>1 DEF ModelB
    <2> QED BY <1>1, <2>2, DomainModelB DEF Lists
  <1>2. ASSUME Lists, Lists', egress.allow = egress'.allow, egress.deny \subseteq egress'.deny,
               NEW ip \in Addresses, EgressAllowed(egress', ip)
        PROVE  EgressAllowed(egress, ip)
    <2>1. ModelB(egress'.allow, egress'.deny \cup Builtins, LAMBDA n : InNet(n, ip),
                 NetSpecificity)
      BY <1>2, EgressModelB DEF Lists, ModelB
    <2>2. ModelB(egress.allow, egress.deny \cup Builtins, LAMBDA n : InNet(n, ip),
                 NetSpecificity)
      BY <1>2, <2>1 DEF ModelB
    <2> QED BY <1>2, <2>2, EgressModelB DEF Lists, ModelB
  <1>3. Lists /\ Lists' =>
          [/\ domain.allow = domain'.allow /\ domain.deny \subseteq domain'.deny =>
                \A h \in Hosts : DomainAllowed(domain', h) => DomainAllowed(domain, h)
           /\ egress.allow = egress'.allow /\ egress.deny \subseteq egress'.deny =>
                \A ip \in Addresses : EgressAllowed(egress', ip) => EgressAllowed(egress, ip)]_vars
    BY <1>1, <1>2
  <1> QED BY <1>3, ListsKept, PTL DEF DenyOnlyRestricts
============================================================================
