------------------------------ MODULE AdminApi ------------------------------
(***************************************************************************)
(* The admin API of api/handlers.rs over the policy store, and the         *)
(* compiled filters of acl.rs that the data plane reads.  Each thread      *)
(* serves one request at a time; between two steps of a handler other      *)
(* threads run.  A handler reads POLICIES (an ArcSwap) without the lock,   *)
(* calls apply_and_save, whose mutator runs under WRITE_LOCK, and an ACL   *)
(* handler then rebuilds its filter, again without the lock.               *)
(***************************************************************************)
EXTENDS FiniteSets, PolicyStore, AclDelta

CONSTANTS Ips,            \* source addresses
          HashPolicies,   \* values of HashPolicy
          Seeds,          \* values of a binding's seed
          DefaultPolicy, DefaultSeed,     \* [policy] of config.toml
          NoBinding,      \* bindings.get(ip) is None
          RawRules,       \* rules as an operator writes them
          Rules,          \* canonical rules
          Canon,          \* canonicalize_rule / canonicalize_net
          Malformed,      \* a value that does not parse
          Omitted,        \* a field the request leaves out
          BuiltinDeny,    \* builtin_blocked_nets
          Junk,           \* entries of a hand-edited state file that do not parse
          Bases,          \* the [domain] and [egress] lists config.toml may hold
          Serves          \* the requests each thread may be given

Kinds == {"domain", "egress"}
Sides == {"allow", "deny"}

Binding == [policy : HashPolicies, seed : Seeds]

PolicyBodies ==
    [bindings : [Ips -> Binding \cup {NoBinding}],
     acl : [Kinds -> [Sides -> Overlays(Rules \cup Junk)]]]

EmptyBody ==
    [bindings |-> [i \in Ips |-> NoBinding],
     acl |-> [k \in Kinds |-> [s \in Sides |-> EmptyOverlay]]]

Requests ==
    [op : {"put"}, ip : Ips \cup {Malformed},
     policy : HashPolicies \cup {Omitted, Malformed},
     seed : Seeds \cup {Omitted, Malformed}]
    \cup [op : {"delete", "reseed"}, ip : Ips \cup {Malformed}]
    \cup [op : {"patch"}, ip : Ips \cup {Malformed},
          policy : HashPolicies \cup {Malformed}]
    \cup [op : {"add", "del"}, kind : Kinds, side : Sides, rules : SUBSET RawRules]

ASSUME DefaultAssumption == DefaultPolicy \in HashPolicies /\ DefaultSeed \in Seeds
ASSUME CanonAssumption == Canon \in [RawRules -> Rules \cup {Malformed}]
\* A base with a malformed rule is refused by validate_config at startup.
ASSUME BaseAssumption ==
    Bases \subseteq [Kinds -> [Sides -> SUBSET {r \in RawRules : Canon[r] # Malformed}]]
ASSUME ServesAssumption == Serves \in [Threads -> SUBSET Requests]
ASSUME BindingAssumption == NoBinding \notin Binding
\* What the store keeps.
ASSUME StoreAssumption == Bodies = PolicyBodies /\ DefaultBody = EmptyBody

VARIABLES hpc,      \* where each thread is in its handler
          req,      \* the request it serves
          input,    \* what its mutator captured: a binding or a seed
          snap,     \* the overlay its rebuild has loaded
          base,     \* DOMAIN_BASE and EGRESS_BASE
          filter,   \* DOMAIN_FILTER and EGRESS_FILTER
          panicked, \* ghost: a handler has panicked
          intent    \* ghost: what the last acknowledged request said of a rule

taskVars == <<hpc, req, input, snap>>
apiVars == <<vars, taskVars, base, filter, panicked, intent>>

Get(i) == policies.body.bindings[i]

IsAcl(r) == r.op \in {"add", "del"}

NoRequest == [op |-> "none"]

canon(r) == {Canon[x] : x \in r.rules}

\* Fault: a bad entry of the state file reaches the filter.
BuildDomainUnchecked(b, acl) == [s \in Sides |-> merge_acl(b[s], acl[s])]

\* build_domain_filter, build_egress_filter: entries that do not parse are
\* dropped, and the egress filter always denies the builtin networks.
BuildDomain(b, acl) == [s \in Sides |-> merge_acl(b[s], acl[s]) \ Junk]

BuildEgress(b, acl) ==
    [s \in Sides |-> (merge_acl(b[s], acl[s]) \ Junk)
                     \cup (IF s = "deny" THEN BuiltinDeny ELSE {})]

Build(k, b, acl) == IF k = "domain" THEN BuildDomain(b, acl) ELSE BuildEgress(b, acl)

NoFilter == [s \in Sides |-> {}]

Idle == [t \in Threads |-> "idle"]

ApiInit == /\ Init
           /\ hpc = Idle
           /\ req = [t \in Threads |-> NoRequest]
           /\ input = [t \in Threads |-> Omitted]
           /\ snap = [t \in Threads |-> Omitted]
           /\ base = [k \in Kinds |-> NoFilter]
           /\ filter = [k \in Kinds |-> NoFilter]
           /\ panicked = FALSE
           /\ intent = [k \in Kinds |-> [s \in Sides |-> [r \in Rules |-> "any"]]]

----------------------------------------------------------------------------
(* Serving a request *)

\* The answer is sent and the thread takes another request.
Answer(t) == /\ hpc' = [hpc EXCEPT ![t] = "idle"]
             /\ req' = [req EXCEPT ![t] = NoRequest]
             /\ input' = [input EXCEPT ![t] = Omitted]
             /\ snap' = [snap EXCEPT ![t] = Omitted]

\* Bound: every request under way can still commit.
InFlight == {t \in Threads : hpc[t] # "idle"}

Submit(t) ==
    /\ up
    /\ hpc[t] = "idle"
    /\ policies.version + Cardinality(InFlight) < MaxVersion
    /\ \E r \in Serves[t] : req' = [req EXCEPT ![t] = r]
    /\ hpc' = [hpc EXCEPT ![t] = "check"]
    /\ UNCHANGED <<vars, input, snap, base, filter, panicked, intent>>

Invalid(r) == IF IsAcl(r) THEN Malformed \in canon(r)
              ELSE \E f \in DOMAIN r : r[f] = Malformed

\* 400, before anything is touched: a batch with one bad rule is all refused.
BadRequest(t) ==
    /\ hpc[t] = "check"
    /\ Invalid(req[t])
    /\ Answer(t)
    /\ UNCHANGED <<vars, base, filter, panicked, intent>>

\* 404 from DELETE, PATCH and reseed.
NotFound(t) ==
    /\ hpc[t] = "check"
    /\ ~Invalid(req[t])
    /\ req[t].op \in {"delete", "patch", "reseed"}
    /\ Get(req[t].ip) = NoBinding
    /\ Answer(t)
    /\ UNCHANGED <<vars, base, filter, panicked, intent>>

\* put_binding reads `existing` for the fields the request omits, now.
PutInput(r) ==
    LET existing == IF Get(r.ip) = NoBinding
                    THEN [policy |-> DefaultPolicy, seed |-> DefaultSeed]
                    ELSE Get(r.ip)
    IN  [policy |-> IF r.policy = Omitted THEN existing.policy ELSE r.policy,
         seed   |-> IF r.seed = Omitted THEN existing.seed ELSE r.seed]

\* The checks pass; what the mutator needs is computed from this read.
Checked(t) ==
    /\ hpc[t] = "check"
    /\ ~Invalid(req[t])
    /\ req[t].op \in {"delete", "patch", "reseed"} => Get(req[t].ip) # NoBinding
    /\ CASE req[t].op = "put" -> input' = [input EXCEPT ![t] = PutInput(req[t])]
         [] req[t].op = "reseed" -> \E s \in Seeds : input' = [input EXCEPT ![t] = s]
         [] OTHER -> UNCHANGED input
    /\ hpc' = [hpc EXCEPT ![t] = "apply"]
    /\ UNCHANGED <<vars, req, snap, base, filter, panicked, intent>>

\* The mutators of the handlers, on the policies found under the lock.
put_binding(body, ip, b)  == [body EXCEPT !.bindings[ip] = b]
delete_binding(body, ip)  == [body EXCEPT !.bindings[ip] = NoBinding]

\* Fault: a binding that has gone meanwhile is made anew.
PatchCreates(body, ip, p) ==
    [body EXCEPT !.bindings[ip] = [policy |-> p, seed |-> DefaultSeed]]

\* PATCH and reseed do nothing when the binding has gone meanwhile.
patch_hash_policy(body, ip, p) ==
    IF body.bindings[ip] = NoBinding THEN body
    ELSE [body EXCEPT !.bindings[ip].policy = p]

reseed(body, ip, s) ==
    IF body.bindings[ip] = NoBinding THEN body
    ELSE [body EXCEPT !.bindings[ip].seed = s]

mutate_acl(body, r) ==
    LET b == base[r.kind][r.side] IN
    [body EXCEPT !.acl[r.kind][r.side] =
       IF r.op = "add" THEN apply_add(b, @, canon(r)) ELSE apply_del(b, @, canon(r))]

Mutated(t, body) ==
    LET r == req[t] IN
    CASE r.op = "put"    -> put_binding(body, r.ip, input[t])
      [] r.op = "delete" -> delete_binding(body, r.ip)
      [] r.op = "patch"  -> patch_hash_policy(body, r.ip, r.policy)
      [] r.op = "reseed" -> reseed(body, r.ip, input[t])
      [] IsAcl(r)        -> mutate_acl(body, r)

Apply(t) ==
    /\ hpc[t] = "apply"
    /\ Lock(t, Mutated(t, policies.body))
    /\ hpc' = [hpc EXCEPT ![t] = "save"]
    /\ UNCHANGED <<req, input, snap, base, filter, panicked, intent>>

\* A step of apply_and_save.  When it publishes, an ACL request has settled the
\* rules it names.
Save(t) ==
    /\ hpc[t] = "save"
    /\ Step(t)
    /\ intent' = IF pc'[t] = "ok" /\ IsAcl(req[t])
                 THEN [intent EXCEPT ![req[t].kind][req[t].side] =
                         [r \in Rules |-> IF r \notin canon(req[t]) THEN @[r]
                                          ELSE IF req[t].op = "add" THEN "in"
                                          ELSE "out"]]
                 ELSE intent
    /\ UNCHANGED <<taskVars, base, filter, panicked>>

\* 500, or 200 for the binding requests.  PATCH and reseed unwrap the binding
\* in the policies they have just saved: a missing one panics.
Finish(t) ==
    /\ hpc[t] = "save"
    /\ pc[t] = "err" \/ ~IsAcl(req[t])
    /\ panicked' = (panicked \/ /\ pc[t] = "ok"
                                /\ req[t].op \in {"patch", "reseed"}
                                /\ new[t].body.bindings[req[t].ip] = NoBinding)
    /\ Return(t)
    /\ Answer(t)
    /\ UNCHANGED <<base, filter, intent>>

\* rebuild_domain_filter, rebuild_egress_filter: POLICIES.load ...
RebuildLoad(t) ==
    /\ hpc[t] = "save"
    /\ pc[t] = "ok" /\ IsAcl(req[t])
    /\ Return(t)
    /\ snap' = [snap EXCEPT ![t] = policies.body.acl[req[t].kind]]
    /\ hpc' = [hpc EXCEPT ![t] = "store"]
    /\ UNCHANGED <<req, input, base, filter, panicked, intent>>

\* Fault: the rebuilt filter is not stored.
RebuildDropped(t) ==
    /\ hpc[t] = "store"
    /\ Answer(t)
    /\ UNCHANGED <<vars, base, filter, panicked, intent>>

\* ... and DOMAIN_FILTER.store or EGRESS_FILTER.store; then 200 with the view.
RebuildStore(t) ==
    /\ hpc[t] = "store"
    /\ LET k == req[t].kind IN
         filter' = [filter EXCEPT ![k] = Build(k, base[k], snap[t])]
    /\ Answer(t)
    /\ UNCHANGED <<vars, base, panicked, intent>>

Handle(t) == \/ BadRequest(t) \/ NotFound(t) \/ Checked(t) \/ Save(t)
             \/ Finish(t) \/ RebuildLoad(t) \/ RebuildStore(t)

----------------------------------------------------------------------------
(* The process *)

Canonical(b) == [k \in Kinds |-> [s \in Sides |-> {Canon[r] : r \in b[k][s]}]]

\* main: the policies are loaded, then both filters are built over the lists of
\* the configuration, which may have been edited since the last start.  A rule
\* that has entered or left the base is as the new base says.
ApiStart ==
    /\ Start
    /\ \E b \in Bases : base' = Canonical(b)
    /\ filter' = [k \in Kinds |-> Build(k, base'[k], policies'.body.acl[k])]
    /\ intent' = [k \in Kinds |-> [s \in Sides |-> [r \in Rules |->
                    IF (r \in base'[k][s]) = (r \in base[k][s]) THEN intent[k][s][r]
                    ELSE "any"]]]
    /\ UNCHANGED <<taskVars, panicked>>

\* A request cut off by the crash may or may not have reached the file.
ApiCrash ==
    /\ Crash
    /\ hpc' = Idle
    /\ req' = [t \in Threads |-> NoRequest]
    /\ input' = [t \in Threads |-> Omitted]
    /\ snap' = [t \in Threads |-> Omitted]
    /\ intent' = [k \in Kinds |-> [s \in Sides |-> [r \in Rules |->
                    IF \E t \in Threads : /\ pc[t] \in Renamed
                                          /\ IsAcl(req[t])
                                          /\ req[t].kind = k /\ req[t].side = s
                                          /\ r \in canon(req[t])
                    THEN "any" ELSE intent[k][s][r]]]]
    /\ UNCHANGED <<base, filter, panicked>>

ApiNext == \/ \E t \in Threads : Submit(t) \/ Apply(t) \/ Handle(t)
           \/ ApiStart \/ ApiCrash

ApiSpec == ApiInit /\ [][ApiNext]_apiVars

\* A worker thread runs its handler on, system calls return, and parking_lot's
\* eventual fairness gives the lock to every thread that keeps waiting for it.
Fairness == \A t \in Threads : WF_apiVars(Handle(t)) /\ SF_apiVars(Apply(t))

FairSpec == ApiSpec /\ Fairness

----------------------------------------------------------------------------
(* Properties *)

ApiTypeOK ==
    /\ TypeOK
    /\ hpc \in [Threads -> {"idle", "check", "apply", "save", "store"}]
    /\ req \in [Threads -> Requests \cup {NoRequest}]
    /\ \A t \in Threads : req[t] \in Serves[t] \cup {NoRequest}
    /\ input \in [Threads -> Binding \cup Seeds \cup {Omitted}]
    /\ snap \in [Threads -> [Sides -> Overlays(Rules \cup Junk)] \cup {Omitted}]
    /\ base \in [Kinds -> [Sides -> SUBSET Rules]]
    /\ filter \in [Kinds -> [Sides -> SUBSET (Rules \cup BuiltinDeny)]]
    /\ panicked \in BOOLEAN
    /\ intent \in [Kinds -> [Sides -> [Rules -> {"any", "in", "out"}]]]

\* The filter of kind k is that of the lists the API shows when no request for them is
\* under way.
FilterMatches(k) ==
    up /\ (\A t \in Threads : req[t] # NoRequest /\ IsAcl(req[t]) => req[t].kind # k)
      => filter[k] = Build(k, base[k], policies.body.acl[k])

\* acl.rs: the filter is "rebuilt on every mutation" from "the config base +
\* current POLICIES.domain_acl": when no ACL request is under way, the data plane
\* enforces exactly the lists that the API shows.
FilterMatchesOverlay == \A k \in Kinds : FilterMatches(k)

\* No two clients change the lists of kind k at a time.
OneClient(k) ==
    \A t, u \in Threads : \A r \in Serves[t], q \in Serves[u] :
      t # u /\ IsAcl(r) /\ IsAcl(q) => r.kind # k \/ q.kind # k

\* That is so of lists that one client at a time changes, whatever others do to the
\* other lists and to bindings, through failed saves, crashes and an edited base.
OwnFilterMatches == \A k \in Kinds : OneClient(k) => FilterMatches(k)

\* An acknowledged ACL request holds until another one contradicts it: its rules
\* are in (after add) or out of (after del) the effective list, whatever other
\* requests, save failures, crashes and restarts come in between.
OverlayIntent ==
    up => \A k \in Kinds, s \in Sides, r \in Rules :
            LET now == merge_acl(base[k][s], policies.body.acl[k][s]) IN
            /\ intent[k][s][r] = "in" => r \in now
            /\ intent[k][s][r] = "out" => r \notin now

\* A binding comes into being by a PUT of its address and goes by a DELETE, by nothing
\* else: a PATCH or a reseed that has found the binding before the lock does not bring
\* it back when a DELETE was faster.
BindingsComeAndGo ==
    [][\A i \in Ips :
         up /\ up' /\ (Get(i) = NoBinding) # (Get(i)' = NoBinding) =>
           \E t \in Threads :
             /\ pc[t] # "ok" /\ pc'[t] = "ok"
             /\ req[t].op = IF Get(i) = NoBinding THEN "put" ELSE "delete"
             /\ req[t].ip = i]_apiVars

\* The bindings an update may change, and the fields of them.
NamedOnly(r, old, cur) ==
    /\ \A i \in Ips : IsAcl(r) \/ i # r.ip => cur.bindings[i] = old.bindings[i]
    /\ \A k \in Kinds, s \in Sides :
         ~IsAcl(r) \/ k # r.kind \/ s # r.side => cur.acl[k][s] = old.acl[k][s]
    /\ r.op = "put" =>
         LET was == IF old.bindings[r.ip] # NoBinding THEN old.bindings[r.ip]
                    ELSE [policy |-> DefaultPolicy, seed |-> DefaultSeed]
         IN  /\ r.policy = Omitted => cur.bindings[r.ip].policy = was.policy
             /\ r.seed = Omitted => cur.bindings[r.ip].seed = was.seed

\* A request on a binding acts on the binding that is there when its update is
\* published: a field that a PUT omits keeps the value it has then, or is the default
\* "for new bindings when the API request omits" it (README), and the binding that PATCH
\* and reseed unwrap (handlers.rs) is there.  Nothing else changes.
ActsOnWhatIsThere ==
    [][/\ ~panicked'
       /\ \A t \in Threads :
            pc[t] # "ok" /\ pc'[t] = "ok" =>
              /\ NamedOnly(req[t], policies.body, policies'.body)
              /\ req[t].op \in {"patch", "reseed"} => Get(req[t].ip)' # NoBinding]_apiVars

============================================================================
