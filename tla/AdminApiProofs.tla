--------------------------- MODULE AdminApiProofs ---------------------------
(***************************************************************************)
(* Theorems about the overlay operations of AclDelta and about AdminApi,   *)
(* which is built on them, for any number of threads, addresses, rules and *)
(* configurations.                                                         *)
(*                                                                         *)
(* The store under the handlers is not looked into again: each step of the *)
(* API is a step of PolicyStore, so PolicyStoreProofs holds of it too.     *)
(* What is added is how the two program counters of a thread go together,  *)
(* that new_policies is what the mutator makes of the policies still in    *)
(* force, and what each property says in the states between two steps.     *)
(***************************************************************************)
EXTENDS AdminApi, PolicyStoreProofs

----------------------------------------------------------------------------
(* The inductive invariant *)

\* A thread is in apply_and_save while its handler is at "save", and has a
\* request while the handler is anywhere but at rest.
Phases ==
    \A t \in Threads :
      /\ hpc[t] = "save" <=> pc[t] # "idle"
      /\ hpc[t] = "idle" <=> req[t] = NoRequest
      /\ ~up => hpc[t] = "idle"

\* What the checks have established for the rest of the handler.
Passed ==
    \A t \in Threads :
      /\ hpc[t] \in {"apply", "save", "store"} =>
           /\ ~Invalid(req[t])
           /\ req[t].op = "put" => input[t] \in Binding
           /\ req[t].op = "reseed" => input[t] \in Seeds
      /\ hpc[t] = "store" => IsAcl(req[t]) /\ snap[t] \in [Sides -> Overlays(Rules \cup Junk)]

\* The mutator has run on the policies that are still in force.
NewIsMutated ==
    \A t \in Threads :
      pc[t] \in Critical => new[t].body = Mutated(t, policies.body)

\* The policies a reader would find: now, or after a restart.
Current == IF up THEN policies ELSE Loaded(file.data)

\* A rule of which something was acknowledged is as that said.
Agrees(word, r, list) == /\ word = "in" => r \in list
                         /\ word = "out" => r \notin list

IntentKept ==
    \A k \in Kinds, s \in Sides, r \in Rules :
      Agrees(intent[k][s][r], r, merge_acl(base[k][s], Current.body.acl[k][s]))

ApiIInv == /\ ApiTypeOK /\ IInv
           /\ Phases /\ Passed /\ NewIsMutated /\ IntentKept

\* The filter of the lists of kind k may lag behind only while the request that changed
\* them is between the save and the store, and what that one has loaded is what is in
\* force.
Lagging(t, k) == /\ IsAcl(req[t]) /\ req[t].kind = k
                 /\ hpc[t] = "store" \/ (hpc[t] = "save" /\ pc[t] = "ok")

FilterInv(k) ==
    /\ up => \/ \E t \in Threads : Lagging(t, k)
             \/ filter[k] = Build(k, base[k], policies.body.acl[k])
    /\ \A t \in Threads : hpc[t] = "store" /\ req[t].kind = k
                            => snap[t] = policies.body.acl[k]

OwnFilters == \A k \in Kinds : OneClient(k) => FilterInv(k)

----------------------------------------------------------------------------
(* The overlay: what the operations of state.rs do to the effective list, for every base
   list, every overlay (one over an older base, or edited by hand, too) and every batch. *)

\* POST: the rules of the batch become effective, and no other rule changes:
\* the overlay may record nothing for a rule of the base without losing it.
THEOREM AddMakesEffective ==
  ASSUME NEW b, NEW R, NEW ov \in Overlays(R), NEW rules
  PROVE  merge_acl(b, apply_add(b, ov, rules)) = merge_acl(b, ov) \cup rules
  BY DEF merge_acl, apply_add, Overlays

\* DELETE: the rules of the batch stop being effective, also the ones that come
\* from the read-only base, and no other rule changes.
THEOREM DelMakesIneffective ==
  ASSUME NEW b, NEW R, NEW ov \in Overlays(R), NEW rules
  PROVE  merge_acl(b, apply_del(b, ov, rules)) = merge_acl(b, ov) \ rules
  BY DEF merge_acl, apply_del, Overlays

\* Repeating a request changes nothing: a client may retry one whose answer was
\* lost.
THEOREM RequestsAreIdempotent ==
  ASSUME NEW b, NEW R, NEW ov \in Overlays(R), NEW rules
  PROVE  /\ apply_add(b, apply_add(b, ov, rules), rules) = apply_add(b, ov, rules)
         /\ apply_del(b, apply_del(b, ov, rules), rules) = apply_del(b, ov, rules)
  BY DEF apply_add, apply_del, Overlays

\* Additions and suppressions never meet, and over an unchanged base the overlay
\* stays minimal: it adds nothing the base has and suppresses nothing else.
THEOREM OverlayStaysMinimal ==
  ASSUME NEW b, NEW R, NEW ov \in Overlays(R), NEW rules, Disjoint(ov)
  PROVE  /\ Disjoint(apply_add(b, ov, rules))
         /\ Disjoint(apply_del(b, ov, rules))
         /\ ov.add \cap b = {} /\ ov.del \subseteq b =>
              \A n \in {apply_add(b, ov, rules), apply_del(b, ov, rules)} :
                n.add \cap b = {} /\ n.del \subseteq b
  BY DEF apply_add, apply_del, Disjoint, Overlays

----------------------------------------------------------------------------
(* Requests and mutators *)

LEMMA RequestOps ==
  ASSUME NEW r \in Requests
  PROVE  /\ r.op \in {"put", "delete", "reseed", "patch", "add", "del"}
         /\ r # NoRequest
         /\ IsAcl(r) => r.kind \in Kinds /\ r.side \in Sides /\ r.rules \in SUBSET RawRules
         /\ ~IsAcl(r) => r.ip \in Ips \cup {Malformed}
         /\ r.op = "put" => /\ r.policy \in HashPolicies \cup {Omitted, Malformed}
                            /\ r.seed \in Seeds \cup {Omitted, Malformed}
         /\ r.op = "patch" => r.policy \in HashPolicies \cup {Malformed}
  BY DEF Requests, IsAcl, NoRequest

LEMMA ValidRequest ==
  ASSUME NEW r \in Requests, ~Invalid(r)
  PROVE  /\ IsAcl(r) => canon(r) \subseteq Rules
         /\ ~IsAcl(r) => r.ip \in Ips \ {Malformed}
         /\ r.op = "put" => r.policy # Malformed /\ r.seed # Malformed
         /\ r.op = "patch" => r.policy \in HashPolicies
  <1>1. CASE IsAcl(r)
    BY <1>1, RequestOps, CanonAssumption DEF Invalid, canon, IsAcl
  <1>2. CASE r.op = "put"
    <2>1. r \in [op : {"put"}, ip : Ips \cup {Malformed},
                 policy : HashPolicies \cup {Omitted, Malformed},
                 seed : Seeds \cup {Omitted, Malformed}]
      BY <1>2 DEF Requests
    <2>2. {"ip", "policy", "seed"} \subseteq DOMAIN r
      BY <2>1
    <2> QED BY <1>2, <2>1, <2>2 DEF Invalid, IsAcl
  <1>3. CASE r.op = "patch"
    <2>1. r \in [op : {"patch"}, ip : Ips \cup {Malformed},
                 policy : HashPolicies \cup {Malformed}]
      BY <1>3 DEF Requests
    <2>2. {"ip", "policy"} \subseteq DOMAIN r
      BY <2>1
    <2> QED BY <1>3, <2>1, <2>2 DEF Invalid, IsAcl
  <1>4. CASE r.op \in {"delete", "reseed"}
    <2>1. r \in [op : {"delete", "reseed"}, ip : Ips \cup {Malformed}]
      BY <1>4 DEF Requests
    <2>2. {"ip"} \subseteq DOMAIN r
      BY <2>1
    <2> QED BY <1>4, <2>1, <2>2 DEF Invalid, IsAcl
  <1> QED BY <1>1, <1>2, <1>3, <1>4, RequestOps DEF IsAcl

\* An overlay of the state file stays one.
LEMMA OverlayTyped ==
  ASSUME NEW b, NEW R, NEW ov \in Overlays(R), NEW rules \in SUBSET R
  PROVE  apply_add(b, ov, rules) \in Overlays(R) /\ apply_del(b, ov, rules) \in Overlays(R)
  BY DEF apply_add, apply_del, Overlays

\* What an ACL request does to the policies: one list of one ACL.
LEMMA AclMutation ==
  ASSUME NEW r \in Requests, IsAcl(r), ~Invalid(r), NEW body \in PolicyBodies
  PROVE  LET n == mutate_acl(body, r)
             b == base[r.kind][r.side]
         IN  /\ n \in PolicyBodies
             /\ n.bindings = body.bindings
             /\ n.acl[r.kind][r.side] =
                  IF r.op = "add" THEN apply_add(b, body.acl[r.kind][r.side], canon(r))
                  ELSE apply_del(b, body.acl[r.kind][r.side], canon(r))
             /\ \A k \in Kinds, s \in Sides :
                  k # r.kind \/ s # r.side => n.acl[k][s] = body.acl[k][s]
  <1> DEFINE ov == body.acl[r.kind][r.side]
             b == base[r.kind][r.side]
             new1 == IF r.op = "add" THEN apply_add(b, ov, canon(r)) ELSE apply_del(b, ov, canon(r))
  <1>0. r.kind \in Kinds /\ r.side \in Sides /\ canon(r) \subseteq Rules
    BY RequestOps, ValidRequest
  <1>1. /\ r.kind \in Kinds /\ r.side \in Sides /\ canon(r) \subseteq Rules
        /\ body.acl \in [Kinds -> [Sides -> Overlays(Rules \cup Junk)]]
        /\ ov \in Overlays(Rules \cup Junk)
    BY <1>0 DEF PolicyBodies
  <1>2. new1 \in Overlays(Rules \cup Junk)
    BY <1>1, OverlayTyped
  <1>3. mutate_acl(body, r) = [body EXCEPT !.acl[r.kind][r.side] = new1]
    BY <1>1 DEF mutate_acl, PolicyBodies
  <1> HIDE DEF new1, ov, b
  <1>4. /\ mutate_acl(body, r).bindings = body.bindings
        /\ mutate_acl(body, r).acl = [body.acl EXCEPT ![r.kind][r.side] = new1]
        /\ mutate_acl(body, r) \in PolicyBodies
    <2>1. [body.acl EXCEPT ![r.kind][r.side] = new1]
            \in [Kinds -> [Sides -> Overlays(Rules \cup Junk)]]
      BY <1>1, <1>2
    <2>2. mutate_acl(body, r) = [body EXCEPT !.acl = [body.acl EXCEPT ![r.kind][r.side] = new1]]
      BY <1>3 DEF PolicyBodies
    <2> QED BY <2>1, <2>2 DEF PolicyBodies
  <1>5. /\ mutate_acl(body, r).acl[r.kind][r.side] = new1
        /\ \A k \in Kinds, s \in Sides :
             k # r.kind \/ s # r.side => mutate_acl(body, r).acl[k][s] = body.acl[k][s]
    BY <1>1, <1>4
  <1> QED BY <1>4, <1>5 DEF new1, ov, b

\* The request and the input of a thread that has passed the checks.
Ready(t) == /\ req[t] \in Requests
            /\ ~Invalid(req[t])
            /\ req[t].op = "put" => input[t] \in Binding
            /\ req[t].op = "reseed" => input[t] \in Seeds

\* What a binding request does to the policies: it changes one binding, and only PUT
\* and DELETE change whether there is one.
LEMMA BindingMutation ==
  ASSUME NEW t \in Threads, Ready(t), ~IsAcl(req[t]), NEW body \in PolicyBodies
  PROVE  LET n == Mutated(t, body)
             i == req[t].ip
         IN  /\ n \in PolicyBodies
             /\ n.acl = body.acl
             /\ \A j \in Ips : j # i => n.bindings[j] = body.bindings[j]
             /\ req[t].op = "put" => n.bindings[i] # NoBinding
             /\ req[t].op = "delete" => n.bindings[i] = NoBinding
             /\ req[t].op \notin {"put", "delete"} =>
                  (n.bindings[i] = NoBinding <=> body.bindings[i] = NoBinding)
  <1> DEFINE i == req[t].ip
             B == Binding \cup {NoBinding}
  <1>1. /\ i \in Ips
        /\ body.bindings \in [Ips -> B]
        /\ req[t].op \in {"put", "delete", "patch", "reseed"}
        /\ req[t].op = "patch" => req[t].policy \in HashPolicies
    BY RequestOps, ValidRequest DEF Ready, PolicyBodies, IsAcl
  \* Every mutator sets one binding.
  <1>2. ASSUME NEW b \in B, Mutated(t, body) = [body EXCEPT !.bindings[i] = b]
        PROVE  /\ Mutated(t, body) \in PolicyBodies
               /\ Mutated(t, body).acl = body.acl
               /\ \A j \in Ips : j # i => Mutated(t, body).bindings[j] = body.bindings[j]
               /\ Mutated(t, body).bindings[i] = b
    <2>1. [body.bindings EXCEPT ![i] = b] \in [Ips -> B]
      BY <1>1, <1>2
    <2>2. Mutated(t, body) = [body EXCEPT !.bindings = [body.bindings EXCEPT ![i] = b]]
      BY <1>2 DEF PolicyBodies
    <2>3. /\ Mutated(t, body).acl = body.acl
          /\ Mutated(t, body).bindings = [body.bindings EXCEPT ![i] = b]
      BY <2>2 DEF PolicyBodies
    <2> QED BY <1>1, <2>1, <2>2, <2>3 DEF PolicyBodies
  <1>3. CASE req[t].op = "put"
    <2>1. Mutated(t, body) = [body EXCEPT !.bindings[i] = input[t]]
      BY <1>3 DEF Mutated, put_binding
    <2> QED BY <1>2, <1>3, <2>1, BindingAssumption DEF Ready
  <1>4. CASE req[t].op = "delete"
    <2>1. Mutated(t, body) = [body EXCEPT !.bindings[i] = NoBinding]
      BY <1>4 DEF Mutated, delete_binding
    <2> QED BY <1>2, <1>4, <2>1
  <1>5. CASE req[t].op = "patch"
    <2>1. Mutated(t, body) = patch_hash_policy(body, i, req[t].policy)
      BY <1>5 DEF Mutated
    <2>2. CASE body.bindings[i] = NoBinding
      BY <1>1, <1>5, <2>1, <2>2 DEF patch_hash_policy
    <2>3. CASE body.bindings[i] # NoBinding
      <3>1. body.bindings[i] \in Binding
        BY <1>1, <2>3
      <3>2. [body.bindings[i] EXCEPT !.policy = req[t].policy] \in Binding
        BY <1>1, <1>5, <3>1 DEF Binding
      <3>3. Mutated(t, body) =
              [body EXCEPT !.bindings[i] = [body.bindings[i] EXCEPT !.policy = req[t].policy]]
        BY <1>1, <2>1, <2>3 DEF patch_hash_policy, PolicyBodies
      <3> QED BY <1>2, <1>5, <2>3, <3>2, <3>3, BindingAssumption
    <2> QED BY <2>2, <2>3
  <1>6. CASE req[t].op = "reseed"
    <2>1. Mutated(t, body) = reseed(body, i, input[t])
      BY <1>6 DEF Mutated
    <2>2. CASE body.bindings[i] = NoBinding
      BY <1>1, <1>6, <2>1, <2>2 DEF reseed
    <2>3. CASE body.bindings[i] # NoBinding
      <3>1. body.bindings[i] \in Binding
        BY <1>1, <2>3
      <3>2. [body.bindings[i] EXCEPT !.seed = input[t]] \in Binding
        BY <1>6, <3>1 DEF Binding, Ready
      <3>3. Mutated(t, body) =
              [body EXCEPT !.bindings[i] = [body.bindings[i] EXCEPT !.seed = input[t]]]
        BY <1>1, <2>1, <2>3 DEF reseed, PolicyBodies
      <3> QED BY <1>2, <1>6, <2>3, <3>2, <3>3, BindingAssumption
    <2> QED BY <2>2, <2>3
  <1> QED BY <1>1, <1>3, <1>4, <1>5, <1>6

\* Whatever the request, the mutator makes policies of policies.
LEMMA MutatedTyped ==
  ASSUME NEW t \in Threads, Ready(t), NEW body \in PolicyBodies
  PROVE  Mutated(t, body) \in PolicyBodies
  <1>1. CASE IsAcl(req[t])
    <2>1. Mutated(t, body) = mutate_acl(body, req[t])
      BY <1>1 DEF Mutated, IsAcl
    <2> QED BY <1>1, <2>1, AclMutation DEF Ready
  <1>2. CASE ~IsAcl(req[t])
    BY <1>2, BindingMutation
  <1> QED BY <1>1, <1>2

\* What a request makes of a list in effect: the one it names gains or loses its
\* rules, the others are as before.
ListFollows(t, k, s, body, n) ==
    LET old == merge_acl(base[k][s], body.acl[k][s])
        cur == merge_acl(base[k][s], n.acl[k][s])
        named == IsAcl(req[t]) /\ req[t].kind = k /\ req[t].side = s
    IN  /\ ~named => n.acl[k][s] = body.acl[k][s]
        /\ named /\ req[t].op = "add" => cur = old \cup canon(req[t])
        /\ named /\ req[t].op = "del" => cur = old \ canon(req[t])

LEMMA MutatedLists ==
  ASSUME NEW t \in Threads, Ready(t), NEW body \in PolicyBodies,
         NEW k \in Kinds, NEW s \in Sides
  PROVE  ListFollows(t, k, s, body, Mutated(t, body))
  <1> USE DEF ListFollows
  <1>1. CASE IsAcl(req[t])
    <2>1. Mutated(t, body) = mutate_acl(body, req[t])
      BY <1>1 DEF Mutated, IsAcl
    <2>2. body.acl[k][s] \in Overlays(Rules \cup Junk)
      BY DEF PolicyBodies
    <2>3. CASE req[t].kind = k /\ req[t].side = s
      <3> DEFINE ov == body.acl[k][s]
                 new1 == mutate_acl(body, req[t]).acl[k][s]
      <3>1. new1 = IF req[t].op = "add" THEN apply_add(base[k][s], ov, canon(req[t]))
                   ELSE apply_del(base[k][s], ov, canon(req[t]))
        BY <1>1, <2>3, AclMutation DEF Ready
      <3> HIDE DEF new1, ov
      <3>2. ov \in Overlays(Rules \cup Junk)
        BY <2>2 DEF ov
      <3>3. /\ req[t].op = "add" => merge_acl(base[k][s], new1) =
                                      merge_acl(base[k][s], ov) \cup canon(req[t])
            /\ req[t].op = "del" => merge_acl(base[k][s], new1) =
                                      merge_acl(base[k][s], ov) \ canon(req[t])
        <4>1. merge_acl(base[k][s], apply_add(base[k][s], ov, canon(req[t]))) =
                merge_acl(base[k][s], ov) \cup canon(req[t])
          BY <3>2 DEF merge_acl, apply_add, Overlays
        <4>2. merge_acl(base[k][s], apply_del(base[k][s], ov, canon(req[t]))) =
                merge_acl(base[k][s], ov) \ canon(req[t])
          BY <3>2, DelMakesIneffective
        <4> QED BY <3>1, <4>1, <4>2
      <3> QED BY <1>1, <2>1, <2>3, <3>3 DEF ov, new1
    <2>4. CASE req[t].kind # k \/ req[t].side # s
      BY <1>1, <2>1, <2>4, AclMutation DEF Ready
    <2> QED BY <2>3, <2>4
  <1>2. CASE ~IsAcl(req[t])
    BY <1>2, BindingMutation
  <1> QED BY <1>1, <1>2

----------------------------------------------------------------------------
(* The store under the handlers *)

\* Every step of the API is a step of the store or leaves it alone.
LEMMA StepsOfStore ==
  ASSUME ApiTypeOK, Passed, Phases, [ApiNext]_apiVars
  PROVE  [Next]_vars
  <1>1. ASSUME NEW t \in Threads, Apply(t) PROVE Next
    <2>1. Ready(t)
      BY <1>1 DEF Apply, Passed, Phases, Ready, ApiTypeOK
    <2>2. policies.body \in PolicyBodies
      BY StoreAssumption DEF ApiTypeOK, TypeOK, Snapshots
    <2>3. Mutated(t, policies.body) \in Bodies
      BY <2>1, <2>2, MutatedTyped, StoreAssumption
    <2> QED BY <1>1, <2>3 DEF Apply, Next
  <1>2. ASSUME NEW t \in Threads, Save(t) PROVE Next
    BY <1>2 DEF Save, Next
  <1>3. ASSUME NEW t \in Threads, Finish(t) \/ RebuildLoad(t) PROVE Next
    BY <1>3 DEF Finish, RebuildLoad, Next
  <1>4. ASSUME ApiStart \/ ApiCrash PROVE Next
    BY <1>4 DEF ApiStart, ApiCrash, Next, Environment
  <1>5. ASSUME NEW t \in Threads,
               Submit(t) \/ BadRequest(t) \/ NotFound(t) \/ Checked(t) \/ RebuildStore(t)
        PROVE  UNCHANGED vars
    BY <1>5 DEF Submit, BadRequest, NotFound, Checked, RebuildStore
  <1>6. CASE UNCHANGED apiVars
    BY <1>6 DEF apiVars
  <1> QED BY <1>1, <1>2, <1>3, <1>4, <1>5, <1>6 DEF ApiNext, Handle

\* What the handlers rely on, in one place.
LEMMA StoreFacts ==
  ASSUME IInv
  PROVE  /\ TypeOK
         /\ \A t, u \in Threads : pc[t] \in Critical /\ pc[u] \in Critical => t = u
         /\ ~up => \A t \in Threads : pc[t] = "idle"
         /\ \A t \in Threads : pc[t] \in Critical => new[t] \in Snapshots
         /\ \A t \in Threads : pc[t] \in Renamed => file.data = new[t]
         /\ up /\ (\A t \in Threads : pc[t] \notin Renamed) => policies = Loaded(file.data)
         /\ Loaded(file.data) \in Snapshots
  <1>1. /\ TypeOK /\ LockOwner /\ DownIsIdle /\ Progress /\ MemoryMatchesFile
        /\ NeverCorrupt
    BY DEF IInv
  <1>3. \A t, u \in Threads : pc[t] \in Critical /\ pc[u] \in Critical => t = u
    BY <1>1 DEF LockOwner
  <1>4. /\ \A t \in Threads : pc[t] \in Critical => new[t] \in Snapshots
        /\ \A t \in Threads : pc[t] \in Renamed => file.data = new[t]
        /\ \A t \in Threads : pc[t] \in Saving => policies = Loaded(file.data)
    BY <1>1 DEF Progress
  <1>5. ASSUME up, \A t \in Threads : pc[t] \notin Renamed
        PROVE  policies = Loaded(file.data)
    <2>1. CASE lock = NoThread
      BY <1>1, <1>5, <2>1 DEF MemoryMatchesFile
    <2>2. CASE lock \in Threads
      BY <1>1, <1>4, <1>5, <2>2 DEF LockOwner, Critical
    <2> QED BY <1>1, <2>1, <2>2 DEF TypeOK
  <1>6. Loaded(file.data) \in Snapshots
    BY <1>1, LoadedIsSnapshot DEF TypeOK, NeverCorrupt
  <1> QED BY <1>1, <1>3, <1>4, <1>5, <1>6 DEF DownIsIdle

----------------------------------------------------------------------------
(* Types, program counters and checks *)

Control == ApiTypeOK /\ Phases /\ Passed

LEMMA EmptyBodyTyped == EmptyBody \in PolicyBodies
  <1>1. EmptyOverlay \in Overlays(Rules \cup Junk)
    BY DEF EmptyOverlay, Overlays
  <1> QED BY <1>1 DEF EmptyBody, PolicyBodies

LEMMA BodyTyped ==
  ASSUME NEW p \in Snapshots
  PROVE  /\ p.body \in PolicyBodies
         /\ \A k \in Kinds : p.body.acl[k] \in [Sides -> Overlays(Rules \cup Junk)]
         /\ \A i \in Ips : p.body.bindings[i] \in Binding \cup {NoBinding}
  BY StoreAssumption DEF Snapshots, PolicyBodies

\* A filter holds rules and builtin networks only, whatever the state file held.
LEMMA BuildTyped ==
  ASSUME NEW k \in Kinds, NEW b \in [Sides -> SUBSET Rules],
         NEW acl \in [Sides -> Overlays(Rules \cup Junk)]
  PROVE  Build(k, b, acl) \in [Sides -> SUBSET (Rules \cup BuiltinDeny)]
  <1>1. ASSUME NEW s \in Sides PROVE merge_acl(b[s], acl[s]) \ Junk \subseteq Rules
    BY DEF merge_acl, Overlays
  <1> QED BY <1>1 DEF Build, BuildDomain, BuildEgress

LEMMA InitControl == ApiInit => Control
  <1> SUFFICES ASSUME ApiInit PROVE Control
    OBVIOUS
  <1>1. TypeOK /\ up = FALSE /\ pc = [t \in Threads |-> "idle"]
    BY InitIInv DEF ApiInit, Init, IInv
  <1>2. ApiTypeOK
    BY <1>1 DEF ApiInit, ApiTypeOK, Idle, NoFilter
  <1>3. Phases /\ Passed
    BY <1>1 DEF ApiInit, Phases, Passed, Idle
  <1> QED BY <1>2, <1>3 DEF Control

\* A thread that answers is at rest, and no other is concerned.
LEMMA AnswerControl ==
  ASSUME Control, TypeOK', NEW t \in Threads, Answer(t), up' = up,
         pc' = [pc EXCEPT ![t] = "idle"],
         base' = base, intent' = intent,
         filter' \in [Kinds -> [Sides -> SUBSET (Rules \cup BuiltinDeny)]],
         panicked' \in BOOLEAN
  PROVE  Control'
  <1>1. ApiTypeOK'
    BY DEF Control, ApiTypeOK, Answer
  <1>2. /\ hpc'[t] = "idle" /\ req'[t] = NoRequest /\ pc'[t] = "idle"
        /\ \A u \in Threads \ {t} : /\ hpc'[u] = hpc[u] /\ req'[u] = req[u]
                                    /\ input'[u] = input[u] /\ snap'[u] = snap[u]
                                    /\ pc'[u] = pc[u]
    BY DEF Control, ApiTypeOK, TypeOK, Answer
  <1>3. Phases'
    BY <1>2 DEF Control, Phases
  <1>4. Passed'
    BY <1>2 DEF Control, Passed
  <1> QED BY <1>1, <1>3, <1>4 DEF Control

LEMMA SubmitControl ==
  ASSUME Control, TypeOK', NEW t \in Threads, Submit(t)
  PROVE  Control'
  <1>1. PICK r \in Serves[t] : req' = [req EXCEPT ![t] = r]
    BY DEF Submit
  <1>2. r \in Requests /\ r # NoRequest
    BY ServesAssumption, RequestOps
  <1>3. /\ hpc' = [hpc EXCEPT ![t] = "check"] /\ hpc[t] = "idle" /\ up
        /\ UNCHANGED <<up, pc, input, snap, base, filter, panicked, intent>>
    BY DEF Submit, vars
  <1>4. ApiTypeOK'
    BY <1>1, <1>2, <1>3 DEF Control, ApiTypeOK
  <1>5. Phases'
    BY <1>1, <1>2, <1>3 DEF Control, ApiTypeOK, Phases
  <1>6. Passed'
    BY <1>1, <1>3 DEF Control, ApiTypeOK, Passed
  <1> QED BY <1>4, <1>5, <1>6 DEF Control

\* What put_binding captures is a binding.
LEMMA PutInputTyped ==
  ASSUME ApiTypeOK, NEW r \in Requests, r.op = "put", ~Invalid(r)
  PROVE  PutInput(r) \in Binding
  <1>1. /\ r.ip \in Ips
        /\ r.policy \in HashPolicies \cup {Omitted} /\ r.seed \in Seeds \cup {Omitted}
    BY RequestOps, ValidRequest DEF IsAcl
  <1>2. Get(r.ip) \in Binding \cup {NoBinding}
    BY <1>1, BodyTyped DEF ApiTypeOK, TypeOK, Get
  <1> QED BY <1>1, <1>2, DefaultAssumption DEF PutInput, Binding

LEMMA CheckedControl ==
  ASSUME Control, TypeOK', NEW t \in Threads, Checked(t)
  PROVE  Control'
  <1>1. /\ hpc' = [hpc EXCEPT ![t] = "apply"] /\ hpc[t] = "check" /\ ~Invalid(req[t])
        /\ UNCHANGED <<up, pc, req, snap, base, filter, panicked, intent>>
    BY DEF Checked, vars
  <1>2. req[t] \in Requests
    BY <1>1 DEF Control, ApiTypeOK, Phases
  <1>3. \/ req[t].op = "put" /\ input' = [input EXCEPT ![t] = PutInput(req[t])]
        \/ req[t].op = "reseed" /\ \E s \in Seeds : input' = [input EXCEPT ![t] = s]
        \/ req[t].op \notin {"put", "reseed"} /\ input' = input
    BY DEF Checked
  <1>4. /\ input' \in [Threads -> Binding \cup Seeds \cup {Omitted}]
        /\ req[t].op = "put" => input'[t] \in Binding
        /\ req[t].op = "reseed" => input'[t] \in Seeds
        /\ \A u \in Threads \ {t} : input'[u] = input[u]
    BY <1>1, <1>2, <1>3, PutInputTyped DEF Control, ApiTypeOK
  <1>5. ApiTypeOK'
    BY <1>1, <1>4 DEF Control, ApiTypeOK
  <1>6. Phases'
    BY <1>1 DEF Control, ApiTypeOK, Phases
  <1>7. Passed'
    BY <1>1, <1>4 DEF Control, ApiTypeOK, Passed
  <1> QED BY <1>5, <1>6, <1>7 DEF Control

LEMMA ApplyControl ==
  ASSUME Control, TypeOK', NEW t \in Threads, Apply(t)
  PROVE  Control'
  <1>1. /\ hpc' = [hpc EXCEPT ![t] = "save"] /\ hpc[t] = "apply"
        /\ pc' = [pc EXCEPT ![t] = "locked"]
        /\ UNCHANGED <<up, req, input, snap, base, filter, panicked, intent>>
    BY DEF Apply, Lock
  <1>2. ApiTypeOK'
    BY <1>1 DEF Control, ApiTypeOK
  <1>3. Phases'
    BY <1>1 DEF Control, ApiTypeOK, TypeOK, Phases
  <1>4. Passed'
    BY <1>1 DEF Control, ApiTypeOK, Passed
  <1> QED BY <1>2, <1>3, <1>4 DEF Control

\* A step inside apply_and_save moves the thread to another place inside.
LEMMA StepStaysInside ==
  ASSUME TypeOK, NEW t \in Threads, Step(t)
  PROVE  /\ pc[t] \in Critical /\ pc'[t] \in Critical \cup Returned
         /\ \A u \in Threads \ {t} : pc'[u] = pc[u]
         /\ up' = up
         /\ pc'[t] = "ok" <=> Publish(t)
         /\ ~Publish(t) => policies' = policies
         /\ pc'[t] # "err" => new' = new
         /\ \A u \in Threads \ {t} : new'[u] = new[u]
  <1> USE DEF Critical, Saving, Renamed, Returned, TypeOK
  <1>1. CASE WriteTmp(t)
    BY <1>1 DEF WriteTmp, Publish
  <1>2. CASE FsyncTmp(t)
    BY <1>2 DEF FsyncTmp, Publish
  <1>3. CASE RenameTmp(t)
    BY <1>3 DEF RenameTmp, Publish
  <1>4. CASE SaveFails(t)
    BY <1>4 DEF SaveFails, Publish
  <1>5. CASE SyncDir(t)
    BY <1>5 DEF SyncDir, Publish
  <1>6. CASE Publish(t)
    BY <1>6 DEF Publish
  <1> QED BY <1>1, <1>2, <1>3, <1>4, <1>5, <1>6 DEF Step

LEMMA SaveControl ==
  ASSUME Control, TypeOK', NEW t \in Threads, Save(t)
  PROVE  Control'
  <1>1. /\ hpc[t] = "save" /\ Step(t)
        /\ UNCHANGED <<hpc, req, input, snap, base, filter, panicked>>
    BY DEF Save, taskVars
  <1>2. /\ pc'[t] # "idle" /\ up' = up
        /\ \A u \in Threads \ {t} : pc'[u] = pc[u]
    BY <1>1, StepStaysInside
    DEF Control, ApiTypeOK, Critical, Saving, Renamed, Returned
  <1>3. intent' \in [Kinds -> [Sides -> [Rules -> {"any", "in", "out"}]]]
    <2>1. CASE pc'[t] = "ok" /\ IsAcl(req[t])
      <3> DEFINE k == req[t].kind
                 s == req[t].side
                 f == [r \in Rules |-> IF r \notin canon(req[t]) THEN intent[k][s][r]
                                       ELSE IF req[t].op = "add" THEN "in" ELSE "out"]
      <3>1. k \in Kinds /\ s \in Sides
        BY <1>1, <2>1, RequestOps DEF Control, ApiTypeOK, Phases
      <3>2. f \in [Rules -> {"any", "in", "out"}]
        BY <3>1 DEF Control, ApiTypeOK
      <3>3. intent' = [intent EXCEPT ![k][s] = f]
        BY <2>1, <3>1 DEF Save, Control, ApiTypeOK
      <3> HIDE DEF f, k, s
      <3> QED BY <3>1, <3>2, <3>3 DEF Control, ApiTypeOK
    <2>2. CASE ~(pc'[t] = "ok" /\ IsAcl(req[t]))
      BY <2>2 DEF Save, Control, ApiTypeOK
    <2> QED BY <2>1, <2>2
  <1>4. ApiTypeOK'
    BY <1>1, <1>3 DEF Control, ApiTypeOK
  <1>5. Phases'
    BY <1>1, <1>2 DEF Control, Phases
  <1>6. Passed'
    BY <1>1 DEF Control, Passed
  <1> QED BY <1>4, <1>5, <1>6 DEF Control

LEMMA FinishControl ==
  ASSUME Control, TypeOK', NEW t \in Threads, Finish(t)
  PROVE  Control'
  <1>1. /\ Answer(t) /\ up' = up /\ pc' = [pc EXCEPT ![t] = "idle"]
        /\ UNCHANGED <<base, filter, intent>>
    BY DEF Finish, Return
  <1>2. panicked' \in BOOLEAN
    BY DEF Finish
  <1> QED BY <1>1, <1>2, AnswerControl DEF Control, ApiTypeOK

LEMMA RebuildLoadControl ==
  ASSUME Control, TypeOK', NEW t \in Threads, RebuildLoad(t)
  PROVE  Control'
  <1>1. /\ hpc' = [hpc EXCEPT ![t] = "store"] /\ hpc[t] = "save"
        /\ pc' = [pc EXCEPT ![t] = "idle"] /\ IsAcl(req[t])
        /\ snap' = [snap EXCEPT ![t] = policies.body.acl[req[t].kind]]
        /\ UNCHANGED <<up, req, input, base, filter, panicked, intent>>
    BY DEF RebuildLoad, Return
  <1>2. req[t] \in Requests /\ req[t].kind \in Kinds
    BY <1>1, RequestOps DEF Control, ApiTypeOK, Phases
  <1>3. policies.body.acl[req[t].kind] \in [Sides -> Overlays(Rules \cup Junk)]
    BY <1>2, BodyTyped DEF Control, ApiTypeOK, TypeOK
  <1>4. ApiTypeOK'
    BY <1>1, <1>3 DEF Control, ApiTypeOK
  <1>5. Phases'
    BY <1>1 DEF Control, ApiTypeOK, TypeOK, Phases
  <1>6. Passed'
    BY <1>1, <1>3 DEF Control, ApiTypeOK, Passed
  <1> QED BY <1>4, <1>5, <1>6 DEF Control

LEMMA RebuildStoreControl ==
  ASSUME Control, TypeOK', NEW t \in Threads, RebuildStore(t)
  PROVE  Control'
  <1> DEFINE k == req[t].kind
  <1>1. /\ Answer(t) /\ UNCHANGED <<up, pc, base, panicked, intent>> /\ hpc[t] = "store"
        /\ filter' = [filter EXCEPT ![k] = Build(k, base[k], snap[t])]
    BY DEF RebuildStore, vars
  <1>2. /\ req[t] \in Requests /\ k \in Kinds
        /\ snap[t] \in [Sides -> Overlays(Rules \cup Junk)]
    BY <1>1, RequestOps DEF Control, ApiTypeOK, Phases, Passed
  <1>3. Build(k, base[k], snap[t]) \in [Sides -> SUBSET (Rules \cup BuiltinDeny)]
    BY <1>2, BuildTyped DEF Control, ApiTypeOK
  <1>4. filter' \in [Kinds -> [Sides -> SUBSET (Rules \cup BuiltinDeny)]]
    BY <1>1, <1>2, <1>3 DEF Control, ApiTypeOK
  <1>5. pc' = [pc EXCEPT ![t] = "idle"]
    BY <1>1 DEF Control, ApiTypeOK, TypeOK, Phases
  <1> HIDE DEF k
  <1> QED BY <1>1, <1>4, <1>5, AnswerControl DEF Control, ApiTypeOK

\* 400 and 404.
LEMMA RefusedControl ==
  ASSUME Control, TypeOK', NEW t \in Threads, BadRequest(t) \/ NotFound(t)
  PROVE  Control'
  <1>1. /\ Answer(t) /\ UNCHANGED <<up, pc, base, filter, panicked, intent>>
        /\ hpc[t] = "check"
    BY DEF BadRequest, NotFound, vars
  <1>2. pc' = [pc EXCEPT ![t] = "idle"]
    BY <1>1 DEF Control, ApiTypeOK, TypeOK, Phases
  <1> QED BY <1>1, <1>2, AnswerControl DEF Control, ApiTypeOK

LEMMA CanonicalTyped ==
  ASSUME NEW b \in Bases
  PROVE  Canonical(b) \in [Kinds -> [Sides -> SUBSET Rules]]
  BY BaseAssumption, CanonAssumption DEF Canonical

LEMMA StartControl ==
  ASSUME Control, TypeOK', ApiStart
  PROVE  Control'
  <1>1. /\ ~up /\ up' = TRUE /\ UNCHANGED <<pc, hpc, req, input, snap, panicked>>
    BY DEF ApiStart, Start, taskVars
  <1>2. base' \in [Kinds -> [Sides -> SUBSET Rules]]
    BY CanonicalTyped DEF ApiStart
  <1>3. \A k \in Kinds : policies'.body.acl[k] \in [Sides -> Overlays(Rules \cup Junk)]
    BY BodyTyped DEF TypeOK
  <1>4. filter' \in [Kinds -> [Sides -> SUBSET (Rules \cup BuiltinDeny)]]
    BY <1>2, <1>3, BuildTyped DEF ApiStart
  <1>5. intent' \in [Kinds -> [Sides -> [Rules -> {"any", "in", "out"}]]]
    BY DEF ApiStart, Control, ApiTypeOK
  <1>6. ApiTypeOK'
    BY <1>1, <1>2, <1>4, <1>5 DEF Control, ApiTypeOK
  <1>7. Phases' /\ Passed'
    BY <1>1 DEF Control, Phases, Passed
  <1> QED BY <1>6, <1>7 DEF Control

LEMMA CrashControl ==
  ASSUME Control, TypeOK', ApiCrash
  PROVE  Control'
  <1>1. /\ pc' = [t \in Threads |-> "idle"] /\ hpc' = Idle
        /\ req' = [t \in Threads |-> NoRequest] /\ input' = [t \in Threads |-> Omitted]
        /\ snap' = [t \in Threads |-> Omitted] /\ UNCHANGED <<base, filter, panicked>>
    BY DEF ApiCrash, Crash, Stop
  <1>2. intent' \in [Kinds -> [Sides -> [Rules -> {"any", "in", "out"}]]]
    BY DEF ApiCrash, Control, ApiTypeOK
  <1>3. ApiTypeOK'
    BY <1>1, <1>2 DEF Control, ApiTypeOK, Idle
  <1>4. Phases' /\ Passed'
    BY <1>1 DEF Phases, Passed, Idle
  <1> QED BY <1>3, <1>4 DEF Control

LEMMA NextControl ==
  ASSUME Control, TypeOK', [ApiNext]_apiVars
  PROVE  Control'
  <1>1. CASE UNCHANGED apiVars
    BY <1>1 DEF apiVars, taskVars, vars, Control, ApiTypeOK, Phases, Passed
  <1> QED
    BY <1>1, SubmitControl, CheckedControl, ApplyControl, SaveControl, FinishControl,
       RebuildLoadControl, RebuildStoreControl, RefusedControl, StartControl, CrashControl
    DEF ApiNext, Handle

----------------------------------------------------------------------------
(* The update under the lock, and what was acknowledged *)

\* A mutator looks at its request, its input, the base lists and the policies.
LEMMA SameMutation ==
  ASSUME NEW t \in Threads, req'[t] = req[t], input'[t] = input[t],
         base' = base, policies' = policies
  PROVE  Mutated(t, policies.body)' = Mutated(t, policies.body)
  BY DEF Mutated, mutate_acl, put_binding, delete_binding, patch_hash_policy, reseed

\* A handler outside apply_and_save cannot disturb the one that holds the lock.
LEMMA NextNewIsMutated ==
  ASSUME ApiIInv, [ApiNext]_apiVars
  PROVE  NewIsMutated'
  <1> SUFFICES ASSUME NEW u \in Threads, pc'[u] \in Critical
               PROVE  new'[u].body = Mutated(u, policies.body)'
    BY DEF NewIsMutated
  <1> USE DEF ApiIInv
  <1>1. ASSUME pc[u] = pc'[u], new'[u] = new[u], req'[u] = req[u], input'[u] = input[u],
               base' = base, policies' = policies
        PROVE  new'[u].body = Mutated(u, policies.body)'
    BY <1>1, SameMutation DEF NewIsMutated
  <1>2. ASSUME NEW t \in Threads, Apply(t)
        PROVE  new'[u].body = Mutated(u, policies.body)'
    <2>1. /\ lock = NoThread /\ UNCHANGED <<policies, req, input, base>>
          /\ pc' = [pc EXCEPT ![t] = "locked"]
          /\ new'[t].body = Mutated(t, policies.body)
      BY <1>2 DEF Apply, Lock, ApiTypeOK, TypeOK
    <2>2. u = t
      BY <2>1, SentinelAssumption DEF ApiTypeOK, TypeOK, IInv, LockOwner
    <2> QED BY <2>1, <2>2, SameMutation
  <1>3. ASSUME NEW t \in Threads, Save(t)
        PROVE  new'[u].body = Mutated(u, policies.body)'
    <2>1. Step(t) /\ UNCHANGED <<req, input, base>>
      BY <1>3 DEF Save, taskVars
    <2>2. u = t
      BY <2>1, StepStaysInside, StoreFacts
    <2>3. pc'[t] # "ok" /\ pc'[t] # "err"
      BY <2>2 DEF Critical, Saving, Renamed
    <2>4. pc[t] \in Critical /\ new' = new /\ policies' = policies
      BY <2>1, <2>3, StepStaysInside, StoreFacts
    <2>5. new[u].body = Mutated(u, policies.body)
      BY <2>2, <2>4 DEF NewIsMutated
    <2> QED BY <2>1, <2>4, <2>5, SameMutation
  <1>4. ASSUME NEW t \in Threads, Finish(t) \/ RebuildLoad(t)
        PROVE  new'[u].body = Mutated(u, policies.body)'
    <2>1. /\ pc' = [pc EXCEPT ![t] = "idle"] /\ new' = [new EXCEPT ![t] = Absent]
          /\ UNCHANGED <<policies, base>>
          /\ \A v \in Threads \ {t} : req'[v] = req[v] /\ input'[v] = input[v]
      BY <1>4 DEF Finish, RebuildLoad, Return, Answer, ApiTypeOK
    <2>2. u # t
      BY <2>1 DEF ApiTypeOK, TypeOK, Critical, Saving, Renamed
    <2> QED BY <1>1, <2>1, <2>2 DEF ApiTypeOK, TypeOK
  <1>5. ASSUME NEW t \in Threads,
               Submit(t) \/ BadRequest(t) \/ NotFound(t) \/ Checked(t) \/ RebuildStore(t)
        PROVE  new'[u].body = Mutated(u, policies.body)'
    <2>1. hpc[t] # "save" /\ UNCHANGED <<pc, new, policies, base>>
      BY <1>5 DEF Submit, BadRequest, NotFound, Checked, RebuildStore, vars
    <2>2. \A v \in Threads \ {t} : req'[v] = req[v] /\ input'[v] = input[v]
      BY <1>5 DEF Submit, BadRequest, NotFound, Checked, RebuildStore, Answer, ApiTypeOK
    <2>3. u # t
      BY <2>1 DEF Phases, Critical, Saving, Renamed
    <2> QED BY <1>1, <2>1, <2>2, <2>3
  <1>6. ASSUME ApiStart \/ ApiCrash
        PROVE  new'[u].body = Mutated(u, policies.body)'
    BY <1>6, StoreFacts
    DEF ApiStart, Start, ApiCrash, Crash, Stop, Critical, Saving, Renamed
  <1>7. CASE UNCHANGED apiVars
    BY <1>1, <1>7 DEF apiVars, taskVars, vars
  <1> QED BY <1>2, <1>3, <1>4, <1>5, <1>6, <1>7 DEF ApiNext, Handle

\* Nothing that was said of a rule changes, and neither does what a reader finds.
LEMMA SameIntent ==
  ASSUME IntentKept, intent' = intent, base' = base, Current' = Current
  PROVE  IntentKept'
  BY DEF IntentKept

\* The request of the thread that renamed the file decides the rules it names and
\* no others.
LEMMA SettledRules ==
  ASSUME ApiIInv, NEW t \in Threads, pc[t] \in Renamed, NEW k \in Kinds, NEW s \in Sides,
         NEW r \in Rules
  PROVE  LET now == merge_acl(base[k][s], new[t].body.acl[k][s])
             named == /\ IsAcl(req[t]) /\ req[t].kind = k /\ req[t].side = s
                      /\ r \in canon(req[t])
         IN  /\ named /\ req[t].op = "add" => r \in now
             /\ named /\ req[t].op = "del" => r \notin now
             /\ ~named => Agrees(intent[k][s][r], r, now)
  <1>1. up /\ hpc[t] = "save" /\ Ready(t)
    BY DEF ApiIInv, ApiTypeOK, Phases, Passed, Ready, Renamed
  <1>2. policies.body \in PolicyBodies /\ new[t].body = Mutated(t, policies.body)
    BY BodyTyped DEF ApiIInv, ApiTypeOK, TypeOK, NewIsMutated, Critical
  <1>3. Agrees(intent[k][s][r], r, merge_acl(base[k][s], policies.body.acl[k][s]))
    BY <1>1 DEF ApiIInv, IntentKept, Current
  <1> DEFINE old == merge_acl(base[k][s], policies.body.acl[k][s])
             now == merge_acl(base[k][s], new[t].body.acl[k][s])
             aimed == IsAcl(req[t]) /\ req[t].kind = k /\ req[t].side = s
  <1>4. /\ ~aimed => new[t].body.acl[k][s] = policies.body.acl[k][s]
        /\ aimed /\ req[t].op = "add" => now = old \cup canon(req[t])
        /\ aimed /\ req[t].op = "del" => now = old \ canon(req[t])
    <2>1. ListFollows(t, k, s, policies.body, new[t].body)
      BY <1>1, <1>2, MutatedLists
    <2> QED BY <2>1 DEF ListFollows
  <1>5. ~aimed => now = old
    BY <1>4
  <1> HIDE DEF now, old
  <1>6. /\ aimed /\ r \in canon(req[t]) /\ req[t].op = "add" => r \in now
        /\ aimed /\ r \in canon(req[t]) /\ req[t].op = "del" => r \notin now
        /\ ~(aimed /\ r \in canon(req[t])) => (r \in now <=> r \in old)
    BY <1>4, <1>5 DEF IsAcl
  <1>7. Agrees(intent[k][s][r], r, old)
    BY <1>3 DEF old
  <1>8. ~(aimed /\ r \in canon(req[t])) => Agrees(intent[k][s][r], r, now)
    BY <1>6, <1>7 DEF Agrees
  <1> QED BY <1>6, <1>8 DEF now

LEMMA PublishIntent ==
  ASSUME ApiIInv, NEW t \in Threads, Save(t), Publish(t), ApiTypeOK'
  PROVE  IntentKept'
  <1> SUFFICES ASSUME NEW k \in Kinds, NEW s \in Sides, NEW r \in Rules
               PROVE  Agrees(intent'[k][s][r], r,
                             merge_acl(base'[k][s], Current'.body.acl[k][s]))
    BY DEF IntentKept
  <1> DEFINE named == /\ IsAcl(req[t]) /\ req[t].kind = k /\ req[t].side = s
                      /\ r \in canon(req[t])
  <1>1. /\ pc[t] \in Renamed /\ pc'[t] = "ok" /\ base' = base /\ up' = up
        /\ policies' = new[t] /\ hpc[t] = "save"
    BY DEF Save, Publish, Renamed, ApiIInv, ApiTypeOK, TypeOK
  <1>2. up /\ Current' = new[t] /\ req[t] \in Requests
    BY <1>1 DEF ApiIInv, ApiTypeOK, Phases, Current
  <1>3. intent'[k][s][r] = IF named THEN (IF req[t].op = "add" THEN "in" ELSE "out")
                           ELSE intent[k][s][r]
    <2>1. CASE IsAcl(req[t])
      <3> DEFINE f == [q \in Rules |->
                         IF q \notin canon(req[t]) THEN intent[req[t].kind][req[t].side][q]
                         ELSE IF req[t].op = "add" THEN "in" ELSE "out"]
      <3>1. req[t].kind \in Kinds /\ req[t].side \in Sides
        BY <1>2, <2>1, RequestOps
      <3>2. intent' = [intent EXCEPT ![req[t].kind][req[t].side] = f]
        BY <1>1, <2>1, <3>1 DEF Save, ApiIInv, ApiTypeOK
      <3>3. f[r] = IF r \notin canon(req[t]) THEN intent[req[t].kind][req[t].side][r]
                   ELSE IF req[t].op = "add" THEN "in" ELSE "out"
        OBVIOUS
      <3> HIDE DEF f
      <3> QED BY <2>1, <3>1, <3>2, <3>3 DEF ApiIInv, ApiTypeOK
    <2>2. CASE ~IsAcl(req[t])
      BY <2>2 DEF Save
    <2> QED BY <2>1, <2>2
  <1> QED BY <1>1, <1>2, <1>3, SettledRules DEF Agrees, IsAcl

LEMMA CrashIntent ==
  ASSUME ApiIInv, ApiCrash
  PROVE  IntentKept'
  <1> SUFFICES ASSUME NEW k \in Kinds, NEW s \in Sides, NEW r \in Rules
               PROVE  Agrees(intent'[k][s][r], r,
                             merge_acl(base'[k][s], Current'.body.acl[k][s]))
    BY DEF IntentKept
  <1>1. up /\ Current' = Loaded(file.data) /\ base' = base
    BY DEF ApiCrash, Crash, Stop, Current, Loaded, Default
  <1>2. intent'[k][s][r] = IF \E t \in Threads : /\ pc[t] \in Renamed
                                                 /\ IsAcl(req[t])
                                                 /\ req[t].kind = k /\ req[t].side = s
                                                 /\ r \in canon(req[t])
                           THEN "any" ELSE intent[k][s][r]
    BY DEF ApiCrash
  <1>3. CASE \A t \in Threads : pc[t] \notin Renamed
    <2>1. Loaded(file.data) = policies
      BY <1>1, <1>3, StoreFacts DEF ApiIInv
    <2> QED BY <1>1, <1>2, <1>3, <2>1 DEF ApiIInv, IntentKept, Current
  <1>4. ASSUME NEW t \in Threads, pc[t] \in Renamed
        PROVE  Agrees(intent'[k][s][r], r,
                      merge_acl(base'[k][s], Current'.body.acl[k][s]))
    <2>1. Loaded(file.data) = new[t]
      BY <1>4, StoreFacts, SentinelAssumption DEF ApiIInv, Loaded, Critical
    <2> QED BY <1>1, <1>2, <1>4, <2>1, SettledRules DEF Agrees
  <1> QED BY <1>3, <1>4

\* A rule that has entered or left the configuration is no longer spoken of.
LEMMA StartIntent ==
  ASSUME ApiIInv, ApiStart
  PROVE  IntentKept'
  <1> SUFFICES ASSUME NEW k \in Kinds, NEW s \in Sides, NEW r \in Rules
               PROVE  Agrees(intent'[k][s][r], r,
                             merge_acl(base'[k][s], Current'.body.acl[k][s]))
    BY DEF IntentKept
  <1>1. ~up /\ up' = TRUE /\ policies' = Loaded(file.data)
    BY DEF ApiStart, Start
  <1>2. Current' = Current
    BY <1>1 DEF Current
  <1>3. intent'[k][s][r] = IF (r \in base'[k][s]) = (r \in base[k][s])
                           THEN intent[k][s][r] ELSE "any"
    BY DEF ApiStart
  <1>4. Agrees(intent[k][s][r], r, merge_acl(base[k][s], Current.body.acl[k][s]))
    BY DEF ApiIInv, IntentKept
  <1> QED BY <1>2, <1>3, <1>4 DEF Agrees, merge_acl

LEMMA NextIntentKept ==
  ASSUME ApiIInv, [ApiNext]_apiVars, ApiTypeOK'
  PROVE  IntentKept'
  <1> USE DEF ApiIInv
  <1>1. ASSUME NEW t \in Threads,
               \/ Submit(t) \/ BadRequest(t) \/ NotFound(t) \/ Checked(t)
               \/ RebuildStore(t) \/ Apply(t) \/ Finish(t) \/ RebuildLoad(t)
        PROVE  IntentKept'
    <2>1. UNCHANGED <<up, policies, file, base, intent>>
      BY <1>1 DEF Submit, BadRequest, NotFound, Checked, RebuildStore, Apply, Finish,
                  RebuildLoad, Lock, Return, vars
    <2> QED BY <2>1, SameIntent DEF Current, Loaded, Default
  <1>2. ASSUME NEW t \in Threads, Save(t) PROVE IntentKept'
    <2>1. CASE Publish(t)
      BY <1>2, <2>1, PublishIntent
    <2>2. CASE ~Publish(t)
      <3>1. hpc[t] = "save" /\ Step(t) /\ base' = base
        BY <1>2 DEF Save
      <3>2. up /\ up' = up /\ policies' = policies /\ pc'[t] # "ok"
        BY <2>2, <3>1, StepStaysInside, StoreFacts DEF Phases
      <3>3. Current' = Current /\ intent' = intent
        BY <1>2, <3>2 DEF Current, Save
      <3> QED BY <3>1, <3>3, SameIntent
    <2> QED BY <2>1, <2>2
  <1>3. CASE UNCHANGED apiVars
    <2>1. UNCHANGED <<up, policies, file, base, intent>>
      BY <1>3 DEF apiVars, vars
    <2> QED BY <2>1, SameIntent DEF Current, Loaded, Default
  <1> QED BY <1>1, <1>2, <1>3, StartIntent, CrashIntent DEF ApiNext, Handle

----------------------------------------------------------------------------
(* The invariant holds *)

LEMMA InitApiIInv == ApiInit => ApiIInv
  <1> SUFFICES ASSUME ApiInit PROVE ApiIInv
    OBVIOUS
  <1>1. IInv
    BY InitIInv DEF ApiInit
  <1>2. ApiTypeOK /\ Phases /\ Passed
    BY InitControl DEF Control
  <1>3. NewIsMutated
    BY DEF ApiInit, Init, NewIsMutated, Critical, Saving, Renamed
  <1>4. IntentKept
    BY DEF ApiInit, IntentKept, Agrees
  <1> QED BY <1>1, <1>2, <1>3, <1>4 DEF ApiIInv

LEMMA NextApiIInv == ApiIInv /\ [ApiNext]_apiVars => ApiIInv'
  <1> SUFFICES ASSUME ApiIInv, [ApiNext]_apiVars PROVE ApiIInv'
    OBVIOUS
  <1>1. [Next]_vars
    BY StepsOfStore DEF ApiIInv
  <1>2. IInv'
    BY <1>1, NextTypeOK, NextOwner, NextProgress, NextOrder DEF ApiIInv, IInv, Order
  <1>3. Control'
    BY <1>2, NextControl DEF ApiIInv, Control, IInv
  <1> QED BY <1>2, <1>3, NextNewIsMutated, NextIntentKept DEF ApiIInv, Control

LEMMA ApiInductive == ApiSpec => []ApiIInv
  BY InitApiIInv, NextApiIInv, PTL DEF ApiSpec

\* Type correctness: in particular the mutators only ever make well-formed
\* policies, a filter never holds an entry of the state file that does not parse,
\* and the request under way is one the thread was given.
THEOREM ApiTypes == ApiSpec => []ApiTypeOK
  <1>1. ApiIInv => ApiTypeOK
    BY DEF ApiIInv
  <1> QED BY <1>1, ApiInductive, PTL

\* An acknowledged ACL request holds until another contradicts it, whatever saves
\* fail, processes crash and configurations are edited in between.
THEOREM IntentSurvives == ApiSpec => []OverlayIntent
  <1>1. ApiIInv => OverlayIntent
    BY DEF ApiIInv, IntentKept, OverlayIntent, Agrees, Current
  <1> QED BY <1>1, ApiInductive, PTL

\* The handlers use the store as PolicyStore specifies it: whatever they do is
\* a behaviour of the store, so every theorem about the store holds under them.
THEOREM ApiDrivesStore == ApiSpec => Spec
  <1>1. ApiInit => Init
    BY DEF ApiInit
  <1>2. ApiIInv /\ [ApiNext]_apiVars => [Next]_vars
    BY StepsOfStore DEF ApiIInv
  <1> QED BY <1>1, <1>2, ApiInductive, PTL DEF ApiSpec, Spec

\* Seen through the API, an update is atomic: it takes effect all at once, and
\* a restart finds the whole of it or nothing.
THEOREM UpdatesAreAtomic == ApiSpec => ImplementsAtomicStore
  BY ApiDrivesStore, StoreIsAtomic

----------------------------------------------------------------------------
(* The filter the data plane reads, of lists that no two clients change at a time *)

\* An update leaves the ACL it does not name as it is.
LEMMA OtherAcl ==
  ASSUME ApiIInv, NEW t \in Threads, pc[t] \in Renamed, NEW k \in Kinds,
         ~(IsAcl(req[t]) /\ req[t].kind = k)
  PROVE  new[t].body.acl[k] = policies.body.acl[k]
  <1>1. Ready(t) /\ new[t].body = Mutated(t, policies.body)
    BY DEF ApiIInv, ApiTypeOK, Phases, Passed, Ready, Renamed, NewIsMutated, Critical
  <1>2. /\ policies.body \in PolicyBodies
        /\ policies.body.acl[k] \in [Sides -> Overlays(Rules \cup Junk)]
        /\ new[t].body.acl[k] \in [Sides -> Overlays(Rules \cup Junk)]
    BY BodyTyped, StoreFacts DEF ApiIInv, ApiTypeOK, TypeOK, Critical
  <1>3. ASSUME NEW s \in Sides PROVE new[t].body.acl[k][s] = policies.body.acl[k][s]
    <2>1. ListFollows(t, k, s, policies.body, new[t].body)
      BY <1>1, <1>2, MutatedLists
    <2> QED BY <2>1 DEF ListFollows
  <1> QED BY <1>2, <1>3

\* Two threads never have a request for lists that one client changes.
LEMMA Alone ==
  ASSUME NEW k \in Kinds, OneClient(k), ApiTypeOK, NEW t \in Threads, NEW u \in Threads \ {t},
         IsAcl(req[t]), IsAcl(req[u])
  PROVE  req[t].kind # k \/ req[u].kind # k
  <1>1. req[t] \in Serves[t] /\ req[u] \in Serves[u]
    BY DEF ApiTypeOK, IsAcl, NoRequest
  <1> QED BY <1>1 DEF OneClient

\* A step that leaves the lists and the filter alone, and only moves a thread that
\* is not between its save and its store.
LEMMA FilterFrame ==
  ASSUME ApiIInv, NEW k \in Kinds, FilterInv(k), NEW t \in Threads,
         UNCHANGED <<up, policies, base, filter>>,
         \A u \in Threads \ {t} : /\ hpc'[u] = hpc[u] /\ pc'[u] = pc[u]
                                   /\ req'[u] = req[u] /\ snap'[u] = snap[u],
         hpc'[t] # "store",
         ~Lagging(t, k)
  PROVE  FilterInv(k)'
  <1>1. ASSUME NEW u \in Threads, Lagging(u, k) PROVE Lagging(u, k)'
    BY <1>1 DEF Lagging
  <1>2. up' => \/ \E u \in Threads : Lagging(u, k)'
               \/ filter'[k] = Build(k, base[k], policies.body.acl[k])'
    BY <1>1 DEF FilterInv, Build, BuildDomain, BuildEgress
  <1>3. \A u \in Threads : hpc'[u] = "store" /\ req'[u].kind = k
                             => snap'[u] = policies'.body.acl[k]
    BY DEF FilterInv
  <1> QED BY <1>2, <1>3 DEF FilterInv

LEMMA SaveFilter ==
  ASSUME ApiIInv, NEW k \in Kinds, OneClient(k), FilterInv(k), NEW t \in Threads, Save(t)
  PROVE  FilterInv(k)'
  <1>1. /\ hpc[t] = "save" /\ Step(t) /\ UNCHANGED <<hpc, req, input, snap, base, filter>>
    BY DEF Save, taskVars
  <1>2. /\ pc[t] \in Critical /\ up' = up
        /\ \A u \in Threads \ {t} : pc'[u] = pc[u]
        /\ ~Publish(t) => policies' = policies
    BY <1>1, StepStaysInside DEF ApiIInv, ApiTypeOK
  <1>3. ~Lagging(t, k)
    BY <1>1, <1>2 DEF Lagging, Critical, Saving, Renamed
  <1>4. CASE ~Publish(t)
    BY <1>1, <1>2, <1>3, <1>4, FilterFrame
  <1>5. CASE Publish(t)
    <2>1. pc[t] \in Renamed /\ policies' = new[t] /\ pc'[t] = "ok"
      BY <1>5 DEF Publish, Renamed, ApiIInv, ApiTypeOK, TypeOK
    <2>2. CASE ~(IsAcl(req[t]) /\ req[t].kind = k)
      <3>1. policies'.body.acl[k] = policies.body.acl[k]
        BY <2>1, <2>2, OtherAcl
      <3>2. Build(k, base[k], policies.body.acl[k])' = Build(k, base[k], policies.body.acl[k])
        BY <1>1, <3>1 DEF Build, BuildDomain, BuildEgress
      <3>3. ASSUME NEW u \in Threads, Lagging(u, k) PROVE Lagging(u, k)'
        BY <1>1, <1>2, <1>3, <3>3 DEF Lagging
      <3> QED BY <1>1, <1>2, <3>1, <3>2, <3>3 DEF FilterInv
    <2>3. CASE IsAcl(req[t]) /\ req[t].kind = k
      <3>1. Lagging(t, k)'
        BY <1>1, <2>1, <2>3 DEF Lagging
      <3>2. ASSUME NEW u \in Threads, hpc'[u] = "store", req'[u].kind = k
            PROVE  FALSE
        <4>1. u # t /\ hpc[u] = "store" /\ IsAcl(req[u]) /\ req[u].kind = k
          BY <1>1, <3>2 DEF ApiIInv, ApiTypeOK, Passed, Phases
        <4> QED BY <2>3, <4>1, Alone DEF ApiIInv
      <3> QED BY <3>1, <3>2 DEF FilterInv
    <2> QED BY <2>2, <2>3
  <1> QED BY <1>4, <1>5

LEMMA RebuildLoadFilter ==
  ASSUME ApiIInv, NEW k \in Kinds, FilterInv(k), NEW t \in Threads, RebuildLoad(t)
  PROVE  FilterInv(k)'
  <1>1. /\ hpc[t] = "save" /\ pc[t] = "ok" /\ IsAcl(req[t])
        /\ hpc' = [hpc EXCEPT ![t] = "store"] /\ pc' = [pc EXCEPT ![t] = "idle"]
        /\ snap' = [snap EXCEPT ![t] = policies.body.acl[req[t].kind]]
        /\ UNCHANGED <<up, policies, req, base, filter>>
    BY DEF RebuildLoad, Return
  <1>2. ASSUME NEW u \in Threads, Lagging(u, k) PROVE Lagging(u, k)'
    BY <1>1, <1>2 DEF Lagging, ApiIInv, ApiTypeOK, TypeOK
  <1>3. up' => \/ \E u \in Threads : Lagging(u, k)'
               \/ filter'[k] = Build(k, base[k], policies.body.acl[k])'
    BY <1>1, <1>2 DEF FilterInv, Build, BuildDomain, BuildEgress
  <1>4. \A u \in Threads : hpc'[u] = "store" /\ req'[u].kind = k
                             => snap'[u] = policies'.body.acl[k]
    BY <1>1 DEF FilterInv, ApiIInv, ApiTypeOK
  <1> QED BY <1>3, <1>4 DEF FilterInv

LEMMA RebuildStoreFilter ==
  ASSUME ApiIInv, NEW k \in Kinds, FilterInv(k), NEW t \in Threads, RebuildStore(t)
  PROVE  FilterInv(k)'
  <1>0. PICK k0 : k0 = req[t].kind
    OBVIOUS
  <1>1. /\ hpc[t] = "store" /\ Answer(t) /\ UNCHANGED <<up, policies, pc, base>>
        /\ filter' = [filter EXCEPT ![k0] = Build(k0, base[k0], snap[t])]
    BY <1>0 DEF RebuildStore, vars
  <1>2. /\ hpc'[t] = "idle"
        /\ \A u \in Threads \ {t} : /\ hpc'[u] = hpc[u] /\ req'[u] = req[u]
                                     /\ snap'[u] = snap[u]
    BY <1>1 DEF Answer, ApiIInv, ApiTypeOK
  <1>3. Build(k, base[k], policies.body.acl[k])' = Build(k, base[k], policies.body.acl[k])
    BY <1>1 DEF Build, BuildDomain, BuildEgress
  <1>4. \A u \in Threads : hpc'[u] = "store" /\ req'[u].kind = k
                             => snap'[u] = policies'.body.acl[k]
    BY <1>1, <1>2 DEF FilterInv
  <1>5. CASE k0 = k
    <2>1. snap[t] = policies.body.acl[k]
      BY <1>0, <1>1, <1>5 DEF FilterInv
    <2>2. filter'[k] = Build(k, base[k], snap[t])
      BY <1>1, <1>5 DEF ApiIInv, ApiTypeOK
    <2> QED BY <1>3, <1>4, <2>1, <2>2 DEF FilterInv
  <1>6. CASE k0 # k
    <2>1. filter'[k] = filter[k]
      BY <1>1, <1>6 DEF ApiIInv, ApiTypeOK
    <2>2. ASSUME NEW u \in Threads, Lagging(u, k) PROVE Lagging(u, k)'
      BY <1>0, <1>1, <1>2, <1>6, <2>2 DEF Lagging
    <2> QED BY <1>1, <1>3, <1>4, <2>1, <2>2 DEF FilterInv
  <1> QED BY <1>5, <1>6

LEMMA NextFilter ==
  ASSUME ApiIInv, NEW k \in Kinds, OneClient(k), FilterInv(k), [ApiNext]_apiVars
  PROVE  FilterInv(k)'
  <1>1. ASSUME NEW t \in Threads, Submit(t) \/ Checked(t) \/ BadRequest(t) \/ NotFound(t)
        PROVE  FilterInv(k)'
    <2>1. /\ hpc[t] \in {"idle", "check"} /\ UNCHANGED <<up, policies, pc, base, filter>>
      BY <1>1 DEF Submit, Checked, BadRequest, NotFound, vars
    <2>2. /\ hpc'[t] # "store"
          /\ \A u \in Threads \ {t} : /\ hpc'[u] = hpc[u] /\ req'[u] = req[u]
                                       /\ snap'[u] = snap[u]
      BY <1>1 DEF Submit, Checked, BadRequest, NotFound, Answer, ApiIInv, ApiTypeOK
    <2>3. ~Lagging(t, k)
      BY <2>1 DEF Lagging
    <2> QED BY <2>1, <2>2, <2>3, FilterFrame
  <1>2. ASSUME NEW t \in Threads, Apply(t) \/ Finish(t) PROVE FilterInv(k)'
    <2>1. UNCHANGED <<up, policies, base, filter>>
      BY <1>2 DEF Apply, Lock, Finish, Return
    <2>2. /\ hpc'[t] # "store"
          /\ \A u \in Threads \ {t} : /\ hpc'[u] = hpc[u] /\ req'[u] = req[u]
                                       /\ snap'[u] = snap[u] /\ pc'[u] = pc[u]
      BY <1>2 DEF Apply, Lock, Finish, Return, Answer, ApiIInv, ApiTypeOK, TypeOK
    <2>3. ~Lagging(t, k)
      BY <1>2 DEF Lagging, Apply, Finish
    <2> QED BY <2>1, <2>2, <2>3, FilterFrame
  <1>3. ASSUME ApiStart PROVE FilterInv(k)'
    <2>1. /\ ~up /\ hpc' = hpc
          /\ filter' = [l \in Kinds |-> Build(l, base'[l], policies'.body.acl[l])]
      BY <1>3 DEF ApiStart, Start, taskVars
    <2>2. \A t \in Threads : hpc'[t] # "store"
      BY <2>1 DEF ApiIInv, Phases
    <2>3. filter'[k] = Build(k, base[k], policies.body.acl[k])'
      BY <2>1 DEF Build, BuildDomain, BuildEgress
    <2> QED BY <2>2, <2>3 DEF FilterInv
  <1>4. ASSUME ApiCrash PROVE FilterInv(k)'
    BY <1>4 DEF ApiCrash, Crash, Stop, Idle, FilterInv
  <1>5. CASE UNCHANGED apiVars
    BY <1>5 DEF apiVars, taskVars, vars, FilterInv, Lagging, Build, BuildDomain, BuildEgress
  <1> QED
    BY <1>1, <1>2, <1>3, <1>4, <1>5, SaveFilter, RebuildLoadFilter, RebuildStoreFilter
    DEF ApiNext, Handle

\* Of lists that one client at a time changes, the data plane enforces exactly what the
\* API shows whenever no request for them is under way, whatever clients do to the other
\* lists, across failed saves, crashes and restarts.  (Two clients of one list do break
\* it: see the run stale_filter.)
THEOREM FilterIsCurrent == ApiSpec => []OwnFilterMatches
  <1>1. ApiInit => OwnFilters
    BY DEF ApiInit, Init, Idle, FilterInv, OwnFilters
  <1>2. ApiIInv /\ OwnFilters /\ [ApiNext]_apiVars => OwnFilters'
    BY NextFilter DEF OwnFilters
  <1>3. ApiIInv /\ OwnFilters => OwnFilterMatches
    BY DEF OwnFilters, FilterInv, OwnFilterMatches, FilterMatches, Lagging, ApiIInv, Phases
  <1> QED BY <1>1, <1>2, <1>3, ApiInductive, PTL DEF ApiSpec

----------------------------------------------------------------------------
(* The bindings, however clients race *)

\* What an update publishes, by the request of the thread that makes it.
LEMMA Published ==
  ASSUME ApiIInv, NEW t \in Threads, pc[t] \in Renamed
  PROVE  LET old == policies.body
             cur == new[t].body
         IN  /\ \A i \in Ips : IsAcl(req[t]) \/ i # req[t].ip
                               => cur.bindings[i] = old.bindings[i]
             /\ \A k \in Kinds, s \in Sides :
                  ~IsAcl(req[t]) \/ k # req[t].kind \/ s # req[t].side
                    => cur.acl[k][s] = old.acl[k][s]
             /\ \A i \in Ips :
                  (cur.bindings[i] = NoBinding) # (old.bindings[i] = NoBinding) =>
                    /\ req[t].op = IF old.bindings[i] = NoBinding THEN "put" ELSE "delete"
                    /\ req[t].ip = i
  <1>1. Ready(t) /\ new[t].body = Mutated(t, policies.body)
    BY DEF ApiIInv, ApiTypeOK, Phases, Passed, Ready, Renamed, NewIsMutated, Critical
  <1>2. policies.body \in PolicyBodies
    BY BodyTyped DEF ApiIInv, ApiTypeOK, TypeOK
  <1>3. CASE IsAcl(req[t])
    <2>1. new[t].body = mutate_acl(policies.body, req[t])
      BY <1>1, <1>3 DEF Mutated, IsAcl
    <2> QED BY <1>1, <1>2, <1>3, <2>1, AclMutation DEF Ready, IsAcl
  <1>4. CASE ~IsAcl(req[t])
    BY <1>1, <1>2, <1>4, BindingMutation, RequestOps DEF Ready, IsAcl
  <1> QED BY <1>3, <1>4

\* The one step that turns a thread's "ok" on is the publication of its update.
LEMMA OkIsPublished ==
  ASSUME ApiIInv, [ApiNext]_apiVars, NEW t \in Threads, pc[t] # "ok", pc'[t] = "ok"
  PROVE  pc[t] \in Renamed /\ policies' = new[t]
  <1>1. ASSUME NEW u \in Threads, Save(u) PROVE Publish(t)
    <2>1. Step(u)
      BY <1>1 DEF Save
    <2> QED BY <2>1, StepStaysInside DEF ApiIInv, ApiTypeOK
  <1>2. ASSUME NEW u \in Threads, ~Save(u), Submit(u) \/ Apply(u) \/ Handle(u)
        PROVE  FALSE
    BY <1>2 DEF Submit, Apply, Handle, BadRequest, NotFound, Checked, Finish, RebuildLoad,
                RebuildStore, Lock, Return, vars, ApiIInv, ApiTypeOK, TypeOK
  <1>3. ASSUME ApiStart \/ ApiCrash \/ UNCHANGED apiVars PROVE FALSE
    BY <1>3 DEF ApiStart, Start, ApiCrash, Crash, Stop, apiVars, vars
  <1>4. Publish(t)
    BY <1>1, <1>2, <1>3 DEF ApiNext, Handle
  <1> QED BY <1>4 DEF Publish, Renamed

\* The binding or the list that a request does not name.
OthersUntouched(r, old, cur) ==
    /\ \A i \in Ips : IsAcl(r) \/ i # r.ip => cur.bindings[i] = old.bindings[i]
    /\ \A k \in Kinds, s \in Sides :
         ~IsAcl(r) \/ k # r.kind \/ s # r.side => cur.acl[k][s] = old.acl[k][s]

\* With any number of clients on any addresses and lists: an update changes the
\* binding or the list its request names, of the policies in force when it is
\* published, and no update of another client is undone by it.
THEOREM NoLostUpdate ==
  ApiSpec => [][\A t \in Threads : pc[t] # "ok" /\ pc'[t] = "ok" =>
                  OthersUntouched(req[t], policies.body, policies'.body)]_apiVars
  <1>1. ApiIInv /\ [ApiNext]_apiVars =>
          [\A t \in Threads : pc[t] # "ok" /\ pc'[t] = "ok" =>
             OthersUntouched(req[t], policies.body, policies'.body)]_apiVars
    BY OkIsPublished, Published DEF OthersUntouched
  <1> QED BY <1>1, ApiInductive, PTL DEF ApiSpec

----------------------------------------------------------------------------
(* What holds however clients race *)

\* The policies of a running process change by the publication of an update.
LEMMA ChangeIsPublication ==
  ASSUME ApiIInv, [ApiNext]_apiVars, up, up', policies' # policies
  PROVE  \E t \in Threads : /\ hpc[t] = "save" /\ ~Invalid(req[t])
                             /\ pc[t] \in Renamed /\ pc'[t] = "ok" /\ policies' = new[t]
    <1>1. PICK t \in Threads : Save(t)
      BY DEF ApiNext, Handle, Submit, Apply, BadRequest, NotFound, Checked, Finish,
             RebuildLoad, RebuildStore, Lock, Return, vars, apiVars,
             ApiStart, Start, ApiCrash, Crash, Stop
    <1>2. hpc[t] = "save" /\ Step(t) /\ ~Invalid(req[t])
      BY <1>1 DEF Save, ApiIInv, Passed
    <1>3. Publish(t) /\ pc'[t] = "ok"
      BY <1>2, StepStaysInside DEF ApiIInv, ApiTypeOK
    <1> QED BY <1>2, <1>3 DEF Publish, Renamed

\* However clients race for an address, its binding comes into being by a PUT and goes
\* by a DELETE: no handler brings back a binding that was deleted under it.
THEOREM BindingsFollowRequests == ApiSpec => BindingsComeAndGo
  <1>1. ASSUME ApiIInv, [ApiNext]_apiVars, up, up', NEW i \in Ips,
               (Get(i) = NoBinding) # (Get(i)' = NoBinding)
        PROVE  \E t \in Threads :
                 /\ pc[t] # "ok" /\ pc'[t] = "ok"
                 /\ req[t].op = IF Get(i) = NoBinding THEN "put" ELSE "delete"
                 /\ req[t].ip = i
    <2>1. policies' # policies
      BY <1>1 DEF Get
    <2>2. PICK t \in Threads : pc[t] \in Renamed /\ pc'[t] = "ok" /\ policies' = new[t]
      BY <1>1, <2>1, ChangeIsPublication
    <2> QED BY <1>1, <2>2, Published DEF Get, Renamed
  <1>2. ApiIInv /\ [ApiNext]_apiVars =>
          [\A i \in Ips :
             up /\ up' /\ (Get(i) = NoBinding) # (Get(i)' = NoBinding) =>
               \E t \in Threads :
                 /\ pc[t] # "ok" /\ pc'[t] = "ok"
                 /\ req[t].op = IF Get(i) = NoBinding THEN "put" ELSE "delete"
                 /\ req[t].ip = i]_apiVars
    BY <1>1
  <1> QED BY <1>2, ApiInductive, PTL DEF ApiSpec, BindingsComeAndGo

\* The policies of a running process change by one request at a time, one that has
\* passed its checks, applied whole to the policies in force: concurrent handlers
\* are serialised, and a refused or failed request leaves no trace.
THEOREM ChangesAreRequests ==
  ApiSpec => [][up /\ up' /\ policies' # policies =>
                  \E t \in Threads :
                    /\ hpc[t] = "save" /\ ~Invalid(req[t])
                    /\ policies' = [version |-> policies.version + 1,
                                    body |-> Mutated(t, policies.body)]]_apiVars
  <1>1. ASSUME ApiIInv, [ApiNext]_apiVars, up, up', policies' # policies
        PROVE  \E t \in Threads :
                 /\ hpc[t] = "save" /\ ~Invalid(req[t])
                 /\ policies' = [version |-> policies.version + 1,
                                 body |-> Mutated(t, policies.body)]
    <2>1. PICK t \in Threads : /\ hpc[t] = "save" /\ ~Invalid(req[t])
                               /\ pc[t] \in Renamed /\ policies' = new[t]
      BY <1>1, ChangeIsPublication
    <2>5. /\ new[t] \in Snapshots /\ new[t].version = policies.version + 1
          /\ new[t].body = Mutated(t, policies.body)
      BY <1>1, <2>1 DEF ApiIInv, IInv, Progress, NewIsMutated, Critical, Renamed
    <2>6. new[t] = [version |-> policies.version + 1, body |-> Mutated(t, policies.body)]
      BY <2>5 DEF Snapshots
    <2> QED BY <2>1, <2>6
  <1>2. ApiIInv /\ [ApiNext]_apiVars =>
          [up /\ up' /\ policies' # policies =>
             \E t \in Threads :
               /\ hpc[t] = "save" /\ ~Invalid(req[t])
               /\ policies' = [version |-> policies.version + 1,
                               body |-> Mutated(t, policies.body)]]_apiVars
    BY <1>1
  <1> QED BY <1>2, ApiInductive, PTL DEF ApiSpec

\* What EgressFilter::build adds is in the filter the data plane reads.
BuiltinsStored == up => BuiltinDeny \subseteq filter["egress"]["deny"]

\* The special-use networks are in the deny list of every egress filter that is ever
\* in force, also when racing rebuilds store them in the wrong order.
THEOREM BuiltinsAlwaysStored == ApiSpec => []BuiltinsStored
  <1>1. \A b, acl : BuiltinDeny \subseteq Build("egress", b, acl)["deny"]
    BY DEF Build, BuildEgress, Sides
  <1>2. ApiInit => BuiltinsStored
    BY DEF ApiInit, Init, BuiltinsStored
  <1>3. ApiIInv /\ BuiltinsStored /\ [ApiNext]_apiVars => BuiltinsStored'
    <2> SUFFICES ASSUME ApiIInv, BuiltinsStored, [ApiNext]_apiVars, up'
                 PROVE  BuiltinDeny \subseteq filter'["egress"]["deny"]
      BY DEF BuiltinsStored
    <2>1. CASE ApiStart
      BY <1>1, <2>1 DEF ApiStart, Kinds
    <2>2. ASSUME NEW t \in Threads, RebuildStore(t)
          PROVE  BuiltinDeny \subseteq filter'["egress"]["deny"]
      <3>1. /\ up
            /\ filter' = [filter EXCEPT ![req[t].kind] =
                            Build(req[t].kind, base[req[t].kind], snap[t])]
        BY <2>2 DEF RebuildStore, ApiIInv, Phases
      <3> QED BY <1>1, <3>1 DEF BuiltinsStored, ApiIInv, ApiTypeOK, Kinds
    <2>3. CASE UNCHANGED <<up, filter>>
      BY <2>3 DEF BuiltinsStored
    <2>4. ASSUME NEW t \in Threads, Save(t) PROVE UNCHANGED <<up, filter>>
      BY <2>4, StepStaysInside DEF Save, ApiIInv, ApiTypeOK
    <2> QED
      BY <2>1, <2>2, <2>3, <2>4
      DEF ApiNext, Handle, Submit, Apply, BadRequest, NotFound, Checked, Finish,
          RebuildLoad, Lock, Return, vars, apiVars, ApiCrash, Crash, Stop
  <1> QED BY <1>2, <1>3, ApiInductive, PTL DEF ApiSpec
============================================================================
