----------------------------- MODULE MCAdminApi -----------------------------
(* Instances of the admin API: what config.toml and the state file may     *)
(* hold, and which requests the threads are given.                         *)
EXTENDS AdminApi, TLC

CONSTANTS t1, t2, ip1, ip2, srcIp, fiveTuple, s0, s1, raw1, raw1b, raw2, rawBad,
          rule1, rule2, junk

MCCanon == raw1 :> rule1 @@ raw1b :> rule1 @@ raw2 :> rule2 @@ rawBad :> Malformed

Plain == [k \in Kinds |-> [s \in Sides |-> {}]]
MCBases == {Plain, [Plain EXCEPT !["domain"]["deny"] = {raw1b},
                                 !["egress"]["allow"] = {raw2}]}

\* State files left by earlier runs: one with an entry edited by hand, one that takes a
\* rule out of a base that has it.  One of the addresses has no binding.
StateFile(ov) ==
    [version |-> 1,
     body |-> [EmptyBody EXCEPT
                 !.bindings[ip1] = [policy |-> fiveTuple, seed |-> s1],
                 !.acl["domain"]["deny"] = ov]]

MCInitFiles == { StateFile([add |-> {rule2, junk}, del |-> {}]),
                 StateFile([add |-> {}, del |-> {rule1}]) }

Acl(o, k, s, R) == [op |-> o, kind |-> k, side |-> s, rules |-> R]
Put(i, p, s)    == [op |-> "put", ip |-> i, policy |-> p, seed |-> s]
Patch(i, p)     == [op |-> "patch", ip |-> i, policy |-> p]
Delete(i)       == [op |-> "delete", ip |-> i]
Reseed(i)       == [op |-> "reseed", ip |-> i]

\* Both clients change the domain deny list and the binding of ip1, one of them the
\* egress allow list.
Contending ==
    t1 :> { Acl("add", "domain", "deny", {raw1}), Acl("del", "domain", "deny", {raw1, raw2}),
            Acl("add", "domain", "deny", {raw1, rawBad}),
            Acl("del", "egress", "allow", {raw2}),
            Patch(ip1, srcIp), Reseed(ip1) }
    @@
    t2 :> { Acl("add", "domain", "deny", {raw1b}), Acl("del", "domain", "deny", {raw1}),
            Put(ip1, Omitted, s0), Put(ip2, fiveTuple, Omitted), Delete(ip1) }

\* One client changes a binding that another one deletes.
OneBinding == t1 :> { Put(ip1, Omitted, s0), Patch(ip1, srcIp), Reseed(ip1) }
              @@ t2 :> { Delete(ip1) }

\* Two clients of the domain deny list.
SameAcl == [t \in Threads |-> { Acl("add", "domain", "deny", {raw1}),
                                Acl("del", "domain", "deny", {raw1b, raw2}) }]
============================================================================
