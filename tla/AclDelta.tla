------------------------------ MODULE AclDelta ------------------------------
(***************************************************************************)
(* The runtime overlay of state.rs over one list of the configuration (the *)
(* allow or the deny list of one ACL), and the lists built from it.        *)
(*                                                                         *)
(* Lists are sets here: the order of the entries and their repetition show *)
(* only in the JSON view.  A batch of rules is applied in one go: the code *)
(* applies its rules one after the other, each touching only itself.       *)
(***************************************************************************)

EmptyOverlay == [add |-> {}, del |-> {}]

\* What the overlay of a list over the rules of R looks like.
Overlays(R) == [add : SUBSET R, del : SUBSET R]

\* (base \cup add) - del: an entry suppressed by `del` is skipped wherever it
\* comes from.
merge_acl(base, ov) == (base \cup ov.add) \ ov.del

\* Fault: a base rule that is added again stays suppressed.
AddKeepsDel(base, ov, rules) ==
    [add |-> ov.add \cup (rules \ base), del |-> ov.del]

\* Cancel suppressions; record only what the base does not have.
apply_add(base, ov, rules) ==
    [add |-> ov.add \cup (rules \ base), del |-> ov.del \ rules]

\* Drop from the additions; suppress what comes from the base.
apply_del(base, ov, rules) ==
    [add |-> ov.add \ rules, del |-> ov.del \cup (rules \cap base)]

----------------------------------------------------------------------------

\* No rule is both an addition and a suppression.
Disjoint(ov) == ov.add \cap ov.del = {}
============================================================================
