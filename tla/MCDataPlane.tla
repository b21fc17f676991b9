---------------------------- MODULE MCDataPlane ----------------------------
(* A name, and the shorter one it becomes when its last letter is missing;  *)
(* answers with blocked and allowed, IPv6 and IPv4 addresses in any order.  *)
(* Addresses of 3 bits in pools of 8, of 4 and of 1; the hashes fall on the *)
(* first host of the first pool and on the last host of each, and beyond it. *)
EXTENDS DataPlane, TLC

CONSTANTS com, co, a1, a2, ipv4

MCCut      == com :> co @@ co :> NoName
MCShuffled == com :> NoName @@ co :> com
MCAnswers  == com :> { <<ipv4, a1, a2>>, <<ipv4>> } @@ co :> { <<a2>> }

MCHashValues     == {0, 15, 7, 2}
MCPools          == << [addr |-> 0, len |-> 0], [addr |-> 5, len |-> 1],
                       [addr |-> 2, len |-> 3] >>
MCDefaultBinding == [policy |-> "src_dst", seed |-> 0]

AllAllowed == [bindings |-> [c \in Clients |-> NoBinding], domain |-> Hosts,
               egress |-> V6 \cup V4]
MCInitPolicies == {AllAllowed}
============================================================================
