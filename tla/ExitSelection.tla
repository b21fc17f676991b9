--------------------------- MODULE ExitSelection ---------------------------
(***************************************************************************)
(* The choice of the outgoing IPv6 address: hash.rs over the pools of      *)
(* config.rs.  DataPlane extends this module and takes an exit for each    *)
(* connection; ExitSpec is the choice by itself, whatever bindings and     *)
(* flows it is asked about.                                                *)
(*                                                                         *)
(* SipHash-2-4 is an unknown function of the key and the hashed fields: its *)
(* value is drawn when an input is met for the first time and is the same  *)
(* ever after.  Addresses have W bits (128 in the code); a mask of host    *)
(* bits is arithmetic modulo the size of the pool.                         *)
(***************************************************************************)
EXTENDS Naturals, Sequences

CONSTANTS W,             \* bits of an address
          HashValues,    \* values of the hash, u64 in the code
          PoolConfig,    \* machine.v6_pools: a sequence of [addr, len]
          Clients,       \* source addresses
          V6,            \* destination addresses
          SrcPorts,
          Seeds

HashPolicies == {"src_ip", "src_dst", "five_tuple"}
Binding == [policy : HashPolicies, seed : Seeds]
Ports == {443, 80}
Flows == [src : Clients, dst : V6, sport : SrcPorts, dport : Ports]

ASSUME WidthAssumption == W \in Nat
\* What the arithmetic of masks relies on.
ASSUME PowerAssumption == \A n \in 0..W : 2^n \in Nat /\ 2^n >= 1
ASSUME HashAssumption  == HashValues \subseteq Nat /\ HashValues # {}
\* validate_config refuses an empty list, V6Pool::parse a longer prefix.
ASSUME PoolAssumption  == PoolConfig \in Seq([addr : Nat, len : 0..W]) /\ Len(PoolConfig) > 0

----------------------------------------------------------------------------
(* config.rs *)

Span(len) == 2^(W - len)            \* host_mask + 1

\* V6Pool::parse zeroes the host bits.
parse(c) == [prefix |-> c.addr - (c.addr % Span(c.len)), span |-> Span(c.len)]

pools == [i \in 1..Len(PoolConfig) |-> parse(PoolConfig[i])]

\* prefix | host: the prefix has no bit below the span.  The one host that is not
\* below it is the 1 that replaces the 0 of a pool of one address.
Or(p, host) == IF host < p.span THEN p.prefix + host
               ELSE p.prefix + 1 - (p.prefix % 2)

\* Fault: the all-ones host is not avoided.
UnclampedHost(p, h) == IF h % p.span = 0 THEN 1 ELSE h % p.span

\* Avoid all-zeros and all-ones host (reserved addresses).
Host(p, h) == LET host == h % p.span IN
              IF host = 0 THEN 1
              ELSE IF host = p.span - 1 THEN p.span - 2
              ELSE host

\* Fault: the hash is not masked to the host bits.
HostAtUnmasked(p, h) == p.prefix + h

host_at(p, h) == Or(p, Host(p, h))

----------------------------------------------------------------------------
(* hash.rs *)

\* Fault: the destination port is hashed under src_dst.
LeakyHashInput(b, f) ==
    CASE b.policy = "src_ip"     -> <<b.seed, f.src>>
      [] b.policy = "src_dst"    -> <<b.seed, f.src, f.dst, f.dport>>
      [] b.policy = "five_tuple" -> <<b.seed, f.src, f.dst, f.sport, f.dport>>

\* The seed keys the hasher; the policy says what is written to it.
HashInput(b, f) ==
    CASE b.policy = "src_ip"     -> <<b.seed, f.src>>
      [] b.policy = "src_dst"    -> <<b.seed, f.src, f.dst>>
      [] b.policy = "five_tuple" -> <<b.seed, f.src, f.dst, f.sport, f.dport>>

\* The same hash picks the pool and the host in it.
PoolOf(h) == pools[(h % Len(pools)) + 1]
pick_outgoing(h) == host_at(PoolOf(h), h)

----------------------------------------------------------------------------

VARIABLES digest,    \* the part of SipHash met so far: a set of [input, value]
          exits      \* exits taken: [binding, flow, pool, addr]

exitVars == <<digest, exits>>

ExitInit == digest = {} /\ exits = {}

\* SipHash of an input, drawn if it is new.
Hashes(input, h) ==
    IF \E d \in digest : d.input = input
    THEN [input |-> input, value |-> h] \in digest /\ UNCHANGED digest
    ELSE digest' = digest \cup {[input |-> input, value |-> h]}

\* A connection or a new QUIC session with binding b takes its exit.
TakeExit(b, f) ==
    \E h \in HashValues :
      /\ Hashes(HashInput(b, f), h)
      /\ exits' = exits \cup {[binding |-> b, flow |-> f,
                               pool |-> PoolOf(h), addr |-> pick_outgoing(h)]}

ExitNext == \E b \in Binding, f \in Flows : TakeExit(b, f)

\* Exits are taken one at a time, each for a binding and a flow, by a hash that
\* stays the same.
ExitSpec == ExitInit /\ [][ExitNext]_exitVars

----------------------------------------------------------------------------
(* Properties *)

ExitTypeOK == /\ \A d \in digest : d.value \in HashValues
              /\ \A e \in exits : /\ e.binding \in Binding
                                  /\ e.flow \in Flows
                                  /\ e.addr \in Nat

InPool(p, a) == p.prefix <= a /\ a < p.prefix + p.span

Reserved(p, a) == a = p.prefix \/ a = p.prefix + p.span - 1

\* config.rs, host_at: "Map a hash value into this pool's address space."  Every
\* connection leaves by an address of the pool that was picked for it (another one need
\* not be routed to this host, and no answer would come back): but for a /128 of an even
\* address, which V6Pool::parse accepts.  Its one host is replaced by 1 as a reserved one,
\* and all its exits are the address above it, outside of the pool.
ExitByPool ==
    \A e \in exits :
      \/ InPool(e.pool, e.addr)
      \/ e.pool.span = 1 /\ e.pool.prefix % 2 = 0 /\ e.addr = e.pool.prefix + 1

\* config.rs, host_at: "Avoid all-zeros and all-ones host (reserved addresses)".
\* The exit is neither end of its pool, in every pool that has other addresses.
ExitUsable == \A e \in exits : e.pool.span >= 4 => ~Reserved(e.pool, e.addr)

\* What two flows must share to leave by one address.
SameExit(policy, f, g) ==
    /\ f.src = g.src
    /\ policy \in {"src_dst", "five_tuple"} => f.dst = g.dst
    /\ policy = "five_tuple" => f.sport = g.sport /\ f.dport = g.dport

\* A client keeps its exit: flows that the policy does not tell apart leave by the
\* same address as long as the binding is the same, also after the binding has
\* been something else in between.
ExitSticky == \A e1, e2 \in exits :
                /\ e1.binding = e2.binding
                /\ SameExit(e1.binding.policy, e1.flow, e2.flow)
                => e1.addr = e2.addr
============================================================================
