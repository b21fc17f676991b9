------------------------ MODULE ExitSelectionProofs ------------------------
(* Proofs about ExitSelection, for every address width, list of pools and  *)
(* hash function.                                                          *)
EXTENDS ExitSelection, SequenceTheorems, TLAPS

\* Where host_at maps a hash in a pool of at least two, and of at least four,
\* addresses.
LEMMA HostInSpan ==
  ASSUME NEW p \in [prefix : Nat, span : Nat], p.span >= 2, NEW h \in Nat
  PROVE  /\ Host(p, h) \in Nat /\ Host(p, h) < p.span
         /\ p.span >= 4 => Host(p, h) # 0 /\ Host(p, h) # p.span - 1
  <1>1. h % p.span \in 0..(p.span - 1)
    OBVIOUS
  <1> QED
    BY <1>1 DEF Host

LEMMA ZeroHostBits ==
  ASSUME NEW a \in Nat, NEW m \in Nat, m >= 1
  PROVE  a - (a % m) \in Nat
  <1>1. a % m \in Nat /\ a % m <= a
    BY SMTT(30)
  <1> QED
    BY <1>1

\* A pool of the configuration has at least one address.
LEMMA ParsedPool ==
  ASSUME NEW i \in 1..Len(PoolConfig)
  PROVE  pools[i] \in [prefix : Nat, span : Nat] /\ pools[i].span >= 1
  <1>1. PICK c \in [addr : Nat, len : 0..W] : c = PoolConfig[i]
    BY PoolAssumption, ElementOfSeq
  <1>2. PICK n \in 0..W : n = W - c.len
    BY WidthAssumption
  <1>3. 2^n \in Nat /\ 2^n >= 1
    BY PowerAssumption, Zenon
  <1>4. PICK m \in Nat : m = 2^n /\ m >= 1
    BY <1>3, Zenon
  <1>5. pools[i] = [prefix |-> c.addr - (c.addr % m), span |-> m]
    BY <1>1, <1>2, <1>4 DEF pools, parse, Span
  <1>6. c.addr - (c.addr % m) \in Nat
    BY <1>4, ZeroHostBits
  <1> QED
    BY <1>4, <1>5, <1>6

LEMMA PickedPool ==
  ASSUME NEW h \in Nat
  PROVE  \E i \in 1..Len(PoolConfig) : PoolOf(h) = pools[i]
  <1>1. /\ Len(PoolConfig) \in Nat /\ Len(PoolConfig) > 0
        /\ Len(pools) = Len(PoolConfig)
    BY PoolAssumption DEF pools
  <1>2. (h % Len(PoolConfig)) + 1 \in 1..Len(PoolConfig)
    BY <1>1
  <1> QED
    BY <1>1, <1>2 DEF PoolOf
----------------------------------------------------------------------------
(* Every exit comes from a hash that is still on record, and the record    *)
(* gives an input one value.                                               *)

Functional == \A d1, d2 \in digest : d1.input = d2.input => d1.value = d2.value

FromHash == \A e \in exits : \E d \in digest :
              /\ d.input = HashInput(e.binding, e.flow)
              /\ d.value \in HashValues
              /\ e.pool = PoolOf(d.value)
              /\ e.addr = pick_outgoing(d.value)

ExitIInv == ExitTypeOK /\ Functional /\ FromHash

\* The policy hashes no more than what flows with one exit share.
LEMMA SameInput ==
  ASSUME NEW b, b.policy \in HashPolicies, NEW f, NEW g,
         SameExit(b.policy, f, g)
  PROVE  HashInput(b, f) = HashInput(b, g)
  BY DEF SameExit, HashInput, HashPolicies

LEMMA PickedAddress ==
  ASSUME NEW h \in Nat
  PROVE  pick_outgoing(h) \in Nat
  <1>1. PICK p \in [prefix : Nat, span : Nat] : p = PoolOf(h) /\ p.span >= 1
    BY PickedPool, ParsedPool
  <1>2. h % p.span \in 0..(p.span - 1) /\ p.prefix % 2 \in 0..1
    BY <1>1
  <1>3. Host(p, h) < p.span => Host(p, h) \in Nat
    BY <1>1, <1>2 DEF Host
  <1>4. Or(p, Host(p, h)) \in Nat
    BY <1>2, <1>3 DEF Or
  <1> QED
    BY <1>1, <1>4 DEF pick_outgoing, host_at

LEMMA ExitInitIInv == ExitInit => ExitIInv
  BY DEF ExitInit, ExitIInv, ExitTypeOK, Functional, FromHash

LEMMA TakeExitIInv ==
  ASSUME ExitIInv, NEW b \in Binding, NEW f \in Flows, TakeExit(b, f)
  PROVE  ExitIInv'
  <1> DEFINE input == HashInput(b, f)
  <1>1. PICK h \in HashValues :
          /\ Hashes(input, h)
          /\ exits' = exits \cup {[binding |-> b, flow |-> f, pool |-> PoolOf(h),
                                   addr |-> pick_outgoing(h)]}
    BY DEF TakeExit
  <1> DEFINE d == [input |-> input, value |-> h]
             e == [binding |-> b, flow |-> f, pool |-> PoolOf(h), addr |-> pick_outgoing(h)]
  <1> HIDE DEF input
  <1>2. digest' = digest \cup {d}
    BY <1>1 DEF Hashes
  <1>3. Functional'
    <2>1. CASE \E x \in digest : x.input = input
      BY <1>1, <2>1 DEF Hashes, ExitIInv, Functional
    <2>2. CASE ~ \E x \in digest : x.input = input
      BY <1>2, <2>2 DEF ExitIInv, Functional
    <2> QED
      BY <2>1, <2>2
  <1>4. FromHash'
    <2>1. SUFFICES ASSUME NEW x \in exits'
                   PROVE  \E y \in digest' : /\ y.input = HashInput(x.binding, x.flow)
                                             /\ y.value \in HashValues
                                             /\ x.pool = PoolOf(y.value)
                                             /\ x.addr = pick_outgoing(y.value)
      BY DEF FromHash
    <2>2. CASE x \in exits
      BY <1>2, <2>2 DEF ExitIInv, FromHash
    <2>3. CASE x = e
      <3>1. d \in digest' /\ d.input = input /\ d.value = h
        BY <1>2
      <3>2. /\ x.binding = b /\ x.flow = f
            /\ x.pool = PoolOf(h) /\ x.addr = pick_outgoing(h)
        BY <2>3
      <3>3. input = HashInput(x.binding, x.flow)
        BY <3>2 DEF input
      <3> QED
        BY <3>1, <3>2, <3>3
    <2> QED
      BY <1>1, <2>2, <2>3
  <1>5. ExitTypeOK'
    <2>2. d.value \in HashValues
      OBVIOUS
    <2>3. e.binding = b /\ e.flow = f /\ e.addr = pick_outgoing(h)
      OBVIOUS
    <2>4. e.addr \in Nat
      BY <2>3, PickedAddress, HashAssumption
    <2>6. \A x \in exits' : x.binding \in Binding /\ x.flow \in Flows /\ x.addr \in Nat
      BY <1>1, <2>3, <2>4 DEF ExitIInv, ExitTypeOK
    <2>7. \A x \in digest' : x.value \in HashValues
      BY <1>2, <2>2 DEF ExitIInv, ExitTypeOK
    <2> QED
      BY <2>6, <2>7 DEF ExitIInv, ExitTypeOK
  <1> QED
    BY <1>3, <1>4, <1>5 DEF ExitIInv

LEMMA ExitInductive == ExitSpec => []ExitIInv
  <1>1. ASSUME ExitIInv, [ExitNext]_exitVars PROVE ExitIInv'
    <2>1. CASE UNCHANGED exitVars
      BY <1>1, <2>1 DEF exitVars, ExitIInv, ExitTypeOK, Functional, FromHash
    <2> QED
      BY <1>1, <2>1, TakeExitIInv DEF ExitNext
  <1> QED
    BY ExitInitIInv, <1>1, PTL DEF ExitSpec

----------------------------------------------------------------------------
(* The theorems *)

\* Bindings, hashes and exits keep their types: an address is always found.
THEOREM ExitTypeCorrect == ExitSpec => []ExitTypeOK
  BY ExitInductive, PTL DEF ExitIInv

\* Whatever the hash function and the pools: every connection leaves by an address of
\* its pool, or by the one above a pool of one even address.
THEOREM ExitsStayByPool == ExitSpec => []ExitByPool
  <1>1. ExitIInv => ExitByPool
    <2> SUFFICES ASSUME ExitIInv, NEW e \in exits
                 PROVE  \/ InPool(e.pool, e.addr)
                        \/ /\ e.pool.span = 1 /\ e.pool.prefix % 2 = 0
                           /\ e.addr = e.pool.prefix + 1
      BY DEF ExitByPool
    <2>1. PICK h \in Nat : e.pool = PoolOf(h) /\ e.addr = pick_outgoing(h)
      BY HashAssumption DEF ExitIInv, FromHash
    <2>2. PICK p \in [prefix : Nat, span : Nat] : p = e.pool /\ p.span >= 1
      BY <2>1, PickedPool, ParsedPool
    <2>3. e.addr = Or(p, Host(p, h))
      BY <2>1, <2>2 DEF pick_outgoing, host_at
    <2>4. CASE p.span >= 2
      <3>1. Host(p, h) \in Nat /\ Host(p, h) < p.span
        BY <2>4, HostInSpan
      <3> QED
        BY <2>2, <2>3, <3>1 DEF Or, InPool
    <2>5. CASE p.span = 1
      <3>1. h % 1 = 0
        OBVIOUS
      <3>2. e.addr = p.prefix + 1 - (p.prefix % 2)
        BY <2>3, <2>5, <3>1 DEF Host, Or
      <3>3. p.prefix % 2 = 0 \/ p.prefix % 2 = 1
        OBVIOUS
      <3> QED
        BY <2>2, <2>5, <3>2, <3>3 DEF InPool
    <2> QED
      BY <2>2, <2>4, <2>5
  <1> QED
    BY ExitInductive, <1>1, PTL

\* Whatever the hash function and the pools: no connection leaves by the first or the
\* last address of a pool of at least four.
THEOREM ExitsAreUsable == ExitSpec => []ExitUsable
  <1>1. ExitIInv => ExitUsable
    <2> SUFFICES ASSUME ExitIInv, NEW e \in exits, e.pool.span >= 4
                 PROVE  ~Reserved(e.pool, e.addr)
      BY DEF ExitUsable
    <2>1. PICK h \in Nat : e.pool = PoolOf(h) /\ e.addr = pick_outgoing(h)
      BY HashAssumption DEF ExitIInv, FromHash
    <2>2. PICK p \in [prefix : Nat, span : Nat] : p = e.pool /\ p.span >= 4
      BY <2>1, PickedPool, ParsedPool
    <2>2a. p.span >= 2
      BY <2>2
    <2>3. /\ Host(p, h) \in Nat /\ Host(p, h) < p.span
          /\ Host(p, h) # 0 /\ Host(p, h) # p.span - 1
      BY <2>2, <2>2a, HostInSpan
    <2>4. e.addr = p.prefix + Host(p, h)
      BY <2>1, <2>2, <2>3 DEF pick_outgoing, host_at, Or
    <2> QED
      BY <2>2, <2>3, <2>4 DEF Reserved
  <1> QED
    BY ExitInductive, <1>1, PTL

\* A client's exit depends on its binding and on what its policy looks at, and on
\* nothing else: not on when the connection is made or what came in between.
THEOREM ExitsAreSticky == ExitSpec => []ExitSticky
  <1>1. ExitIInv => ExitSticky
    <2> SUFFICES ASSUME ExitIInv,
                        NEW e1 \in exits, NEW e2 \in exits,
                        e1.binding = e2.binding,
                        SameExit(e1.binding.policy, e1.flow, e2.flow)
                 PROVE  e1.addr = e2.addr
      BY DEF ExitSticky
    <2>1. HashInput(e1.binding, e1.flow) = HashInput(e2.binding, e2.flow)
      BY SameInput DEF Binding, ExitIInv, ExitTypeOK
    <2> QED
      BY <2>1 DEF ExitIInv, FromHash, Functional
  <1> QED
    BY ExitInductive, <1>1, PTL
============================================================================
