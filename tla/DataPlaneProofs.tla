-------------------------- MODULE DataPlaneProofs --------------------------
(* Proofs about connections through the data plane, for any clients, names, *)
(* addresses, policies and pools, and any number of connections and changes. *)
EXTENDS DataPlane, ExitSelectionProofs

\* What is in force now is part of the history of a connection.
Tracked(x, s) ==
    x.pc # "none" => /\ x.src \in Clients /\ x.sport \in SrcPorts
                     /\ x.asked \in Hosts
                     /\ InForce(bindings, x.src) \in s.bindings
                     /\ domain \subseteq s.domain
                     /\ egress \subseteq s.egress

\* The binding was read after the connection was accepted.
BindingRead(x, s) ==
    x.pc \notin {"none", "accepted"} => x.binding \in s.bindings

\* After the peek there is a name.
NameRead(x) == x.pc \notin {"none", "accepted", "peek"} => x.host \in Hosts

\* The name was let through before it was resolved, and so was the destination.
Checked(x, s) ==
    /\ x.pc \in {"lookup", "resolved", "connect", "copy"} => x.host \in s.domain
    /\ x.pc \in {"connect", "copy"} => x.dst \in s.egress

\* An exit is among the exits taken E.
Taken(x, s, E) ==
    x.pc \in {"connect", "copy"} =>
      \E e \in E : e.flow = Flow(x, x.dst) /\ e.binding \in s.bindings

ConnInv(x, s) == Tracked(x, s) /\ BindingRead(x, s) /\ NameRead(x) /\ Checked(x, s)

IInv == /\ TypeOK
        /\ ExitIInv
        /\ \A c \in Conns : ConnInv(conn[c], seen[c]) /\ Taken(conn[c], seen[c], exits)

----------------------------------------------------------------------------

\* What is read, if anything, is a name.
LEMMA PeekedName ==
    ASSUME NEW x, x.asked \in Hosts, x.via \in Vias, peek_sni_or_host(x) # NoName
    PROVE  peek_sni_or_host(x) \in Hosts
BY NameAssumption DEF Vias, peek_sni_or_host, extract_tls_sni, extract_http_host,
                      extract_quic_sni

\* What resolve_dst finds is an IPv6 address that the filter lets through.
LEMMA ResolvedAllowed ==
    ASSUME NEW answer, NEW dst \in resolve_dst(answer)
    PROVE  dst \in V6 /\ dst \in egress
BY DEF resolve_dst, FirstIn

\* The binding in force is one.
LEMMA InForceIsBinding ==
    ASSUME NEW bs \in [Clients -> Bindings], NEW client \in Clients
    PROVE  InForce(bs, client) \in Binding
BY BindingAssumption DEF InForce, Bindings

\* No connection satisfies everything asked of one.
LEMMA NoConnInv ==
    /\ NoConn \in Conn
    /\ Nothing \in History
    /\ ConnInv(NoConn, Nothing)
    /\ \A E : Taken(NoConn, Nothing, E)
BY DEF NoConn, Nothing, Conn, History, Labels, Vias, Bindings,
       ConnInv, Tracked, BindingRead, NameRead, Checked, Taken

LEMMA InitIInv == Init => IInv
<1> SUFFICES ASSUME Init PROVE IInv
  OBVIOUS
<1>1. ExitIInv
  BY ExitInitIInv DEF Init
<1>2. PICK p \in InitPolicies : bindings = p.bindings /\ domain = p.domain /\ egress = p.egress
  BY DEF Init
<1>3. TypeOK
  BY <1>1, <1>2, PolicyAssumption, NoConnInv DEF Init, TypeOK, Policies, ExitIInv
<1> QED
  BY <1>1, <1>3, NoConnInv DEF Init, IInv

\* The task goes on as a connection that is sound, with its exit taken or no new one.
LEMMA GoOnIInv ==
    ASSUME IInv, NEW c \in Conns, NEW x \in Conn, GoOnWith(c, x),
           ConnInv(x, seen[c]), Taken(x, seen[c], exits'),
           ExitIInv', exits \subseteq exits'
    PROVE  IInv'
<1>1. /\ conn' = [conn EXCEPT ![c] = x]
      /\ UNCHANGED <<bindings, domain, egress, changes, seen, accepted>>
  BY DEF GoOnWith, policyVars
<1>2. TypeOK'
  BY <1>1 DEF IInv, TypeOK, ExitIInv
<1>3. ASSUME NEW d \in Conns
      PROVE  ConnInv(conn[d], seen[d])'
  BY <1>1, <1>3 DEF IInv, TypeOK, ConnInv, Tracked, BindingRead, NameRead, Checked, InForce
<1>4. ASSUME NEW d \in Conns
      PROVE  Taken(conn[d], seen[d], exits)'
  <2>1. CASE d = c
    BY <1>1, <2>1 DEF IInv, TypeOK
  <2>2. CASE d # c
    BY <1>1, <2>2 DEF IInv, TypeOK, Taken
  <2> QED
    BY <2>1, <2>2
<1> QED
  BY <1>2, <1>3, <1>4 DEF IInv

\* An exit is taken for a binding and a flow.
LEMMA EgressTakesExit ==
    ASSUME IInv, NEW c \in Conns, At(c, "resolved"), NEW dst \in resolve_dst(conn[c].answer)
    PROVE  conn[c].binding \in Binding /\ Flow(conn[c], dst) \in Flows
<1>1. /\ conn[c] \in Conn /\ conn[c].src \in Clients /\ conn[c].sport \in SrcPorts
      /\ conn[c].binding \in Binding
  BY DEF IInv, TypeOK, ConnInv, Tracked, BindingRead, History, At
<1>2. dst \in V6 /\ Port(conn[c].via) \in Ports
  BY <1>1, ResolvedAllowed DEF Conn, Vias, Port, Ports
<1> QED
  BY <1>1, <1>2 DEF Flow, Flows

\* The task goes on without an exit.
LEMMA ContinueIInv ==
    ASSUME IInv, NEW c \in Conns, NEW x \in Conn, Continue(c, x),
           ConnInv(x, seen[c]), Taken(x, seen[c], exits)
    PROVE  IInv'
<1>1. GoOnWith(c, x) /\ digest' = digest /\ exits' = exits
  BY DEF Continue, exitVars
<1>2. ExitIInv'
  BY <1>1 DEF IInv, ExitIInv, ExitTypeOK, Functional, FromHash
<1> QED
  BY <1>1, <1>2, GoOnIInv

\* The connection is closed.
LEMMA DropIInv ==
    ASSUME IInv, NEW c \in Conns, Drop(c)
    PROVE  IInv'
<1>1. /\ conn' = [conn EXCEPT ![c] = NoConn]
      /\ seen' = [seen EXCEPT ![c] = Nothing]
      /\ UNCHANGED <<bindings, domain, egress, changes, accepted, digest, exits>>
  BY DEF Drop, policyVars, exitVars
<1>2. ExitIInv'
  BY <1>1 DEF IInv, ExitIInv, ExitTypeOK, Functional, FromHash
<1>3. TypeOK'
  BY <1>1, <1>2, NoConnInv DEF IInv, TypeOK, ExitIInv
<1>4. ASSUME NEW d \in Conns
      PROVE  (ConnInv(conn[d], seen[d]) /\ Taken(conn[d], seen[d], exits))'
  <2>1. CASE d = c
    BY <1>1, <2>1 DEF IInv, TypeOK, ConnInv, Tracked, BindingRead, NameRead, Checked, Taken,
                      NoConn
  <2>2. CASE d # c
    BY <1>1, <2>2 DEF IInv, TypeOK, ConnInv, Tracked, BindingRead, NameRead, Checked, Taken,
                      InForce
  <2> QED
    BY <2>1, <2>2
<1> QED
  BY <1>2, <1>3, <1>4 DEF IInv

LEMMA AcceptIInv ==
    ASSUME IInv, NEW c \in Conns, Accept(c)
    PROVE  IInv'
<1>1. PICK client \in Clients, port \in SrcPorts, via \in Vias, host \in Hosts, n \in 1..5 :
        /\ via = "quic" <=> n > 1
        /\ conn' = [conn EXCEPT ![c] =
              [NoConn EXCEPT !.pc = "accepted", !.src = client, !.sport = port,
                             !.via = via, !.asked = host, !.sent = n]]
        /\ seen' = [seen EXCEPT ![c] =
              [bindings |-> {InForce(bindings, client)}, domain |-> domain,
               egress |-> egress]]
  BY DEF Accept
<1>2. UNCHANGED <<bindings, domain, egress, changes, digest, exits>> /\ accepted' \in Nat
  BY DEF Accept, policyVars, exitVars, IInv, TypeOK
<1> DEFINE x == [NoConn EXCEPT !.pc = "accepted", !.src = client, !.sport = port,
                               !.via = via, !.asked = host, !.sent = n]
           s == [bindings |-> {InForce(bindings, client)}, domain |-> domain,
                 egress |-> egress]
<1>3. /\ x \in Conn
      /\ x.pc = "accepted" /\ x.src = client /\ x.sport = port /\ x.asked = host
  <2>1. "accepted" \in Labels
    BY DEF Labels
  <2> QED
    BY <2>1, NoConnInv DEF Conn
<1>4. s \in History
  BY InForceIsBinding DEF IInv, TypeOK, History
<1>5. conn' = [conn EXCEPT ![c] = x] /\ seen' = [seen EXCEPT ![c] = s]
  BY <1>1
<1> HIDE DEF x
<1>6. ExitIInv'
  BY <1>2 DEF IInv, ExitIInv, ExitTypeOK, Functional, FromHash
<1>7. TypeOK'
  BY <1>2, <1>3, <1>4, <1>5, <1>6 DEF IInv, TypeOK, ExitIInv
<1>8. ASSUME NEW d \in Conns
      PROVE  (ConnInv(conn[d], seen[d]) /\ Taken(conn[d], seen[d], exits))'
  <2>1. CASE d = c
    BY <1>2, <1>3, <1>5, <2>1 DEF IInv, TypeOK, ConnInv, Tracked, BindingRead, NameRead, Checked,
                                  Taken, InForce
  <2>2. CASE d # c
    BY <1>2, <1>5, <2>2 DEF IInv, TypeOK, ConnInv, Tracked, BindingRead, NameRead, Checked,
                            Taken, InForce
  <2> QED
    BY <2>1, <2>2
<1> QED
  BY <1>6, <1>7, <1>8 DEF IInv

\* A connection with its binding read is one.
LEMMA WithBinding ==
    ASSUME NEW x \in Conn, NEW b \in Binding
    PROVE  LET y == [x EXCEPT !.pc = "peek", !.binding = b] IN
           /\ y \in Conn
           /\ y.pc = "peek" /\ y.src = x.src /\ y.sport = x.sport
           /\ y.asked = x.asked /\ y.binding = b
BY DEF Conn, Labels, Bindings

\* More bytes, and each step of handle_tcp.
LEMMA TaskIInv ==
    ASSUME IInv, NEW c \in Conns, Segment(c) \/ Serve(c) \/ Close(c)
    PROVE  IInv'
<1> USE DEF ConnInv, Tracked, BindingRead, NameRead, Checked, Taken
<1>0. /\ conn[c] \in Conn
      /\ seen[c].bindings \subseteq Binding
      /\ ConnInv(conn[c], seen[c]) /\ Taken(conn[c], seen[c], exits)
  BY DEF IInv, TypeOK, Conn, History
<1>1. CASE Segment(c)
  <2>1. PICK n \in (conn[c].sent + 1)..4 :
          /\ conn[c].pc \in {"accepted", "peek"}
          /\ Continue(c, [conn[c] EXCEPT !.sent = n])
    BY <1>1 DEF Segment
  <2>2. n \in 1..5
    BY <1>0 DEF Conn
  <2>3. /\ [conn[c] EXCEPT !.sent = n] \in Conn
        /\ ConnInv([conn[c] EXCEPT !.sent = n], seen[c])
        /\ Taken([conn[c] EXCEPT !.sent = n], seen[c], exits)
    BY <1>0, <2>1, <2>2 DEF Conn
  <2> QED
    BY <2>1, <2>3, ContinueIInv
<1>2. CASE LookUpBinding(c)
  <2> DEFINE b == InForce(bindings, conn[c].src)
             x == [conn[c] EXCEPT !.pc = "peek", !.binding = b]
  <2>1. At(c, "accepted") /\ Continue(c, x)
    BY <1>2 DEF LookUpBinding
  <2>2. b \in Binding /\ b \in seen[c].bindings
    BY <1>0, <2>1 DEF At
  <2> HIDE DEF b
  <2>3. /\ x \in Conn
        /\ x.pc = "peek" /\ x.src = conn[c].src /\ x.sport = conn[c].sport
        /\ x.asked = conn[c].asked /\ x.binding = b
    BY <1>0, <2>2, WithBinding
  <2> HIDE DEF x
  <2>4. ConnInv(x, seen[c]) /\ Taken(x, seen[c], exits)
    BY <1>0, <2>1, <2>2, <2>3 DEF At
  <2> QED
    BY <2>1, <2>3, <2>4, ContinueIInv
<1>3. CASE Peek(c)
  <2> DEFINE name == peek_sni_or_host(conn[c])
             x == [conn[c] EXCEPT !.pc = "named", !.host = name]
  <2>1. /\ At(c, "peek")
        /\ IF name = NoName THEN Drop(c) ELSE Continue(c, x)
    BY <1>3 DEF Peek
  <2>2. CASE name = NoName
    BY <2>1, <2>2, DropIInv
  <2>3. CASE name # NoName
    <3>1. name \in Hosts
      BY <1>0, <2>1, <2>3, PeekedName DEF At, Conn
    <3> HIDE DEF name
    <3>2. x \in Conn /\ ConnInv(x, seen[c]) /\ Taken(x, seen[c], exits)
      BY <1>0, <2>1, <3>1 DEF Conn, At, Labels
    <3> QED
      BY <2>1, <2>3, <3>2, ContinueIInv
  <2> QED
    BY <2>2, <2>3
<1>4. CASE PeekFails(c) \/ Close(c)
  BY <1>4, DropIInv DEF PeekFails, Close
<1>5. CASE CheckDomain(c)
  <2>1. CASE Drop(c)
    BY <2>1, DropIInv
  <2>2. CASE Goto(c, "lookup") /\ conn[c].host \in domain /\ At(c, "named")
    <3> DEFINE x == [conn[c] EXCEPT !.pc = "lookup"]
    <3>1. x \in Conn /\ ConnInv(x, seen[c]) /\ Taken(x, seen[c], exits)
      BY <1>0, <2>2 DEF Conn, At, Labels
    <3> QED
      BY <2>2, <3>1, ContinueIInv DEF Goto
  <2> QED
    BY <1>5, <2>1, <2>2 DEF CheckDomain
<1>6. CASE LookUpHost(c)
  <2>1. CASE Drop(c)
    BY <2>1, DropIInv
  <2>2. ASSUME At(c, "lookup"), NEW a \in Answers[conn[c].host],
               Continue(c, [conn[c] EXCEPT !.pc = "resolved", !.answer = a])
        PROVE  IInv'
    <3> DEFINE x == [conn[c] EXCEPT !.pc = "resolved", !.answer = a]
    <3>1. a \in Seq(V6 \cup V4)
      BY <1>0, <2>2, AnswerAssumption DEF At
    <3>2. x \in Conn /\ ConnInv(x, seen[c]) /\ Taken(x, seen[c], exits)
      BY <1>0, <2>2, <3>1 DEF Conn, At, Labels
    <3> QED
      BY <2>2, <3>2, ContinueIInv
  <2> QED
    BY <1>6, <2>1, <2>2 DEF LookUpHost
<1>7. CASE CheckEgress(c)
  <2>1. CASE Drop(c)
    BY <2>1, DropIInv
  <2>2. ASSUME At(c, "resolved"), NEW dst \in resolve_dst(conn[c].answer),
               GoOnWith(c, [conn[c] EXCEPT !.pc = "connect", !.dst = dst]),
               TakeExit(conn[c].binding, Flow(conn[c], dst))
        PROVE  IInv'
    <3> DEFINE x == [conn[c] EXCEPT !.pc = "connect", !.dst = dst]
    <3>1. dst \in V6 /\ dst \in egress
      BY ResolvedAllowed
    <3>2. x \in Conn /\ ConnInv(x, seen[c])
      BY <1>0, <2>2, <3>1 DEF Conn, At, Labels
    <3>3. Flow(x, x.dst) = Flow(conn[c], dst) /\ conn[c].binding \in seen[c].bindings
      BY <1>0, <2>2, <3>1 DEF Conn, Flow, At
    <3>4. ExitIInv'
      BY <2>2, EgressTakesExit, TakeExitIInv DEF IInv
    <3>5. /\ exits \subseteq exits'
          /\ \E e \in exits' : e.binding = conn[c].binding /\ e.flow = Flow(conn[c], dst)
      <4>1. PICK h \in HashValues :
              exits' = exits \cup {[binding |-> conn[c].binding, flow |-> Flow(conn[c], dst),
                                    pool |-> PoolOf(h), addr |-> pick_outgoing(h)]}
        BY <2>2 DEF TakeExit
      <4> DEFINE e == [binding |-> conn[c].binding, flow |-> Flow(conn[c], dst),
                       pool |-> PoolOf(h), addr |-> pick_outgoing(h)]
      <4>2. e \in exits' /\ e.binding = conn[c].binding /\ e.flow = Flow(conn[c], dst)
        BY <4>1
      <4> QED
        BY <4>1, <4>2
    <3>6. Taken(x, seen[c], exits')
      BY <3>3, <3>5
    <3>7. GoOnWith(c, x)
      BY <2>2
    <3> HIDE DEF x
    <3> QED
      BY <3>7, <3>2, <3>4, <3>5, <3>6, GoOnIInv
  <2> QED
    BY <1>7, <2>1, <2>2 DEF CheckEgress
<1>8. CASE Connect(c)
  <2>1. CASE Drop(c)
    BY <2>1, DropIInv
  <2>2. CASE Goto(c, "copy") /\ At(c, "connect")
    <3> DEFINE x == [conn[c] EXCEPT !.pc = "copy"]
    <3>1. x \in Conn /\ ConnInv(x, seen[c]) /\ Taken(x, seen[c], exits)
      BY <1>0, <2>2 DEF Conn, At, Labels, Flow
    <3> QED
      BY <2>2, <3>1, ContinueIInv DEF Goto
  <2> QED
    BY <1>8, <2>1, <2>2 DEF Connect
<1> QED
  BY <1>1, <1>2, <1>3, <1>4, <1>5, <1>6, <1>7, <1>8 DEF Serve

\* A change of the policies is added to the history of every connection.
LEMMA ChangeIInv ==
    ASSUME IInv, Change,
           bindings' \in [Clients -> Bindings],
           domain' \in SUBSET Hosts,
           egress' \in SUBSET (V6 \cup V4)
    PROVE  IInv'
<1>1. /\ UNCHANGED <<conn, accepted, digest, exits>> /\ changes' \in Nat
      /\ seen' = [c \in Conns |->
           IF At(c, "none") THEN seen[c]
           ELSE [bindings |-> seen[c].bindings \cup {InForce(bindings', conn[c].src)},
                 domain   |-> seen[c].domain \cup domain',
                 egress   |-> seen[c].egress \cup egress']]
  BY DEF Change, exitVars, IInv, TypeOK
<1>2. ASSUME NEW c \in Conns, ~At(c, "none")
      PROVE  InForce(bindings', conn[c].src) \in Binding
  BY <1>2, InForceIsBinding DEF IInv, ConnInv, Tracked, At
<1>3. ASSUME NEW c \in Conns
      PROVE  seen'[c] \in History
  BY <1>1, <1>2 DEF IInv, TypeOK, History
<1>3a. ExitIInv'
  BY <1>1 DEF IInv, ExitIInv, ExitTypeOK, Functional, FromHash
<1>4. TypeOK'
  BY <1>1, <1>3, <1>3a DEF IInv, TypeOK, ExitIInv
<1>5. ASSUME NEW c \in Conns
      PROVE  (ConnInv(conn[c], seen[c]) /\ Taken(conn[c], seen[c], exits))'
  <2>1. CASE At(c, "none")
    BY <1>1, <2>1 DEF At, ConnInv, Tracked, BindingRead, NameRead, Checked, Taken
  <2>2. CASE ~At(c, "none")
    BY <1>1, <2>2 DEF IInv, At, ConnInv, Tracked, BindingRead, NameRead, Checked, Taken, InForce
  <2> QED
    BY <2>1, <2>2
<1> QED
  BY <1>3a, <1>4, <1>5 DEF IInv

LEMMA Inductive == Spec => []IInv
<1>1. IInv /\ [Next]_vars => IInv'
  <2> SUFFICES ASSUME IInv, [Next]_vars PROVE IInv'
    OBVIOUS
  <2>1. ASSUME NEW c \in Conns, Accept(c) \/ Segment(c) \/ Serve(c) \/ Close(c)
        PROVE  IInv'
    BY <2>1, AcceptIInv, TaskIInv
  <2>2. CASE SwapBindings
    BY <2>2, ChangeIInv DEF SwapBindings, IInv, TypeOK
  <2>3. CASE SwapDomain
    BY <2>3, ChangeIInv DEF SwapDomain, IInv, TypeOK
  <2>4. CASE SwapEgress
    BY <2>4, ChangeIInv DEF SwapEgress, IInv, TypeOK
  <2>5. CASE UNCHANGED vars
    BY <2>5 DEF vars, policyVars, IInv, TypeOK, ConnInv, Tracked, BindingRead, NameRead,
                Checked, Taken, InForce, exitVars, ExitTypeOK, ExitIInv, Functional, FromHash
  <2> QED
    BY <2>1, <2>2, <2>3, <2>4, <2>5 DEF Next
<1> QED
  BY <1>1, InitIInv, PTL DEF Spec

----------------------------------------------------------------------------

\* The variables keep their types; destinations are IPv6 addresses.
THEOREM TypeCorrect == Spec => []TypeOK
<1>1. IInv => TypeOK
  BY DEF IInv
<1> QED
  BY <1>1, Inductive, PTL

\* A change in force when a client connects holds for its connection, for every
\* interleaving of any number of connections and changes: a task never resolves
\* a name, connects to an address or takes an exit for a binding that was not let
\* through or in force at some moment since.
THEOREM ConnsFollowPolicies == Spec => []ConnFollowsPolicies
<1>1. IInv => ConnFollowsPolicies
  BY DEF IInv, ConnInv, Checked, Taken, ConnFollowsPolicies, Leaving
<1> QED
  BY <1>1, Inductive, PTL

\* What ExitSelection shows of exits holds of the exits of connections: they are taken
\* one at a time, by TakeExit, for a binding and a flow.
LEMMA TakesExitsBySpec == Spec => ExitSpec
<1>1. Init => ExitInit
  BY DEF Init
<1>2. IInv /\ [Next]_vars => [ExitNext]_exitVars
  <2> SUFFICES ASSUME IInv, [Next]_vars PROVE [ExitNext]_exitVars
    OBVIOUS
  <2>1. ASSUME NEW c \in Conns, Drop(c) PROVE UNCHANGED exitVars
    BY <2>1 DEF Drop, exitVars
  <2>2. ASSUME NEW c \in Conns, NEW x, Continue(c, x) PROVE UNCHANGED exitVars
    BY <2>2 DEF Continue, exitVars
  <2>3. ASSUME NEW c \in Conns, Accept(c) PROVE UNCHANGED exitVars
    BY <2>3 DEF Accept, exitVars
  <2>4. ASSUME NEW c \in Conns, CheckEgress(c) PROVE [ExitNext]_exitVars
    <3>1. CASE Drop(c)
      BY <2>1, <3>1
    <3>2. ASSUME NEW dst \in resolve_dst(conn[c].answer), At(c, "resolved"),
                 TakeExit(conn[c].binding, Flow(conn[c], dst))
          PROVE  ExitNext
      BY <3>2, EgressTakesExit DEF ExitNext
    <3> QED
      BY <2>4, <3>1, <3>2 DEF CheckEgress
  <2>5. ASSUME NEW c \in Conns, Segment(c) \/ Close(c) PROVE UNCHANGED exitVars
    BY <2>1, <2>2, <2>5 DEF Segment, Close
  <2>6. ASSUME NEW c \in Conns, Serve(c) PROVE [ExitNext]_exitVars
    BY <2>1, <2>2, <2>4, <2>6 DEF Serve, LookUpBinding, Peek, PeekFails, CheckDomain,
                                  LookUpHost, Connect, Goto
  <2>7. CASE SwapBindings \/ SwapDomain \/ SwapEgress
    BY <2>7 DEF SwapBindings, SwapDomain, SwapEgress, Change
  <2>8. CASE UNCHANGED vars
    BY <2>8 DEF vars
  <2> QED
    BY <2>3, <2>5, <2>6, <2>7, <2>8 DEF Next
<1> QED
  BY <1>1, <1>2, Inductive, PTL DEF Spec, ExitSpec

\* So a client keeps its exit through any number of connections, of other clients'
\* connections and of changes of the policies.
THEOREM ConnsKeepTheirExit == Spec => []ExitSticky
BY TakesExitsBySpec, ExitsAreSticky, PTL

\* And every connection leaves by its pool, or by the address above a /128, and by
\* neither end of a pool of at least four, whatever the pools and the hash function.
THEOREM ConnsLeaveByTheirPool == Spec => [](ExitByPool /\ ExitUsable)
BY ExitsStayByPool, ExitsAreUsable, TakesExitsBySpec, PTL
============================================================================
