----------------------------- MODULE DataPlane -----------------------------
(***************************************************************************)
(* A connection through the data plane: handle_tcp of dataplane/tcp.rs and *)
(* the first datagram of a session in handle_quic_packet of                *)
(* dataplane/quic.rs, with sni.rs and forward.rs, while the admin API      *)
(* swaps the bindings and the filters under them.  The task of a           *)
(* connection loads POLICIES and each filter once, at different moments,   *)
(* with awaits in between; the first bytes of a TCP client arrive in as    *)
(* many segments as the network likes, those of a QUIC client in one       *)
(* datagram whose CRYPTO frames may be in any order.                       *)
(*                                                                         *)
(* A filter is the set of names or addresses it lets through (AclFilter    *)
(* says which), the exit is the one ExitSelection computes.  What becomes  *)
(* of a QUIC session after its first datagram is in QuicSessions.          *)
(***************************************************************************)
EXTENDS ExitSelection

CONSTANTS Conns, NoClient, NoPort,
          DefaultBinding, NoBinding,
          Hosts,        \* names; NoName is none, or one that names nothing
          NoName,
          Cut,          \* what is left of a name cut off by the end of a segment
          Shuffled,     \* what is read of a name in a ClientHello put together wrong
          V4,           \* addresses
          Answers,      \* what DNS may answer for a name: sequences of addresses
          NoAddr,
          InitPolicies, \* the policies and filters that were loaded
          MaxConns,     \* bound: connections accepted
          MaxChanges    \* bound: changes of the policies

Bindings == Binding \cup {NoBinding}
Vias == {"tls", "http", "quic"}        \* TCP 443, another TCP port, UDP 443
Port(via) == IF via = "http" THEN 80 ELSE 443

\* What has arrived: bytes up to, within, past the name; or all of them, but
\* with the CRYPTO frames out of order.
Arrived == <<"nothing", "head", "cut", "whole", "shuffled">>

Policies == [bindings : [Clients -> Bindings], domain : SUBSET Hosts,
             egress : SUBSET (V6 \cup V4)]

ASSUME ClientAssumption  == NoClient \notin Clients /\ NoPort \notin SrcPorts
ASSUME BindingAssumption == DefaultBinding \in Binding /\ NoBinding \notin Binding
ASSUME NameAssumption    == /\ NoName \notin Hosts
                            /\ Cut \in [Hosts -> Hosts \cup {NoName}]
                            /\ Shuffled \in [Hosts -> Hosts \cup {NoName}]
ASSUME AddrAssumption    == NoAddr \notin V6 /\ V6 \cap V4 = {}
ASSUME AnswerAssumption  == Answers \in [Hosts -> SUBSET Seq(V6 \cup V4)]
ASSUME PolicyAssumption  == InitPolicies \subseteq Policies

VARIABLES bindings,   \* POLICIES.bindings
          domain,     \* DOMAIN_FILTER: the names it lets through
          egress,     \* EGRESS_FILTER: the addresses it lets through
          conn,       \* each connection's client, its bytes and its task
          seen,       \* history: what was in force since the connection was accepted
          accepted, changes

policyVars == <<bindings, domain, egress, changes>>
vars == <<policyVars, conn, seen, accepted, exitVars>>

NoConn == [pc |-> "none", src |-> NoClient, sport |-> NoPort, via |-> "tls",
           asked |-> NoName, sent |-> 1, binding |-> NoBinding, host |-> NoName,
           answer |-> <<>>, dst |-> NoAddr]
Nothing == [bindings |-> {}, domain |-> {}, egress |-> {}]

Init == /\ \E p \in InitPolicies :
             bindings = p.bindings /\ domain = p.domain /\ egress = p.egress
        /\ conn = [c \in Conns |-> NoConn]
        /\ seen = [c \in Conns |-> Nothing]
        /\ accepted = 0
        /\ changes = 0
        /\ ExitInit

At(c, label) == conn[c].pc = label

\* The task goes on with x, or returns and closes the client's connection.
GoOnWith(c, x) == /\ conn' = [conn EXCEPT ![c] = x]
                  /\ UNCHANGED <<policyVars, seen, accepted>>
Continue(c, x) == GoOnWith(c, x) /\ UNCHANGED exitVars
Goto(c, label) == Continue(c, [conn[c] EXCEPT !.pc = label])
Drop(c) == /\ conn' = [conn EXCEPT ![c] = NoConn]
           /\ seen' = [seen EXCEPT ![c] = Nothing]
           /\ UNCHANGED <<policyVars, accepted, exitVars>>

----------------------------------------------------------------------------
(* The client *)

\* A client without a binding has the default one.
InForce(bs, client) == IF bs[client] = NoBinding THEN DefaultBinding ELSE bs[client]

\* A listener accepts a connection, or receives the first datagram of a session
\* with all there is to it, and spawns a task.
Accept(c) ==
    /\ At(c, "none")
    /\ accepted < MaxConns
    /\ accepted' = accepted + 1
    /\ \E client \in Clients, port \in SrcPorts, via \in Vias, host \in Hosts, n \in 1..5 :
         /\ via = "quic" <=> n > 1
         /\ conn' = [conn EXCEPT ![c] =
              [NoConn EXCEPT !.pc = "accepted", !.src = client, !.sport = port,
                             !.via = via, !.asked = host, !.sent = n]]
         /\ seen' = [seen EXCEPT ![c] =
              [bindings |-> {InForce(bindings, client)}, domain |-> domain, egress |-> egress]]
    /\ UNCHANGED <<policyVars, exitVars>>

\* More of a TCP client's first bytes arrive.
Segment(c) ==
    /\ conn[c].pc \in {"accepted", "peek"}
    /\ conn[c].via # "quic"
    /\ \E n \in (conn[c].sent + 1)..4 : Continue(c, [conn[c] EXCEPT !.sent = n])

----------------------------------------------------------------------------
(* sni.rs and the parser of quic.rs (SniParser has them byte by byte).  A client  *)
(* that does not speak what its port is for never gets past "head".               *)

\* A name that is all there is found, a name that is cut is not (NameIsWhole of
\* SniParser: what is found in a part is what is found in the whole).
extract_tls_sni(x) == IF Arrived[x.sent] = "whole" THEN x.asked ELSE NoName

\* The last line may lack its end, and is taken as it is.
extract_http_host(x) ==
    CASE Arrived[x.sent] = "whole" -> x.asked
      [] Arrived[x.sent] = "cut"   -> Cut[x.asked]
      [] OTHER -> NoName

\* CRYPTO frames are put together in the order they come in.
extract_quic_sni(x) ==
    IF Arrived[x.sent] = "shuffled" THEN Shuffled[x.asked] ELSE extract_tls_sni(x)

\* The port says what to expect.
peek_sni_or_host(x) == CASE x.via = "tls"  -> extract_tls_sni(x)
                         [] x.via = "http" -> extract_http_host(x)
                         [] x.via = "quic" -> extract_quic_sni(x)

----------------------------------------------------------------------------
(* forward.rs *)

\* The first of the answers that is in S: one or none.
FirstIn(answer, S) ==
    {answer[i] : i \in {j \in 1..Len(answer) :
                          answer[j] \in S /\ \A k \in 1..(j - 1) : answer[k] \notin S}}

\* Faults: IPv4 answers are taken, too; the first answer is used when all of
\* them are blocked.
ResolveAnyFamily(answer) == FirstIn(answer, egress)

ResolveAnyway(answer) ==
    IF FirstIn(answer, V6 \cap egress) = {} THEN FirstIn(answer, V6)
    ELSE FirstIn(answer, V6 \cap egress)

\* The first IPv6 answer that the egress filter lets through.
resolve_dst(answer) == FirstIn(answer, V6 \cap egress)

----------------------------------------------------------------------------
(* handle_tcp, handle_quic_packet *)

\* 1. POLICIES.load.
LookUpBinding(c) ==
    /\ At(c, "accepted")
    /\ Continue(c, [conn[c] EXCEPT !.pc = "peek",
                                  !.binding = InForce(bindings, conn[c].src)])

\* 2. One peek: it returns what has arrived, however little; or the datagram.
Peek(c) ==
    LET name == peek_sni_or_host(conn[c]) IN
    /\ At(c, "peek")
    /\ Arrived[conn[c].sent] # "nothing"
    /\ IF name = NoName THEN Drop(c)
       ELSE Continue(c, [conn[c] EXCEPT !.pc = "named", !.host = name])

\* Fault: the peek has no timeout, and only a client that had begun is given up.
PeekWithoutTimeout(c) ==
    /\ At(c, "peek")
    /\ conn[c].via # "quic"
    /\ Arrived[conn[c].sent] # "nothing"
    /\ Drop(c)

\* Nothing arrives within PEEK_TIMEOUT, or the client closes or resets.
PeekFails(c) ==
    /\ At(c, "peek")
    /\ conn[c].via # "quic"
    /\ Drop(c)

\* 2b. DOMAIN_FILTER.load: a blocked name is dropped before it is resolved.
CheckDomain(c) ==
    /\ At(c, "named")
    /\ IF conn[c].host \in domain THEN Goto(c, "lookup") ELSE Drop(c)

\* 3. lookup_host answers or fails ...
LookUpHost(c) ==
    /\ At(c, "lookup")
    /\ \/ \E a \in Answers[conn[c].host] :
            Continue(c, [conn[c] EXCEPT !.pc = "resolved", !.answer = a])
       \/ Drop(c)

Flow(x, dst) == [src |-> x.src, dst |-> dst, sport |-> x.sport, dport |-> Port(x.via)]

\* ... EGRESS_FILTER.load; 4. the exit is picked: the pools are never empty.
CheckEgress(c) ==
    /\ At(c, "resolved")
    /\ \/ \E dst \in resolve_dst(conn[c].answer) :
            /\ GoOnWith(c, [conn[c] EXCEPT !.pc = "connect", !.dst = dst])
            /\ TakeExit(conn[c].binding, Flow(conn[c], dst))
       \/ resolve_dst(conn[c].answer) = {} /\ Drop(c)

\* 5. bind_and_connect, then 6. the copy; or the socket, the first send_to and the
\* new session.  Any of the calls may fail.
Connect(c) ==
    /\ At(c, "connect")
    /\ Goto(c, "copy") \/ Drop(c)

\* copy_bidirectional returns, or the session ends.
Close(c) ==
    /\ At(c, "copy")
    /\ Drop(c)

Serve(c) == \/ LookUpBinding(c) \/ Peek(c) \/ PeekFails(c) \/ CheckDomain(c)
            \/ LookUpHost(c) \/ CheckEgress(c) \/ Connect(c)

----------------------------------------------------------------------------
(* The admin API *)

Change ==
    /\ changes < MaxChanges
    /\ changes' = changes + 1
    /\ seen' = [c \in Conns |->
         IF At(c, "none") THEN seen[c]
         ELSE [bindings |-> seen[c].bindings \cup {InForce(bindings', conn[c].src)},
               domain   |-> seen[c].domain \cup domain',
               egress   |-> seen[c].egress \cup egress']]
    /\ UNCHANGED <<conn, accepted, exitVars>>

\* POLICIES.store.
SwapBindings == /\ \E client \in Clients, b \in Bindings :
                     bindings' = [bindings EXCEPT ![client] = b]
                /\ UNCHANGED <<domain, egress>>
                /\ Change

\* DOMAIN_FILTER.store, EGRESS_FILTER.store.
SwapDomain == /\ domain' \in SUBSET Hosts
              /\ UNCHANGED <<bindings, egress>>
              /\ Change

SwapEgress == /\ egress' \in SUBSET (V6 \cup V4)
              /\ UNCHANGED <<bindings, domain>>
              /\ Change

Next == \/ \E c \in Conns : Accept(c) \/ Segment(c) \/ Serve(c) \/ Close(c)
        \/ SwapBindings \/ SwapDomain \/ SwapEgress

Spec == Init /\ [][Next]_vars

\* The task of a connection is polled: the peek returns or times out, the resolver
\* and the kernel answer or give up.
FairSpec == Spec /\ \A c \in Conns : WF_vars(Serve(c))

----------------------------------------------------------------------------
(* Properties *)

Labels == {"none", "accepted", "peek", "named", "lookup", "resolved", "connect", "copy"}

Conn == [pc : Labels, src : Clients \cup {NoClient}, sport : SrcPorts \cup {NoPort},
         via : Vias, asked : Hosts \cup {NoName}, sent : 1..5, binding : Bindings,
         host : Hosts \cup {NoName}, answer : Seq(V6 \cup V4), dst : V6 \cup {NoAddr}]

History == [bindings : SUBSET Binding, domain : SUBSET Hosts, egress : SUBSET (V6 \cup V4)]

TypeOK ==
    /\ bindings \in [Clients -> Bindings]
    /\ domain \in SUBSET Hosts
    /\ egress \in SUBSET (V6 \cup V4)
    /\ conn \in [Conns -> Conn]
    /\ seen \in [Conns -> History]
    /\ accepted \in Nat /\ changes \in Nat
    /\ ExitTypeOK

Leaving(c) == conn[c].pc \in {"connect", "copy"}

\* A change that is in force when a client connects holds for its connection, however
\* the task and later changes interleave: a name blocked throughout is not resolved
\* (tcp.rs: "drop before any DNS resolution if the host is blocked"), an address
\* blocked throughout is not connected to, and the exit is one taken for a binding
\* the client has had meanwhile, not for one replaced before.
ConnFollowsPolicies ==
    \A c \in Conns :
      /\ conn[c].pc \in {"lookup", "resolved"} \/ Leaving(c) =>
           conn[c].host \in seen[c].domain
      /\ Leaving(c) => /\ conn[c].dst \in seen[c].egress
                       /\ \E e \in exits : /\ e.flow = Flow(conn[c], conn[c].dst)
                                           /\ e.binding \in seen[c].bindings

\* sni.rs peeks "to extract SNI (TLS) or Host (HTTP)".  A connection goes to the name
\* its client asked for, however its first bytes are cut into segments and frames.
NameIsTheOneAsked ==
    \A c \in Conns : Leaving(c) => conn[c].host = conn[c].asked

\* No connection hangs: whatever its client sends or does not send, it is dropped or
\* gets to the copy.
EveryConnSettles ==
    \A c \in Conns : At(c, "accepted") ~> (At(c, "copy") \/ At(c, "none"))
============================================================================
