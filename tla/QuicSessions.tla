---------------------------- MODULE QuicSessions ----------------------------
(***************************************************************************)
(* The QUIC forwarder of dataplane/quic.rs: the table of sessions, the     *)
(* task spawned for each datagram of a client, the reverse relay spawned   *)
(* for each session and the task that sweeps the table.                    *)
(*                                                                         *)
(* A socket is known by the slot it takes; it is open as long as the       *)
(* session, the relay or a task refers to it (an Arc), and its slot is     *)
(* free again afterwards.  One tick is CLEANUP_INTERVAL; ages stop at      *)
(* Timeout, which is SESSION_IDLE_TIMEOUT in ticks: timers fire then or    *)
(* later.  DashMap locks a shard at a time, and the forwarding task keeps  *)
(* its shard locked while it waits for send_to.  That wait is an await:    *)
(* the worker thread of the runtime goes on to other tasks.  The wait for  *)
(* a locked shard is not: it keeps its worker.                             *)
(***************************************************************************)
EXTENDS Naturals, FiniteSets

CONSTANTS Keys,      \* (client_ip, client_port)
          Shard,     \* the shard of the table a key is in
          Tasks,     \* bound: datagrams handled at a time
          Sockets,   \* bound: file descriptors for upstream sockets
          Timeout,   \* SESSION_IDLE_TIMEOUT / CLEANUP_INTERVAL
          Workers,   \* the number of worker threads of the runtime
          NoSession, NoSocket, NoKey

ASSUME ShardAssumption    == DOMAIN Shard = Keys
ASSUME TimeoutAssumption  == Timeout \in Nat \ {0}
ASSUME WorkersAssumption  == Workers \in Nat \ {0}
ASSUME SentinelAssumption == /\ NoSocket \notin Sockets /\ NoKey \notin Keys
                             /\ NoSession \notin [sock : Sockets, age : 0..Timeout]

VARIABLES sessions,  \* the DashMap: key -> [sock, age]
          task,      \* datagram tasks: [pc, key, sock]
          relay,     \* reverse relays: socket -> [st, key, quiet]
          blocked,   \* tasks, relays, sweeps that hold a worker and wait for a shard
          silent     \* clients and upstreams have stopped sending for good

vars == <<sessions, task, relay, blocked, silent>>

IdleTask == [pc |-> "idle", key |-> NoKey, sock |-> NoSocket]
NoRelay  == [st |-> "none", key |-> NoKey, quiet |-> 0]

Session == [sock : Sockets, age : 0..Timeout]

Init == /\ sessions = [k \in Keys |-> NoSession]
        /\ task = [t \in Tasks |-> IdleTask]
        /\ relay = [s \in Sockets |-> NoRelay]
        /\ blocked = {}
        /\ silent = FALSE

\* The sockets something refers to.
SessionOn(s) == \E k \in Keys : sessions[k] # NoSession /\ sessions[k].sock = s
Open(s) == \/ relay[s].st = "running"
           \/ SessionOn(s)
           \/ \E t \in Tasks : task[t].sock = s

\* No task holds the shard of k.
Unlocked(k) == \A t \in Tasks : task[t].pc = "forward" => Shard[task[t].key] # Shard[k]

\* A worker runs a, a task of the runtime: the one a has kept, or a free one.
OnWorker(a) == /\ a \in blocked \/ Cardinality(blocked) < Workers
               /\ blocked' = blocked \ {a}

\* a asks for the shard of k and is blocked, and its worker with it.
WaitForShard(a, k) == /\ a \notin blocked
                      /\ Cardinality(blocked) < Workers
                      /\ ~Unlocked(k)
                      /\ blocked' = blocked \cup {a}
                      /\ UNCHANGED <<sessions, task, relay, silent>>

\* The sweep visits the shards in turn: one that waits for h is at no other.
Sweep(h) == <<"sweep", h>>
SweepAt(h) == \A k \in Keys : Shard[k] # h => Sweep(Shard[k]) \notin blocked

----------------------------------------------------------------------------
(* Faulty variants of the steps below: each breaks a property. *)

\* A socket that could not be created is used all the same.
ResolvedUnchecked(t) ==
    /\ OnWorker(t)
    /\ task[t].pc = "resolve"
    /\ task' = [task EXCEPT ![t].pc = "send"]
    /\ UNCHANGED <<sessions, relay, silent>>

\* The upstream socket of another session is taken.
ResolvedShared(t) ==
    /\ OnWorker(t)
    /\ task[t].pc = "resolve"
    /\ \E s \in Sockets : task' = [task EXCEPT ![t].pc = "send", ![t].sock = s]
    /\ UNCHANGED <<sessions, relay, silent>>

\* A relay that times out leaves the session in the table.
TimeoutKeepsSession(s) ==
    /\ OnWorker(s)
    /\ relay[s].st = "running"
    /\ relay[s].quiet = Timeout
    /\ relay' = [relay EXCEPT ![s] = NoRelay]
    /\ UNCHANGED <<sessions, task, silent>>

\* A relay that times out goes on waiting.
TimeoutWithoutBreak(s) ==
    /\ OnWorker(s)
    /\ relay[s].st = "running"
    /\ relay[s].quiet = Timeout
    /\ Unlocked(relay[s].key)
    /\ sessions' = [sessions EXCEPT ![relay[s].key] = NoSession]
    /\ UNCHANGED <<task, relay, silent>>

----------------------------------------------------------------------------
(* handle_quic_packet *)

\* The listener receives a datagram and spawns a task for it.
Receive(t, k) ==
    /\ OnWorker(t)
    /\ ~silent
    /\ task[t].pc = "idle"
    /\ task' = [task EXCEPT ![t] = [pc |-> "lookup", key |-> k, sock |-> NoSocket]]
    /\ UNCHANGED <<sessions, relay, silent>>

\* get_mut finds the session: touch it and start to send, the shard locked.
Touch(t) ==
    LET k == task[t].key IN
    /\ OnWorker(t)
    /\ task[t].pc = "lookup"
    /\ Unlocked(k)
    /\ sessions[k] # NoSession
    /\ sessions' = [sessions EXCEPT ![k].age = 0]
    /\ task' = [task EXCEPT ![t].pc = "forward", ![t].sock = sessions[k].sock]
    /\ UNCHANGED <<relay, silent>>

\* send_to returns, or fails; either way the task ends and unlocks.
Forwarded(t) ==
    /\ OnWorker(t)
    /\ task[t].pc = "forward"
    /\ task' = [task EXCEPT ![t] = IdleTask]
    /\ UNCHANGED <<sessions, relay, silent>>

\* No session: the datagram is one to open it with (SNI found, domain allowed),
\* and the name is being resolved; or it is dropped.
Miss(t) ==
    /\ OnWorker(t)
    /\ task[t].pc = "lookup"
    /\ Unlocked(task[t].key)
    /\ sessions[task[t].key] = NoSession
    /\ \/ task' = [task EXCEPT ![t].pc = "resolve"]
       \/ task' = [task EXCEPT ![t] = IdleTask]
    /\ UNCHANGED <<sessions, relay, silent>>

\* The name resolves to an allowed address, the exit is picked and the socket is
\* created and bound; any of these may fail instead.
Resolved(t) ==
    /\ OnWorker(t)
    /\ task[t].pc = "resolve"
    /\ \/ \E s \in Sockets :
            /\ ~Open(s)
            /\ task' = [task EXCEPT ![t].pc = "send", ![t].sock = s]
       \/ task' = [task EXCEPT ![t] = IdleTask]
    /\ relay' = [s \in Sockets |-> IF task'[t].sock = s THEN NoRelay ELSE relay[s]]
    /\ UNCHANGED <<sessions, silent>>

\* The first datagram is sent, or the task gives up and the socket is closed.
Sent(t) ==
    /\ OnWorker(t)
    /\ task[t].pc = "send"
    /\ \/ task' = [task EXCEPT ![t].pc = "insert"]
       \/ task' = [task EXCEPT ![t] = IdleTask]
    /\ UNCHANGED <<sessions, relay, silent>>

\* The session is stored, over any other that has appeared under its key
\* meanwhile, and the reverse relay is spawned.  Nothing that runs between the
\* two can tell them apart: the relay is not looked at by anyone else.
Insert(t) ==
    LET k == task[t].key IN
    /\ OnWorker(t)
    /\ task[t].pc = "insert"
    /\ Unlocked(k)
    /\ sessions' = [sessions EXCEPT ![k] = [sock |-> task[t].sock, age |-> 0]]
    /\ relay' = [relay EXCEPT ![task[t].sock] =
                   [st |-> "running", key |-> k, quiet |-> 0]]
    /\ task' = [task EXCEPT ![t] = IdleTask]
    /\ UNCHANGED silent

\* The table is asked for a shard that is locked: get_mut or insert.
TaskWaits(t) == task[t].pc \in {"lookup", "insert"} /\ WaitForShard(t, task[t].key)

Handle(t) == \/ Touch(t) \/ Forwarded(t) \/ Miss(t)
             \/ Resolved(t) \/ Sent(t) \/ Insert(t)

----------------------------------------------------------------------------
(* The reverse relay of a socket *)

\* A datagram from the upstream is relayed to the client, or one from anywhere
\* else is dropped: the wait starts again in both cases.
RelayReceives(s) ==
    /\ OnWorker(s) /\ s \notin blocked
    /\ ~silent
    /\ relay[s].st = "running"
    /\ relay' = [relay EXCEPT ![s].quiet = 0]
    /\ UNCHANGED <<sessions, task, silent>>

\* recv_from or the send to the client fails: the loop is left and the session
\* stays behind.
RelayFails(s) ==
    /\ OnWorker(s) /\ s \notin blocked
    /\ ~silent
    /\ relay[s].st = "running"
    /\ relay' = [relay EXCEPT ![s].st = "failed"]
    /\ UNCHANGED <<sessions, task, silent>>

\* Nothing received for SESSION_IDLE_TIMEOUT: the entry of the client is removed.
RelayTimesOut(s) ==
    /\ OnWorker(s)
    /\ relay[s].st = "running"
    /\ relay[s].quiet = Timeout
    /\ Unlocked(relay[s].key)
    /\ sessions' = [sessions EXCEPT ![relay[s].key] = NoSession]
    /\ relay' = [relay EXCEPT ![s] = NoRelay]
    /\ UNCHANGED <<task, silent>>

\* remove meets a locked shard.
RelayWaits(s) == /\ relay[s].st = "running" /\ relay[s].quiet = Timeout
                 /\ WaitForShard(s, relay[s].key)

----------------------------------------------------------------------------
(* Time and the sweep *)

Older(n) == IF n < Timeout THEN n + 1 ELSE n

Tick ==
    /\ sessions' = [k \in Keys |-> IF sessions[k] = NoSession THEN NoSession
                                   ELSE [sessions[k] EXCEPT !.age = Older(@)]]
    /\ relay' = [s \in Sockets |-> IF relay[s].st = "running"
                                   THEN [relay[s] EXCEPT !.quiet = Older(@)]
                                   ELSE relay[s]]
    /\ UNCHANGED <<task, blocked, silent>>

\* retain, on one shard: it keeps what has been active within the timeout.
Cleanup(h) ==
    /\ OnWorker(Sweep(h)) /\ SweepAt(h)
    /\ \E k \in Keys : Shard[k] = h /\ Unlocked(k)
    /\ sessions' = [k \in Keys |->
         IF Shard[k] = h /\ sessions[k] # NoSession /\ sessions[k].age >= Timeout
         THEN NoSession ELSE sessions[k]]
    /\ UNCHANGED <<task, relay, silent>>

\* retain meets a locked shard.
SweepWaits(k) == SweepAt(Shard[k]) /\ WaitForShard(Sweep(Shard[k]), k)

\* The network falls silent for good.
FallSilent ==
    /\ ~silent
    /\ silent' = TRUE
    /\ UNCHANGED <<sessions, task, relay, blocked>>

Next == \/ \E t \in Tasks, k \in Keys : Receive(t, k)
        \/ \E t \in Tasks : Handle(t) \/ TaskWaits(t)
        \/ \E s \in Sockets : \/ RelayReceives(s) \/ RelayFails(s)
                               \/ RelayTimesOut(s) \/ RelayWaits(s)
        \/ \E k \in Keys : Cleanup(Shard[k]) \/ SweepWaits(k)
        \/ Tick
        \/ FallSilent

Spec == Init /\ [][Next]_vars

\* The runtime polls every task that can run, time passes, timers fire and the
\* sweep goes on.
Fairness == /\ \A t \in Tasks : WF_vars(Handle(t))
            /\ \A s \in Sockets : WF_vars(RelayTimesOut(s))
            /\ \A k \in Keys : WF_vars(Cleanup(Shard[k]))
            /\ WF_vars(Tick)

FairSpec == Spec /\ Fairness

----------------------------------------------------------------------------
(* Properties *)

TypeOK ==
    /\ sessions \in [Keys -> Session \cup {NoSession}]
    /\ task \in [Tasks -> [pc : {"idle", "lookup", "forward", "resolve", "send", "insert"},
                           key : Keys \cup {NoKey}, sock : Sockets \cup {NoSocket}]]
    /\ relay \in [Sockets -> [st : {"none", "running", "failed"},
                              key : Keys \cup {NoKey}, quiet : 0..Timeout]]
    /\ blocked \subseteq Tasks \cup Sockets \cup {Sweep(Shard[k]) : k \in Keys}
    /\ silent \in BOOLEAN

\* A session in the table has its reverse relay, unless that one met an I/O error:
\* a client is not left forwarding into a socket nobody reads because of a timeout
\* or of another session that came or went under its key.
SessionHasRelay ==
    \A k \in Keys : sessions[k] # NoSession =>
      LET r == relay[sessions[k].sock] IN
      r.st = "failed" \/ (r.st = "running" /\ r.key = k)

\* Two clients never share an upstream socket: what comes back on it would go to
\* the wrong one.
SocketsNotShared ==
    \A j, k \in Keys : /\ sessions[j] # NoSession /\ sessions[k] # NoSession
                       /\ sessions[j].sock = sessions[k].sock
                       => j = k

\* quic.rs: "A QUIC session entry tracking the upstream socket and last activity"
\* goes after SESSION_IDLE_TIMEOUT: one is removed only when its client, or its own
\* upstream, has been idle for that long.
OnlyIdleSessionsRemoved ==
    [][\A k \in Keys :
         sessions[k] # NoSession /\ sessions'[k] = NoSession =>
           \/ sessions[k].age = Timeout
           \/ relay[sessions[k].sock].quiet = Timeout]_vars

\* Nothing leaks: once the network is silent every session is swept, every relay
\* ends and every socket is closed, however sessions were replaced before.
AllReclaimed == silent ~> (\A s \in Sockets : ~Open(s))

\* quic.rs: "Forward to upstream", the send_to of a datagram of a known session,
\* comes to an end: the tasks that wait for its shard leave it a worker to run on.
ForwardCompletes ==
    \A t \in Tasks : task[t].pc = "forward" ~> task[t].pc # "forward"
============================================================================
