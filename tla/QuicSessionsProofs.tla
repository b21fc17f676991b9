------------------------- MODULE QuicSessionsProofs -------------------------
(***************************************************************************)
(* Theorems about QuicSessions, for any number of clients, datagrams,      *)
(* sockets, shards and worker threads.  A session keeps its relay because  *)
(* the socket of a task that has not stored its session yet is that task's *)
(* alone: Fresh says so, and with it every conjunct of IInv is inductive.  *)
(***************************************************************************)
EXTENDS QuicSessions, TLAPS

\* A task at work has the key of a client.
TaskHasKey(t) == task[t].pc # "idle" => task[t].key \in Keys

\* The socket of a session that is yet to be stored: no session, relay or other
\* task refers to it.
Fresh(t) ==
    task[t].pc \in {"send", "insert"} =>
      /\ task[t].sock \in Sockets
      /\ ~SessionOn(task[t].sock)
      /\ relay[task[t].sock] = NoRelay
      /\ \A u \in Tasks \ {t} : task[u].sock # task[t].sock

IInv == /\ TypeOK
        /\ \A t \in Tasks : TaskHasKey(t) /\ Fresh(t)
        /\ SessionHasRelay
        /\ SocketsNotShared

----------------------------------------------------------------------------
(* The initial state *)

LEMMA InitIInv == Init => IInv
  <1> SUFFICES ASSUME Init PROVE IInv
    OBVIOUS
  <1>1. /\ \A k \in Keys : sessions[k] = NoSession
        /\ \A t \in Tasks : task[t].pc = "idle"
    BY DEF Init, IdleTask
  <1>2. /\ sessions \in [Keys -> Session \cup {NoSession}]
        /\ task \in [Tasks -> [pc : {"idle", "lookup", "forward", "resolve", "send", "insert"},
                               key : Keys \cup {NoKey}, sock : Sockets \cup {NoSocket}]]
    BY DEF Init, IdleTask
  <1>3. relay \in [Sockets -> [st : {"none", "running", "failed"},
                               key : Keys \cup {NoKey}, quiet : 0..Timeout]]
    BY TimeoutAssumption DEF Init, NoRelay
  <1>4. TypeOK
    BY <1>2, <1>3 DEF Init, TypeOK
  <1>5. \A t \in Tasks : TaskHasKey(t) /\ Fresh(t)
    BY <1>1 DEF TaskHasKey, Fresh
  <1>6. SessionHasRelay /\ SocketsNotShared
    BY <1>1 DEF SessionHasRelay, SocketsNotShared
  <1> QED BY <1>4, <1>5, <1>6 DEF IInv

----------------------------------------------------------------------------
(* Steps of the datagram tasks *)

\* A step that neither gives a task a socket nor touches sessions and relays.
LEMMA TaskMovesOn ==
  ASSUME IInv, NEW t \in Tasks,
         NEW r \in [pc : {"idle", "lookup", "forward", "resolve", "send", "insert"},
                    key : Keys \cup {NoKey}, sock : Sockets \cup {NoSocket}],
         task' = [task EXCEPT ![t] = r],
         r.pc # "idle" => r.key \in Keys,
         r.sock \in {NoSocket, task[t].sock},
         r.pc \in {"send", "insert"} => /\ task[t].pc \in {"send", "insert"}
                                         /\ r.sock = task[t].sock,
         blocked' \subseteq blocked,
         UNCHANGED <<sessions, relay, silent>>
  PROVE  IInv'
  <1>1. TypeOK'
    BY DEF IInv, TypeOK
  <1>2. \A u \in Tasks : TaskHasKey(u)'
    BY DEF IInv, TypeOK, TaskHasKey
  <1>3. ASSUME NEW u \in Tasks PROVE Fresh(u)'
    BY SentinelAssumption DEF IInv, TypeOK, Fresh, SessionOn
  <1>4. SessionHasRelay' /\ SocketsNotShared'
    BY DEF IInv, SessionHasRelay, SocketsNotShared
  <1> QED BY <1>1, <1>2, <1>3, <1>4 DEF IInv

LEMMA ReceiveIInv ==
  ASSUME IInv, NEW t \in Tasks, NEW k \in Keys, Receive(t, k)
  PROVE  IInv'
  <1> DEFINE r == [pc |-> "lookup", key |-> k, sock |-> NoSocket]
  <1>1. task' = [task EXCEPT ![t] = r]
    BY DEF Receive
  <1>2. r \in [pc : {"idle", "lookup", "forward", "resolve", "send", "insert"},
               key : Keys \cup {NoKey}, sock : Sockets \cup {NoSocket}]
    OBVIOUS
  <1>3. blocked' \subseteq blocked /\ UNCHANGED <<sessions, relay, silent>>
    BY DEF Receive, OnWorker
  <1> QED BY <1>1, <1>2, <1>3, TaskMovesOn

\* A task that ends forgets its socket.
LEMMA TaskEnds ==
  ASSUME IInv, NEW t \in Tasks, task' = [task EXCEPT ![t] = IdleTask],
         blocked' \subseteq blocked, UNCHANGED <<sessions, relay, silent>>
  PROVE  IInv'
  <1>1. IdleTask \in [pc : {"idle", "lookup", "forward", "resolve", "send", "insert"},
                      key : Keys \cup {NoKey}, sock : Sockets \cup {NoSocket}]
    BY DEF IdleTask
  <1>2. IdleTask.pc = "idle" /\ IdleTask.sock = NoSocket
    BY DEF IdleTask
  <1> QED BY <1>1, <1>2, TaskMovesOn

\* A task that changes its program counter alone.
LEMMA TaskSteps ==
  ASSUME IInv, NEW t \in Tasks, NEW p \in {"resolve", "insert"},
         task[t].pc # "idle", p = "insert" => task[t].pc = "send",
         task' = [task EXCEPT ![t].pc = p],
         blocked' \subseteq blocked, UNCHANGED <<sessions, relay, silent>>
  PROVE  IInv'
  <1> DEFINE r == [task[t] EXCEPT !.pc = p]
  <1>1. task[t] \in [pc : {"idle", "lookup", "forward", "resolve", "send", "insert"},
                     key : Keys \cup {NoKey}, sock : Sockets \cup {NoSocket}]
    BY DEF IInv, TypeOK
  <1>2. /\ r \in [pc : {"idle", "lookup", "forward", "resolve", "send", "insert"},
                  key : Keys \cup {NoKey}, sock : Sockets \cup {NoSocket}]
        /\ r.pc = p /\ r.key = task[t].key /\ r.sock = task[t].sock
    BY <1>1
  <1>3. task' = [task EXCEPT ![t] = r]
    BY DEF IInv, TypeOK
  <1>4. task[t].key \in Keys
    BY DEF IInv, TaskHasKey
  <1> HIDE DEF r
  <1> QED BY <1>2, <1>3, <1>4, TaskMovesOn

LEMMA ForwardedIInv ==
  ASSUME IInv, NEW t \in Tasks, Forwarded(t)
  PROVE  IInv'
  BY TaskEnds DEF Forwarded, OnWorker

LEMMA MissIInv ==
  ASSUME IInv, NEW t \in Tasks, Miss(t)
  PROVE  IInv'
  <1>1. /\ task[t].pc # "idle" /\ blocked' \subseteq blocked
        /\ UNCHANGED <<sessions, relay, silent>>
    BY DEF Miss, OnWorker
  <1>2. CASE task' = [task EXCEPT ![t].pc = "resolve"]
    BY <1>1, <1>2, TaskSteps
  <1>3. CASE task' = [task EXCEPT ![t] = IdleTask]
    BY <1>1, <1>3, TaskEnds
  <1> QED BY <1>2, <1>3 DEF Miss

LEMMA SentIInv ==
  ASSUME IInv, NEW t \in Tasks, Sent(t)
  PROVE  IInv'
  <1>1. /\ task[t].pc = "send" /\ blocked' \subseteq blocked
        /\ UNCHANGED <<sessions, relay, silent>>
    BY DEF Sent, OnWorker
  <1>2. CASE task' = [task EXCEPT ![t].pc = "insert"]
    BY <1>1, <1>2, TaskSteps
  <1>3. CASE task' = [task EXCEPT ![t] = IdleTask]
    BY <1>1, <1>3, TaskEnds
  <1> QED BY <1>2, <1>3 DEF Sent

\* The socket of the session that is found is none of the fresh ones.
LEMMA TouchIInv ==
  ASSUME IInv, NEW t \in Tasks, Touch(t)
  PROVE  IInv'
  <1> DEFINE k == task[t].key
  <1>1. /\ k \in Keys /\ sessions[k] \in Session
        /\ sessions' = [sessions EXCEPT ![k].age = 0]
        /\ task' = [task EXCEPT ![t].pc = "forward", ![t].sock = sessions[k].sock]
        /\ blocked' \subseteq blocked /\ relay' = relay /\ silent' = silent
        /\ sessions[k] # NoSession
    BY DEF Touch, OnWorker, IInv, TypeOK, TaskHasKey
  <1>2. /\ sessions'[k] \in Session /\ sessions'[k].sock = sessions[k].sock
        /\ \A j \in Keys \ {k} : sessions'[j] = sessions[j]
    BY <1>1, TimeoutAssumption DEF IInv, TypeOK, Session
  <1>3. /\ task'[t].pc = "forward" /\ task'[t].key = k
        /\ task'[t].sock = sessions[k].sock
        /\ \A u \in Tasks \ {t} : task'[u] = task[u]
    BY <1>1 DEF IInv, TypeOK
  <1>4. TypeOK'
    BY <1>1, <1>2, <1>3, TimeoutAssumption DEF IInv, TypeOK, Session
  <1>5. \A u \in Tasks : TaskHasKey(u)'
    BY <1>1, <1>3 DEF IInv, TaskHasKey
  <1>6. ASSUME NEW s, SessionOn(s)' PROVE SessionOn(s)
    BY <1>1, <1>2, <1>6 DEF SessionOn
  <1>7. SessionOn(sessions[k].sock)
    BY <1>1 DEF SessionOn
  <1>8. ASSUME NEW u \in Tasks PROVE Fresh(u)'
    <2> SUFFICES ASSUME u # t, task[u].pc \in {"send", "insert"} PROVE Fresh(u)'
      BY <1>3 DEF Fresh
    <2>1. /\ task[u].sock \in Sockets /\ ~SessionOn(task[u].sock)
          /\ relay[task[u].sock] = NoRelay
          /\ \A v \in Tasks \ {u} : task[v].sock # task[u].sock
      BY DEF IInv, Fresh
    <2>2. task'[u] = task[u] /\ ~SessionOn(task[u].sock)'
      BY <1>3, <1>6, <2>1
    <2>3. \A v \in Tasks \ {u} : task'[v].sock # task[u].sock
      BY <1>3, <1>7, <2>1
    <2> QED BY <1>1, <2>1, <2>2, <2>3 DEF Fresh, SessionOn
  <1>9. SessionHasRelay' /\ SocketsNotShared'
    BY <1>1, <1>2 DEF IInv, SessionHasRelay, SocketsNotShared
  <1> HIDE DEF k
  <1> QED BY <1>4, <1>5, <1>8, <1>9 DEF IInv

\* A new socket is one nothing refers to.
LEMMA ResolvedIInv ==
  ASSUME IInv, NEW t \in Tasks, Resolved(t)
  PROVE  IInv'
  <1>1. /\ task[t].pc = "resolve" /\ task[t].key \in Keys
        /\ relay' = [s \in Sockets |-> IF task'[t].sock = s THEN NoRelay ELSE relay[s]]
        /\ blocked' \subseteq blocked /\ sessions' = sessions /\ silent' = silent
    BY DEF Resolved, OnWorker, IInv, TaskHasKey
  <1>2. CASE task' = [task EXCEPT ![t] = IdleTask]
    <2>1. task'[t].sock = NoSocket
      BY <1>2 DEF IInv, TypeOK, IdleTask
    <2>2. relay' = relay
      BY <1>1, <2>1, SentinelAssumption DEF IInv, TypeOK
    <2> QED BY <1>1, <1>2, <2>2, TaskEnds
  <1>3. ASSUME NEW s \in Sockets, ~Open(s),
               task' = [task EXCEPT ![t].pc = "send", ![t].sock = s]
        PROVE  IInv'
    <2>1. /\ task'[t].pc = "send" /\ task'[t].key = task[t].key /\ task'[t].sock = s
          /\ \A u \in Tasks \ {t} : task'[u] = task[u]
      BY <1>3 DEF IInv, TypeOK
    <2>2. /\ ~SessionOn(s) /\ \A u \in Tasks : task[u].sock # s
          /\ relay'[s] = NoRelay /\ \A x \in Sockets \ {s} : relay'[x] = relay[x]
      BY <1>1, <1>3, <2>1 DEF Open
    <2>3. TypeOK'
      <3>1. NoRelay \in [st : {"none", "running", "failed"},
                         key : Keys \cup {NoKey}, quiet : 0..Timeout]
        BY TimeoutAssumption DEF NoRelay
      <3>2. relay' \in [Sockets -> [st : {"none", "running", "failed"},
                                    key : Keys \cup {NoKey}, quiet : 0..Timeout]]
        BY <1>1, <3>1 DEF IInv, TypeOK
      <3>3. task' \in [Tasks -> [pc : {"idle", "lookup", "forward", "resolve", "send", "insert"},
                                 key : Keys \cup {NoKey}, sock : Sockets \cup {NoSocket}]]
        <4>1. task[t] \in [pc : {"idle", "lookup", "forward", "resolve", "send", "insert"},
                           key : Keys \cup {NoKey}, sock : Sockets \cup {NoSocket}]
          BY DEF IInv, TypeOK
        <4>2. [task[t] EXCEPT !.pc = "send", !.sock = s]
                \in [pc : {"idle", "lookup", "forward", "resolve", "send", "insert"},
                    key : Keys \cup {NoKey}, sock : Sockets \cup {NoSocket}]
          BY <4>1
        <4>3. task' = [task EXCEPT ![t] = [task[t] EXCEPT !.pc = "send", !.sock = s]]
          BY <1>3 DEF IInv, TypeOK
        <4> QED BY <4>2, <4>3 DEF IInv, TypeOK
      <3> QED BY <1>1, <3>2, <3>3 DEF IInv, TypeOK
    <2>4. \A u \in Tasks : TaskHasKey(u)'
      BY <1>1, <2>1 DEF IInv, TaskHasKey
    <2>5. \A x : SessionOn(x)' <=> SessionOn(x)
      BY <1>1 DEF SessionOn
    <2>6. ASSUME NEW u \in Tasks PROVE Fresh(u)'
      BY <1>1, <2>1, <2>2, <2>5 DEF IInv, Fresh
    <2>7. SessionHasRelay' /\ SocketsNotShared'
      BY <1>1, <2>2 DEF IInv, TypeOK, Session, SessionOn, SessionHasRelay, SocketsNotShared
    <2> QED BY <2>3, <2>4, <2>6, <2>7 DEF IInv
  <1> QED BY <1>2, <1>3 DEF Resolved

\* The session that is stored has a relay of its own on a socket of its own.
LEMMA InsertIInv ==
  ASSUME IInv, NEW t \in Tasks, Insert(t)
  PROVE  IInv'
  <1> DEFINE k == task[t].key
             s == task[t].sock
             new == [sock |-> s, age |-> 0]
  <1>1. /\ task[t].pc = "insert" /\ k \in Keys /\ s \in Sockets /\ ~SessionOn(s)
        /\ \A u \in Tasks \ {t} : task[u].sock # s
        /\ sessions' = [sessions EXCEPT ![k] = new]
        /\ relay' = [relay EXCEPT ![s] = [st |-> "running", key |-> k, quiet |-> 0]]
        /\ task' = [task EXCEPT ![t] = IdleTask]
        /\ blocked' \subseteq blocked /\ silent' = silent
    BY DEF Insert, OnWorker, IInv, TaskHasKey, Fresh
  <1>2. /\ sessions'[k] = new /\ \A j \in Keys \ {k} : sessions'[j] = sessions[j]
        /\ relay'[s] = [st |-> "running", key |-> k, quiet |-> 0]
        /\ \A x \in Sockets \ {s} : relay'[x] = relay[x]
        /\ task'[t] = IdleTask /\ \A u \in Tasks \ {t} : task'[u] = task[u]
    BY <1>1 DEF IInv, TypeOK
  <1>3. TypeOK'
    BY <1>1, TimeoutAssumption DEF IInv, TypeOK, Session, IdleTask
  <1>4. \A u \in Tasks : TaskHasKey(u)'
    BY <1>2 DEF IInv, TaskHasKey, IdleTask
  <1>5. ASSUME NEW x, SessionOn(x)' PROVE SessionOn(x) \/ x = s
    BY <1>1, <1>2, <1>5 DEF SessionOn
  <1>6. ASSUME NEW u \in Tasks PROVE Fresh(u)'
    BY <1>1, <1>2, <1>5, SentinelAssumption DEF IInv, Fresh, IdleTask
  <1>7. SessionHasRelay'
    BY <1>1, <1>2 DEF IInv, TypeOK, Session, SessionOn, SessionHasRelay
  <1>8. SocketsNotShared'
    BY <1>1, <1>2 DEF IInv, SessionOn, SocketsNotShared
  <1> HIDE DEF k, s, new
  <1> QED BY <1>3, <1>4, <1>6, <1>7, <1>8 DEF IInv

----------------------------------------------------------------------------
(* Steps of relays, time and sweep: they leave tasks alone *)

\* Whoever waits for a shard changes nothing but that it waits.
LEMMA WaitIInv ==
  ASSUME IInv, UNCHANGED <<sessions, task, relay, silent>>,
         blocked' \subseteq Tasks \cup Sockets \cup {Sweep(Shard[k]) : k \in Keys}
  PROVE  IInv'
  BY DEF IInv, TypeOK, TaskHasKey, Fresh, SessionOn, SessionHasRelay, SocketsNotShared

\* Sessions that only age or leave, and relays that only age, fail or leave with
\* the session they serve.
LEMMA TableShrinks ==
  ASSUME IInv, TypeOK', UNCHANGED <<task, silent>>,
         \A k \in Keys : sessions'[k] # NoSession =>
           /\ sessions[k] # NoSession
           /\ sessions'[k].sock = sessions[k].sock,
         \A s \in Sockets : relay[s] = NoRelay => relay'[s] = NoRelay,
         SessionHasRelay'
  PROVE  IInv'
  <1>1. \A s : SessionOn(s)' => SessionOn(s)
    BY DEF SessionOn
  <1>2. ASSUME NEW u \in Tasks PROVE TaskHasKey(u)' /\ Fresh(u)'
    BY <1>1 DEF IInv, TaskHasKey, Fresh
  <1>3. SocketsNotShared'
    BY DEF IInv, SocketsNotShared
  <1> QED BY <1>2, <1>3 DEF IInv

LEMMA RelayReceivesIInv ==
  ASSUME IInv, NEW s \in Sockets, RelayReceives(s)
  PROVE  IInv'
  <1>1. /\ relay' = [relay EXCEPT ![s].quiet = 0] /\ relay[s].st = "running"
        /\ blocked' \subseteq blocked /\ UNCHANGED <<sessions, task, silent>>
    BY DEF RelayReceives, OnWorker
  <1>2. TypeOK'
    BY <1>1, TimeoutAssumption DEF IInv, TypeOK
  <1>3. \A x \in Sockets : relay'[x].st = relay[x].st /\ relay'[x].key = relay[x].key
    BY <1>1 DEF IInv, TypeOK
  <1>4. \A x \in Sockets : relay[x] = NoRelay => relay'[x] = NoRelay
    BY <1>1 DEF IInv, TypeOK, NoRelay
  <1>5. SessionHasRelay'
    BY <1>1, <1>3 DEF IInv, TypeOK, Session, SessionHasRelay
  <1> QED BY <1>1, <1>2, <1>4, <1>5, TableShrinks

LEMMA RelayFailsIInv ==
  ASSUME IInv, NEW s \in Sockets, RelayFails(s)
  PROVE  IInv'
  <1>1. /\ relay' = [relay EXCEPT ![s].st = "failed"] /\ relay[s].st = "running"
        /\ blocked' \subseteq blocked /\ UNCHANGED <<sessions, task, silent>>
    BY DEF RelayFails, OnWorker
  <1>2. TypeOK'
    BY <1>1 DEF IInv, TypeOK
  <1>3. /\ relay'[s].st = "failed" /\ \A x \in Sockets \ {s} : relay'[x] = relay[x]
    BY <1>1 DEF IInv, TypeOK
  <1>4. \A x \in Sockets : relay[x] = NoRelay => relay'[x] = NoRelay
    BY <1>1, <1>3 DEF IInv, TypeOK, NoRelay
  <1>5. SessionHasRelay'
    BY <1>1, <1>3 DEF IInv, TypeOK, Session, SessionHasRelay
  <1> QED BY <1>1, <1>2, <1>4, <1>5, TableShrinks

\* The relay takes along whatever session its client has: if its own, both go;
\* if another, that one is on another socket.
LEMMA RelayTimesOutIInv ==
  ASSUME IInv, NEW s \in Sockets, RelayTimesOut(s)
  PROVE  IInv'
  <1>1. /\ relay[s].st = "running"
        /\ sessions' = [sessions EXCEPT ![relay[s].key] = NoSession]
        /\ relay' = [relay EXCEPT ![s] = NoRelay]
        /\ blocked' \subseteq blocked /\ UNCHANGED <<task, silent>>
    BY DEF RelayTimesOut, OnWorker
  <1>2. TypeOK'
    <2>1. NoRelay \in [st : {"none", "running", "failed"},
                       key : Keys \cup {NoKey}, quiet : 0..Timeout]
      BY TimeoutAssumption DEF NoRelay
    <2> QED BY <1>1, <2>1 DEF IInv, TypeOK
  <1>3. /\ relay'[s] = NoRelay /\ \A x \in Sockets \ {s} : relay'[x] = relay[x]
        /\ \A k \in Keys : sessions'[k] # NoSession =>
             sessions'[k] = sessions[k] /\ k # relay[s].key
    BY <1>1 DEF IInv, TypeOK
  <1>4. ASSUME NEW k \in Keys, sessions'[k] # NoSession PROVE sessions'[k].sock # s
    BY <1>1, <1>3, <1>4 DEF IInv, SessionHasRelay
  <1>5. SessionHasRelay'
    BY <1>1, <1>3, <1>4 DEF IInv, TypeOK, Session, SessionHasRelay
  <1> QED BY <1>1, <1>2, <1>3, <1>5, TableShrinks

LEMMA TickIInv ==
  ASSUME IInv, Tick
  PROVE  IInv'
  <1>1. /\ sessions' = [k \in Keys |-> IF sessions[k] = NoSession THEN NoSession
                                       ELSE [sessions[k] EXCEPT !.age = Older(@)]]
        /\ relay' = [s \in Sockets |-> IF relay[s].st = "running"
                                       THEN [relay[s] EXCEPT !.quiet = Older(@)]
                                       ELSE relay[s]]
        /\ UNCHANGED <<task, blocked, silent>>
    BY DEF Tick
  <1>2. \A n \in 0..Timeout : Older(n) \in 0..Timeout
    BY TimeoutAssumption DEF Older
  <1> HIDE DEF Older
  <1>3. ASSUME NEW k \in Keys
        PROVE  /\ sessions'[k] \in Session \cup {NoSession}
               /\ sessions'[k] # NoSession =>
                    sessions[k] # NoSession /\ sessions'[k].sock = sessions[k].sock
    BY <1>1, <1>2 DEF IInv, TypeOK, Session
  <1>4. ASSUME NEW s \in Sockets
        PROVE  /\ relay'[s] \in [st : {"none", "running", "failed"},
                                 key : Keys \cup {NoKey}, quiet : 0..Timeout]
               /\ relay'[s].st = relay[s].st /\ relay'[s].key = relay[s].key
               /\ relay[s] = NoRelay => relay'[s] = NoRelay
    BY <1>1, <1>2 DEF IInv, TypeOK, NoRelay
  <1>5. TypeOK'
    BY <1>1, <1>3, <1>4 DEF IInv, TypeOK
  <1>6. SessionHasRelay'
    BY <1>3, <1>4 DEF IInv, TypeOK, Session, SessionHasRelay
  <1> QED BY <1>1, <1>3, <1>4, <1>5, <1>6, TableShrinks

LEMMA CleanupIInv ==
  ASSUME IInv, NEW h, Cleanup(h)
  PROVE  IInv'
  <1>1. /\ \A k \in Keys : sessions'[k] \in {sessions[k], NoSession}
        /\ sessions' \in [Keys -> Session \cup {NoSession}]
        /\ blocked' \subseteq blocked /\ UNCHANGED <<task, relay, silent>>
    BY DEF Cleanup, OnWorker, IInv, TypeOK
  <1>2. TypeOK'
    BY <1>1 DEF IInv, TypeOK
  <1>3. SessionHasRelay'
    BY <1>1 DEF IInv, SessionHasRelay
  <1> QED BY <1>1, <1>2, <1>3, TableShrinks

----------------------------------------------------------------------------
(* Every step *)

LEMMA NextIInv == IInv /\ [Next]_vars => IInv'
  <1> SUFFICES ASSUME IInv, [Next]_vars PROVE IInv'
    OBVIOUS
  <1>1. ASSUME NEW t \in Tasks, NEW k \in Keys, Receive(t, k) PROVE IInv'
    BY <1>1, ReceiveIInv
  <1>2. ASSUME NEW t \in Tasks, Handle(t) PROVE IInv'
    BY <1>2, TouchIInv, ForwardedIInv, MissIInv, ResolvedIInv, SentIInv, InsertIInv
    DEF Handle
  <1>3. ASSUME NEW t \in Tasks, TaskWaits(t) PROVE IInv'
    BY <1>3, WaitIInv DEF TaskWaits, WaitForShard, IInv, TypeOK
  <1>4. ASSUME NEW s \in Sockets,
               RelayReceives(s) \/ RelayFails(s) \/ RelayTimesOut(s)
        PROVE  IInv'
    BY <1>4, RelayReceivesIInv, RelayFailsIInv, RelayTimesOutIInv
  <1>5. ASSUME NEW s \in Sockets, RelayWaits(s) PROVE IInv'
    BY <1>5, WaitIInv DEF RelayWaits, WaitForShard, IInv, TypeOK
  <1>6. ASSUME NEW k \in Keys, Cleanup(Shard[k]) PROVE IInv'
    BY <1>6, CleanupIInv
  <1>7. ASSUME NEW k \in Keys, SweepWaits(k) PROVE IInv'
    BY <1>7, WaitIInv DEF SweepWaits, WaitForShard, IInv, TypeOK
  <1>8. CASE Tick
    BY <1>8, TickIInv
  <1>9. CASE FallSilent
    BY <1>9 DEF FallSilent, IInv, TypeOK, TaskHasKey, Fresh, SessionOn,
                SessionHasRelay, SocketsNotShared
  <1>10. CASE UNCHANGED vars
    BY <1>10 DEF vars, IInv, TypeOK, TaskHasKey, Fresh, SessionOn,
                 SessionHasRelay, SocketsNotShared
  <1> QED
    BY <1>1, <1>2, <1>3, <1>4, <1>5, <1>6, <1>7, <1>8, <1>9, <1>10 DEF Next

LEMMA AlwaysIInv == Spec => []IInv
  BY InitIInv, NextIInv, PTL DEF Spec

----------------------------------------------------------------------------
(* Theorems *)

\* The state of the forwarder of quic.rs stays within its types.
THEOREM ForwarderTypes == Spec => []TypeOK
  BY AlwaysIInv, PTL DEF IInv

\* A session in the table has its reverse relay, unless that one met an I/O error,
\* however sessions are opened at once, replaced under their key and timed out.
THEOREM SessionsKeepTheirRelay == Spec => []SessionHasRelay
  BY AlwaysIInv, PTL DEF IInv

\* Two clients never have sessions on one upstream socket.
THEOREM ClientsHaveOwnSockets == Spec => []SocketsNotShared
  BY AlwaysIInv, PTL DEF IInv
=============================================================================
