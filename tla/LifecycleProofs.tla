-------------------------- MODULE LifecycleProofs --------------------------
(* Proofs about the processes of v6proxy, for any number of processes,      *)
(* addresses, configurations and updates.                                   *)
EXTENDS Lifecycle, TLAPS

\* The service has one process at most, and none while it is not up.
UnitInv ==
    IF mode = "systemd" THEN /\ unit # "up" => \A p \in Procs : ~Alive(p)
                             /\ \A p, q \in Procs : Alive(p) /\ Alive(q) => p = q
    ELSE unit = "stopped"

\* No address is bound twice, and a process that serves has bound them all.
BoundInv ==
    /\ \A p, q \in Procs : p # q => proc[p].bound \cap proc[q].bound = {}
    /\ \A p \in Procs : Serving(p) => proc[p].bound = 1..Addrs

\* A process of the service has what is in the file F from when it has read it, but for
\* the request it has saved and not published; and every update in A.
InStep(x, F, A) ==
    /\ x.pc = "bind" => x.view = F
    /\ x.pc = "serve" =>
         /\ F = IF x.saved THEN x.view \cup {r.update : r \in x.req} ELSE x.view
         /\ \A a \in A : a.update \in x.view

ViewInv ==
    mode = "systemd" => /\ \A p \in Procs : InStep(proc[p], file, acked)
                        /\ \A a \in acked : a.update \in file

\* Only a process that serves has a request under way, and it admitted that.
Admitted(x) ==
    /\ x.saved => x.req # {}
    /\ x.req # {} => x.pc = "serve"
    /\ \A r \in x.req : r.peer \in x.config.allow /\ r.token = x.config.token

ReqInv == \A p \in Procs : Admitted(proc[p])

\* The configuration that a process has read was in force since none was running.
HeldInv ==
    /\ config \in held
    /\ \A p \in Procs : proc[p].pc \in {"load", "bind", "serve"} => proc[p].config \in held

IInv == TypeOK /\ UnitInv /\ BoundInv /\ ViewInv /\ ReqInv /\ HeldInv

----------------------------------------------------------------------------

LEMMA OffIsProcess ==
    /\ Off \in Process /\ Off.pc = "off" /\ Off.bound = {} /\ Admitted(Off)
    /\ Starting \in Process /\ Starting.pc = "config" /\ Starting.bound = {}
    /\ Admitted(Starting)
BY DEF Off, Starting, Process, NoConfig, Config, Admitted

LEMMA InitIInv == Init => IInv
<1> SUFFICES ASSUME Init PROVE IInv
  OBVIOUS
<1>1. TypeOK
  <2>1. NoConfig \in Config
    BY DEF NoConfig, Config
  <2>2. proc \in [Procs -> Process]
    BY OffIsProcess DEF Init
  <2> QED
    BY <2>1, <2>2 DEF Init, TypeOK, Process
<1>2. \A p \in Procs : proc[p] = Off
  BY DEF Init
<1>3. UnitInv /\ BoundInv /\ ViewInv /\ ReqInv /\ HeldInv
  BY <1>2, OffIsProcess DEF Init, UnitInv, BoundInv, ViewInv, InStep, ReqInv, HeldInv,
                            Alive, Serving
<1> QED
  BY <1>1, <1>3 DEF IInv

\* config.toml is written.
LEMMA WriteIInv ==
    ASSUME IInv, NEW c \in Config, Write(c), events' \in Nat, quiet' \in BOOLEAN
    PROVE  IInv'
<1>1. /\ config' = c /\ UNCHANGED <<mode, unit, file, proc, acked>>
      /\ held' = IF \E p \in Procs : Alive(p) THEN held \cup {c} ELSE {c}
  BY DEF Write
<1>2. TypeOK'
  BY <1>1 DEF IInv, TypeOK
<1>3. UnitInv' /\ BoundInv' /\ ViewInv' /\ ReqInv'
  BY <1>1 DEF IInv, UnitInv, BoundInv, ViewInv, ReqInv, Alive, Serving
<1>4. HeldInv'
  BY <1>1 DEF IInv, HeldInv, Alive
<1> QED
  BY <1>2, <1>3, <1>4 DEF IInv

\* A process ends.
LEMMA EndIInv ==
    ASSUME IInv, NEW p \in Procs, Alive(p), NEW u \in {"stopped", "due"},
           Become([proc EXCEPT ![p] = Off], u), UNCHANGED <<mode, config, file, acked>>,
           events' \in Nat, quiet' \in BOOLEAN
    PROVE  IInv'
<1>1. /\ proc' = [proc EXCEPT ![p] = Off]
      /\ unit' = IF mode = "systemd" THEN u ELSE unit
      /\ held' = IF \E q \in Procs : proc'[q].pc # "off" THEN held ELSE {config}
  BY DEF Become
<1>2. /\ proc' \in [Procs -> Process]
      /\ \A q \in Procs : proc'[q] = IF q = p THEN Off ELSE proc[q]
  BY <1>1, OffIsProcess DEF IInv, TypeOK, Process
<1>3. TypeOK'
  BY <1>1, <1>2 DEF IInv, TypeOK, Process
<1>4. UnitInv'
  BY <1>1, <1>2, OffIsProcess DEF IInv, UnitInv, Alive
<1>5. BoundInv'
  BY <1>2, OffIsProcess DEF IInv, BoundInv, Serving
<1>6. ViewInv' /\ ReqInv'
  BY <1>2, OffIsProcess DEF IInv, ViewInv, InStep, ReqInv
<1>7. HeldInv'
  BY <1>1, <1>2, OffIsProcess DEF IInv, HeldInv
<1> QED
  BY <1>3, <1>4, <1>5, <1>6, <1>7 DEF IInv

\* A process starts where there is none of the service.
LEMMA BeginIInv ==
    ASSUME IInv, NEW p \in Procs, ~Alive(p), mode = "systemd" => unit # "up",
           Become([proc EXCEPT ![p] = Starting], "up"),
           UNCHANGED <<mode, config, file, acked>>, events' \in Nat, quiet' \in BOOLEAN
    PROVE  IInv'
<1>1. /\ proc' = [proc EXCEPT ![p] = Starting]
      /\ unit' = IF mode = "systemd" THEN "up" ELSE unit
      /\ held' = IF \E q \in Procs : proc'[q].pc # "off" THEN held ELSE {config}
  BY DEF Become
<1>2. /\ proc' \in [Procs -> Process]
      /\ \A q \in Procs : proc'[q] = IF q = p THEN Starting ELSE proc[q]
  BY <1>1, OffIsProcess DEF IInv, TypeOK, Process
<1>3. TypeOK'
  BY <1>1, <1>2 DEF IInv, TypeOK, Process
<1>4. UnitInv'
  BY <1>1, <1>2, OffIsProcess DEF IInv, UnitInv, Alive
<1>5. BoundInv'
  BY <1>2, OffIsProcess DEF IInv, BoundInv, Serving
<1>6. ViewInv' /\ ReqInv'
  BY <1>2, OffIsProcess DEF IInv, ViewInv, InStep, ReqInv
<1>7. HeldInv'
  BY <1>1, <1>2, OffIsProcess DEF IInv, HeldInv
<1> QED
  BY <1>3, <1>4, <1>5, <1>6, <1>7 DEF IInv

LEMMA RebootIInv ==
    ASSUME IInv, Reboot
    PROVE  IInv'
<1>1. /\ proc' = [p \in Procs |-> Off]
      /\ unit' = IF mode = "systemd" THEN "due" ELSE unit
      /\ held' = IF \E q \in Procs : proc'[q].pc # "off" THEN held ELSE {config}
      /\ UNCHANGED <<mode, config, file, acked, quiet>> /\ events' = events + 1
  BY DEF Reboot, Become, Event
<1>2. proc' \in [Procs -> Process] /\ \A q \in Procs : proc'[q] = Off
  BY <1>1, OffIsProcess
<1>3. TypeOK'
  BY <1>1, <1>2 DEF IInv, TypeOK, Process
<1>4. UnitInv' /\ BoundInv' /\ ViewInv' /\ ReqInv' /\ HeldInv'
  BY <1>1, <1>2, OffIsProcess DEF IInv, UnitInv, BoundInv, ViewInv, InStep, ReqInv, HeldInv,
                                  Alive, Serving
<1> QED
  BY <1>3, <1>4 DEF IInv

\* A running process goes on as x, which is sound.
LEMMA GoOnIInv ==
    ASSUME IInv, NEW p \in Procs, NEW x \in Process, Alive(p), x.pc # "off",
           proc' = [proc EXCEPT ![p] = x], UNCHANGED <<mode, unit, config, file, acked, held>>,
           events' \in Nat, quiet' \in BOOLEAN,
           \A q \in Procs \ {p} : x.bound \cap proc[q].bound = {},
           x.pc = "serve" => x.bound = 1..Addrs,
           mode = "systemd" => InStep(x, file, acked),
           Admitted(x),
           x.pc \in {"load", "bind", "serve"} => x.config \in held
    PROVE  IInv'
<1>2. /\ proc' \in [Procs -> Process]
      /\ \A q \in Procs : proc'[q] = IF q = p THEN x ELSE proc[q]
  BY DEF IInv, TypeOK
<1>3. TypeOK'
  BY <1>2 DEF IInv, TypeOK
<1>4. UnitInv'
  BY <1>2 DEF IInv, UnitInv, Alive
<1>5. BoundInv'
  BY <1>2 DEF IInv, BoundInv, Serving
<1>6. ViewInv' /\ ReqInv'
  BY <1>2 DEF IInv, ViewInv, ReqInv
<1>7. HeldInv'
  BY <1>2 DEF IInv, HeldInv
<1> QED
  BY <1>3, <1>4, <1>5, <1>6, <1>7 DEF IInv

\* The same for a step of main or of a handler.
LEMMA TaskIInv ==
    ASSUME IInv, NEW p \in Procs, NEW x \in Process, GoOn(p, x), Alive(p), x.pc # "off",
           \A q \in Procs \ {p} : x.bound \cap proc[q].bound = {},
           x.pc = "serve" => x.bound = 1..Addrs,
           mode = "systemd" => InStep(x, file, acked),
           Admitted(x),
           x.pc \in {"load", "bind", "serve"} => x.config \in held
    PROVE  IInv'
<1>1. /\ proc' = [proc EXCEPT ![p] = x]
      /\ UNCHANGED <<mode, unit, config, file, acked, held>>
      /\ events' \in Nat /\ quiet' \in BOOLEAN
  BY DEF GoOn, IInv, TypeOK
<1> QED
  BY <1>1, GoOnIInv

\* An error is on its way out of main.
LEMMA FailIInv ==
    ASSUME IInv, NEW p \in Procs, proc[p].pc \in {"config", "bind"},
           proc' = [proc EXCEPT ![p].pc = "exit"],
           UNCHANGED <<mode, unit, config, file, acked, held>>,
           events' \in Nat, quiet' \in BOOLEAN
    PROVE  IInv'
<1> DEFINE x == [proc[p] EXCEPT !.pc = "exit"]
<1>1. /\ proc[p] \in Process /\ Admitted(proc[p])
      /\ \A q \in Procs \ {p} : proc[p].bound \cap proc[q].bound = {}
  BY DEF IInv, TypeOK, BoundInv, ReqInv
<1>2. /\ x \in Process /\ x.pc = "exit" /\ x.bound = proc[p].bound
      /\ x.req = proc[p].req /\ x.saved = proc[p].saved
  BY <1>1 DEF Process
<1>3. proc' = [proc EXCEPT ![p] = x]
  OBVIOUS
<1> HIDE DEF x
<1>4. InStep(x, file, acked) /\ Admitted(x)
  BY <1>1, <1>2 DEF InStep, Admitted
<1> QED
  BY <1>1, <1>2, <1>3, <1>4, GoOnIInv DEF Alive

LEMMA StartUpIInv ==
    ASSUME IInv, NEW p \in Procs, StartUp(p) \/ BindFails(p)
    PROVE  IInv'
<1>0. /\ proc[p] \in Process /\ Admitted(proc[p])
      /\ \A q \in Procs \ {p} : proc[p].bound \cap proc[q].bound = {}
      /\ events \in Nat /\ quiet \in BOOLEAN
  BY DEF IInv, TypeOK, BoundInv, ReqInv
<1>1. ASSUME Fail(p), proc[p].pc \in {"config", "bind"} PROVE IInv'
  <2>1. /\ proc' = [proc EXCEPT ![p].pc = "exit"]
        /\ UNCHANGED <<mode, unit, config, file, acked, held, events, quiet>>
    BY <1>1 DEF Fail, GoOn
  <2> QED
    BY <1>0, <1>1, <2>1, FailIInv
<1>2. CASE LoadConfig(p)
  <2> DEFINE x == [proc[p] EXCEPT !.pc = "load", !.config = config]
  <2>1. proc[p].pc = "config" /\ (Fail(p) \/ GoOn(p, x))
    BY <1>2 DEF LoadConfig
  <2>2. /\ x \in Process /\ x.pc = "load" /\ x.bound = proc[p].bound
        /\ x.req = proc[p].req /\ x.saved = proc[p].saved
        /\ x.config = config /\ config \in held
    BY <1>0 DEF Process, IInv, TypeOK, HeldInv
  <2> HIDE DEF x
  <2>3. InStep(x, file, acked) /\ Admitted(x)
    BY <1>0, <2>1, <2>2 DEF InStep, Admitted
  <2> QED
    BY <1>0, <1>1, <2>1, <2>2, <2>3, TaskIInv DEF Alive
<1>3. CASE LoadPolicies(p)
  <2> DEFINE x == [proc[p] EXCEPT !.pc = "bind", !.view = file]
  <2>1. proc[p].pc = "load" /\ GoOn(p, x)
    BY <1>3 DEF LoadPolicies
  <2>2. /\ x \in Process /\ x.pc = "bind" /\ x.bound = proc[p].bound
        /\ x.req = proc[p].req /\ x.saved = proc[p].saved
        /\ x.view = file /\ x.config = proc[p].config
    BY <1>0 DEF Process, IInv, TypeOK
  <2>3. proc[p].config \in held
    BY <2>1 DEF IInv, HeldInv
  <2> HIDE DEF x
  <2>4. InStep(x, file, acked) /\ Admitted(x)
    BY <1>0, <2>1, <2>2 DEF InStep, Admitted
  <2> QED
    BY <1>0, <2>1, <2>2, <2>3, <2>4, TaskIInv DEF Alive
<1>4. CASE Bind(p)
  <2>0. proc[p].pc = "bind"
    BY <1>4 DEF Bind
  <2>1. ASSUME NEW a \in NextAddr(p), ~Taken(p, a),
               GoOn(p, [proc[p] EXCEPT !.bound = @ \cup {a},
                          !.pc = IF proc[p].bound \cup {a} = 1..Addrs THEN "serve" ELSE @])
        PROVE  IInv'
    <3> DEFINE x == [proc[p] EXCEPT !.bound = @ \cup {a},
                       !.pc = IF proc[p].bound \cup {a} = 1..Addrs THEN "serve" ELSE @]
    <3>1. a \in 1..Addrs
      BY DEF NextAddr
    <3>2. /\ x \in Process /\ x.bound = proc[p].bound \cup {a}
          /\ x.pc \in {"bind", "serve"}
          /\ x.pc = "serve" => x.bound = 1..Addrs
          /\ x.view = proc[p].view /\ x.config = proc[p].config
          /\ x.req = proc[p].req /\ x.saved = proc[p].saved
      BY <1>0, <2>0, <3>1 DEF Process
    <3>3. GoOn(p, x)
      BY <2>1
    <3>4. \A q \in Procs \ {p} : x.bound \cap proc[q].bound = {}
      BY <1>0, <2>1, <3>2 DEF Taken
    <3>5. proc[p].config \in held
      BY <2>0 DEF IInv, HeldInv
    <3> HIDE DEF x
    <3>6. Admitted(x) /\ ~x.saved
      BY <1>0, <2>0, <3>2 DEF Admitted
    <3>7. mode = "systemd" => InStep(x, file, acked)
      BY <2>0, <3>2, <3>6 DEF IInv, ViewInv, InStep
    <3> QED
      BY <2>0, <3>2, <3>3, <3>4, <3>5, <3>6, <3>7, TaskIInv DEF Alive
  <2> QED
    BY <1>1, <1>4, <2>0, <2>1 DEF Bind
<1>5. CASE Exit(p)
  BY <1>0, <1>5, EndIInv DEF Exit, Alive
<1>6. CASE BindFails(p)
  <2>1. /\ proc[p].pc = "bind" /\ proc' = [proc EXCEPT ![p].pc = "exit"]
        /\ UNCHANGED <<mode, unit, config, file, acked, held>>
    BY <1>6 DEF BindFails
  <2>2. events' \in Nat /\ quiet' \in BOOLEAN
    BY <1>0, <1>6 DEF BindFails, Event
  <2> QED
    BY <2>1, <2>2, FailIInv
<1> QED
  BY <1>2, <1>3, <1>4, <1>5, <1>6 DEF StartUp

----------------------------------------------------------------------------
(* A request *)

\* It is admitted, or its save fails.
LEMMA AdmitIInv ==
    ASSUME IInv, NEW p \in Procs, NEW R \in SUBSET Request,
           Serving(p), ~proc[p].saved, GoOn(p, [proc[p] EXCEPT !.req = R]),
           \A r \in R : Admits(proc[p].config, r.peer, r.token)
    PROVE  IInv'
<1> DEFINE x == [proc[p] EXCEPT !.req = R]
<1>1. /\ proc[p] \in Process /\ proc[p].pc = "serve"
      /\ \A q \in Procs \ {p} : proc[p].bound \cap proc[q].bound = {}
      /\ proc[p].bound = 1..Addrs /\ proc[p].config \in held
      /\ mode = "systemd" => InStep(proc[p], file, acked)
  BY DEF IInv, TypeOK, BoundInv, ViewInv, HeldInv, Serving
<1>2. /\ x \in Process /\ x.pc = "serve" /\ x.bound = proc[p].bound /\ x.req = R
      /\ x.view = proc[p].view /\ x.config = proc[p].config /\ x.saved = proc[p].saved
  BY <1>1 DEF Process
<1>3. GoOn(p, x)
  OBVIOUS
<1> HIDE DEF x
<1>4. Admitted(x)
  BY <1>2 DEF Admitted, Admits, ip_allowlist_middleware, token_middleware
<1>5. mode = "systemd" => InStep(x, file, acked)
  BY <1>1, <1>2 DEF InStep
<1> QED
  BY <1>1, <1>2, <1>3, <1>4, <1>5, TaskIInv DEF Alive

\* Of the processes of the service, the one that serves is the only one.
LEMMA SaveIInv ==
    ASSUME IInv, NEW p \in Procs, Save(p)
    PROVE  IInv'
<1> DEFINE x == [proc[p] EXCEPT !.saved = TRUE]
<1>1. /\ proc[p] \in Process /\ proc[p].pc = "serve" /\ Admitted(proc[p])
      /\ ~proc[p].saved
  BY DEF IInv, TypeOK, ReqInv, Admitted, Save
<1>1a. proc[p].req # {}
  BY DEF Save
<1>2. /\ x \in Process /\ x.pc = "serve" /\ x.bound = proc[p].bound /\ x.req = proc[p].req
      /\ x.view = proc[p].view /\ x.config = proc[p].config /\ x.saved
  BY <1>1 DEF Process
<1>3. /\ proc' = [proc EXCEPT ![p] = x]
      /\ file' = proc[p].view \cup {r.update : r \in proc[p].req}
      /\ UNCHANGED <<mode, unit, config, acked, held, events, quiet>>
  BY DEF Save, NewPolicies
<1> HIDE DEF x
<1>4. /\ proc' \in [Procs -> Process]
      /\ \A q \in Procs : proc'[q] = IF q = p THEN x ELSE proc[q]
  BY <1>2, <1>3 DEF IInv, TypeOK
<1>5. file' \in SUBSET Updates
  BY <1>1, <1>3 DEF Process, Request
<1>6. TypeOK'
  BY <1>3, <1>4, <1>5 DEF IInv, TypeOK
<1>7. UnitInv' /\ BoundInv' /\ HeldInv'
  BY <1>1, <1>2, <1>3, <1>4 DEF IInv, UnitInv, BoundInv, HeldInv, Alive, Serving
<1>8. ReqInv'
  BY <1>1, <1>1a, <1>2, <1>4 DEF IInv, ReqInv, Admitted
<1>9. ViewInv'
  <2> SUFFICES ASSUME mode = "systemd"
               PROVE  /\ \A q \in Procs : InStep(proc'[q], file', acked)
                      /\ \A a \in acked : a.update \in file'
    BY <1>3 DEF ViewInv
  <2>1. \A q \in Procs \ {p} : proc[q].pc = "off"
    BY <1>1 DEF IInv, UnitInv, Alive
  <2>2. \A a \in acked : a.update \in proc[p].view
    BY <1>1 DEF IInv, ViewInv, InStep
  <2>3. InStep(x, file', acked)
    BY <1>2, <1>3, <2>2 DEF InStep
  <2> QED
    BY <1>3, <1>4, <2>1, <2>2, <2>3 DEF InStep
<1> QED
  BY <1>6, <1>7, <1>8, <1>9 DEF IInv

LEMMA PublishIInv ==
    ASSUME IInv, NEW p \in Procs, Publish(p)
    PROVE  IInv'
<1> DEFINE view == proc[p].view \cup {r.update : r \in proc[p].req}
           x == [proc[p] EXCEPT !.view = view, !.req = {}, !.saved = FALSE]
<1>1. /\ proc[p] \in Process /\ proc[p].pc = "serve" /\ proc[p].saved
  BY DEF IInv, TypeOK, ReqInv, Admitted, Publish
<1>2. view \in SUBSET Updates /\ proc[p].req \in SUBSET Request
  BY <1>1 DEF Process, Request
<1>3. /\ proc' = [proc EXCEPT ![p] = x]
      /\ acked' = acked \cup proc[p].req
      /\ UNCHANGED <<mode, unit, config, file, held, events, quiet>>
  BY DEF Publish, Store, NewPolicies
<1>3a. \A r \in proc[p].req : r.update \in view
  OBVIOUS
<1>3b. proc[p].view \subseteq view
  OBVIOUS
<1>3c. mode = "systemd" => file = view /\ \A a \in acked : a.update \in proc[p].view
  BY <1>1 DEF IInv, ViewInv, InStep
<1> HIDE DEF view
<1>4. /\ x \in Process /\ x.pc = "serve" /\ x.bound = proc[p].bound /\ x.req = {}
      /\ x.view = view /\ x.config = proc[p].config /\ ~x.saved
  BY <1>1, <1>2 DEF Process
<1> HIDE DEF x
<1>5. /\ proc' \in [Procs -> Process]
      /\ \A q \in Procs : proc'[q] = IF q = p THEN x ELSE proc[q]
  BY <1>3, <1>4 DEF IInv, TypeOK
<1>6. TypeOK'
  BY <1>2, <1>3, <1>5 DEF IInv, TypeOK
<1>7. UnitInv' /\ BoundInv' /\ HeldInv'
  BY <1>1, <1>3, <1>4, <1>5 DEF IInv, UnitInv, BoundInv, HeldInv, Alive, Serving
<1>8. ReqInv'
  BY <1>4, <1>5 DEF IInv, ReqInv, Admitted
<1>9. ViewInv'
  <2> SUFFICES ASSUME mode = "systemd"
               PROVE  /\ \A q \in Procs : InStep(proc'[q], file, acked')
                      /\ \A a \in acked' : a.update \in file
    BY <1>3 DEF ViewInv
  <2>1. \A q \in Procs \ {p} : proc[q].pc = "off"
    BY <1>1 DEF IInv, UnitInv, Alive
  <2>2. \A a \in acked' : a.update \in view
    BY <1>3, <1>3a, <1>3b, <1>3c
  <2> QED
    BY <1>3c, <1>4, <1>5, <2>1, <2>2 DEF InStep
<1> QED
  BY <1>6, <1>7, <1>8, <1>9 DEF IInv

LEMMA RequestIInv ==
    ASSUME IInv, NEW p \in Procs,
           (\E r \in Request : Admit(p, r)) \/ Save(p) \/ SaveFails(p) \/ Publish(p)
    PROVE  IInv'
<1>1. ASSUME NEW r \in Request, Admit(p, r) PROVE IInv'
  <2>1. /\ Serving(p) /\ proc[p].req = {} /\ Admits(proc[p].config, r.peer, r.token)
        /\ GoOn(p, [proc[p] EXCEPT !.req = {r}])
    BY <1>1 DEF Admit
  <2>2. ~proc[p].saved
    BY <2>1 DEF IInv, ReqInv, Admitted
  <2> QED
    BY <2>1, <2>2, AdmitIInv
<1>2. CASE SaveFails(p)
  <2>1. /\ Serving(p) /\ ~proc[p].saved /\ GoOn(p, [proc[p] EXCEPT !.req = {}])
    BY <1>2 DEF SaveFails, Serving, IInv, ReqInv, Admitted
  <2>2. {} \in SUBSET Request /\ \A r \in {} : Admits(proc[p].config, r.peer, r.token)
    OBVIOUS
  <2> QED
    BY <2>1, <2>2, AdmitIInv
<1> QED
  BY <1>1, <1>2, SaveIInv, PublishIInv

LEMMA NextIInv ==
    ASSUME IInv, [Next]_vars
    PROVE  IInv'
<1>0. /\ events \in Nat /\ quiet \in BOOLEAN
      /\ Event => events' \in Nat /\ quiet' \in BOOLEAN
  BY DEF IInv, TypeOK, Event
<1>1. ASSUME NEW force \in BOOLEAN, InitConfig(force) PROVE IInv'
  <2>1. Torn \in Config /\ Starter \in Config
    BY AdminAssumption, AddrsAssumption DEF Torn, NoConfig, Starter, Config
  <2> QED
    BY <1>0, <1>1, <2>1, WriteIInv DEF InitConfig
<1>2. CASE EditConfig
  BY <1>0, <1>2, WriteIInv, ConfigAssumption DEF EditConfig
<1>3. CASE Reboot
  BY <1>3, RebootIInv
<1>4. CASE BeQuiet
  BY <1>4 DEF BeQuiet, IInv, TypeOK, UnitInv, BoundInv, ViewInv, ReqInv, HeldInv, Alive, Serving
<1>5. ASSUME NEW p \in Procs, Start(p) PROVE IInv'
  BY <1>0, <1>5, BeginIInv DEF Start
<1>6. ASSUME NEW p \in Procs, Restart(p) PROVE IInv'
  <2>1. ~Alive(p) /\ unit # "up"
    BY <1>6 DEF Restart, IInv, UnitInv
  <2> QED
    BY <1>0, <1>6, <2>1, BeginIInv DEF Restart
<1>7. ASSUME NEW p \in Procs, Stop(p) \/ Crash(p) PROVE IInv'
  BY <1>0, <1>7, EndIInv DEF Stop, Crash
<1>8. CASE UNCHANGED vars
  BY <1>8 DEF vars, IInv, TypeOK, UnitInv, BoundInv, ViewInv, ReqInv, HeldInv, Alive, Serving
<1> QED
  BY <1>1, <1>2, <1>3, <1>4, <1>5, <1>6, <1>7, <1>8, StartUpIInv, RequestIInv DEF Next

LEMMA Inductive == Spec => []IInv
BY InitIInv, NextIInv, PTL DEF Spec

----------------------------------------------------------------------------

\* The variables keep their types.
THEOREM LifecycleTypes == Spec => []TypeOK
<1>1. IInv => TypeOK
  BY DEF IInv
<1> QED
  BY <1>1, Inductive, PTL

\* Of any number of processes started over one another at most one serves.
THEOREM AtMostOneServes == Spec => []OneServer
<1>1. IInv => OneServer
  <2> SUFFICES ASSUME IInv, NEW p \in Procs, NEW q \in Procs, Serving(p), Serving(q), p # q
               PROVE  FALSE
    BY DEF OneServer
  <2>1. proc[p].bound = 1..Addrs /\ proc[q].bound = 1..Addrs
    BY DEF IInv, BoundInv
  <2>2. 1 \in proc[p].bound \cap proc[q].bound
    BY <2>1, AddrsAssumption
  <2> QED
    BY <2>2 DEF IInv, BoundInv
<1> QED
  BY <1>1, Inductive, PTL

\* The process of the service has every update that was answered with success, and the
\* file has them, through any sequence of failing saves, failures, stops and reboots,
\* between any two steps of a request.
THEOREM ServiceKeepsUpdates == Spec => []ServesWhatIsSaved
<1>1. IInv => ServesWhatIsSaved
  BY DEF IInv, ViewInv, InStep, ServesWhatIsSaved, NewPolicies, Serving
<1> QED
  BY <1>1, Inductive, PTL

\* Updates are admitted by a configuration that was in force since no process was
\* running, whoever else the processes of before admitted.
THEOREM RevokedAdminsAreOut == Spec => OldAdminsAreOut
<1> DEFINE InForce == \A a \in acked' \ acked :
                        \E c \in held : a.peer \in c.allow /\ a.token = c.token
<1>1. IInv /\ [Next]_vars => [InForce]_vars
  <2> SUFFICES ASSUME IInv, [Next]_vars PROVE InForce
    OBVIOUS
  <2>1. ASSUME NEW p \in Procs, Publish(p) PROVE InForce
    <3>1. acked' = acked \cup proc[p].req
      BY <2>1 DEF Publish, Store
    <3>2. /\ proc[p].pc = "serve"
          /\ \A r \in proc[p].req : /\ r.peer \in proc[p].config.allow
                                    /\ r.token = proc[p].config.token
      BY <2>1 DEF Publish, IInv, ReqInv, Admitted
    <3>3. proc[p].config \in held
      BY <3>2 DEF IInv, HeldInv
    <3> QED
      BY <3>1, <3>2, <3>3
  <2>2. ASSUME acked' = acked PROVE InForce
    BY <2>2
  <2>3. ASSUME NEW p \in Procs,
               \/ StartUp(p) \/ BindFails(p) \/ Save(p) \/ SaveFails(p)
               \/ \E r \in Request : Admit(p, r)
        PROVE  acked' = acked
    BY <2>3 DEF StartUp, LoadConfig, LoadPolicies, Bind, Exit, Fail, GoOn, BindFails, Save,
                SaveFails, Admit
  <2>4. CASE \/ \E force \in BOOLEAN : InitConfig(force)
             \/ EditConfig \/ Reboot \/ BeQuiet \/ UNCHANGED vars
             \/ \E p \in Procs : Start(p) \/ Restart(p) \/ Stop(p) \/ Crash(p)
    BY <2>2, <2>4 DEF InitConfig, EditConfig, Write, Reboot, BeQuiet, vars, Start, Restart,
                      Stop, Crash
  <2> QED
    BY <2>1, <2>2, <2>3, <2>4 DEF Next
<1> QED
  BY <1>1, Inductive, PTL DEF Spec, OldAdminsAreOut
============================================================================
