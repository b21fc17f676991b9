----------------------------- MODULE Lifecycle -----------------------------
(***************************************************************************)
(* The processes of v6proxy on one machine: main.rs from the command line  *)
(* to the end, with who may change the policies (api/mod.rs, auth.rs).     *)
(* Either systemd runs one process, and another one when that fails, or an *)
(* operator starts processes by hand while others may still be running.    *)
(*                                                                         *)
(* A process reads the configuration, then policies.json, then binds its   *)
(* addresses one after the other: nothing but the kernel, which gives an   *)
(* address to one process only, keeps two of them apart.  An admin request *)
(* is admitted, saved, published and answered, and the process may end     *)
(* anywhere in between.  The policies are the set of updates made to them; *)
(* PolicyStore has the system calls of a save, and AdminApi requests at    *)
(* once: here a process has one request under way, the one in the lock.    *)
(***************************************************************************)
EXTENDS Naturals

CONSTANTS Procs,
          Updates,      \* what admin requests add to the policies
          Peers, Localhost, Tokens,
          NoToken,      \* the token of the starter file: its hash is of none
          Addrs,        \* how many addresses are bound: admin, TCP, UDP in this order
          Configs,      \* configurations that operators write
          MaxEvents     \* bound: what operators and accidents do

\* refused: addresses of it that cannot be bound whoever else is running, since an
\* earlier one covers them or they are not this machine's.
Config == [state : {"missing", "invalid", "valid"}, allow : SUBSET Peers,
           token : Tokens \cup {NoToken}, refused : SUBSET (1..Addrs)]

Request == [update : Updates, peer : Peers, token : Tokens]

ASSUME AddrsAssumption  == Addrs \in Nat \ {0}
ASSUME AdminAssumption  == NoToken \notin Tokens /\ Localhost \in Peers
ASSUME ConfigAssumption == Configs \subseteq Config

VARIABLES mode,      \* who starts processes: "systemd" or "operator"
          unit,      \* the service of systemd: "stopped", "up", or "due" to be started
          config,    \* config.toml
          file,      \* policies.json
          proc,      \* each process: how far it is, and what it has in memory
          acked,     \* history: requests answered with success
          held,      \* history: configurations in force since no process was running
          events,
          quiet      \* operators and accidents have come to an end

vars == <<mode, unit, config, file, proc, acked, held, events, quiet>>

NoConfig == [state |-> "missing", allow |-> {}, token |-> NoToken, refused |-> {}]
Torn     == [NoConfig EXCEPT !.state = "invalid"]

\* DEFAULT_CONFIG is valid: validate_config looks neither at the hash of the token nor
\* at the addresses, of which [::]:80 comes after 0.0.0.0:80 and is refused.
Starter  == [state |-> "valid", allow |-> {Localhost}, token |-> NoToken, refused |-> {Addrs}]

\* req and saved: the request in apply_and_save, if any, and whether save_policies has
\* renamed its file.
Off      == [pc |-> "off", config |-> NoConfig, view |-> {}, bound |-> {}, req |-> {},
             saved |-> FALSE]
Starting == [Off EXCEPT !.pc = "config"]

Alive(p)   == proc[p].pc # "off"
Starts(p)  == proc[p].pc \in {"config", "load", "bind"}
Serving(p) == proc[p].pc = "serve"

Init == /\ mode \in {"systemd", "operator"}
        /\ unit = "stopped"
        /\ config = NoConfig
        /\ file = {}
        /\ proc = [p \in Procs |-> Off]
        /\ acked = {}
        /\ held = {NoConfig}
        /\ events = 0
        /\ quiet = FALSE

----------------------------------------------------------------------------
(* Operators, accidents and systemd *)

Event == ~quiet /\ events < MaxEvents /\ events' = events + 1 /\ UNCHANGED quiet

\* proc becomes P, and systemd thinks u of its unit.
Become(P, u) ==
    /\ proc' = P
    /\ unit' = IF mode = "systemd" THEN u ELSE unit
    /\ held' = IF \E p \in Procs : P[p].pc # "off" THEN held ELSE {config}

Write(c) == /\ config' = c
            /\ held' = IF \E p \in Procs : Alive(p) THEN held \cup {c} ELSE {c}
            /\ UNCHANGED <<mode, unit, file, proc, acked>>

\* v6proxy init [--force]; fs::write may get stuck half way.
InitConfig(force) ==
    /\ Event
    /\ config.state = "missing" \/ force
    /\ Write(Starter) \/ Write(Torn)

EditConfig == Event /\ \E c \in Configs : Write(c)

\* systemctl start, or the program itself.
Start(p) ==
    /\ Event
    /\ ~Alive(p)
    /\ mode = "systemd" => unit = "stopped"
    /\ Become([proc EXCEPT ![p] = Starting], "up")
    /\ UNCHANGED <<mode, config, file, acked>>

\* Restart=on-failure, and at boot.
Restart(p) ==
    /\ unit = "due"
    /\ Become([proc EXCEPT ![p] = Starting], "up")
    /\ UNCHANGED <<mode, config, file, acked, events, quiet>>

\* SIGINT, which main waits for, and SIGTERM, which it does not: neither is a failure.
Stop(p) ==
    /\ Event
    /\ Alive(p)
    /\ Become([proc EXCEPT ![p] = Off], "stopped")
    /\ UNCHANGED <<mode, config, file, acked>>

\* SIGKILL, or an I/O error while loading.
Crash(p) ==
    /\ Event
    /\ Alive(p)
    /\ Become([proc EXCEPT ![p] = Off], "due")
    /\ UNCHANGED <<mode, config, file, acked>>

Reboot ==
    /\ Event
    /\ Become([p \in Procs |-> Off], "due")
    /\ UNCHANGED <<mode, config, file, acked>>

BeQuiet == /\ ~quiet /\ quiet' = TRUE
           /\ UNCHANGED <<mode, unit, config, file, proc, acked, held, events>>

----------------------------------------------------------------------------
(* main *)

GoOn(p, x) == /\ proc' = [proc EXCEPT ![p] = x]
              /\ UNCHANGED <<mode, unit, config, file, acked, held, events, quiet>>

\* An error is on its way out of main ...
Fail(p) == GoOn(p, [proc[p] EXCEPT !.pc = "exit"])

\* ... and is returned: what was bound is free again.
Exit(p) == /\ proc[p].pc = "exit"
           /\ Become([proc EXCEPT ![p] = Off], "due")
           /\ UNCHANGED <<mode, config, file, acked, events, quiet>>

\* Config::load and validate_config.
LoadConfig(p) ==
    /\ proc[p].pc = "config"
    /\ IF config.state = "valid"
       THEN GoOn(p, [proc[p] EXCEPT !.pc = "load", !.config = config])
       ELSE Fail(p)

\* load_policies: POLICIES and the filters.
LoadPolicies(p) ==
    /\ proc[p].pc = "load"
    /\ GoOn(p, [proc[p] EXCEPT !.pc = "bind", !.view = file])

\* Faults: the addresses are counted from 0; they are bound by tasks of their own.
BindFromZero(p) == {a \in 0..Addrs \ proc[p].bound : \A b \in 0..(a - 1) : b \in proc[p].bound}

BindInAnyOrder(p) == 1..Addrs \ proc[p].bound

\* The addresses are bound in the order of the configuration.
NextAddr(p) == {a \in 1..Addrs \ proc[p].bound : \A b \in 1..(a - 1) : b \in proc[p].bound}

\* Fault: SO_REUSEPORT is set.
ShareAddr(p, a) == a \in proc[p].config.refused

\* The kernel refuses an address that another process has bound, and one that cannot
\* be bound beside the earlier ones of this process.
Taken(p, a) == \/ \E q \in Procs \ {p} : a \in proc[q].bound
               \/ a \in proc[p].config.refused

\* Fault: an address that is refused is logged and left out.
BindSkips(p) ==
    /\ proc[p].pc = "bind"
    /\ \E a \in NextAddr(p) :
         GoOn(p, [proc[p] EXCEPT !.bound = @ \cup {a},
                   !.pc = IF proc[p].bound \cup {a} = 1..Addrs THEN "serve" ELSE @])

\* All listeners are bound before any is served.
Bind(p) ==
    /\ proc[p].pc = "bind"
    /\ \E a \in NextAddr(p) :
         IF Taken(p, a) THEN Fail(p)
         ELSE GoOn(p, [proc[p] EXCEPT !.bound = @ \cup {a},
                        !.pc = IF proc[p].bound \cup {a} = 1..Addrs THEN "serve" ELSE @])

\* A bind fails for any other reason: no permission, another program on the port.
BindFails(p) ==
    /\ proc[p].pc = "bind"
    /\ Event
    /\ proc' = [proc EXCEPT ![p].pc = "exit"]
    /\ UNCHANGED <<mode, unit, config, file, acked, held>>

StartUp(p) == LoadConfig(p) \/ LoadPolicies(p) \/ Bind(p) \/ Exit(p)

----------------------------------------------------------------------------
(* The admin API *)

ip_allowlist_middleware(c, peer) == peer \in c.allow

\* Fault: a hash that does not parse lets everyone in.
TokenUnparsed(c, token) == c.token = NoToken \/ token = c.token

\* verify_token: no token has the hash of the starter file.
token_middleware(c, token) == token = c.token

Admits(c, peer, token) == ip_allowlist_middleware(c, peer) /\ token_middleware(c, token)

\* A request for an update gets past both middlewares, by the configuration that the
\* process has read, and takes the write lock.
Admit(p, r) ==
    /\ Serving(p)
    /\ proc[p].req = {}
    /\ r.update \notin proc[p].view
    /\ Admits(proc[p].config, r.peer, r.token)
    /\ GoOn(p, [proc[p] EXCEPT !.req = {r}])

\* What the process would have in memory and in the file after its request.
NewPolicies(p) == proc[p].view \cup {r.update : r \in proc[p].req}

\* save_policies renames the temporary file.
Save(p) ==
    /\ proc[p].req # {} /\ ~proc[p].saved
    /\ file' = NewPolicies(p)
    /\ proc' = [proc EXCEPT ![p].saved = TRUE]
    /\ UNCHANGED <<mode, unit, config, acked, held, events, quiet>>

\* POLICIES.store, and the answer.
Store(p) ==
    /\ proc' = [proc EXCEPT ![p].view = NewPolicies(p), ![p].req = {}, ![p].saved = FALSE]
    /\ acked' = acked \cup proc[p].req
    /\ UNCHANGED <<mode, unit, config, file, held, events, quiet>>

Publish(p) == proc[p].saved /\ Store(p)

\* Fault: the error of save_policies is only logged.
SaveErrorIgnored(p) == proc[p].req # {} /\ ~proc[p].saved /\ Store(p)

\* save_policies returns an error before the rename: nothing is changed.
SaveFails(p) ==
    /\ proc[p].req # {} /\ ~proc[p].saved
    /\ GoOn(p, [proc[p] EXCEPT !.req = {}])

Next == \/ \E force \in BOOLEAN : InitConfig(force)
        \/ EditConfig \/ Reboot \/ BeQuiet
        \/ \E p \in Procs : \/ Start(p) \/ Restart(p) \/ Stop(p) \/ Crash(p)
                            \/ StartUp(p) \/ BindFails(p)
                            \/ \E r \in Request : Admit(p, r)
                            \/ Save(p) \/ SaveFails(p) \/ Publish(p)

Spec == Init /\ [][Next]_vars

\* Processes run, and systemd starts what is due.
FairSpec == /\ Spec
            /\ \A p \in Procs : WF_vars(StartUp(p))
            /\ WF_vars(\E p \in Procs : Restart(p))

----------------------------------------------------------------------------
(* Properties *)

Process == [pc : {"off", "config", "load", "bind", "serve", "exit"}, config : Config,
            view : SUBSET Updates, bound : SUBSET (1..Addrs), req : SUBSET Request,
            saved : BOOLEAN]

TypeOK ==
    /\ mode \in {"systemd", "operator"}
    /\ unit \in {"stopped", "up", "due"}
    /\ config \in Config
    /\ file \in SUBSET Updates
    /\ proc \in [Procs -> Process]
    /\ acked \in SUBSET Request
    /\ held \in SUBSET Config
    /\ events \in Nat
    /\ quiet \in BOOLEAN

\* main.rs: "Bind all listeners BEFORE spawning serve loops."  However processes are
\* started over one another, at most one of them serves and writes policies.json.
OneServer == \A p, q \in Procs : Serving(p) /\ Serving(q) => p = q

\* README: bindings are "persisted to policies.json".  The process of the service knows
\* of every update that was answered with success, wherever in a request, a failing save
\* or its startup the ones before it were stopped or killed: and the file has what it
\* has in memory, or what it is about to have.
ServesWhatIsSaved ==
    mode = "systemd" =>
      \A p \in Procs : Serving(p) =>
        /\ \A a \in acked : a.update \in proc[p].view
        /\ file = IF proc[p].saved THEN NewPolicies(p) ELSE proc[p].view

\* README: "protected by source IP allowlist and bearer token".  A peer or a token that
\* was taken out of the configuration changes nothing once what ran before is gone.
OldAdminsAreOut ==
    [][\A a \in acked' \ acked : \E c \in held : a.peer \in c.allow /\ a.token = c.token]_vars

CanServe(c) == c.state = "valid" /\ c.refused = {}

\* A process started by hand has no more than this one try, and takes the addresses of
\* others while it fails.
OnItsWay(p) == /\ proc[p].pc # "exit"
               /\ proc[p].pc \in {"load", "bind"} => CanServe(proc[p].config)

SomethingStarts == unit = "due" \/ \E p \in Procs : Starts(p)

\* When there is a valid configuration whose addresses can be bound together, and nobody
\* interferes any more, processes that start over one another do not all fail for want
\* of an address, and one of the service that failed is replaced: in the end one serves.
Recovers ==
    (/\ quiet /\ CanServe(config) /\ SomethingStarts
     /\ mode = "systemd" \/ \A p \in Procs : OnItsWay(p))
      ~> \E p \in Procs : Serving(p)

\* A configuration that main finds to be "config ok" but whose addresses cannot be bound
\* together, as those of the starter one, is not served by part of them: every try of
\* the service gives up and is due again, for as long as the configuration is the same.
StarterLoops ==
    mode = "systemd" /\ quiet /\ config.refused # {} /\ (\E p \in Procs : proc[p].pc = "config")
      ~> unit = "due"
============================================================================
