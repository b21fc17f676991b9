---------------------------- MODULE PolicyStore ----------------------------
(***************************************************************************)
(* The policy store of state.rs: the in-memory POLICIES, the state file    *)
(* policies.json with its temporary file, and apply_and_save, the only     *)
(* writer of both.  save_policies is one action per system call, so that   *)
(* an error return, a crash of the process or a power loss can fall        *)
(* between any two of them.                                                *)
(*                                                                         *)
(* The file system is the one the code relies on: a write reaches the disk *)
(* when it is fsynced, a rename when its directory is, and the kernel may  *)
(* write either back earlier.                                              *)
(***************************************************************************)
EXTENDS Naturals

CONSTANTS Threads,      \* threads that may call apply_and_save
          Bodies,       \* values of Policies, its version left out
          DefaultBody,  \* the body of Policies::default()
          InitFiles,    \* contents policies.json may have at first boot
          Absent,       \* no such file; also: no new value
          Corrupt,      \* a file that serde_json does not parse
          NoThread,     \* WRITE_LOCK is free
          MaxVersion    \* bound: no update starts at this version

Snapshots == [version : Nat, body : Bodies]

ASSUME BodyAssumption     == DefaultBody \in Bodies
ASSUME FileAssumption     == InitFiles \subseteq Snapshots \cup {Absent}
ASSUME SentinelAssumption == /\ Absent \notin Snapshots
                             /\ Corrupt \notin Snapshots
                             /\ Absent # Corrupt
                             /\ NoThread \notin Threads
ASSUME BoundAssumption    == MaxVersion \in Nat

VARIABLES up,        \* the process is running
          policies,  \* POLICIES, what every reader of the process sees
          file,      \* policies.json as the process sees it
          tmp,       \* policies.json.tmp, likewise
          stable,    \* what a power loss now would leave in policies.json
          lock,      \* WRITE_LOCK
          pc,        \* where each thread is in apply_and_save
          new,       \* each thread's new_policies
          acked,     \* ghost: last update returned Ok that a crash must keep
          hardened   \* ghost: ... that a power loss must keep

vars == <<up, policies, file, tmp, stable, lock, pc, new, acked, hardened>>

Default == [version |-> 0, body |-> DefaultBody]
NoTmp   == [data |-> Absent, synced |-> TRUE]

\* Fault: a first boot without a state file is not handled.
FaultyLoaded(d) == d

\* load_policies of a readable file: no file is Policies::default().
Loaded(d) == IF d = Absent THEN Default ELSE d

\* What the disk holds of a file whose directory entry is on it.
OnDisk(f) == IF f.synced THEN f.data ELSE Corrupt

Saving   == {"locked", "written", "flushed"}        \* an error is still an Err
Renamed  == {"renamed", "synced", "unsynced"}
Critical == Saving \cup Renamed                     \* WRITE_LOCK is held
Returned == {"ok", "err"}

Init == /\ up = FALSE
        /\ policies = Default
        /\ \E d \in InitFiles :
             /\ file = [data |-> d, synced |-> TRUE]
             /\ stable = d
             /\ acked = Loaded(d)
             /\ hardened = Loaded(d)
        /\ tmp = NoTmp
        /\ lock = NoThread
        /\ pc = [t \in Threads |-> "idle"]
        /\ new = [t \in Threads |-> Absent]

----------------------------------------------------------------------------
(* Faulty variants of the operations: each breaks a property below. *)

\* WRITE_LOCK is not waited for.
LockWithoutMutex(t, b) ==
    /\ up
    /\ pc[t] = "idle"
    /\ policies.version < MaxVersion
    /\ lock' = t
    /\ new' = [new EXCEPT ![t] = [version |-> policies.version + 1, body |-> b]]
    /\ pc' = [pc EXCEPT ![t] = "locked"]
    /\ UNCHANGED <<up, policies, file, tmp, stable, acked, hardened>>

\* The temporary file is closed without an fsync.
FsyncSkipped(t) ==
    /\ pc[t] = "written"
    /\ pc' = [pc EXCEPT ![t] = "flushed"]
    /\ UNCHANGED <<up, policies, file, tmp, stable, lock, new, acked, hardened>>

\* A failure of the directory fsync is taken for a success.
SyncDirUnchecked(t) ==
    /\ pc[t] = "renamed"
    /\ pc' = [pc EXCEPT ![t] = "synced"]
    /\ UNCHANGED <<up, policies, file, tmp, stable, lock, new, acked, hardened>>

\* The file is written in place: a failure leaves half of it behind.
WriteInPlace(t) ==
    /\ pc[t] = "locked"
    /\ tmp' = [data |-> new[t], synced |-> FALSE]
    /\ file' = [data |-> new[t], synced |-> TRUE]
    /\ pc' = [pc EXCEPT ![t] = "written"]
    /\ UNCHANGED <<up, policies, stable, lock, new, acked, hardened>>


----------------------------------------------------------------------------
(* apply_and_save *)

\* lock, load, clone, mutate, bump the version.
Lock(t, b) ==
    /\ up
    /\ pc[t] = "idle"
    /\ lock = NoThread
    /\ policies.version < MaxVersion
    /\ lock' = t
    /\ new' = [new EXCEPT ![t] = [version |-> policies.version + 1, body |-> b]]
    /\ pc' = [pc EXCEPT ![t] = "locked"]
    /\ UNCHANGED <<up, policies, file, tmp, stable, acked, hardened>>

WriteTmp(t) ==
    /\ pc[t] = "locked"
    /\ tmp' = [data |-> new[t], synced |-> FALSE]
    /\ pc' = [pc EXCEPT ![t] = "written"]
    /\ UNCHANGED <<up, policies, file, stable, lock, new, acked, hardened>>

FsyncTmp(t) ==
    /\ pc[t] = "written"
    /\ tmp' = [tmp EXCEPT !.synced = TRUE]
    /\ pc' = [pc EXCEPT ![t] = "flushed"]
    /\ UNCHANGED <<up, policies, file, stable, lock, new, acked, hardened>>

RenameTmp(t) ==
    /\ pc[t] = "flushed"
    /\ file' = tmp
    /\ tmp' = NoTmp
    /\ pc' = [pc EXCEPT ![t] = "renamed"]
    /\ UNCHANGED <<up, policies, stable, lock, new, acked, hardened>>

\* Any of the three calls above fails: `?` returns and drops the guard.  A
\* write that fails may have truncated the temporary file or filled part of it.
SaveFails(t) ==
    /\ pc[t] \in Saving
    /\ \/ UNCHANGED tmp
       \/ pc[t] = "locked" /\ tmp' = [data |-> Corrupt, synced |-> FALSE]
    /\ lock' = NoThread
    /\ new' = [new EXCEPT ![t] = Absent]
    /\ pc' = [pc EXCEPT ![t] = "err"]
    /\ UNCHANGED <<up, policies, file, stable, acked, hardened>>

\* fsync of the parent directory; its failure is ignored.
SyncDir(t) ==
    /\ pc[t] = "renamed"
    /\ \/ /\ stable' = OnDisk(file)
          /\ pc' = [pc EXCEPT ![t] = "synced"]
       \/ /\ pc' = [pc EXCEPT ![t] = "unsynced"]
          /\ UNCHANGED stable
    /\ UNCHANGED <<up, policies, file, tmp, lock, new, acked, hardened>>

\* POLICIES.store, Ok, and the guard is dropped.
Publish(t) ==
    /\ pc[t] \in {"synced", "unsynced"}
    /\ policies' = new[t]
    /\ lock' = NoThread
    /\ acked' = new[t]
    /\ hardened' = IF pc[t] = "synced" THEN new[t] ELSE hardened
    /\ pc' = [pc EXCEPT ![t] = "ok"]
    /\ UNCHANGED <<up, file, tmp, stable, new>>

\* The caller goes on with the result.
Return(t) ==
    /\ pc[t] \in Returned
    /\ pc' = [pc EXCEPT ![t] = "idle"]
    /\ new' = [new EXCEPT ![t] = Absent]
    /\ UNCHANGED <<up, policies, file, tmp, stable, lock, acked, hardened>>

Step(t) == \/ WriteTmp(t)  \/ FsyncTmp(t) \/ RenameTmp(t)
           \/ SaveFails(t) \/ SyncDir(t)  \/ Publish(t)

----------------------------------------------------------------------------
(* The process and the machine *)

\* main loads the file and publishes it before any listener serves.  A file
\* that does not parse ends the process instead: no state changes then.
Start ==
    /\ ~up
    /\ file.data # Corrupt
    /\ up' = TRUE
    /\ policies' = Loaded(file.data)
    /\ UNCHANGED <<file, tmp, stable, lock, pc, new, acked, hardened>>

Stop ==
    /\ up
    /\ up' = FALSE
    /\ policies' = Default
    /\ lock' = NoThread
    /\ pc' = [t \in Threads |-> "idle"]
    /\ new' = [t \in Threads |-> Absent]
    /\ UNCHANGED <<stable, hardened>>

\* The process dies; the kernel keeps the files.  A write under way is cut.
Crash ==
    /\ Stop
    /\ \/ UNCHANGED tmp
       \/ /\ \E t \in Threads : pc[t] = "locked"
          /\ tmp' = [data |-> Corrupt, synced |-> FALSE]
    /\ UNCHANGED <<file, acked>>

\* The machine dies: only what is on stable storage comes back.  What is left
\* of the temporary file does not matter, the next save truncates it.
PowerLoss ==
    /\ Stop
    /\ file' = [data |-> stable, synced |-> TRUE]
    /\ tmp' = NoTmp
    /\ acked' = hardened

\* The kernel writes the directory entry back on its own account.
Writeback ==
    /\ stable' = OnDisk(file)
    /\ UNCHANGED <<up, policies, file, tmp, lock, pc, new, acked, hardened>>

Environment == Start \/ Crash \/ PowerLoss \/ Writeback

Next == \/ \E t \in Threads : \/ \E b \in Bodies : Lock(t, b)
                              \/ Step(t)
                              \/ Return(t)
        \/ Environment

Spec == Init /\ [][Next]_vars

----------------------------------------------------------------------------
(* Properties *)

Contents == Snapshots \cup {Absent, Corrupt}

TypeOK ==
    /\ up \in BOOLEAN
    /\ policies \in Snapshots
    /\ file \in [data : Contents, synced : BOOLEAN]
    /\ tmp \in [data : Contents, synced : BOOLEAN]
    /\ stable \in Contents
    /\ lock \in Threads \cup {NoThread}
    /\ pc \in [Threads -> {"idle"} \cup Critical \cup Returned]
    /\ new \in [Threads -> Snapshots \cup {Absent}]
    /\ acked \in Snapshots
    /\ hardened \in Snapshots

\* a is b or an earlier version than b.
AtMost(a, b) == a = b \/ a.version < b.version

\* Outside apply_and_save memory and disk agree: what the process serves is
\* what a restart would load, and an update refused with an error is in
\* neither of them.
MemoryMatchesFile ==
    up /\ lock = NoThread => policies = Loaded(file.data)

\* README: "policies.json is written atomically".  Whenever the process or the
\* machine stops, the next load_policies finds a whole document.
NeverCorrupt == file.data # Corrupt /\ stable # Corrupt

\* An update whose apply_and_save returned Ok survives a crash of the process,
\* and a power loss too when its directory fsync succeeded: what would be loaded
\* is that update or one made after it.
AckedSurvives ==
    /\ AtMost(acked, Loaded(file.data))
    /\ AtMost(hardened, Loaded(stable))

\* The store is an atomic one (see AtomicStore): an update takes effect at the
\* rename, all at once, and a restart loses only what was not yet hardened.
Phase(t) == IF pc[t] \in Saving THEN "pending"
            ELSE IF pc[t] \in Renamed \cup {"ok"} THEN "applied"
            ELSE IF pc[t] = "err" THEN "refused" ELSE "idle"

Atomic == INSTANCE AtomicStore WITH val   <- Loaded(file.data),
                                    floor <- Loaded(stable),
                                    op    <- [t \in Threads |-> Phase(t)]

ImplementsAtomicStore == Atomic!Spec
============================================================================
