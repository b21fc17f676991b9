------------------------- MODULE PolicyStoreProofs -------------------------
(* Proofs about PolicyStore, for any set of threads and of bodies.  The    *)
(* argument: WRITE_LOCK gives the sequence of system calls one owner, so   *)
(* the temporary file that is renamed is that owner's, fsynced, and exactly *)
(* one version ahead of what every reader sees.                            *)
EXTENDS PolicyStore, TLAPS

\* The lock is held by the one thread that is inside apply_and_save.
LockOwner == \A t \in Threads : pc[t] \in Critical <=> lock = t

\* A stopped process holds nothing.
DownIsIdle == ~up => \A t \in Threads : pc[t] = "idle"

\* What the holder's progress says about the files and memory.
Progress ==
    \A t \in Threads :
      /\ pc[t] \in Critical => /\ new[t] \in Snapshots
                               /\ new[t].version = policies.version + 1
      /\ pc[t] \in Saving => policies = Loaded(file.data)
      /\ pc[t] \in Renamed => file.data = new[t]
      /\ pc[t] \in {"written", "flushed"} => tmp.data = new[t]
      /\ pc[t] = "flushed" => tmp.synced
      /\ pc[t] = "synced" => stable = new[t]

\* The state file was fsynced before it got its name, and what a power loss
\* would leave is it or an earlier version.
DiskOrder == /\ file.synced
             /\ AtMost(Loaded(stable), Loaded(file.data))

IInv == /\ TypeOK /\ LockOwner /\ DownIsIdle /\ Progress /\ DiskOrder
        /\ MemoryMatchesFile /\ NeverCorrupt /\ AckedSurvives

USE BodyAssumption, FileAssumption, SentinelAssumption, BoundAssumption

LEMMA InitIInv == Init => IInv
  <1> SUFFICES ASSUME Init PROVE IInv
    OBVIOUS
  <1>1. TypeOK
    <2>1. Default \in Snapshots
      BY DEF Default, Snapshots
    <2>2. \A d \in InitFiles : d \in Contents /\ Loaded(d) \in Snapshots
      BY <2>1 DEF Contents, Loaded
    <2>3. PICK d \in InitFiles : /\ file = [data |-> d, synced |-> TRUE]
                                 /\ stable = d
                                 /\ acked = Loaded(d)
                                 /\ hardened = Loaded(d)
      BY DEF Init
    <2>4. /\ file \in [data : Contents, synced : BOOLEAN]
          /\ tmp \in [data : Contents, synced : BOOLEAN]
      BY <2>2, <2>3 DEF Init, Contents, NoTmp
    <2>5. /\ pc \in [Threads -> {"idle"} \cup Critical \cup Returned]
          /\ new \in [Threads -> Snapshots \cup {Absent}]
      BY DEF Init
    <2> QED
      BY <2>1, <2>2, <2>3, <2>4, <2>5 DEF Init, TypeOK
  <1>2. LockOwner /\ DownIsIdle /\ Progress
    BY DEF Init, LockOwner, DownIsIdle, Progress, Critical, Saving, Renamed
  <1>3. DiskOrder /\ MemoryMatchesFile /\ AckedSurvives
    BY DEF Init, DiskOrder, MemoryMatchesFile, AckedSurvives, AtMost
  <1>4. NeverCorrupt
    BY DEF Init, NeverCorrupt
  <1> QED
    BY <1>1, <1>2, <1>3, <1>4 DEF IInv


----------------------------------------------------------------------------
(* Facts about one value of the store *)

LEMMA AtMostTransitive ==
  ASSUME NEW a \in Snapshots, NEW b \in Snapshots, NEW c \in Snapshots,
         AtMost(a, b), AtMost(b, c)
  PROVE  AtMost(a, c)
  BY DEF AtMost, Snapshots

LEMMA LoadedIsSnapshot ==
  ASSUME NEW d \in Contents, d # Corrupt
  PROVE  Loaded(d) \in Snapshots
  BY DEF Contents, Loaded, Default, Snapshots

\* What the rename puts in place is a newer version than what it replaces.
LEMMA NextVersionIsLater ==
  ASSUME NEW a \in Snapshots, NEW b \in Snapshots, NEW c \in Snapshots,
         AtMost(a, b), c.version = b.version + 1
  PROVE  AtMost(a, c)
  BY DEF AtMost, Snapshots

----------------------------------------------------------------------------
(* The inductive step, one lemma per group of actions *)

LEMMA NextTypeOK == IInv /\ [Next]_vars => TypeOK'
  <1> SUFFICES ASSUME IInv, [Next]_vars PROVE TypeOK'
    OBVIOUS
  <1>0. TypeOK
    BY DEF IInv
  <1>a. [data |-> Corrupt, synced |-> FALSE] \in [data : Contents, synced : BOOLEAN]
    BY DEF Contents
  <1>1. ASSUME NEW t \in Threads, NEW b \in Bodies, Lock(t, b) PROVE TypeOK'
    <2>1. [version |-> policies.version + 1, body |-> b] \in Snapshots
      BY <1>0 DEF TypeOK, Snapshots
    <2> QED
      BY <1>0, <1>1, <2>1 DEF Lock, TypeOK, Critical, Saving
  <1>2. ASSUME NEW t \in Threads, WriteTmp(t) PROVE TypeOK'
    BY <1>0, <1>2 DEF WriteTmp, TypeOK, Critical, Saving, Contents
  <1>3. ASSUME NEW t \in Threads, FsyncTmp(t) PROVE TypeOK'
    BY <1>0, <1>3 DEF FsyncTmp, TypeOK, Critical, Saving
  <1>4. ASSUME NEW t \in Threads, RenameTmp(t) PROVE TypeOK'
    BY <1>0, <1>4 DEF RenameTmp, TypeOK, Critical, Renamed, NoTmp, Contents
  <1>5. ASSUME NEW t \in Threads, SaveFails(t) PROVE TypeOK'
    <2>1. tmp' \in [data : Contents, synced : BOOLEAN]
      BY <1>0, <1>5, <1>a DEF SaveFails, TypeOK
    <2> QED
      BY <1>0, <1>5, <2>1 DEF SaveFails, TypeOK, Returned
  <1>6. ASSUME NEW t \in Threads, SyncDir(t) PROVE TypeOK'
    BY <1>0, <1>6 DEF SyncDir, TypeOK, Critical, Renamed, OnDisk, Contents
  <1>7. ASSUME NEW t \in Threads, Publish(t) PROVE TypeOK'
    <2>1. new[t] \in Snapshots
      BY <1>7 DEF IInv, Progress, Publish, Critical, Renamed
    <2> QED
      BY <1>0, <1>7, <2>1 DEF Publish, TypeOK, Returned
  <1>8. ASSUME NEW t \in Threads, Return(t) PROVE TypeOK'
    BY <1>0, <1>8 DEF Return, TypeOK
  <1>9. CASE Start
    <2>1. Loaded(file.data) \in Snapshots
      BY <1>0, <1>9, LoadedIsSnapshot DEF Start, TypeOK
    <2> QED
      BY <1>0, <1>9, <2>1 DEF Start, TypeOK
  <1>10. CASE Crash
    <2>1. tmp' \in [data : Contents, synced : BOOLEAN]
      BY <1>0, <1>10, <1>a DEF Crash, TypeOK
    <2>2. Default \in Snapshots
      BY DEF Default, Snapshots
    <2> QED
      BY <1>0, <1>10, <2>1, <2>2 DEF Crash, Stop, TypeOK
  <1>11. CASE PowerLoss
    BY <1>0, <1>11 DEF PowerLoss, Stop, TypeOK, Contents, Default, Snapshots, NoTmp
  <1>12. CASE Writeback
    BY <1>0, <1>12 DEF Writeback, TypeOK, OnDisk, Contents
  <1>13. CASE UNCHANGED vars
    BY <1>0, <1>13 DEF vars, TypeOK
  <1> QED
    BY <1>1, <1>2, <1>3, <1>4, <1>5, <1>6, <1>7, <1>8, <1>9, <1>10, <1>11,
       <1>12, <1>13 DEF Next, Step, Environment
\* The order of the versions in memory and on disk, which no step disturbs.
Order == DiskOrder /\ MemoryMatchesFile /\ NeverCorrupt /\ AckedSurvives

LEMMA NextOwner == IInv /\ [Next]_vars => (LockOwner /\ DownIsIdle)'
  <1> SUFFICES ASSUME IInv, [Next]_vars PROVE (LockOwner /\ DownIsIdle)'
    OBVIOUS
  <1> USE DEF LockOwner, DownIsIdle, Critical, Saving, Renamed
  <1>0. TypeOK /\ LockOwner /\ DownIsIdle
    BY DEF IInv
  <1>1. ASSUME NEW t \in Threads, NEW b \in Bodies, Lock(t, b) PROVE (LockOwner /\ DownIsIdle)'
    BY <1>0, <1>1 DEF Lock, TypeOK
  <1>2. ASSUME NEW t \in Threads, WriteTmp(t) PROVE (LockOwner /\ DownIsIdle)'
    BY <1>0, <1>2 DEF WriteTmp, TypeOK
  <1>3. ASSUME NEW t \in Threads, FsyncTmp(t) PROVE (LockOwner /\ DownIsIdle)'
    BY <1>0, <1>3 DEF FsyncTmp, TypeOK
  <1>4. ASSUME NEW t \in Threads, RenameTmp(t) PROVE (LockOwner /\ DownIsIdle)'
    BY <1>0, <1>4 DEF RenameTmp, TypeOK
  <1>5. ASSUME NEW t \in Threads, SaveFails(t) PROVE (LockOwner /\ DownIsIdle)'
    BY <1>0, <1>5 DEF SaveFails, TypeOK
  <1>6. ASSUME NEW t \in Threads, SyncDir(t) PROVE (LockOwner /\ DownIsIdle)'
    BY <1>0, <1>6 DEF SyncDir, TypeOK
  <1>7. ASSUME NEW t \in Threads, Publish(t) PROVE (LockOwner /\ DownIsIdle)'
    BY <1>0, <1>7 DEF Publish, TypeOK
  <1>8. ASSUME NEW t \in Threads, Return(t) PROVE (LockOwner /\ DownIsIdle)'
    BY <1>0, <1>8 DEF Return, TypeOK, Returned
  <1>9. CASE Start
    BY <1>0, <1>9 DEF Start, TypeOK
  <1>10. CASE Crash \/ PowerLoss
    BY <1>0, <1>10 DEF Crash, PowerLoss, Stop
  <1>11. CASE Writeback
    BY <1>0, <1>11 DEF Writeback
  <1>12. CASE UNCHANGED vars
    BY <1>0, <1>12 DEF vars
  <1> QED
    BY <1>1, <1>2, <1>3, <1>4, <1>5, <1>6, <1>7, <1>8, <1>9, <1>10, <1>11,
       <1>12 DEF Next, Step, Environment

LEMMA NextProgress == IInv /\ [Next]_vars => Progress'
  <1> SUFFICES ASSUME IInv, [Next]_vars PROVE Progress'
    OBVIOUS
  <1> USE DEF Critical, Saving, Renamed
  <1>0. /\ TypeOK /\ LockOwner /\ DownIsIdle /\ Progress /\ DiskOrder
        /\ MemoryMatchesFile
    BY DEF IInv
  <1>1. ASSUME NEW t \in Threads, NEW b \in Bodies, Lock(t, b) PROVE Progress'
    BY <1>0, <1>1 DEF Lock, Progress, LockOwner, TypeOK, MemoryMatchesFile, Snapshots
  <1>2. ASSUME NEW t \in Threads, WriteTmp(t) PROVE Progress'
    BY <1>0, <1>2 DEF WriteTmp, Progress, LockOwner, TypeOK
  <1>3. ASSUME NEW t \in Threads, FsyncTmp(t) PROVE Progress'
    BY <1>0, <1>3 DEF FsyncTmp, Progress, LockOwner, TypeOK
  <1>4. ASSUME NEW t \in Threads, RenameTmp(t) PROVE Progress'
    BY <1>0, <1>4 DEF RenameTmp, Progress, LockOwner, TypeOK
  <1>5. ASSUME NEW t \in Threads, SaveFails(t) PROVE Progress'
    BY <1>0, <1>5 DEF SaveFails, Progress, LockOwner, TypeOK
  <1>6. ASSUME NEW t \in Threads, SyncDir(t) PROVE Progress'
    BY <1>0, <1>6 DEF SyncDir, Progress, LockOwner, TypeOK, OnDisk, DiskOrder
  <1>7. ASSUME NEW t \in Threads, Publish(t) PROVE Progress'
    BY <1>0, <1>7 DEF Publish, Progress, LockOwner, TypeOK
  <1>8. ASSUME NEW t \in Threads, Return(t) PROVE Progress'
    BY <1>0, <1>8 DEF Return, Progress, LockOwner, TypeOK, Returned
  <1>9. CASE Start
    BY <1>0, <1>9 DEF Start, DownIsIdle, Progress
  <1>10. CASE Crash \/ PowerLoss
    BY <1>0, <1>10 DEF Crash, PowerLoss, Stop, Progress
  <1>11. CASE Writeback
    BY <1>0, <1>11 DEF Writeback, Progress, OnDisk, DiskOrder
  <1>12. CASE UNCHANGED vars
    BY <1>0, <1>12 DEF vars, Progress
  <1> QED
    BY <1>1, <1>2, <1>3, <1>4, <1>5, <1>6, <1>7, <1>8, <1>9, <1>10, <1>11,
       <1>12 DEF Next, Step, Environment
LEMMA NextOrder == IInv /\ [Next]_vars => Order'
  <1> SUFFICES ASSUME IInv, [Next]_vars PROVE Order'
    OBVIOUS
  <1>0. TypeOK /\ LockOwner /\ DownIsIdle /\ Progress /\ Order
    BY DEF IInv, Order
  <1>1. Loaded(file.data) \in Snapshots /\ Loaded(stable) \in Snapshots
    BY <1>0, LoadedIsSnapshot DEF TypeOK, Order, NeverCorrupt
  <1> USE DEF Order, DiskOrder, MemoryMatchesFile, NeverCorrupt, AckedSurvives
  \* Steps that leave both files and the ghosts alone.
  <1>2. ASSUME UNCHANGED <<file, stable, acked, hardened>>,
               MemoryMatchesFile'
        PROVE  Order'
    BY <1>0, <1>2
  <1>3. ASSUME NEW t \in Threads, NEW b \in Bodies, Lock(t, b) PROVE Order'
    BY <1>0, <1>2, <1>3 DEF Lock
  <1>4. ASSUME NEW t \in Threads, WriteTmp(t) \/ FsyncTmp(t) \/ Return(t)
        PROVE  Order'
    BY <1>0, <1>2, <1>4 DEF WriteTmp, FsyncTmp, Return
  <1>5. ASSUME NEW t \in Threads, RenameTmp(t) PROVE Order'
    <2>1. /\ new[t] \in Snapshots /\ file'.data = new[t] /\ file'.synced
          /\ new[t].version = Loaded(file.data).version + 1
          /\ lock = t
      BY <1>0, <1>5 DEF RenameTmp, Progress, LockOwner, Critical, Saving
    <2>2. Loaded(file'.data) = new[t]
      BY <2>1 DEF Loaded
    <2>3. /\ AtMost(Loaded(stable), new[t])
          /\ AtMost(acked, new[t])
      BY <1>0, <1>1, <2>1, NextVersionIsLater DEF TypeOK
    <2>4. lock' # NoThread
      BY <1>5, <2>1 DEF RenameTmp
    <2> QED
      BY <1>0, <1>5, <2>1, <2>2, <2>3, <2>4 DEF RenameTmp
  <1>6. ASSUME NEW t \in Threads, SaveFails(t) PROVE Order'
    BY <1>0, <1>2, <1>6 DEF SaveFails, Progress
  <1>7. ASSUME NEW t \in Threads, SyncDir(t) PROVE Order'
    <2>1. lock = t
      BY <1>0, <1>7 DEF SyncDir, LockOwner, Critical, Renamed
    <2>2. stable' = stable \/ stable' = file.data
      BY <1>0, <1>7 DEF SyncDir, OnDisk
    <2>3. AtMost(hardened, Loaded(file.data))
      BY <1>0, <1>1, AtMostTransitive DEF TypeOK
    <2>4. AtMost(Loaded(file.data), Loaded(file.data))
      BY DEF AtMost
    <2> QED
      BY <1>0, <1>7, <2>1, <2>2, <2>3, <2>4 DEF SyncDir
  <1>8. ASSUME NEW t \in Threads, Publish(t) PROVE Order'
    <2>1. /\ new[t] \in Snapshots /\ file.data = new[t]
          /\ pc[t] = "synced" => stable = new[t]
      BY <1>0, <1>8 DEF Publish, Progress, Critical, Renamed
    <2>2. Loaded(new[t]) = new[t]
      BY <2>1 DEF Loaded
    <2> QED
      BY <1>0, <1>8, <2>1, <2>2 DEF Publish, AtMost
  <1>9. CASE Start
    BY <1>0, <1>2, <1>9 DEF Start
  <1>10. CASE Crash
    BY <1>0, <1>2, <1>10 DEF Crash, Stop
  <1>11. CASE PowerLoss
    BY <1>0, <1>11 DEF PowerLoss, Stop, AtMost
  <1>12. CASE Writeback
    <2>1. stable' = file.data
      BY <1>0, <1>12 DEF Writeback, OnDisk
    <2>2. AtMost(hardened, Loaded(file.data))
      BY <1>0, <1>1, AtMostTransitive DEF TypeOK
    <2> QED
      BY <1>0, <1>12, <2>1, <2>2 DEF Writeback, AtMost
  <1>13. CASE UNCHANGED vars
    BY <1>0, <1>2, <1>13 DEF vars
  <1> QED
    BY <1>3, <1>4, <1>5, <1>6, <1>7, <1>8, <1>9, <1>10, <1>11, <1>12, <1>13
       DEF Next, Step, Environment

----------------------------------------------------------------------------
(* The theorems *)

LEMMA Inductive == Spec => []IInv
  <1>1. IInv /\ [Next]_vars => IInv'
    BY NextTypeOK, NextOwner, NextProgress, NextOrder DEF IInv, Order
  <1> QED
    BY InitIInv, <1>1, PTL DEF Spec

\* Every variable of the store keeps its type: in particular POLICIES always
\* holds a whole document.
THEOREM TypeCorrect == Spec => []TypeOK
  BY Inductive, PTL DEF IInv

\* Outside apply_and_save readers see what a restart would load, whatever the
\* number of threads and wherever errors, crashes and power losses fall.
THEOREM MemoryAgreesWithDisk == Spec => []MemoryMatchesFile
  BY Inductive, PTL DEF IInv

\* Neither a crash nor a power loss ever leaves a state file that main cannot
\* load: write, fsync, rename is an atomic replacement.
THEOREM StateFileAlwaysLoads == Spec => []NeverCorrupt
  BY Inductive, PTL DEF IInv

\* An update whose apply_and_save returned Ok is never lost to a crash, nor to a
\* power loss once its directory fsync succeeded.
THEOREM AcknowledgedUpdatesSurvive == Spec => []AckedSurvives
  BY Inductive, PTL DEF IInv
----------------------------------------------------------------------------
(* Refinement *)

\* A step of thread t maps to one that changes op at t alone.
LEMMA PhaseOf ==
  ASSUME TypeOK, NEW t \in Threads, NEW p, pc' = [pc EXCEPT ![t] = p]
  PROVE  [u \in Threads |-> Phase(u)]'
           = [[u \in Threads |-> Phase(u)] EXCEPT ![t] = Phase(t)']
  BY DEF TypeOK, Phase

LEMMA InitRefines == Init => Atomic!Init
  <1> SUFFICES ASSUME Init PROVE Atomic!Init
    OBVIOUS
  <1>1. Loaded(file.data) \in Snapshots
    BY InitIInv, LoadedIsSnapshot DEF IInv, TypeOK, NeverCorrupt
  <1>2. Loaded(stable) = Loaded(file.data)
    BY DEF Init
  <1>3. [t \in Threads |-> Phase(t)] = [t \in Threads |-> "idle"]
    BY DEF Init, Phase, Saving, Renamed
  <1> QED
    BY <1>1, <1>2, <1>3 DEF Atomic!Init, Atomic!Snapshots, Snapshots

LEMMA NextRefines ==
  IInv /\ IInv' /\ [Next]_vars => [Atomic!Next]_(Atomic!vars)
  <1> SUFFICES ASSUME IInv, IInv', [Next]_vars
               PROVE  Atomic!Next \/ UNCHANGED Atomic!vars
    OBVIOUS
  <1> DEFINE op == [t \in Threads |-> Phase(t)]
  <1>0. TypeOK /\ LockOwner /\ DownIsIdle /\ Progress /\ DiskOrder /\ NeverCorrupt
    BY DEF IInv
  <1> USE DEF Saving, Renamed
  <1>1. ASSUME NEW t \in Threads, NEW b \in Bodies, Lock(t, b)
        PROVE  Atomic!Invoke(t)
    <2>1. Phase(t) = "idle" /\ Phase(t)' = "pending"
      BY <1>0, <1>1 DEF Lock, Phase, TypeOK
    <2>2. op' = [op EXCEPT ![t] = "pending"]
      BY <1>0, <1>1, <2>1, PhaseOf DEF Lock
    <2> QED
      BY <1>1, <2>1, <2>2 DEF Lock, Atomic!Invoke
  <1>2. ASSUME NEW t \in Threads, WriteTmp(t) \/ FsyncTmp(t)
        PROVE  UNCHANGED Atomic!vars
    <2>1. op' = op
      BY <1>0, <1>2 DEF WriteTmp, FsyncTmp, Phase, TypeOK
    <2> QED
      BY <1>2, <2>1 DEF WriteTmp, FsyncTmp, Atomic!vars
  <1>3. ASSUME NEW t \in Threads, RenameTmp(t) PROVE Atomic!Apply(t)
    <2>1. Phase(t) = "pending" /\ Phase(t)' = "applied"
      BY <1>0, <1>3 DEF RenameTmp, Phase, TypeOK
    <2>2. op' = [op EXCEPT ![t] = "applied"]
      BY <1>0, <1>3, <2>1, PhaseOf DEF RenameTmp
    <2>3. /\ new[t] \in Snapshots /\ file'.data = new[t]
          /\ new[t].version = Loaded(file.data).version + 1
      BY <1>0, <1>3 DEF RenameTmp, Progress, Critical
    <2>4. Loaded(file'.data) = [version |-> Loaded(file.data).version + 1,
                                body |-> new[t].body]
      BY <2>3 DEF Loaded, Snapshots
    <2>5. new[t].body \in Bodies
      BY <2>3 DEF Snapshots
    <2> QED
      BY <1>3, <2>1, <2>2, <2>4, <2>5 DEF RenameTmp, Atomic!Apply
  <1>4. ASSUME NEW t \in Threads, SaveFails(t) PROVE Atomic!Refuse(t)
    <2>1. Phase(t) = "pending" /\ Phase(t)' = "refused"
      BY <1>0, <1>4 DEF SaveFails, Phase, TypeOK
    <2>2. op' = [op EXCEPT ![t] = "refused"]
      BY <1>0, <1>4, <2>1, PhaseOf DEF SaveFails
    <2> QED
      BY <1>4, <2>1, <2>2 DEF SaveFails, Atomic!Refuse
  <1>5. ASSUME NEW t \in Threads, SyncDir(t)
        PROVE  Atomic!Harden \/ UNCHANGED Atomic!vars
    <2>1. op' = op
      BY <1>0, <1>5 DEF SyncDir, Phase, TypeOK
    <2>2. stable' = stable \/ stable' = file.data
      BY <1>0, <1>5 DEF SyncDir, OnDisk, DiskOrder
    <2> QED
      BY <1>5, <2>1, <2>2 DEF SyncDir, Atomic!Harden, Atomic!vars
  <1>6. ASSUME NEW t \in Threads, Publish(t) PROVE UNCHANGED Atomic!vars
    <2>1. op' = op
      BY <1>0, <1>6 DEF Publish, Phase, TypeOK
    <2> QED
      BY <1>6, <2>1 DEF Publish, Atomic!vars
  <1>7. ASSUME NEW t \in Threads, Return(t) PROVE Atomic!Return(t)
    <2>1. Phase(t) \in {"applied", "refused"} /\ Phase(t)' = "idle"
      BY <1>0, <1>7 DEF Return, Returned, Phase, TypeOK
    <2>2. op' = [op EXCEPT ![t] = "idle"]
      BY <1>0, <1>7, <2>1, PhaseOf DEF Return
    <2> QED
      BY <1>7, <2>1, <2>2 DEF Return, Atomic!Return
  <1>8. CASE Start
    <2>1. op' = op
      BY <1>8 DEF Start, Phase
    <2> QED
      BY <1>8, <2>1 DEF Start, Atomic!vars
  <1>9. CASE Crash \/ PowerLoss
    <2>1. op' = [t \in Threads |-> "idle"]
      BY <1>9 DEF Crash, PowerLoss, Stop, Phase
    <2>2. file'.data \in {file.data, stable} /\ stable' = stable
      BY <1>9 DEF Crash, PowerLoss, Stop
    <2> QED
      BY <2>1, <2>2 DEF Atomic!Restart, Atomic!Next
  <1>10. CASE Writeback
    <2>1. op' = op
      BY <1>10 DEF Writeback, Phase
    <2>2. stable' = file.data
      BY <1>0, <1>10 DEF Writeback, OnDisk, DiskOrder
    <2> QED
      BY <1>10, <2>1, <2>2 DEF Writeback, Atomic!Harden, Atomic!Next
  <1>11. CASE UNCHANGED vars
    BY <1>11 DEF vars, Phase, Atomic!vars
  <1> QED
    BY <1>1, <1>2, <1>3, <1>4, <1>5, <1>6, <1>7, <1>8, <1>9, <1>10, <1>11
       DEF Next, Step, Environment, Atomic!Next

\* apply_and_save is an atomic update: its sequence of system calls takes effect
\* at one instant, the rename, or not at all, and restarts lose only updates
\* that no fsync of the directory had reached.
THEOREM StoreIsAtomic == Spec => ImplementsAtomicStore
  BY InitRefines, NextRefines, Inductive, PTL
     DEF Spec, ImplementsAtomicStore, Atomic!Spec
============================================================================
