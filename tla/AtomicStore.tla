---------------------------- MODULE AtomicStore ----------------------------
(***************************************************************************)
(* What the policy store promises the admin API: every call of             *)
(* apply_and_save takes effect in one indivisible step somewhere between   *)
(* the call and its return, or not at all and then returns an error.       *)
(*                                                                         *)
(* val is the value a restart would load, floor the value that is          *)
(* certainly on stable storage.  A restart may lose what has not been      *)
(* hardened yet, and nothing else.                                         *)
(***************************************************************************)
EXTENDS Naturals

CONSTANTS Threads,      \* callers of the store
          Bodies        \* values of Policies, its version left out

VARIABLES val, floor, op

vars == <<val, floor, op>>

Snapshots == [version : Nat, body : Bodies]

Init == /\ val \in Snapshots
        /\ floor = val
        /\ op = [t \in Threads |-> "idle"]

Invoke(t) == /\ op[t] = "idle"
             /\ op' = [op EXCEPT ![t] = "pending"]
             /\ UNCHANGED <<val, floor>>

\* The one point where a successful call changes the value.
Apply(t) == /\ op[t] = "pending"
            /\ op' = [op EXCEPT ![t] = "applied"]
            /\ \E b \in Bodies :
                 val' = [version |-> val.version + 1, body |-> b]
            /\ UNCHANGED floor

Refuse(t) == /\ op[t] = "pending"
             /\ op' = [op EXCEPT ![t] = "refused"]
             /\ UNCHANGED <<val, floor>>

Return(t) == /\ op[t] \in {"applied", "refused"}
             /\ op' = [op EXCEPT ![t] = "idle"]
             /\ UNCHANGED <<val, floor>>

Harden == /\ floor' = val
          /\ UNCHANGED <<val, op>>

\* The process stops; its callers are gone.
Restart == /\ val' \in {val, floor}
           /\ op' = [t \in Threads |-> "idle"]
           /\ UNCHANGED floor

Next == \/ \E t \in Threads : Invoke(t) \/ Apply(t) \/ Refuse(t) \/ Return(t)
        \/ Harden
        \/ Restart

Spec == Init /\ [][Next]_vars
============================================================================
