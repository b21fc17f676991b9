--------------------------- MODULE MCPolicyStore ---------------------------
(* Two threads, two bodies, and a state file that is absent or was left    *)
(* by an earlier run.                                                      *)
EXTENDS PolicyStore

MCInitFiles == {Absent, [version |-> 1, body |-> DefaultBody]}
============================================================================
