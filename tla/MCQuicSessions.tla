--------------------------- MODULE MCQuicSessions ---------------------------
(* Two clients whose keys fall into one shard of the table.                *)
EXTENDS QuicSessions

OneShard == [k \in Keys |-> 1]
============================================================================
