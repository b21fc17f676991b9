---------------------------- MODULE MCSniParser ----------------------------
EXTENDS SniParser

\* A varint of one byte holds up to 63, and any value may be spelt in more bytes
\* than it needs.  Word leaves as much room above the largest varint as 2^64 does
\* above 2^62.
MCVarints == [val : {0, 1, 57}, bytes : {1}]
               \cup {[val |-> 0, bytes |-> 8], [val |-> 77, bytes |-> 2],
                     [val |-> 150, bytes |-> 8]}
=============================================================================
