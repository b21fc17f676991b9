----------------------------- MODULE SniParser -----------------------------
(***************************************************************************)
(* The parsers that look for a server name in what a client sent first:    *)
(* extract_tls_sni and its helpers (dataplane/sni.rs), for the bytes       *)
(* peeked from a TCP stream, and extract_quic_sni, extract_crypto_data and *)
(* read_varint (dataplane/quic.rs), for a UDP datagram.                    *)
(*                                                                         *)
(* The bytes are whatever the client chose, so a step that reads a field   *)
(* takes any value of the field's type.  What is kept is every position,   *)
(* every length check and every index or slice: an index outside of its    *)
(* slice is a panic, as in Rust.  The keys, the mask and the cipher are    *)
(* external: decryption fails or yields a plaintext shorter by the tag.    *)
(*                                                                         *)
(* What was received may be the first part of the client's message only.   *)
(* Beside the reading of that part the model keeps, in whole, where the    *)
(* same reading of all of the message would be: the bytes are the same, so *)
(* it differs only where a length is cut to what is there.                 *)
(***************************************************************************)
EXTENDS Naturals

CONSTANTS Lens,     \* sizes of the data: a peek of PEEK_BUF_SIZE, a datagram
          U8, U16,  \* values of a length field of one byte, of two
          U24,      \* ... and of three (hs_len)
          Mores,    \* bytes of the message that have not arrived
          Varints,  \* QUIC varints: [val, bytes], up to 2^62 - 1 in 8 bytes
          Word      \* 2^64, the number of values of a usize

ASSUME FieldAssumption  == U8 \subseteq Nat /\ U16 \subseteq Nat /\ U24 \subseteq Nat
ASSUME VarintAssumption == Varints \subseteq [val : Nat, bytes : {1, 2, 4, 8}]
ASSUME LensAssumption   == Lens \subseteq Nat /\ Mores \subseteq Nat
\* 2^16 + 9 + 2^62 < 2^64: no position computed from a varint wraps around.
ASSUME WordAssumption   == /\ Word \in Nat
                           /\ \A n \in Lens, v \in Varints : n + v.val + 9 < Word

VARIABLES len,     \* what was received
          pc,      \* the next field to parse, or how the parser has ended
          size,    \* the length of the slice at hand
          pos,     \* the local pos
          stop,    \* the end of the extensions, of the list or of the packet
          crypto,  \* the bytes in crypto_data
          found,   \* the name returned: {}, or {[at, len]}
          whole,   \* size and stop in a reading of all of the message, and its name
          work     \* steps taken

vars == <<len, pc, size, pos, stop, crypto, found, whole, work>>

Fields == {"record", "handshake", "hello", "ciphers", "compression", "extensions",
           "extension", "sni", "names", "initial", "dcid", "scid", "token", "length",
           "protection", "frames"}
Ends   == {"none", "name", "panic"}

\* peek_sni_or_host on port 443, or handle_quic_packet.
Init == /\ len \in Lens
        /\ pc \in {"record", "initial"}
        /\ size = len
        /\ pos = 0 /\ stop = 0 /\ crypto = 0 /\ found = {} /\ work = 0
        /\ \E more \in Mores : whole = [size |-> len + more, stop |-> 0, name |-> {}]

Least(a, b) == IF a <= b THEN a ELSE b

\* usize arithmetic in a release build.
Plus(a, b) == (a + b) % Word

names == <<found, whole>>

Return(r)   == pc' = r /\ UNCHANGED <<size, pos, stop, crypto, names>>
GoOn(p, at) == pc' = p /\ pos' = at /\ UNCHANGED <<size, stop, crypto, names>>

\* p reads the n bytes after lo, as far as they are there: they end at end, or at
\* wend in all of the message.
Enter(p, lo, n, end, wend) ==
    /\ pc' = p
    /\ size' = Least(lo + n, end) - lo
    /\ whole' = [whole EXCEPT !.size = Least(lo + n, wend) - lo]
    /\ pos' = 0
    /\ UNCHANGED <<stop, crypto, found>>

\* A loop, p, runs over the n bytes after lo, as far as they are there.
Loop(p, lo, n) ==
    /\ pc' = p
    /\ pos' = lo
    /\ stop' = Least(lo + n, size)
    /\ whole' = [whole EXCEPT !.stop = Least(lo + n, whole.size)]
    /\ UNCHANGED <<size, crypto, found>>

\* [lo..hi] of the slice at hand, with Rust's check.
Slice(lo, hi, then) == IF lo <= hi /\ hi <= size THEN then ELSE Return("panic")

\* What the reading of all of the message makes of a host name of n bytes at at: it
\* returns the first one that is there.
WholeName(at, n) ==
    IF whole.name = {} /\ at + n <= whole.stop
    THEN [whole EXCEPT !.name = {[at |-> at, len |-> n]}] ELSE whole

\* n bytes at at are returned as the name; in the message it has sent bytes.
Found(at, n, sent) ==
    /\ pc' = "name"
    /\ found' = {[at |-> at, len |-> n]}
    /\ whole' = WholeName(at, sent)
    /\ UNCHANGED <<size, pos, stop, crypto>>

----------------------------------------------------------------------------
(* Faulty variants of the steps below: each breaks a property. *)

\* The length of the packet is taken on trust.
LengthUnchecked ==
    /\ pc = "length"
    /\ \/ pos >= size /\ Return("none")
       \/ pos < size /\ Slice(pos, size,
            \E v \in Varints : /\ pc' = "protection"
                               /\ pos' = pos + v.bytes
                               /\ stop' = Plus(pos + v.bytes, v.val)
                               /\ UNCHANGED <<size, crypto, names>>)

\* The frame loop does not step over the type of a PADDING frame.
FrameStuck ==
    /\ pc = "frames"
    /\ pos < size
    /\ GoOn("frames", pos)

\* The tag is left in the plaintext, and a packet number is taken for granted.
ProtectionUnchecked ==
    /\ pc = "protection"
    /\ \E pn_len \in 1..4 : /\ pc' = "frames"
                            /\ size' = stop - (pos + pn_len)
                            /\ pos' = 0 /\ crypto' = 0
                            /\ UNCHANGED <<stop, names>>

\* A name that is not all there is cut, like the other lengths, instead of skipped.
NameCutShort ==
    /\ pc = "names"
    /\ \/ pos + 3 > stop /\ Return("none")
       \/ /\ pos + 3 <= stop
          /\ \E n \in U16 : Found(pos + 3, Least(n, stop - (pos + 3)), n)

----------------------------------------------------------------------------
(* sni.rs *)

\* The header of the TLS record.
Record ==
    /\ pc = "record"
    /\ \/ size < 5 /\ Return("none")
       \/ size >= 5 /\ Slice(0, 5,
            \/ Return("none")                         \* content type
            \/ \E n \in U16 : 
                 Slice(5, Least(5 + n, size), Enter("handshake", 5, n, size, whole.size)))

\* The header of the handshake message.
Handshake ==
    /\ pc = "handshake"
    /\ \/ size = 0 /\ Return("none")
       \/ size > 0 /\ Slice(0, 1,
            \/ Return("none")                         \* handshake type
            \/ size < 4 /\ Return("none")
            \/ size >= 4 /\ Slice(0, 4,
                 \E n \in U24 : 
                   Slice(4, Least(4 + n, size), Enter("hello", 4, n, size, whole.size))))

\* Version and random are skipped, then the session id.
Hello ==
    /\ pc = "hello"
    /\ \/ size < 34 /\ Return("none")
       \/ size >= 34 /\ 34 >= size /\ Return("none")
       \/ 34 < size /\ Slice(34, 35, \E n \in U8 : GoOn("ciphers", 35 + n))

Ciphers ==
    /\ pc = "ciphers"
    /\ \/ pos + 2 > size /\ Return("none")
       \/ pos + 2 <= size /\ Slice(pos, pos + 2,
            \E n \in U16 : GoOn("compression", pos + 2 + n))

Compression ==
    /\ pc = "compression"
    /\ \/ pos >= size /\ Return("none")
       \/ pos < size /\ Slice(pos, pos + 1,
            \E n \in U8 : GoOn("extensions", pos + 1 + n))

Extensions ==
    /\ pc = "extensions"
    /\ \/ pos + 2 > size /\ Return("none")
       \/ pos + 2 <= size /\ Slice(pos, pos + 2,
            \E n \in U16 : Loop("extension", pos + 2, n))

\* One turn of the loop over the extensions: the SNI extension, or another.
Extension ==
    /\ pc = "extension"
    /\ \/ pos + 4 > stop /\ Return("none")
       \/ pos + 4 <= stop /\ Slice(pos, pos + 4,
            \E n \in U16 :
              \/ Slice(pos + 4, Least(pos + 4 + n, stop),
                       Enter("sni", pos + 4, n, stop, whole.stop))
              \/ GoOn("extension", pos + 4 + n))

\* parse_sni_extension: the header of the list.
SniList ==
    /\ pc = "sni"
    /\ \/ size < 2 /\ Return("none")
       \/ size >= 2 /\ Slice(0, 2,
            \E n \in U16 : Loop("names", 2, n))

\* One turn of the loop over the names: a host name that is all there (and UTF-8,
\* or it is none); one that is cut, which is skipped; an entry of another type.
Name ==
    /\ pc = "names"
    /\ \/ pos + 3 > stop /\ Return("none")
       \/ pos + 3 <= stop /\ Slice(pos, pos + 3,
            \E n \in U16 :
              \/ /\ pos + 3 + n <= stop
                 /\ Slice(pos + 3, pos + 3 + n, Found(pos + 3, n, n) \/ Return("none"))
              \/ /\ pos + 3 + n > stop
                 /\ pc' = "names" /\ pos' = pos + 3 + n
                 /\ whole' = WholeName(pos + 3, n)
                 /\ UNCHANGED <<size, stop, crypto, found>>
              \/ GoOn("names", pos + 3 + n))

----------------------------------------------------------------------------
(* quic.rs *)

\* Long header, packet type and version.
Initial ==
    /\ pc = "initial"
    /\ \/ size < 5 /\ Return("none")
       \/ size >= 5 /\ Slice(0, 5, Return("none") \/ GoOn("dcid", 5))

Dcid ==
    /\ pc = "dcid"
    /\ \/ pos >= size /\ Return("none")
       \/ pos < size /\ Slice(pos, pos + 1,
            \E n \in U8 :
              \/ pos + 1 + n > size /\ Return("none")
              \/ /\ pos + 1 + n <= size
                 /\ Slice(pos + 1, pos + 1 + n, GoOn("scid", pos + 1 + n)))

Scid ==
    /\ pc = "scid"
    /\ \/ pos >= size /\ Return("none")
       \/ pos < size /\ Slice(pos, pos + 1, \E n \in U8 : GoOn("token", pos + 1 + n))

\* read_varint has the bytes it needs.
Fits(v, at) == at + v.bytes <= size

Token ==
    /\ pc = "token"
    /\ \/ pos >= size /\ Return("none")
       \/ pos < size /\ Slice(pos, size,
            \E v \in Varints :
              \/ ~Fits(v, pos) /\ Return("none")
              \/ Fits(v, pos) /\ GoOn("length", Plus(pos + v.bytes, v.val)))

PayloadLength ==
    /\ pc = "length"
    /\ \/ pos >= size /\ Return("none")
       \/ pos < size /\ Slice(pos, size,
            \E v \in Varints : LET end == Plus(pos + v.bytes, v.val) IN
              \/ (~Fits(v, pos) \/ end > size) /\ Return("none")
              \/ /\ Fits(v, pos) /\ end <= size
                 /\ pc' = "protection"
                 /\ pos' = pos + v.bytes
                 /\ stop' = end
                 /\ UNCHANGED <<size, crypto, names>>)

\* Header protection, the packet number, the AAD and the ciphertext.  header is
\* data[..stop], so the packet number is read within stop.
Protection ==
    /\ pc = "protection"
    /\ \/ pos + 20 > size /\ Return("none")
       \/ pos + 20 <= size /\ Slice(pos + 4, pos + 20, Slice(0, stop,
            IF stop = 0 THEN Return("panic")          \* header[0]
            ELSE \E pn_len \in 1..4 :
              \/ pos + pn_len >= stop /\ Return("none")
              \/ /\ pos + pn_len < stop
                 /\ Slice(pos + pn_len, stop,
                      \/ Return("none")               \* decrypt_payload
                      \/ /\ pos + pn_len + 16 <= stop
                         /\ pc' = "frames"
                         /\ size' = stop - (pos + pn_len + 16)
                         /\ pos' = 0 /\ crypto' = 0
                         /\ UNCHANGED <<stop, names>>)))

\* The frame loop is left: the ClientHello is what the CRYPTO frames held.  Where
\* they held it from its start on, the rest of it is what has not arrived.
Leave(c) == /\ pc' = IF c = 0 THEN "none" ELSE "handshake"
            /\ size' = c /\ pos' = 0
            /\ whole' = [whole EXCEPT !.size = c + (@ - len)]
            /\ UNCHANGED <<stop, crypto, found>>

\* A CRYPTO frame whose offset o is read and thrown away, and whose length is v.
CryptoFrame(o, v) ==
    LET at   == pos + 1 + o.bytes
        data == at + v.bytes
        end  == Plus(data, v.val)
    IN
    \/ pos + 1 >= size /\ Leave(crypto)
    \/ pos + 1 < size /\ ~Fits(o, pos + 1) /\ Return("none")
    \/ Fits(o, pos + 1) /\ at >= size /\ Leave(crypto)
    \/ at < size /\ ~Fits(v, at) /\ Return("none")
    \/ Fits(v, at) /\ end > size /\ Leave(crypto)
    \/ /\ Fits(v, at) /\ end <= size
       /\ Slice(data, end, /\ pc' = "frames"
                           /\ pos' = end
                           /\ crypto' = crypto + (end - data)
                           /\ UNCHANGED <<size, stop, names>>)

\* One turn of the frame loop: PADDING or PING, CRYPTO, or a frame that ends it.
Frame ==
    /\ pc = "frames"
    /\ \/ pos >= size /\ Leave(crypto)
       \/ pos < size /\ Slice(pos, pos + 1,
            \/ GoOn("frames", pos + 1)
            \/ \E o, v \in Varints : CryptoFrame(o, v)
            \/ Leave(crypto))

----------------------------------------------------------------------------
Parse == \/ Record \/ Handshake \/ Hello \/ Ciphers \/ Compression \/ Extensions
         \/ Extension \/ SniList \/ Name
         \/ Initial \/ Dcid \/ Scid \/ Token \/ PayloadLength \/ Protection \/ Frame

Step == Parse /\ work' = work + 1 /\ UNCHANGED len

\* The parser has returned.
Ended == pc \in Ends /\ UNCHANGED vars

Next == Step \/ Ended

Spec == Init /\ [][Next]_vars

----------------------------------------------------------------------------
(* Properties *)

TypeOK == /\ len \in Lens
          /\ pc \in Fields \cup Ends
          /\ size \in 0..len
          /\ pos \in Nat
          /\ stop \in Nat
          /\ crypto \in 0..len
          /\ found \in SUBSET [at : Nat, len : Nat]
          /\ whole \in [size : Nat, stop : Nat, name : SUBSET [at : Nat, len : Nat]]
          /\ work \in Nat

\* Whatever the client sends, no index or slice of the parsers is out of bounds:
\* every length read from the data is checked, or cut to what there is, before it
\* is used, and no sum of a position and a varint wraps around below the checks.
NoPanic == pc # "panic"

\* Whatever the client sends, the parsers return, after a number of reads that is
\* linear in the size of the data: every turn of the loops over frames, extensions
\* and names moves pos forward, past a length of zero too.
WorkBounded == work <= 2 * len + 20

\* A name found in the part of a ClientHello that has arrived is the name found in
\* all of it, to the last byte: record, handshake, extensions, extension and list may
\* each be cut to what is there, but a name may not, and after a name that is cut no
\* later entry is taken for it.  The reading of all of it takes the same steps up to
\* there, since it has at least as many bytes at each check.
NameIsWhole == /\ size <= whole.size
               /\ pc \in {"extension", "names"} => stop <= whole.stop
               /\ pc = "name" => found = whole.name

=============================================================================
