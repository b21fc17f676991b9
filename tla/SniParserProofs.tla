-------------------------- MODULE SniParserProofs --------------------------
(***************************************************************************)
(* NoPanic, WorkBounded and NameIsWhole for data of every size, cut at     *)
(* every place, and fields of every value.  None is inductive: they need   *)
(* to know how pos, stop and size compare at each field, how much work is  *)
(* behind it, and that a name that is cut leaves no room for another.      *)
(***************************************************************************)
EXTENDS SniParser, TLAPS

\* The long header: a step per field, and pos beyond the first byte.
HeaderInv ==
    /\ pc \in {"record", "initial"} => size = len /\ work = 0
    /\ pc = "dcid" => pos = 5 /\ pos <= size /\ work = 1
    /\ pc = "scid" => 5 < pos /\ pos <= size /\ work = 2
    /\ pc = "token" => 5 < pos /\ work = 3
    /\ pc = "length" => 5 < pos /\ work = 4
    /\ pc = "protection" => 5 < pos /\ pos <= stop /\ stop <= size /\ work = 5

\* The frames: a turn per byte at most, and no more CRYPTO data than bytes read.
FramesInv ==
    pc = "frames" => pos <= size /\ crypto <= pos /\ work <= 6 + pos

\* The ClientHello, and the loop over its extensions.
HelloInv ==
    /\ pc = "handshake" => work <= len + 7
    /\ pc = "hello" => work <= len + 8
    /\ pc = "ciphers" => work <= len + 9
    /\ pc = "compression" => work <= len + 10
    /\ pc = "extensions" => work <= len + 11
    /\ pc = "extension" => /\ stop <= size
                           /\ work <= len + 12 + pos
                           /\ work <= 2 * len + 12

\* The list of names.
NamesInv ==
    /\ pc = "sni" => work + size <= 2 * len + 12
    /\ pc = "names" => /\ stop <= size
                       /\ work + size <= 2 * len + 13 + pos
                       /\ work <= 2 * len + 13

\* The reading of all of the message: it has found a name, where this one has not,
\* only if the name is cut, and then this one is past the end of the list.
WholeInv ==
    /\ pc \in {"record", "initial", "dcid", "scid", "token", "length", "protection",
               "frames"} => len <= whole.size
    /\ pc \notin {"names", "name", "none"} => whole.name = {}
    /\ pc = "names" => whole.name = {} \/ pos > stop

IInv == /\ TypeOK /\ NoPanic /\ WorkBounded /\ NameIsWhole
        /\ HeaderInv /\ FramesInv /\ HelloInv /\ NamesInv /\ WholeInv

\* No position the parsers compute from a varint wraps around.
LEMMA PlusIsPlus ==
    ASSUME NEW n \in Lens, NEW v \in Varints, NEW a \in Nat, a <= n + 9
    PROVE  Plus(a, v.val) = a + v.val
<1>1. v.val \in Nat
  BY VarintAssumption
<1>2. a + v.val < Word /\ Word \in Nat
  BY <1>1, LensAssumption, WordAssumption
<1>3. \A m, w \in Nat : m < w => m % w = m
  OBVIOUS
<1> QED BY <1>1, <1>2, <1>3 DEF Plus
\* IInv holds when a parser starts.
LEMMA InitIInv == Init => IInv
BY LensAssumption
   DEF Init, IInv, TypeOK, NoPanic, WorkBounded, HeaderInv, FramesInv, HelloInv, NamesInv,
       WholeInv, NameIsWhole, Loop, names,
       Fields, Ends

----------------------------------------------------------------------------
(* A step of the parsers keeps IInv: one lemma per field. *)

\* The record header.
LEMMA RecordStep == ASSUME IInv, Record, work' = work + 1, len' = len PROVE IInv'
BY FieldAssumption, LensAssumption
   DEF Record, IInv, TypeOK, NoPanic, WorkBounded, HeaderInv, FramesInv, HelloInv, NamesInv,
       WholeInv, NameIsWhole, Loop, names,
       Fields, Ends, Return, GoOn, Enter, Slice, Least

\* The handshake header.
LEMMA HandshakeStep == ASSUME IInv, Handshake, work' = work + 1, len' = len PROVE IInv'
BY FieldAssumption, LensAssumption
   DEF Handshake, IInv, TypeOK, NoPanic, WorkBounded, HeaderInv, FramesInv, HelloInv, NamesInv,
       WholeInv, NameIsWhole, Loop, names,
       Fields, Ends, Return, GoOn, Enter, Slice, Least

\* Version, random and session id.
LEMMA HelloStep == ASSUME IInv, Hello, work' = work + 1, len' = len PROVE IInv'
BY FieldAssumption, LensAssumption
   DEF Hello, IInv, TypeOK, NoPanic, WorkBounded, HeaderInv, FramesInv, HelloInv, NamesInv,
       WholeInv, NameIsWhole, Loop, names,
       Fields, Ends, Return, GoOn, Enter, Slice, Least

\* The cipher suites.
LEMMA CiphersStep == ASSUME IInv, Ciphers, work' = work + 1, len' = len PROVE IInv'
BY FieldAssumption, LensAssumption
   DEF Ciphers, IInv, TypeOK, NoPanic, WorkBounded, HeaderInv, FramesInv, HelloInv, NamesInv,
       WholeInv, NameIsWhole, Loop, names,
       Fields, Ends, Return, GoOn, Enter, Slice, Least

\* The compression methods.
LEMMA CompressionStep == ASSUME IInv, Compression, work' = work + 1, len' = len PROVE IInv'
BY FieldAssumption, LensAssumption
   DEF Compression, IInv, TypeOK, NoPanic, WorkBounded, HeaderInv, FramesInv, HelloInv, NamesInv,
       WholeInv, NameIsWhole, Loop, names,
       Fields, Ends, Return, GoOn, Enter, Slice, Least

\* The header of the extensions.
LEMMA ExtensionsStep == ASSUME IInv, Extensions, work' = work + 1, len' = len PROVE IInv'
BY FieldAssumption, LensAssumption
   DEF Extensions, IInv, TypeOK, NoPanic, WorkBounded, HeaderInv, FramesInv, HelloInv, NamesInv,
       WholeInv, NameIsWhole, Loop, names,
       Fields, Ends, Return, GoOn, Enter, Slice, Least

\* A turn of the loop over the extensions.
LEMMA ExtensionStep == ASSUME IInv, Extension, work' = work + 1, len' = len PROVE IInv'
BY FieldAssumption, LensAssumption
   DEF Extension, IInv, TypeOK, NoPanic, WorkBounded, HeaderInv, FramesInv, HelloInv, NamesInv,
       WholeInv, NameIsWhole, Loop, names,
       Fields, Ends, Return, GoOn, Enter, Slice, Least

\* The header of the list of names.
LEMMA SniListStep == ASSUME IInv, SniList, work' = work + 1, len' = len PROVE IInv'
BY FieldAssumption, LensAssumption
   DEF SniList, IInv, TypeOK, NoPanic, WorkBounded, HeaderInv, FramesInv, HelloInv, NamesInv,
       WholeInv, NameIsWhole, Loop, names,
       Fields, Ends, Return, GoOn, Enter, Slice, Least

\* A turn of the loop over the names.
LEMMA NameStep == ASSUME IInv, Name, work' = work + 1, len' = len PROVE IInv'
<1> USE LensAssumption
    DEF IInv, TypeOK, NoPanic, WorkBounded, HeaderInv, FramesInv, HelloInv, NamesInv,
        WholeInv, NameIsWhole, Fields, Ends
<1>1. CASE Return("none")
  BY <1>1 DEF Name, Return, names
<1>2. ASSUME NEW n \in U16, pos + 3 <= stop, GoOn("names", pos + 3 + n) PROVE IInv'
  BY <1>2, FieldAssumption DEF Name, GoOn, names
<1>3. ASSUME NEW n \in U16, pos + 3 + n <= stop, Found(pos + 3, n, n) PROVE IInv'
  <2>1. n \in Nat /\ pc = "names"
    BY FieldAssumption DEF Name
  <2>2. whole.name = {} /\ pos + 3 + n <= whole.stop
    BY <1>3, <2>1
  <2>3. /\ whole' = [whole EXCEPT !.name = {[at |-> pos + 3, len |-> n]}]
        /\ found' = {[at |-> pos + 3, len |-> n]}
        /\ pc' = "name" /\ UNCHANGED <<size, pos, stop, crypto>>
    BY <1>3, <2>2 DEF Found, WholeName
  <2>4. [at |-> pos + 3, len |-> n] \in [at : Nat, len : Nat]
    BY <2>1
  <2>5. /\ whole' \in [size : Nat, stop : Nat, name : SUBSET [at : Nat, len : Nat]]
        /\ whole'.size = whole.size /\ whole'.name = found'
        /\ found' \in SUBSET [at : Nat, len : Nat]
    BY <2>3, <2>4
  <2> QED BY <2>1, <2>3, <2>5
<1>4. ASSUME NEW n \in U16, pos + 3 <= stop, pos + 3 + n > stop,
             pc' = "names" /\ pos' = pos + 3 + n, whole' = WholeName(pos + 3, n),
             UNCHANGED <<size, stop, crypto, found>>
      PROVE  IInv'
  <2>1. n \in Nat /\ pc = "names"
    BY FieldAssumption DEF Name
  <2>2. [at |-> pos + 3, len |-> n] \in [at : Nat, len : Nat]
    BY <2>1
  <2>3. /\ whole' \in [size : Nat, stop : Nat, name : SUBSET [at : Nat, len : Nat]]
        /\ whole'.size = whole.size /\ whole'.stop = whole.stop
    BY <1>4, <2>2 DEF WholeName
  <2> QED BY <1>4, <2>1, <2>3
<1> QED
  <2>1. pc = "names" /\ U16 \subseteq Nat
    BY FieldAssumption DEF Name
  <2>2. stop <= size
    BY <2>1
  <2> QED BY <1>1, <1>2, <1>3, <1>4, <2>1, <2>2 DEF Name, Slice

\* The start of the long header.
LEMMA InitialStep == ASSUME IInv, Initial, work' = work + 1, len' = len PROVE IInv'
BY FieldAssumption, LensAssumption
   DEF Initial, IInv, TypeOK, NoPanic, WorkBounded, HeaderInv, FramesInv, HelloInv, NamesInv,
       WholeInv, NameIsWhole, Loop, names,
       Fields, Ends, Return, GoOn, Enter, Slice, Least

\* The destination connection id.
LEMMA DcidStep == ASSUME IInv, Dcid, work' = work + 1, len' = len PROVE IInv'
BY FieldAssumption, LensAssumption
   DEF Dcid, IInv, TypeOK, NoPanic, WorkBounded, HeaderInv, FramesInv, HelloInv, NamesInv,
       WholeInv, NameIsWhole, Loop, names,
       Fields, Ends, Return, GoOn, Enter, Slice, Least

\* The source connection id.
LEMMA ScidStep == ASSUME IInv, Scid, work' = work + 1, len' = len PROVE IInv'
BY FieldAssumption, LensAssumption
   DEF Scid, IInv, TypeOK, NoPanic, WorkBounded, HeaderInv, FramesInv, HelloInv, NamesInv,
       WholeInv, NameIsWhole, Loop, names,
       Fields, Ends, Return, GoOn, Enter, Slice, Least

\* The token: pos may end up far behind the data, but it does not wrap around.
LEMMA TokenStep == ASSUME IInv, Token, work' = work + 1, len' = len PROVE IInv'
<1>1. \A v \in Varints : Fits(v, pos) => /\ Plus(pos + v.bytes, v.val) \in Nat
                                        /\ Plus(pos + v.bytes, v.val) >= pos
  <2> TAKE v \in Varints
  <2> HAVE Fits(v, pos)
  <2>1. v.bytes \in Nat /\ v.val \in Nat
    BY VarintAssumption
  <2>2. len \in Lens /\ pos + v.bytes \in Nat /\ pos + v.bytes <= len + 9
    BY <2>1, LensAssumption DEF Fits, IInv, TypeOK
  <2> QED BY <2>1, <2>2, PlusIsPlus DEF IInv, TypeOK
<1> QED BY <1>1, LensAssumption
        DEF Token, IInv, TypeOK, NoPanic, WorkBounded, HeaderInv, FramesInv, HelloInv, NamesInv,
       WholeInv, NameIsWhole, Loop, names,
            Fields, Ends, Return, GoOn, Enter, Slice, Least

\* The length: the packet ends within the datagram.
LEMMA LengthStep == ASSUME IInv, PayloadLength, work' = work + 1, len' = len PROVE IInv'
<1>1. \A v \in Varints : Fits(v, pos) =>
           /\ v.bytes \in Nat
           /\ Plus(pos + v.bytes, v.val) \in Nat
           /\ Plus(pos + v.bytes, v.val) >= pos + v.bytes
  <2> TAKE v \in Varints
  <2> HAVE Fits(v, pos)
  <2>1. v.bytes \in Nat /\ v.val \in Nat
    BY VarintAssumption
  <2>2. len \in Lens /\ pos + v.bytes \in Nat /\ pos + v.bytes <= len + 9
    BY <2>1, LensAssumption DEF Fits, IInv, TypeOK
  <2> QED BY <2>1, <2>2, PlusIsPlus DEF IInv, TypeOK
<1> QED BY <1>1, LensAssumption
        DEF PayloadLength, Fits, IInv, TypeOK, NoPanic, WorkBounded, HeaderInv, FramesInv, HelloInv, NamesInv,
       WholeInv, NameIsWhole, Loop, names,
            Fields, Ends, Return, GoOn, Enter, Slice, Least

\* Header protection and decryption: the sample and the packet number are inside.
LEMMA ProtectionStep == ASSUME IInv, Protection, work' = work + 1, len' = len PROVE IInv'
BY LensAssumption
   DEF Protection, IInv, TypeOK, NoPanic, WorkBounded, HeaderInv, FramesInv, HelloInv, NamesInv,
       WholeInv, NameIsWhole, Loop, names,
       Fields, Ends, Return, GoOn, Enter, Slice, Least

\* A CRYPTO frame moves pos forward by at least as much as it yields.
LEMMA CryptoFrameStep ==
    ASSUME IInv, pc = "frames", pos < size, NEW o \in Varints, NEW v \in Varints,
           CryptoFrame(o, v), work' = work + 1, len' = len
    PROVE  IInv'
<1>1. o.bytes \in Nat \ {0} /\ v.bytes \in Nat \ {0} /\ v.val \in Nat
  BY VarintAssumption
<1> DEFINE data == pos + 1 + o.bytes + v.bytes
<1>2. Fits(v, pos + 1 + o.bytes) => Plus(data, v.val) = data + v.val
  <2> HAVE Fits(v, pos + 1 + o.bytes)
  <2>1. len \in Lens /\ data \in Nat /\ data <= len + 9
    BY <1>1, LensAssumption DEF Fits, IInv, TypeOK
  <2> QED BY <2>1, PlusIsPlus
<1> QED BY <1>1, <1>2, LensAssumption
        DEF CryptoFrame, Leave, Fits, IInv, TypeOK, NoPanic, WorkBounded, HeaderInv, FramesInv, HelloInv, NamesInv,
       WholeInv, NameIsWhole, Loop, names,
            Fields, Ends, Return, GoOn, Enter, Slice, Least

\* A turn of the frame loop.
LEMMA FrameStep == ASSUME IInv, Frame, work' = work + 1, len' = len PROVE IInv'
<1>1. CASE \E o, v \in Varints : pos < size /\ CryptoFrame(o, v)
  BY <1>1, CryptoFrameStep DEF Frame
<1>2. CASE ~\E o, v \in Varints : pos < size /\ CryptoFrame(o, v)
  BY <1>2, LensAssumption
     DEF Frame, Leave, IInv, TypeOK, NoPanic, WorkBounded, HeaderInv, FramesInv, HelloInv, NamesInv,
       WholeInv, NameIsWhole, Loop, names,
         Fields, Ends, Return, GoOn, Enter, Slice, Least
<1> QED BY <1>1, <1>2

----------------------------------------------------------------------------

\* IInv is inductive.
LEMMA NextIInv == ASSUME IInv, [Next]_vars PROVE IInv'
<1>1. CASE UNCHANGED vars
  BY <1>1 DEF vars, IInv, TypeOK, NoPanic, WorkBounded, HeaderInv, FramesInv, HelloInv, NamesInv,
       WholeInv, NameIsWhole, Loop, names
<1>2. CASE Step
  BY <1>2, RecordStep, HandshakeStep, HelloStep, CiphersStep, CompressionStep,
     ExtensionsStep, ExtensionStep, SniListStep, NameStep, InitialStep, DcidStep,
     ScidStep, TokenStep, LengthStep, ProtectionStep, FrameStep
     DEF Step, Parse
<1> QED BY <1>1, <1>2 DEF Next, Ended

\* The parsers keep IInv.
LEMMA SpecIInv == Spec => []IInv
BY InitIInv, NextIInv, PTL DEF Spec

\* The variables of the parsers have their types, and no slice is longer than
\* the data it was cut from.
THEOREM ParserTypes == Spec => []TypeOK
<1>1. IInv => TypeOK
  BY DEF IInv
<1> QED BY <1>1, SpecIInv, PTL

\* For data of any size and any field values, extract_tls_sni and extract_quic_sni
\* never index out of bounds.
THEOREM ParserNeverPanics == Spec => []NoPanic
<1>1. IInv => NoPanic
  BY DEF IInv
<1> QED BY <1>1, SpecIInv, PTL

\* For data of any size and any field values, they take a linear number of steps.
THEOREM ParserWorkIsBounded == Spec => []WorkBounded
<1>1. IInv => WorkBounded
  BY DEF IInv
<1> QED BY <1>1, SpecIInv, PTL

\* For data of any size, cut anywhere, the name that is found is the name in all of
\* the message, with its full length.
THEOREM ParserNamesAreWhole == Spec => []NameIsWhole
<1>1. IInv => NameIsWhole
  BY DEF IInv
<1> QED BY <1>1, SpecIInv, PTL

=============================================================================
