----------------------------- MODULE CreditCodec -----------------------------
(***************************************************************************)
(* The binary codec of the entry-credit chain (src/common/cchain.go, lines *)
(* 1-705): MarshalBinary, MarshalledSize and UnmarshalBinary of            *)
(* CBlockHeader, the three CBEntry kinds, CBlock, CBInfo and CChain.       *)
(*                                                                         *)
(* A byte string is a sequence of numbers in 0..255.  A Hash is the byte   *)
(* string its own MarshalBinary writes (HashSize bytes; the Hash type is   *)
(* outside src/, its size comes from the spec's layout).  Integers are     *)
(* written as binary.Write writes them: big-endian, two's complement for   *)
(* the signed ones; they are read back as binary.Read (signed) or          *)
(* binary.BigEndian.UintN (unsigned) read them.  UnmarshalBinary ignores   *)
(* every error and never checks the length; a decoder here returns Panic   *)
(* where the Go code dereferences a nil entry.                             *)
(***************************************************************************)
EXTENDS Naturals, Integers, Sequences, SequencesExt

CONSTANT HashSize      \* bytes written by Hash.MarshalBinary

\* entry type bytes (the iota constants)
TYPE_SERVER_INDEX  == 0
TYPE_MINUTE_NUMBER == 1
TYPE_PAY_CHAIN     == 2
TYPE_PAY_ENTRY     == 3
TYPE_BUY           == 4

\* what a decoder yields where the Go code panics
Panic == [panic |-> TRUE]

(***************************************************************************)
(* Integers on the wire.                                                   *)
(***************************************************************************)
RECURSIVE BigEndian(_, _)
\* the w low-order bytes of n >= 0, most significant first
BigEndian(n, w) ==
    IF w = 0 THEN <<>> ELSE BigEndian(n \div 256, w - 1) \o <<n % 256>>

\* mutant: the integer written little-endian
PutIntLittleEndian(v, w) ==
    LET c == IF v >= 0 THEN BigEndian(v, w)
             ELSE LET m == BigEndian(-(v + 1), w)
                  IN  [i \in 1..w |-> 255 - m[i]]
    IN  [i \in 1..w |-> c[w + 1 - i]]

\* binary.Write(&buf, binary.BigEndian, v) for a w-byte integer v
PutInt(v, w) ==
    IF v >= 0 THEN BigEndian(v, w)
    ELSE LET c == BigEndian(-(v + 1), w) IN [i \in 1..w |-> 255 - c[i]]

\* binary.BigEndian.UintN(d[1..w])
GetUint(d) == FoldLeft(LAMBDA acc, b : acc * 256 + b, 0, d)

\* binary.Read(buf, binary.BigEndian, &v) for a signed v
GetInt(d) ==
    IF d[1] >= 128 THEN -GetUint([i \in DOMAIN d |-> 255 - d[i]]) - 1
    ELSE GetUint(d)

\* d[off:off+n] and d[off:], with Go's 0-based offsets
Slice(d, off, n) == SubSeq(d, off + 1, off + n)
Rest(d, off)     == SubSeq(d, off + 1, Len(d))

\* Hash.MarshalBinary, MarshalledSize, UnmarshalBinary (outside src/)
HashMarshalBinary(h)   == h
HashMarshalledSize     == HashSize
HashUnmarshalBinary(d) == Slice(d, 0, HashSize)

(***************************************************************************)
(* CBlockHeader                                                            *)
(***************************************************************************)
HeaderMarshalBinary(h) ==
    HashMarshalBinary(h.ChainID) \o HashMarshalBinary(h.BodyHash)
    \o HashMarshalBinary(h.PrevKeyMR) \o HashMarshalBinary(h.PrevHash)
    \o PutInt(h.DBHeight, 4)
    \o HashMarshalBinary(h.SegmentsMR) \o HashMarshalBinary(h.BalanceMR)
    \o PutInt(h.BodySize, 8)

HeaderMarshalledSize == 6 * HashMarshalledSize + 4 + 8

\* Each field is read at the offset the previous ones leave.
HeaderUnmarshalBinary(d) ==
    LET H == HashMarshalledSize
    IN  [ChainID    |-> HashUnmarshalBinary(d),
         BodyHash   |-> HashUnmarshalBinary(Rest(d, H)),
         PrevKeyMR  |-> HashUnmarshalBinary(Rest(d, 2 * H)),
         PrevHash   |-> HashUnmarshalBinary(Rest(d, 3 * H)),
         DBHeight   |-> GetUint(Slice(d, 4 * H, 4)),
         SegmentsMR |-> HashUnmarshalBinary(Rest(d, 4 * H + 4)),
         BalanceMR  |-> HashUnmarshalBinary(Rest(d, 5 * H + 4)),
         BodySize   |-> GetUint(Slice(d, 6 * H + 4, 8))]

(***************************************************************************)
(* The three CBEntry kinds.  All start type(1) || publicKey || credits(4). *)
(***************************************************************************)
BuyMarshalBinary(e) ==
    <<e.entryType>> \o HashMarshalBinary(e.publicKey) \o PutInt(e.credits, 4)
    \o HashMarshalBinary(e.FactomTxHash)

BuyMarshalledSize(e) == 1 + HashMarshalledSize + 4 + HashMarshalledSize

BuyUnmarshalBinary(d) ==
    LET H == HashMarshalledSize
    IN  [entryType    |-> d[1],
         publicKey    |-> HashUnmarshalBinary(Rest(d, 1)),
         credits      |-> GetInt(Slice(d, 1 + H, 4)),
         FactomTxHash |-> HashUnmarshalBinary(Rest(d, 1 + H + 4))]

PayEntryMarshalBinary(e) ==
    <<e.entryType>> \o HashMarshalBinary(e.publicKey) \o PutInt(e.credits, 4)
    \o HashMarshalBinary(e.EntryHash) \o PutInt(e.TimeStamp, 8)
    \o PutInt(Len(e.Sig), 4) \o e.Sig

PayEntryMarshalledSize(e) ==
    1 + HashMarshalledSize + 4 + HashMarshalledSize + 8 + 4 + Len(e.Sig)

\* mutant: the signature read from where its length field starts
PayEntryUnmarshalBinarySigAtLen(d) ==
    LET H == HashMarshalledSize
        n == GetUint(Slice(d, 1 + H + 4 + H + 8, 4))
    IN  [entryType |-> d[1],
         publicKey |-> HashUnmarshalBinary(Rest(d, 1)),
         credits   |-> GetInt(Slice(d, 1 + H, 4)),
         EntryHash |-> HashUnmarshalBinary(Rest(d, 1 + H + 4)),
         TimeStamp |-> GetInt(Slice(d, 1 + H + 4 + H, 8)),
         Sig       |-> Slice(d, 1 + H + 4 + H + 8, n)]

PayEntryUnmarshalBinary(d) ==
    LET H == HashMarshalledSize
        n == GetUint(Slice(d, 1 + H + 4 + H + 8, 4))
    IN  [entryType |-> d[1],
         publicKey |-> HashUnmarshalBinary(Rest(d, 1)),
         credits   |-> GetInt(Slice(d, 1 + H, 4)),
         EntryHash |-> HashUnmarshalBinary(Rest(d, 1 + H + 4)),
         TimeStamp |-> GetInt(Slice(d, 1 + H + 4 + H, 8)),
         Sig       |-> Slice(d, 1 + H + 4 + H + 8 + 4, n)]

PayChainMarshalBinary(e) ==
    <<e.entryType>> \o HashMarshalBinary(e.publicKey) \o PutInt(e.credits, 4)
    \o HashMarshalBinary(e.EntryHash) \o HashMarshalBinary(e.ChainIDHash)
    \o HashMarshalBinary(e.EntryChainIDHash)
    \o PutInt(Len(e.Sig), 4) \o e.Sig

\* mutant: the 4-byte signature length left out of the size
PayChainMarshalledSizeNoSigLen(e) ==
    1 + HashMarshalledSize + 4 + 3 * HashMarshalledSize + Len(e.Sig)

PayChainMarshalledSize(e) ==
    1 + HashMarshalledSize + 4 + 3 * HashMarshalledSize + 4 + Len(e.Sig)

PayChainUnmarshalBinary(d) ==
    LET H == HashMarshalledSize
        n == GetUint(Slice(d, 1 + H + 4 + 3 * H, 4))
    IN  [entryType        |-> d[1],
         publicKey        |-> HashUnmarshalBinary(Rest(d, 1)),
         credits          |-> GetInt(Slice(d, 1 + H, 4)),
         EntryHash        |-> HashUnmarshalBinary(Rest(d, 1 + H + 4)),
         ChainIDHash      |-> HashUnmarshalBinary(Rest(d, 1 + 2 * H + 4)),
         EntryChainIDHash |-> HashUnmarshalBinary(Rest(d, 1 + 3 * H + 4)),
         Sig              |-> Slice(d, 1 + H + 4 + 3 * H + 4, n)]

\* the CBEntry interface: dispatch on the dynamic type
EntryMarshalBinary(e) ==
    CASE e.entryType = TYPE_BUY       -> BuyMarshalBinary(e)
      [] e.entryType = TYPE_PAY_ENTRY -> PayEntryMarshalBinary(e)
      [] e.entryType = TYPE_PAY_CHAIN -> PayChainMarshalBinary(e)

EntryMarshalledSize(e) ==
    CASE e.entryType = TYPE_BUY       -> BuyMarshalledSize(e)
      [] e.entryType = TYPE_PAY_ENTRY -> PayEntryMarshalledSize(e)
      [] e.entryType = TYPE_PAY_CHAIN -> PayChainMarshalledSize(e)

(***************************************************************************)
(* CBlock: header || count(u64) || entries.  The decoder picks the entry   *)
(* kind from the type byte; any other byte leaves a nil entry, and the     *)
(* call to its UnmarshalBinary panics.                                     *)
(***************************************************************************)
CBlockMarshalBinary(b) ==
    HeaderMarshalBinary(b.Header) \o PutInt(Len(b.CBEntries), 8)
    \o FoldLeft(LAMBDA acc, e : acc \o EntryMarshalBinary(e), <<>>, b.CBEntries)

CBlockMarshalledSize(b) ==
    HeaderMarshalledSize + 8
    + FoldLeft(LAMBDA acc, e : acc + EntryMarshalledSize(e), 0, b.CBEntries)

EntryUnmarshalBinary(d) ==
    CASE d[1] = TYPE_BUY       -> BuyUnmarshalBinary(d)
      [] d[1] = TYPE_PAY_CHAIN -> PayChainUnmarshalBinary(d)
      [] d[1] = TYPE_PAY_ENTRY -> PayEntryUnmarshalBinary(d)
      [] OTHER                 -> Panic

RECURSIVE UnmarshalEntries(_, _)
\* the entries read from d, up to and including a Panic
UnmarshalEntries(d, count) ==
    IF count = 0 THEN <<>>
    ELSE LET e == EntryUnmarshalBinary(d)
         IN  IF e = Panic THEN <<Panic>>
             ELSE <<e>> \o UnmarshalEntries(Rest(d, EntryMarshalledSize(e)),
                                            count - 1)

CBlockUnmarshalBinary(d) ==
    LET h       == HeaderUnmarshalBinary(d)
        body    == Rest(d, HeaderMarshalledSize)
        entries == UnmarshalEntries(Rest(body, 8), GetUint(Slice(body, 0, 8)))
    IN  IF \E i \in DOMAIN entries : entries[i] = Panic THEN Panic
        ELSE [Header |-> h, CBEntries |-> entries]

(***************************************************************************)
(* CBInfo: CBHash || FBHash || FBBlockNum(u64) || ChainID, read back with *)
(* the literal sizes 33 and 8.                                             *)
(***************************************************************************)
CBInfoMarshalBinary(b) ==
    HashMarshalBinary(b.CBHash) \o HashMarshalBinary(b.FBHash)
    \o PutInt(b.FBBlockNum, 8) \o HashMarshalBinary(b.ChainID)

CBInfoMarshalledSize == 33 + 33 + 8 + 33

CBInfoUnmarshalBinary(d) ==
    [CBHash     |-> HashUnmarshalBinary(Slice(d, 0, 33)),
     FBHash     |-> HashUnmarshalBinary(Slice(d, 33, 33)),
     FBBlockNum |-> GetUint(Slice(d, 66, 8)),
     ChainID    |-> HashUnmarshalBinary(Slice(d, 74, 33))]

(***************************************************************************)
(* CChain: ChainID || count(u64) || for each name: len(u64) || bytes.      *)
(***************************************************************************)
CChainMarshalBinary(c) ==
    HashMarshalBinary(c.ChainID) \o PutInt(Len(c.Name), 8)
    \o FoldLeft(LAMBDA acc, nm : acc \o PutInt(Len(nm), 8) \o nm, <<>>, c.Name)

CChainMarshalledSize(c) ==
    33 + 8 + FoldLeft(LAMBDA acc, nm : acc + 8 + Len(nm), 0, c.Name)

RECURSIVE UnmarshalNames(_, _)
UnmarshalNames(d, count) ==
    IF count = 0 THEN <<>>
    ELSE LET n == GetUint(Slice(d, 0, 8))
         IN  <<Slice(d, 8, n)>> \o UnmarshalNames(Rest(d, 8 + n), count - 1)

CChainUnmarshalBinary(d) ==
    [ChainID |-> HashUnmarshalBinary(Slice(d, 0, 33)),
     Name    |-> UnmarshalNames(Rest(d, 33 + 8), GetUint(Slice(d, 33, 8)))]

====
