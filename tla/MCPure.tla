-------------------------------- MODULE MCPure --------------------------------
(* The pure operators checked over bounded inputs: each state holds one   *)
(* input.  A codec input is one value of one marshalled type, checked     *)
(* against the spec's layout (spec section 6) and the round trip and size *)
(* laws (section 8); a "random" input is an argument max of               *)
(* randomUint16Number, checked against uniform sampling (section 5).      *)
(* A "shutdown" input is a duration given to ScheduleShutdown, whose      *)
(* warnings are checked against the spec's schedule (section 4).          *)
(* The "blocks" input runs the credit chain's block building instead: its *)
(* steps are taken only under that input, and the input is only replaced  *)
(* while the chain is untouched, so the two parts add up, not multiply.   *)
EXTENDS CreditCodec, RandomNumber, ShutdownSchedule, FiniteSets

CONSTANTS e1, e2, cid,  \* credit entries and the chain ID for the chain
          MaxBlocks, MaxEntries

VARIABLE x   \* [kind, v]: the input under test
VARIABLES blocks, nextBlockID, result

chainVars == <<blocks, nextBlockID, result>>

Chain == INSTANCE CreditChain WITH Entries <- {e1, e2}, ChainID <- cid

Codec == {"header", "entry", "block", "info", "chain"}

h0 == [i \in 1..HashSize |-> 0]
h1 == [i \in 1..HashSize |-> (i * 37) % 256]
Hashes  == {h0, h1}
\* int32 edges; TLC's integers are 32-bit, so int64/uint64 fields use
\* values that fit and the uint32 DBHeight stops at 2^31 - 1
Credits == {-2147483647 - 1, -1, 0, 1, 2147483647}
Times   == {-1, 0, 1449000000}
Sigs    == {<<>>, <<7>>, <<0, 255>>}

Buys == [entryType : {TYPE_BUY}, publicKey : Hashes, credits : Credits,
         FactomTxHash : Hashes]
PayEntries == [entryType : {TYPE_PAY_ENTRY}, publicKey : {h1},
               credits : Credits, EntryHash : Hashes, TimeStamp : Times,
               Sig : Sigs]
PayChains == [entryType : {TYPE_PAY_CHAIN}, publicKey : {h1},
              credits : Credits, EntryHash : Hashes, ChainIDHash : {h0},
              EntryChainIDHash : Hashes, Sig : Sigs]
Entries == Buys \cup PayEntries \cup PayChains

Headers == [ChainID : {h1}, BodyHash : Hashes, PrevKeyMR : {h0},
            PrevHash : {h1}, DBHeight : {0, 1, 2147483647}, SegmentsMR : {h0},
            BalanceMR : {h1}, BodySize : {0, 2147483647}]
\* one entry of each kind, in lists of up to two
SomeEntries == {CHOOSE e \in Buys : e.credits = -1,
                CHOOSE e \in PayEntries : e.Sig = <<0, 255>> /\ e.TimeStamp = -1,
                CHOOSE e \in PayChains : e.Sig = <<7>>}
Blocks == [Header : Headers, CBEntries : BoundedSeq(SomeEntries, 2)]

Infos  == [CBHash : Hashes, FBHash : Hashes, FBBlockNum : {0, 2147483647},
           ChainID : Hashes]
Chains == [ChainID : Hashes, Name : BoundedSeq({<<>>, <<1>>, <<1, 2>>}, 2)]

BuildBlocks == [kind |-> "blocks", v |-> cid]

\* Shutdown durations: every quarter second up to two minutes, the quarter
\* seconds around the 5-minute, 15-minute and hour boundaries, and every
\* 15 seconds up to an hour and two minutes.
Durations == 1..(2 * Minute)
             \cup {b + k : b \in {5 * Minute, 15 * Minute, Hour},
                           k \in -(2 * Second)..(2 * Second)}
             \cup {15 * Second * k : k \in 1..248}

Inputs == {[kind |-> "header", v |-> h] : h \in Headers}
          \cup {[kind |-> "entry", v |-> e] : e \in Entries}
          \cup {[kind |-> "block", v |-> b] : b \in Blocks}
          \cup {[kind |-> "info", v |-> i] : i \in Infos}
          \cup {[kind |-> "chain", v |-> c] : c \in Chains}
          \cup {[kind |-> "random", v |-> m] : m \in 1..MaxUint}
          \cup {[kind |-> "shutdown", v |-> d] : d \in Durations}
          \cup {BuildBlocks}

Init == x \in Inputs /\ Chain!Init
Pick == /\ Chain!Init
        /\ x' \in Inputs
        /\ UNCHANGED chainVars
ChainStep == x = BuildBlocks /\ Chain!Next /\ UNCHANGED x
Spec == Init /\ [][Pick \/ ChainStep]_<<x, chainVars>>

Marshal(in) ==
    CASE in.kind = "header" -> HeaderMarshalBinary(in.v)
      [] in.kind = "entry"  -> EntryMarshalBinary(in.v)
      [] in.kind = "block"  -> CBlockMarshalBinary(in.v)
      [] in.kind = "info"   -> CBInfoMarshalBinary(in.v)
      [] in.kind = "chain"  -> CChainMarshalBinary(in.v)

Unmarshal(in, d) ==
    CASE in.kind = "header" -> HeaderUnmarshalBinary(d)
      [] in.kind = "entry"  -> EntryUnmarshalBinary(d)
      [] in.kind = "block"  -> CBlockUnmarshalBinary(d)
      [] in.kind = "info"   -> CBInfoUnmarshalBinary(d)
      [] in.kind = "chain"  -> CChainUnmarshalBinary(d)

Size(in) ==
    CASE in.kind = "header" -> HeaderMarshalledSize
      [] in.kind = "entry"  -> EntryMarshalledSize(in.v)
      [] in.kind = "block"  -> CBlockMarshalledSize(in.v)
      [] in.kind = "info"   -> CBInfoMarshalledSize
      [] in.kind = "chain"  -> CChainMarshalledSize(in.v)

(* The spec's on-disk layout (section 6), written from its text: fields   *)
(* in order, big-endian, hashes 33 bytes, signed fields two's complement. *)
Be(n, w) == [i \in 1..w |-> (n \div (256 ^ (w - i))) % 256]
Field(n, w) == IF n >= 0 THEN Be(n, w)
               ELSE [i \in 1..w |-> 255 - Be(-(n + 1), w)[i]]
SpecLayout(in) ==
    LET v == in.v
        prefix == <<v.entryType>> \o v.publicKey \o Field(v.credits, 4)
    IN  CASE in.kind = "header" ->
               v.ChainID \o v.BodyHash \o v.PrevKeyMR \o v.PrevHash
               \o Field(v.DBHeight, 4) \o v.SegmentsMR \o v.BalanceMR
               \o <<0, 0, 0, 0>> \o Field(v.BodySize, 4)
          [] in.kind = "entry" /\ v.entryType = TYPE_BUY ->
               prefix \o v.FactomTxHash
          [] in.kind = "entry" /\ v.entryType = TYPE_PAY_ENTRY ->
               prefix \o v.EntryHash
               \o (IF v.TimeStamp < 0 THEN <<255, 255, 255, 255>> ELSE <<0, 0, 0, 0>>)
               \o Field(v.TimeStamp, 4) \o Field(Len(v.Sig), 4) \o v.Sig
          [] in.kind = "entry" /\ v.entryType = TYPE_PAY_CHAIN ->
               prefix \o v.EntryHash \o v.ChainIDHash \o v.EntryChainIDHash
               \o Field(Len(v.Sig), 4) \o v.Sig
          [] OTHER -> Marshal(in)

-----------------------------------------------------------------------------
\* The block header and every credit-block entry are written exactly as the
\* spec's on-disk layout says (field order, widths, byte order, sign).
MatchesSpecLayout ==
    x.kind \in {"header", "entry"} => Marshal(x) = SpecLayout(x)

\* UnmarshalBinary(MarshalBinary(v)) = v for headers, entries, blocks,
\* CBInfo and CChain: the decoders read every field back at the offset the
\* encoder wrote it, with its sign, and the block decoder picks the right
\* entry kind from the type byte and steps over each entry by its size.
RoundTrip == x.kind \in Codec => Unmarshal(x, Marshal(x)) = x.v

\* MarshalledSize agrees with the bytes MarshalBinary writes; the block
\* decoder advances through the body by the header's and the entries'
\* MarshalledSize, so a disagreement misreads every later entry.
SizeMatches == x.kind \in Codec => Len(Marshal(x)) = Size(x)

\* randomUint16Number(max) is uniform over [0, max) (spec: "modulo-bias-
\* free"): some draw is accepted, so the loop can end, every result is
\* below max, and each of 0..max-1 comes from the same number of accepted
\* draws.  The reference counts draws per remainder.
Uniform ==
    x.kind = "random" =>
        LET max == x.v
            n(k) == Cardinality({r \in Accepted(max) : Returned(r, max) = k})
        IN  /\ Accepted(max) # {}
            /\ Results(max) \subseteq 0..(max - 1)
            /\ \A k \in 0..(max - 1) : n(k) = n(0)

\* The spec's shutdown schedule: a tick of the largest of these below the
\* remaining time, one second at the end.
Steps == {Second, 5 * Second, 15 * Second, Minute, 5 * Minute, 15 * Minute,
          Hour}
SpecTick(r) == LET below == {s \in Steps : s < r}
               IN  IF below = {} THEN Second
                   ELSE CHOOSE s \in below : \A t \in below : t <= s

\* ScheduleShutdown(d) warns of the shutdown on a "dynamically shortening
\* tick" (spec section 4): every warning states the time really left,
\* although the loop keeps its own count by subtracting ticks and re-makes
\* its ticker on every change; and warnings are spaced by the spec's tick
\* for the time left at the previous one (or at the start).
ShutdownWarnings ==
    x.kind = "shutdown" =>
        LET d  == x.v
            w  == Warnings(d)
            before(i) == IF i = 1 THEN [at |-> 0, remaining |-> d] ELSE w[i - 1]
        IN  \A i \in DOMAIN w :
                  /\ w[i].remaining = d - w[i].at
                  /\ w[i].at - before(i).at = SpecTick(before(i).remaining)
====
