---------------------------- MODULE CreditChain ----------------------------
(***************************************************************************)
(* The entry-credit chain's block building (src/common/cchain.go, lines    *)
(* 39-112): CreateCBlock, AddCBEntry, BuildCBHash, BuildMerkleRoot and     *)
(* BuildCBBodyHash over one CChain.                                        *)
(*                                                                         *)
(* A block is its marshalled part (Header, CBEntries) and the two cached,  *)
(* unmarshalled hashes CBHash and MerkleRoot.  Sha is applied to what      *)
(* MarshalBinary writes; since MCPure shows that marshalling is a   *)
(* round trip (hence injective), Sha of a block is modelled as an          *)
(* injective function of the pair <<Header, CBEntries>>.  Merkle trees     *)
(* (BuildMerkleTreeStore, outside src/) are an injective function of the   *)
(* two leaves.  Nothing in src/ calls these functions or advances          *)
(* NextBlockID; the producer that does is the spec's, and its steps are    *)
(* AdvanceHeight and the choice of inputs.                                 *)
(***************************************************************************)
EXTENDS Naturals, Sequences

CONSTANTS Entries,      \* credit-block entries a producer may add
          ChainID,      \* the chain's ID hash
          MaxBlocks,    \* bound on the blocks built
          MaxEntries    \* bound on the entries added to one block

VARIABLES blocks,       \* the blocks created, in order
          nextBlockID,  \* chain.NextBlockID
          result        \* "ok" or "err": what the last CreateCBlock returned

vars == <<blocks, nextBlockID, result>>

\* NewHash(): the zero hash; Nil: an unset *Hash field
NewHash == [zero |-> TRUE]
Nil     == [nil |-> TRUE]
\* prev == nil, as an index into blocks and as a block
NoPrev   == 0
NilBlock == [nilBlock |-> TRUE]

Sha(content)         == [sha |-> content]
MerkleRootOf(leaves) == [merkle |-> leaves]

\* what CBlock.MarshalBinary writes, up to the injective encoding
Marshalled(b) == <<b.Header, b.CBEntries>>

\* BuildCBBodyHash: Sha over the marshalled entries (returned, not stored)
BuildCBBodyHash(b) == Sha(b.CBEntries)

\* block.BuildMerkleRoot(): root over Sha(header) and the header's BodyHash
MerkleOf(b) == MerkleRootOf(<<Sha(b.Header), b.Header.BodyHash>>)

\* block.BuildCBHash(): Sha over the whole marshalled block
CBHashOf(b) == Sha(Marshalled(b))

Tip == Len(blocks)

Init == /\ blocks = <<>>
        /\ nextBlockID = 0
        /\ result = "ok"

\* The two argument checks of CreateCBlock.
CreateRejects(prev) ==
    \/ prev = NoPrev /\ nextBlockID # 0
    \/ prev # NoPrev /\ nextBlockID = 0

\* prev with MerkleRoot and CBHash built when they are still nil
Prepared(p) ==
    LET withRoot == IF p.MerkleRoot = Nil
                    THEN [p EXCEPT !.MerkleRoot = MerkleOf(p)] ELSE p
    IN  IF withRoot.CBHash = Nil
        THEN [withRoot EXCEPT !.CBHash = CBHashOf(withRoot)] ELSE withRoot

\* The new block's header: zero links for the origin block, the parent's
\* cached MerkleRoot and CBHash otherwise (BodyHash is then left nil).
NewHeader(p) ==
    [ChainID    |-> ChainID,
     BodyHash   |-> IF p = NilBlock THEN NewHash ELSE Nil,
     PrevKeyMR  |-> IF p = NilBlock THEN NewHash ELSE p.MerkleRoot,
     PrevHash   |-> IF p = NilBlock THEN NewHash ELSE p.CBHash,
     DBHeight   |-> nextBlockID,
     SegmentsMR |-> NewHash,
     BalanceMR  |-> NewHash]

\* CreateCBlock(chain, prev, cap) with prev nil or the chain's tip.
CreateCBlock(prev) ==
    \/ /\ CreateRejects(prev)
       /\ result' = "err"
       /\ UNCHANGED <<blocks, nextBlockID>>
    \/ /\ ~CreateRejects(prev)
       /\ Tip < MaxBlocks
       /\ LET parent == IF prev = NoPrev THEN NilBlock ELSE Prepared(blocks[prev])
              ps     == IF prev = NoPrev THEN blocks
                        ELSE [blocks EXCEPT ![prev] = parent]
          IN  blocks' = Append(ps, [Header     |-> NewHeader(parent),
                                    CBEntries  |-> <<>>,
                                    CBHash     |-> Nil,
                                    MerkleRoot |-> Nil])
       /\ result' = "ok"
       /\ UNCHANGED nextBlockID

\* b.AddCBEntry(e): appends, whatever hashes were cached before
AddCBEntry(i, e) ==
    /\ Len(blocks[i].CBEntries) < MaxEntries
    /\ blocks' = [blocks EXCEPT ![i].CBEntries = Append(@, e)]
    /\ UNCHANGED <<nextBlockID, result>>

BuildCBHash(i) ==
    /\ blocks' = [blocks EXCEPT ![i].CBHash = CBHashOf(blocks[i])]
    /\ UNCHANGED <<nextBlockID, result>>

BuildMerkleRoot(i) ==
    /\ blocks' = [blocks EXCEPT ![i].MerkleRoot = MerkleOf(blocks[i])]
    /\ UNCHANGED <<nextBlockID, result>>

\* The producer advances NextBlockID once the new tip is in place.
AdvanceHeight ==
    /\ nextBlockID < Tip
    /\ nextBlockID' = nextBlockID + 1
    /\ UNCHANGED <<blocks, result>>

\* The producer appends entries to the tip only, and creates the next block,
\* with prev nil or the tip, once NextBlockID has moved past the tip.
Next ==
    \/ nextBlockID = Tip /\ \E p \in {NoPrev, Tip} : CreateCBlock(p)
    \/ Tip > 0 /\ \E e \in Entries : AddCBEntry(Tip, e)
    \/ \E i \in 1..Tip : BuildCBHash(i) \/ BuildMerkleRoot(i)
    \/ AdvanceHeight

Spec == Init /\ [][Next]_vars

=============================================================================
