\* Codec laws over headers, entries, blocks, CBInfo and CChain values, and
\* uniform sampling by randomUint16Number over 8-bit draws;
\* block building on one credit chain: three blocks, one entry per block;
\* the warnings of every shutdown duration up to an hour and two minutes,
\* in quarter seconds.
CONSTANTS
    HashSize = 33
    Width = 8
    e1 = e1
    e2 = e2
    cid = cid
    MaxBlocks = 3
    MaxEntries = 1
SPECIFICATION Spec
INVARIANT MatchesSpecLayout
INVARIANT RoundTrip
INVARIANT SizeMatches
INVARIANT Uniform
INVARIANT ShutdownWarnings
