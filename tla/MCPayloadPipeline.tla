------------------------- MODULE MCPayloadPipeline -------------------------
(***************************************************************************)
(* Two releases, of which the second moved zstd to another version and     *)
(* knows the fingerprint of the first, and a deployment of the first whose *)
(* limits let it write nothing and read no transformed payload.            *)
(***************************************************************************)
EXTENDS PayloadPipeline

CONSTANTS k1, k2, w1, w2, small, other, large

MCKey == {k1, k2}
MCWriter == {w1, w2}
MCPayload == {small, other, large}

\* Two of the same size, which only the digest tells apart.
MCSizeOf == (small :> 2) @@ (other :> 2) @@ (large :> 3)

\* Only the large payload compresses; the other codec handles all.
Zstd(encode, decode) ==
    [id |-> "zstd", encode |-> encode, decode |-> decode, handles |-> {large}]

Pack == [id |-> "pack", encode |-> 1, decode |-> {1}, handles |-> MCPayload]

Pipeline(codecs, historical, limit) ==
    [codecs |-> codecs, historical |-> historical, decoded_payload_bytes |-> limit,
     batch_bytes |-> 5]

First == Pipeline(<<Zstd(1, {1}), Pack>>, {}, 3)
Second == Pipeline(<<Zstd(2, {1, 2}), Pack>>, {Fingerprint(First)}, 3)
Tight == [First EXCEPT !.decoded_payload_bytes = 1]

MCPipelines == {First, Second, Tight}

MCBatches == {<<small>>, <<large, other>>}

MCBytes == {Prepared(p, payload) : p \in MCPipelines, payload \in MCPayload}

\* The loop over the transforms comes to what Decode says of it, for the objects
\* of the pipelines, whole or with transforms taken off, and for every record of
\* at most three transforms.
MCUses == {[id |-> "zstd", version |-> 1], [id |-> "zstd", version |-> 2],
           [id |-> "pack", version |-> 1], [id |-> "pack", version |-> 2]}

ASSUME LoopAgreement ==
    \A p \in MCPipelines, payload \in MCPayload :
        \A n, m \in 0..3 : \A uses \in [1..n -> MCUses], layers \in [1..m -> MCUses] :
            LoopAgrees(p, uses, Encoded(payload, layers))

Symmetry == Permutations(MCKey) \cup Permutations(MCWriter)
=============================================================================
