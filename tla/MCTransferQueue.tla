-------------------------- MODULE MCTransferQueue --------------------------
(***************************************************************************)
(* Small instances of the transfer queue: two keys, one bucket.            *)
(***************************************************************************)
EXTENDS TransferQueue, TLC

CONSTANTS k1, k2

MCChunk == {k1, k2}
MCKey   == {<<k1>>, <<k2>>}
MCOneKey == {<<k1>>}

TransferSymmetry == Permutations(TransferId)

=============================================================================
