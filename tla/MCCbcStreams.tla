---------------------------- MODULE MCCbcStreams ----------------------------
(* Blocks of three bytes over two bits, so that a buffer can be topped up  *)
(* without becoming full, and batches of two blocks.                       *)
EXTENDS CbcStreams

MCBytes == 0..3

(* Exclusive or of two-bit numbers. *)
MCXor(a, b) ==
    (((a % 2) + (b % 2)) % 2) + 2 * (((a \div 2) + (b \div 2)) % 2)

(* A permutation that moves and mixes the bytes. *)
MCE == [b \in [1..3 -> MCBytes] |->
          <<(b[2] + 1) % 4, (b[3] + b[2]) % 4, (b[1] + 3 * b[3] + 2) % 4>>]

MCIV == <<2, 0, 3>>
=============================================================================
