---------------------------- MODULE MCSm2KxHonest ----------------------------
(* One honest pair, and one more initiator and responder that receive      *)
(* anything, the pair's tags included.                                     *)
EXTENDS Sm2KxHonest

CONSTANTS dA, dB, idA, idB, e1, e2, e3, e4, i1, i2, b1, b2

Par(own, peer, ida, idb, klen) ==
    [own |-> own, peer |-> peer, ida |-> ida, idb |-> idb, klen |-> klen]

MCStatics == {dA, dB}
MCIds == {idA, idB}
MCEphs == {e1, e2, e3, e4}
MCHonest == {<<i1, b1>>}
MCHonestA == Par(dA, dB, idA, idB, 16)
MCHonestB == Par(dB, dA, idA, idB, 16)
MCInitiatorParams == {MCHonestA, Par(dB, dA, idB, idA, 16)}
MCResponderParams == {MCHonestB, Par(dA, dB, idB, idA, 16)}
=============================================================================
