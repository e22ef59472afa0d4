-------------------------- MODULE MCSm2KeyExchange --------------------------
(* Two initiators and two responders over four ephemerals, on a transport  *)
(* that may do anything to what it carries.                                *)
EXTENDS Sm2KeyExchange, TLC

CONSTANTS dA, dB, idA, idB, e1, e2, e3, e4, i1, i2, b1, b2

MCStatics == {dA, dB}
MCIds == {idA, idB}
MCKLens == {16, 32}
MCEphs == {e1, e2, e3, e4}
MCDegenerate == {{e1, e4}}

Par(own, peer, ida, idb, klen) ==
    [own |-> own, peer |-> peer, ida |-> ida, idb |-> idb, klen |-> klen]

(* The two roles agree on everything, or disagree on an identity or on the *)
(* key length; a responder is offered the identity as its peer's key.     *)
MCInitiatorParams == {Par(dA, dB, idA, idB, 16), Par(dA, dB, idA, idA, 16)}
MCResponderParams == {Par(dB, dA, idA, idB, 16), Par(dB, dA, idA, idB, 32),
                      Par(dB, IdentityPoint, idA, idB, 16)}

(* The degenerate pair {e1, e4} is fixed by each of these.                 *)
Symmetry == Permutations({i1, i2}) \cup Permutations({b1, b2})
            \cup Permutations({e1, e4}) \cup Permutations({e2, e3})
=============================================================================
