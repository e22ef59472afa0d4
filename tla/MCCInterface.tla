--------------------------- MODULE MCCInterface ---------------------------
(***************************************************************************)
(* The C interface: the key-exchange handles and the table of all other    *)
(* functions.  They share no state, so one stays at its beginning while    *)
(* the other runs.  Two initiator and two responder handles over three     *)
(* ephemerals, one of whose pairs is degenerate.                           *)
(***************************************************************************)
EXTENDS KxHandles, CAbi, TLC

CONSTANTS dA, dB, idA, idB, e1, e2, e3, i1, i2, b1, b2

Par(own, peer, ida, idb, klen) ==
    [own |-> own, peer |-> peer, ida |-> ida, idb |-> idb, klen |-> klen]

MCStatics == {dA, dB}
MCIds == {idA, idB}
MCEphs == {e1, e2, e3}
MCDegenerate == {{e1, e2}}
MCInitiatorParams == {Par(dA, dB, idA, idB, 16), Par(dA, dB, idA, idB, 0)}
MCResponderParams == {Par(dB, dA, idA, idB, 16), Par(dB, IdentityPoint, idA, idB, 16)}

Symmetry == Permutations({i1, i2}) \cup Permutations({b1, b2}) \cup Permutations({e1, e2})

InterfaceInit == HInit /\ CInit

KxIdle == \A i \in Initiators, b \in Responders : ibox[i] = "none" /\ rbox[b] = "none"
CIdle == ~Called /\ \A k \in Kinds : live[k] = 0 /\ held[k] = 0

InterfaceNext == \/ CIdle /\ HNext /\ UNCHANGED cvars
                 \/ KxIdle /\ CNext /\ UNCHANGED hvars

InterfaceSpec == InterfaceInit /\ [][InterfaceNext]_<<hvars, cvars>>
=============================================================================
