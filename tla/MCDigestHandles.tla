-------------------------- MODULE MCDigestHandles --------------------------
(* Blocks of four bytes with a length field of two. *)
EXTENDS DigestHandles

MCKeys == {[k \in 1..n |-> <<"key", k>>] : n \in {0, 3, 4, 5}}
=============================================================================
