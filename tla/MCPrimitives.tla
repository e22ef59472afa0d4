---------------------------- MODULE MCPrimitives ----------------------------
(***************************************************************************)
(* Digest handles, SM2 calls, key derivations, codecs and SM4-XTS share no *)
(* state: the others stay idle while one runs.  Digest blocks of four bytes with  *)
(* a length field of two, so that a message of one byte still closes in    *)
(* one block and one of two bytes needs two; digest keys that are empty,   *)
(* short, one block and longer.  The curve over 43 elements has the prime  *)
(* order 37, so that, as in the program, the order is below the field and  *)
(* its double is above the 2^6 scalars.  SM4, its back ends and GHASH are  *)
(* modelled at full width; of the two disks, one counts its sectors across *)
(* a byte of the sector number and one has two sectors before the number   *)
(* ends.                                                                   *)
(***************************************************************************)
EXTENDS DigestHandles, Sm2Ops, KeyDerivation, CodecWire, Sm4Xts

MCKeys == {[k \in 1..n |-> <<"key", k>>] : n \in {0, 3, 4, 5}}
MCDigests == 0..(OrderN - 1)
MCPlaintexts == {<<>>, <<0>>, <<1>>, <<0, 1>>, <<1, 1>>, <<0, 0, 0, 0, 1>>, <<1, 0, 1, 1, 0>>}

Host(arch, avx2, gfni, clmul, aes) ==
    [arch |-> arch, avx2 |-> avx2, gfni |-> gfni, pclmulqdq |-> clmul, aes |-> aes]
Arm == Host("aarch64", FALSE, FALSE, FALSE, TRUE)
OldX86 == Host("x86_64", FALSE, FALSE, FALSE, FALSE)
Avx2X86 == Host("x86_64", TRUE, FALSE, TRUE, FALSE)
GfniX86 == Host("x86_64", TRUE, TRUE, TRUE, FALSE)
MCBases == {[le |-> <<255>> \o [k \in 1..15 |-> 0], room |-> 1000],
            [le |-> <<254>> \o [k \in 1..15 |-> 255], room |-> 2]}
MCUnitHosts == {Portable, Arm, GfniX86}
MCDiskHosts == {Portable, Arm}
MCLaneHosts == {Arm, OldX86, Avx2X86, GfniX86}
MCProductHosts == {Portable, Arm, GfniX86}
MCBlocks128 == {[k \in 1..16 |-> 0], [k \in 1..16 |-> IF k = 16 THEN 1 ELSE 0],
                [k \in 1..16 |-> 255], [k \in 1..16 |-> (97 * k + 13) % 256]}

DigestsIdle == kind = "none"
SimpleIdle == call = Idle /\ kdf = KIdle /\ wire.phase = "idle"

PrimitivesInit == DInit /\ SInit /\ KInit /\ WInit /\ XInit
PrimitivesNext ==
    \/ SimpleIdle /\ Unused /\ DNext /\ UNCHANGED <<call, kdf, wire, xvars>>
    \/ DigestsIdle /\ kdf = KIdle /\ wire.phase = "idle" /\ Unused /\ SNext
       /\ UNCHANGED <<dvars, kdf, wire, xvars>>
    \/ DigestsIdle /\ call = Idle /\ wire.phase = "idle" /\ Unused /\ KNext
       /\ UNCHANGED <<dvars, call, wire, xvars>>
    \/ DigestsIdle /\ call = Idle /\ kdf = KIdle /\ Unused /\ WNext
       /\ UNCHANGED <<dvars, call, kdf, xvars>>
    \/ DigestsIdle /\ SimpleIdle /\ XNext /\ UNCHANGED <<dvars, call, kdf, wire>>
PrimitivesSpec == PrimitivesInit /\ [][PrimitivesNext]_<<dvars, call, kdf, wire, xvars>>
=============================================================================
