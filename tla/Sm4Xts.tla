------------------------------- MODULE Sm4Xts -------------------------------
(***************************************************************************)
(* SM4-XTS (sm4/mode_xts.rs): single data units with ciphertext stealing,  *)
(* and runs of sectors encrypted in place under their sector numbers, on   *)
(* hosts that substitute and multiply in different ways.  The disk below   *)
(* is encrypted and decrypted by runs that overlap at will; one engine at  *)
(* a time works on something else.                                         *)
(***************************************************************************)
EXTENDS Ghash

CONSTANTS
    MaxBlocks,   \* blocks of a data unit, 2^20 in the code
    SectorSize,  \* bytes of a sector of the disk
    SectorCount, \* sectors of the disk
    Bases,       \* where the disk may start: its sector number, and how many there are from it
    UnitLens,    \* lengths of single data units
    BadSizes,    \* sector sizes no call may accept
    UnitHosts, DiskHosts, LaneHosts, ProductHosts, \* hosts that do each kind of work
    LaneFirsts,  \* the first bytes of the registers substituted
    Blocks128    \* blocks multiplied

ASSUME XtsAssumption ==
    /\ MaxBlocks \in Nat \ {0} /\ SectorCount \in Nat
    /\ SectorSize % BlockLen = 0 /\ SectorSize \in BlockLen..(MaxBlocks * BlockLen)
    /\ \A b \in Bases : b.le \in [1..BlockLen -> Octet] /\ b.room \in Nat \ {0}
    /\ UnitLens \cup BadSizes \subseteq Nat
    /\ \A size \in BadSizes : size \notin BlockLen..(MaxBlocks * BlockLen) \/ size % BlockLen # 0
    /\ UNION {UnitHosts, DiskHosts, LaneHosts, ProductHosts} \subseteq HostKinds

VARIABLES
    origin,     \* where the disk starts
    disk,       \* the bytes of each sector
    alone,      \* each sector as encrypt returns it for that sector alone
    encrypted,  \* the sectors whose encryption was promised
    answer,     \* of the last call on sectors, and what the documentation promised
    engine      \* what else was computed

xvars == <<origin, disk, alone, encrypted, answer, engine>>
Refused == <<>>     \* None
Some(v) == <<v>>

MAX_LEN == MaxBlocks * BlockLen
SIMD_BATCH(h) == CASE h.arch = "x86_64" -> 8 [] h.arch = "aarch64" -> 4 [] OTHER -> 1
BlocksOf(bytes) == [b \in 1..(Len(bytes) \div BlockLen) |-> SubSeq(bytes, BlockLen * (b - 1) + 1, BlockLen * b)]

mul_alpha(t) ==
    [k \in 1..BlockLen |->
        IF k = 1 THEN (t[1] \div 2) ^^ (IF t[BlockLen] % 2 = 1 THEN \he1 ELSE 0)
        ELSE (t[k] \div 2) + 128 * (t[k - 1] % 2)]

(* split_keys: Refused, or the round keys of the two halves. *)
split_keys(key, len) ==
    IF len \notin BlockLen..MAX_LEN \/ SubSeq(key, 1, KeyLen) = SubSeq(key, KeyLen + 1, 2 * KeyLen)
    THEN Refused
    ELSE Some(<<RoundKeys(SubSeq(key, 1, KeyLen)), RoundKeys(SubSeq(key, KeyLen + 1, 2 * KeyLen))>>)

(* T_0, T_1, ... : the tweak encrypted, then doubled from block to block. *)
TweaksOf(c2, tweak, n) ==
    LET ts[i \in 0..(n - 1)] == IF i = 0 THEN <<crypt(tweak, c2, FALSE)>>
                                ELSE With(ts[i - 1], LAMBDA t : Append(t, mul_alpha(t[i])))
    IN  ts[n - 1]

(* Whole blocks: the tweak is added before and after the cipher. *)
WholeBlocks(h, c1, tweaks, blocks, decrypting) ==
    With(CryptBlocks(SIMD_BATCH(h), [j \in DOMAIN blocks |-> Xors(blocks[j], tweaks[j])], c1, decrypting),
         LAMBDA out : With([j \in DOMAIN out |-> Xors(out[j], tweaks[j])], FlattenSeq))
OneBlock(c1, t, block, decrypting) ==
    With(crypt(Xors(block, t), c1, decrypting), LAMBDA b : Xors(b, t))

(* xts_encrypt and xts_decrypt.  With a partial block left over, the last  *)
(* full block is the one stolen from: encryption uses its tweak first and  *)
(* the next one for the block it completes, decryption the other way round. *)
xts_crypt(h, ciphers, tweak, data, decrypting) ==
    LET full == Len(data) \div BlockLen
        rem == Len(data) % BlockLen
        normal == IF rem = 0 THEN full ELSE full - 1
        last == SubSeq(data, normal * BlockLen + 1, (normal + 1) * BlockLen)
        partial == SubSeq(data, (normal + 1) * BlockLen + 1, Len(data))
        stolen(ts) ==
            With(OneBlock(ciphers[1], ts[IF decrypting THEN normal + 2 ELSE normal + 1], last, decrypting),
                 LAMBDA cc :
                    OneBlock(ciphers[1], ts[IF decrypting THEN normal + 1 ELSE normal + 2],
                             partial \o SubSeq(cc, rem + 1, BlockLen), decrypting)
                    \o SubSeq(cc, 1, rem))
    IN  With(TweaksOf(ciphers[2], tweak, normal + 2), LAMBDA ts :
            WholeBlocks(h, ciphers[1], ts, BlocksOf(SubSeq(data, 1, normal * BlockLen)), decrypting)
            \o IF rem = 0 THEN <<>> ELSE stolen(ts))

(* encrypt and decrypt. *)
XtsUnit(h, key, tweak, data, decrypting) ==
    With(split_keys(key, Len(data)), LAMBDA ciphers :
        IF ciphers = Refused THEN Refused ELSE Some(xts_crypt(h, ciphers[1], tweak, data, decrypting)))

(* A u128 as its little-endian bytes, plus a small number. *)
LeCarry(n, k) ==
    LET carry[i \in 0..BlockLen] == IF i = 0 THEN k ELSE (n[i] + carry[i - 1]) \div 256
    IN  carry
LePlus(n, k) == [i \in 1..BlockLen |-> (n[i] + LeCarry(n, k)[i - 1]) % 256]

(* The room of the disk is what is left of the 128 bits.                   *)
ASSUME RoomAssumption ==
    \A b \in Bases : \A k \in 0..SectorCount : (LeCarry(b.le, k)[BlockLen] = 0) <=> k < b.room

(* Mutant: no check of the last sector number before the first is written. *)
AnyLast(n, k) == TRUE
(* start_sector.checked_add(last). *)
FitsU128(n, k) == LeCarry(n, k)[BlockLen] = 0

(* process_sectors: every check comes before the first sector changes. *)
process_sectors(h, key, sector_size, start_sector, buf, decrypting) ==
    LET count == Len(buf) \div sector_size
        sector(i) == SubSeq(buf, i * sector_size + 1, (i + 1) * sector_size)
    IN  IF sector_size \notin BlockLen..MAX_LEN \/ sector_size % BlockLen # 0 THEN Refused
        ELSE IF Len(buf) % sector_size # 0 THEN Refused
        ELSE IF count > 0 /\ ~FitsU128(start_sector, count - 1) THEN Refused
        ELSE With(split_keys(key, sector_size), LAMBDA ciphers :
            IF ciphers = Refused THEN Refused
            ELSE With([i \in 1..count |-> xts_crypt(h, ciphers[1], LePlus(start_sector, i - 1),
                                                    sector(i - 1), decrypting)],
                      LAMBDA out : Some(FlattenSeq(out))))
-----------------------------------------------------------------------------
Key == <<\h01, \h23, \h45, \h67, \h89, \hab, \hcd, \hef, \hfe, \hdc, \hba, \h98, \h76, \h54, \h32, \h10,
         0, 1, 2, 3, 4, 5, 6, 7, 8, 9, 10, 11, 12, 13, 14, 15>>
WeakKey == SubSeq(Key, 1, KeyLen) \o SubSeq(Key, 1, KeyLen)
UnitTweak == [k \in 1..BlockLen |-> \h11]
UnitData(len) == [k \in 1..len |-> 17 * ((k - 1) % 16)]
PlainSector(i) == [k \in 1..SectorSize |-> (31 * (k + SectorSize * i)) % 256]
Portable == [arch |-> "other", avx2 |-> FALSE, gfni |-> FALSE, pclmulqdq |-> FALSE, aes |-> FALSE]

Indices == 0..(SectorCount - 1)
Resting == [kind |-> "rest"]
Unmounted == [room |-> 0]
Unused == origin = Unmounted /\ engine = Resting

(* The single-shot encrypt of each sector that has a number, under that    *)
(* number in little-endian order, on a host without any extension.         *)
SealedSectors(b) ==
    [i \in {n \in Indices : n < b.room} |->
        With(XtsUnit(Portable, Key, LePlus(b.le, i), PlainSector(i), FALSE), LAMBDA out : out[1])]

XInit ==
    /\ origin = Unmounted /\ disk = <<>> /\ alone = <<>>
    /\ encrypted = {}
    /\ answer = [given |-> "none", promised |-> "none"]
    /\ Unused

Mount(b) ==
    /\ Unused
    /\ origin' = b
    /\ disk' = [i \in Indices |-> PlainSector(i)]
    /\ alone' = SealedSectors(b)
    /\ UNCHANGED <<encrypted, answer, engine>>

(* encrypt_sectors or decrypt_sectors on the sectors first, ..., of the    *)
(* disk, all in the same condition, with "cut" bytes missing at the end.   *)
Sectors(h, key, size, first, count, cut) ==
    LET run == first..(first + count - 1)
        buf == FlattenSeq([i \in 1..count |-> disk[first + i - 1]])
        decrypting == run # {} /\ run \subseteq encrypted
        promised == key # WeakKey /\ size = SectorSize /\ cut = 0 /\ first + count <= origin.room
    IN  /\ run \subseteq Indices /\ first < origin.room
        /\ run \subseteq encrypted \/ run \cap encrypted = {}
        /\ cut <= Len(buf)
        /\ \E out \in {process_sectors(h, key, size, LePlus(origin.le, first),
                                       SubSeq(buf, 1, Len(buf) - cut), decrypting)} :
            /\ disk' = IF out = Refused THEN disk
                       ELSE [i \in Indices |-> IF i \in run THEN SubSeq(out[1], (i - first) * size + 1, (i - first + 1) * size)
                                               ELSE disk[i]]
            /\ answer' = [given |-> IF out = Refused THEN "refused" ELSE "done",
                          promised |-> IF promised THEN "done" ELSE "refused"]
        /\ encrypted' = IF ~promised THEN encrypted
                     ELSE IF decrypting THEN encrypted \ run ELSE encrypted \cup run
        /\ UNCHANGED <<origin, alone, engine>>

(* encrypt of one data unit, and decrypt of what it returned. *)
EncryptUnit(h, key, len) ==
    /\ Unused
    /\ engine' = [kind |-> "unit", key |-> key, data |-> UnitData(len),
                  out |-> XtsUnit(h, key, UnitTweak, UnitData(len), FALSE)]
    /\ UNCHANGED <<origin, disk, alone, encrypted, answer>>
DecryptUnit(h) ==
    /\ engine.kind = "unit" /\ engine.out # Refused
    /\ engine' = [kind |-> "opened", key |-> engine.key, data |-> engine.data, sealed |-> engine.out[1],
                  out |-> XtsUnit(h, engine.key, UnitTweak, engine.out[1], TRUE)]
    /\ UNCHANGED <<origin, disk, alone, encrypted, answer>>

(* One register through the S-box of the host. *)
Substitute(h, width, first) ==
    LET input == [k \in 1..width |-> (first + (256 \div width) * (k - 1)) % 256] IN
    /\ Unused
    /\ engine' = [kind |-> "lanes", input |-> input, out |-> SboxLanesOf(h, input)]
    /\ UNCHANGED <<origin, disk, alone, encrypted, answer>>

(* One multiplication of GHASH, and one doubling of a tweak. *)
Multiply(h, a, b) ==
    /\ Unused
    /\ engine' = [kind |-> "product", h |-> a, x |-> b, out |-> ghash_mul(h, a, b)]
    /\ UNCHANGED <<origin, disk, alone, encrypted, answer>>
DoubleTweak(t) ==
    /\ Unused
    /\ engine' = [kind |-> "alpha", t |-> t, out |-> mul_alpha(t)]
    /\ UNCHANGED <<origin, disk, alone, encrypted, answer>>

XNext ==
    \/ \E b \in Bases : Mount(b)
    \/ \E h \in DiskHosts, first \in Indices, count \in 0..SectorCount : Sectors(h, Key, SectorSize, first, count, 0)
    \/ \E h \in DiskHosts, first \in Indices, count \in 0..SectorCount, size \in BadSizes \cup {SectorSize},
          cut \in 0..1, key \in {Key, WeakKey} :
        /\ size # SectorSize \/ cut # 0 \/ key # Key
        /\ Sectors(h, key, size, first, count, cut)
    \/ \E h \in UnitHosts, key \in {Key, WeakKey}, len \in UnitLens : EncryptUnit(h, key, len)
    \/ \E h \in UnitHosts : DecryptUnit(h)
    \/ \E h \in LaneHosts, width \in {1, 4, 8, 16, 32}, first \in LaneFirsts : Substitute(h, width, first)
    \/ \E h \in ProductHosts, a \in Blocks128, b \in Blocks128 : Multiply(h, a, b)
    \/ \E t \in Blocks128 : DoubleTweak(t)
XSpec == XInit /\ [][XNext]_xvars
-----------------------------------------------------------------------------
(* Vectors of tests/sm4_xts_kat.rs: the ciphertext of UnitData by length. *)
KnownUnits ==
    (16 :> <<\hb3, \hfb, \hef, \h63, \h16, \h5a, \h03, \h94, \h2e, \ha2, \hb4, \hb7, \hbc, \h67, \haf, \h80>>)
    @@ (20 :> <<\he4, \h2c, \h1a, \hff, \h86, \h29, \h40, \h15, \h15, \hf2, \hed, \hac, \h4e, \hed, \hbe, \h69,
                \hb3, \hfb, \hef, \h63>>)
    @@ (31 :> <<\h96, \h41, \h7b, \h64, \h92, \h29, \hdd, \h80, \h0d, \h49, \h04, \he1, \h91, \h4c, \hb4, \hdf,
                \hb3, \hfb, \hef, \h63, \h16, \h5a, \h03, \h94, \h2e, \ha2, \hb4, \hb7, \hbc, \h67, \haf>>)

ASSUME KnownAnswers ==
    \A len \in DOMAIN KnownUnits :
        len <= MAX_LEN => XtsUnit(Portable, Key, UnitTweak, UnitData(len), FALSE) = Some(KnownUnits[len])

(* "Byte-identical to looping encrypt over each sector", in place, by runs *)
(* that may overlap and be undone by other runs; refused exactly when the  *)
(* documentation says so, with the buffer untouched, the last sector       *)
(* number included; and a data unit of any length keeps it, has the known  *)
(* ciphertext, and comes back from any host.                               *)
XtsExact ==
    /\ \A i \in DOMAIN disk : disk[i] = IF i \in encrypted THEN alone[i] ELSE PlainSector(i)
    /\ answer.given = answer.promised
    /\ engine.kind = "unit" =>
        /\ (engine.out = Refused) = (engine.key = WeakKey \/ Len(engine.data) \notin BlockLen..MAX_LEN)
        /\ engine.out # Refused =>
            /\ Len(engine.out[1]) = Len(engine.data)
            /\ Len(engine.data) \in DOMAIN KnownUnits => engine.out[1] = KnownUnits[Len(engine.data)]
    /\ engine.kind = "opened" => engine.out = Some(engine.data)

(* Every lane of every back end holds the table's byte, whatever its       *)
(* neighbours hold; the two ways of multiplying agree, in either order;    *)
(* and the doubling of a tweak is GHASH's multiplication by x.             *)
BackEndsAgree ==
    /\ engine.kind = "lanes" => \A k \in DOMAIN engine.input : engine.out[k] = S_BOX[engine.input[k] + 1]
    /\ engine.kind = "product" => engine.out = ghash_mul_software(engine.x, engine.h)
    /\ engine.kind = "alpha" => engine.out = ghash_mul_halves(store_natural({1}), engine.t)
=============================================================================
