---------------------------- MODULE TlcpRecords ----------------------------
(***************************************************************************)
(* TLCP record protection (tlcp/record.rs) between two ends that each hold *)
(* a key block and count their own records, over a network that replays,   *)
(* reorders, reflects, cuts and splices records.  The two suites: SM4-CBC  *)
(* with HMAC-SM3, MAC first, and SM4-GCM.                                  *)
(***************************************************************************)
EXTENDS Sm3

CONSTANTS
    CipherBlock,   \* 16 in the code
    MaxPlaintext,  \* 2^14 in the code
    PadMax,        \* largest byte, pad-length bytes included: 255 in the code
    Types,         \* content types (and versions: both are bound header bytes)
    Payloads,      \* plaintexts the callers send, sequences of bytes
    MaxRecords,    \* bound: records a direction sends, a function of it
    Junk,          \* what a block may decrypt to behind a foreign block
    None

ASSUME RecordAssumption ==
    /\ CipherBlock \in Nat \ {0} /\ MaxPlaintext \in Nat /\ PadMax \in Nat
    /\ DigestSize % CipherBlock = 0 /\ MaxPlaintext % CipherBlock = 0
    /\ CipherBlock <= PadMax + 1   \* every padding has a length byte

VARIABLES
    suite,  \* "cbc" or "gcm", agreed by the handshake
    sent,   \* per direction, what its caller protected, in order
    wire,   \* per direction, the records made of it
    got     \* per direction, what the other end deprotected, in order

rvars == <<suite, sent, wire, got>>

Directions == {"client", "server"}   \* named for the end that writes
Byte(v) == <<"byte", v>>
Value(byte) == byte[2]

Octets == {Byte(v) : v \in 0..PadMax}

ASSUME PayloadAssumption ==
    /\ Payloads \subseteq Seq(Octets) /\ Junk \subseteq [1..CipherBlock -> Octets]
    /\ None \notin Nat /\ None \notin Seq(Octets)

KeyBlock(from, to) == [k \in 1..DigestSize |-> <<"key block", from, to, k>>]

(***************************************************************************)
(* Keys: each direction's half of the key block.                           *)
(***************************************************************************)
ClientHalf == [mac |-> KeyBlock(0, 32), enc |-> KeyBlock(64, 80)]
ServerHalf == [mac |-> KeyBlock(32, 64), enc |-> KeyBlock(80, 96)]
CbcKeys(d) == IF d = "client" THEN ClientHalf ELSE ServerHalf

GcmClientHalf == [enc |-> KeyBlock(0, 16), salt |-> KeyBlock(32, 36)]
(* Mutant: the server half cut out of the client's ranges. *)
GcmCopiedHalf == [enc |-> KeyBlock(0, 16), salt |-> KeyBlock(32, 36)]
GcmServerHalf == [enc |-> KeyBlock(16, 32), salt |-> KeyBlock(36, 40)]
GcmKeys(d) == IF d = "client" THEN GcmClientHalf ELSE GcmServerHalf

(* Mutant: the sequence number left out. *)
SeqlessHeader(seq, type, len) == <<<<"type", type>>, <<"len", len>>>>
(* record_header: three symbols for the thirteen bytes. *)
Header(seq, type, len) == <<<<"seq", seq>>, <<"type", type>>, <<"len", len>>>>

(***************************************************************************)
(* mac_ct: HMAC-SM3 over a header and the first len bytes of data, by a    *)
(* schedule of blocks fixed by Len(data) alone.                            *)
(***************************************************************************)
(* Mutant: the spill of the mark and the length forgotten. *)
SpilllessFinalBlock(msg_len) == msg_len \div BlockSize
FinalBlock(msg_len) == (msg_len + LengthSize) \div BlockSize
CtInnerBlocks(msg_len) == (msg_len + LengthSize + BlockSize) \div BlockSize

MacCt(mac_key, header, data, len) ==
    LET msg_len == Len(header) + len
        final == FinalBlock(msg_len)
        byte(p) == IF p < msg_len THEN (header \o data)[p + 1]
                   ELSE IF p = msg_len THEN Mark ELSE Zero
        block(b) == [i \in 1..BlockSize |->
            IF b = final /\ i > BlockSize - LengthSize
            THEN LengthBytes(BlockSize + msg_len)[i - (BlockSize - LengthSize)]
            ELSE byte(b * BlockSize + i - 1)]
        schedule == [b \in 1..CtInnerBlocks(Len(header) + Len(data)) |-> block(b - 1)]
        state == IF final < Len(schedule)
                 THEN <<Xored("ipad", KPrime(mac_key))>> \o SubSeq(schedule, 1, final + 1)
                 ELSE <<>>
    IN  Finalize(Update(Update(NewSm3, Xored("opad", KPrime(mac_key))), Digest(state)))

(***************************************************************************)
(* CBC records.  A record is the key it was encrypted under and the body   *)
(* it decrypts to under that key.                                          *)
(***************************************************************************)
Padding(padlen) == [k \in 1..(padlen + 1) |-> Byte(padlen)]
PadLen(n) == CipherBlock - 1 - (n % CipherBlock)

ProtectCbc(keys, seq, type, plaintext) ==
    LET mac == HmacFinalize(HmacUpdate(HmacUpdate(HmacNew(keys.mac),
                   Header(seq, type, Len(plaintext))), plaintext))
    IN  IF Len(plaintext) > MaxPlaintext THEN None
        ELSE [key |-> keys.enc,
              body |-> plaintext \o mac \o Padding(PadLen(Len(plaintext) + DigestSize))]

(* Mutant: the scan of the padding window ends one byte early. *)
ShortWindow(n) == IF PadMax < n THEN PadMax ELSE n - 1
PadWindow(n) == IF PadMax + 1 < n THEN PadMax + 1 ELSE n

(* check_tls_padding_ct: the plaintext length, None when the padding is bad. *)
CheckPadding(body) ==
    LET n == Len(body)
        region == Value(body[n]) + 1
    IN  IF /\ n >= DigestSize + CipherBlock
           /\ region <= n - DigestSize
           /\ \A i \in 0..(PadWindow(n) - 1) : i < region => body[n - i] = body[n]
        THEN n - DigestSize - region
        ELSE None

ExtractMac(body, at) == SubSeq(body, at + 1, at + DigestSize)

(* Decrypting under another key gives noise, whose last byte is arbitrary. *)
Noise(n) == [k \in 1..n |-> IF k = n THEN Byte(0) ELSE <<"noise", k>>]

(* deprotect_cbc: the length guards; the MAC is computed even when the     *)
(* padding is bad, over the longest length, and both must hold.            *)
DeprotectCbc(keys, seq, type, record) ==
    LET n == Len(record.body)
        body == IF record.key = keys.enc THEN record.body ELSE Noise(n)
        longest == n - DigestSize - 1
        plaintext_len == CheckPadding(body)
        eff_len == IF plaintext_len = None THEN longest ELSE plaintext_len
        mac_ok == MacCt(keys.mac, Header(seq, type, eff_len),
                        SubSeq(body, 1, longest), eff_len) = ExtractMac(body, eff_len)
    IN  IF \/ n < DigestSize + CipherBlock
           \/ n % CipherBlock # 0
           \/ n > MaxPlaintext + DigestSize + CipherBlock
        THEN None
        ELSE IF plaintext_len # None /\ mac_ok THEN SubSeq(body, 1, eff_len) ELSE None

(***************************************************************************)
(* GCM records: the nonce's explicit half travels; the tag binds the key,  *)
(* the nonce, the header and the ciphertext.                               *)
(***************************************************************************)
Nonce(keys, explicit) == <<keys.salt, explicit>>
Sealed(keys, nonce, data) ==
    [k \in 1..Len(data) |-> <<"sealed", keys.enc, nonce, k, data[k]>>]
GcmTag(keys, nonce, aad, ct) == <<keys.enc, nonce, aad, ct>>

ProtectGcm(keys, seq, type, plaintext) ==
    LET nonce == Nonce(keys, seq)
        ct == Sealed(keys, nonce, plaintext)
    IN  IF Len(plaintext) > MaxPlaintext THEN None
        ELSE [explicit |-> seq, ct |-> ct,
              tag |-> GcmTag(keys, nonce, Header(seq, type, Len(plaintext)), ct)]

(* deprotect_gcm: the nonce from the wire, the sequence number the caller's. *)
DeprotectGcm(keys, seq, type, record) ==
    LET nonce == Nonce(keys, record.explicit)
        aad == Header(seq, type, Len(record.ct))
    IN  IF \/ Len(record.ct) > MaxPlaintext
           \/ record.tag # GcmTag(keys, nonce, aad, record.ct)
        THEN None
        ELSE [k \in 1..Len(record.ct) |-> record.ct[k][5]]

(***************************************************************************)
(* The connection.  Each caller counts its records from zero and moves on  *)
(* after a record that was made or accepted.                               *)
(***************************************************************************)
Protect(d, seq, type, data) ==
    IF suite = "cbc" THEN ProtectCbc(CbcKeys(d), seq, type, data)
                     ELSE ProtectGcm(GcmKeys(d), seq, type, data)
Deprotect(d, seq, type, record) ==
    IF suite = "cbc" THEN DeprotectCbc(CbcKeys(d), seq, type, record)
                     ELSE DeprotectGcm(GcmKeys(d), seq, type, record)

RInit ==
    /\ suite \in {"cbc", "gcm"}
    /\ sent = [d \in Directions |-> <<>>]
    /\ wire = [d \in Directions |-> <<>>]
    /\ got = [d \in Directions |-> <<>>]

(* A caller protects a record; over the ceiling, or when the generator     *)
(* fails to give an IV, it gets none and its count stays.                  *)
Send(d, type, data, rng_ok) ==
    LET record == Protect(d, Len(sent[d]), type, data)
    IN  /\ Len(sent[d]) < MaxRecords[d]
        /\ IF record = None \/ (suite = "cbc" /\ ~rng_ok)
           THEN UNCHANGED <<sent, wire>>
           ELSE /\ sent' = [sent EXCEPT ![d] = Append(@, [type |-> type, data |-> data])]
                /\ wire' = [wire EXCEPT ![d] = Append(@, record)]
        /\ UNCHANGED <<suite, got>>

Seen == UNION {{wire[d][n] : n \in 1..Len(wire[d])} : d \in Directions}

(* What can be made of CBC records without the keys.  A run of whole       *)
(* blocks, behind the block that preceded it, decrypts as before; a block  *)
(* behind a foreign one decrypts to junk.  A MAC byte that comes last is   *)
(* read as a pad length of unknown value.                                  *)
Run(body, from, to) == SubSeq(body, from * CipherBlock + 1, to * CipherBlock)
NumBlocks(r) == Len(r.body) \div CipherBlock
Ended(body) ==
    IF body[Len(body)][1] = "byte" THEN {body}
    ELSE {[body EXCEPT ![Len(body)] = Byte(v)] : v \in 0..PadMax}
CutCbc(r) ==
    UNION {UNION {{[r EXCEPT !.body = b] : b \in Ended(Run(r.body, i, j))} :
                     j \in (i + 1)..NumBlocks(r)} : i \in 0..NumBlocks(r)}
SpliceCbc(r, q) ==
    UNION {{[r EXCEPT !.body = b] :
              b \in Ended(Run(r.body, 0, i) \o junk \o Run(q.body, j, NumBlocks(q)))} :
              i \in 0..NumBlocks(r), j \in 1..NumBlocks(q), junk \in Junk}
Alike(r) == {q \in Seen : q.key = r.key}
Cuts == UNION {CutCbc(r) : r \in Seen}
Splices == UNION {UNION {SpliceCbc(r, q) : q \in Alike(r)} : r \in Seen}
ForgedCbc == Cuts \cup Splices

(* Of GCM records: nonce, ciphertext, cut short or not, and tag at will. *)
ForgedGcm ==
    UNION {{[explicit |-> r.explicit, ct |-> SubSeq(q.ct, 1, n), tag |-> t.tag] :
              n \in 0..Len(q.ct)} : r \in Seen, q \in Seen, t \in Seen}

Forged == IF suite = "cbc" THEN ForgedCbc ELSE ForgedGcm

(* The other end is handed some record, header of the network's choosing.  *)
Receive(d, type, record) ==
    LET data == Deprotect(d, Len(got[d]), type, record)
    IN  /\ data # None
        /\ got' = [got EXCEPT ![d] = Append(@, [type |-> type, data |-> data])]
        /\ UNCHANGED <<suite, sent, wire>>

RNext ==
    \/ \E d \in Directions, type \in Types, data \in Payloads, rng_ok \in BOOLEAN :
          Send(d, type, data, rng_ok)
    \/ \E d \in Directions, type \in Types, record \in Forged : Receive(d, type, record)

RSpec == RInit /\ [][RNext]_rvars

(***************************************************************************)
(* Properties                                                              *)
(***************************************************************************)

(* Whatever the network replays, reorders, sends back to its author, cuts  *)
(* or splices, an end that counts its records accepts, in each direction,  *)
(* a prefix of what the other end sent, types included (record_header and  *)
(* the carving of the key block into halves).                              *)
InOrder ==
    \A d \in Directions :
        /\ Len(got[d]) <= Len(sent[d])
        /\ got[d] = SubSeq(sent[d], 1, Len(got[d]))

(* Records of a peer that pads more than it must, and the same with the    *)
(* pad byte farthest from the end spoiled.                                 *)
Repadded(r, plaintext_len, padlen) ==
    [r EXCEPT !.body = SubSeq(@, 1, plaintext_len + DigestSize) \o Padding(padlen)]
LegalPads(plaintext_len) ==
    {p \in 0..PadMax : /\ (plaintext_len + DigestSize + p + 1) % CipherBlock = 0
                       /\ plaintext_len + p + 1 <= MaxPlaintext + CipherBlock}
Spoiled(d, n) ==
    LET len == Len(sent[d][n].data)
    IN  {[Repadded(wire[d][n], len, p) EXCEPT !.body[len + DigestSize + 1] = Byte(p - 1)] :
            p \in LegalPads(len) \ {0}}
Mispadded == UNION {UNION {Spoiled(d, n) : n \in 1..Len(wire[d])} : d \in Directions}

(* The next record in order is accepted as it was sent, at every length up *)
(* to the ceiling and, from a peer that pads more than it must, with every *)
(* legal padding that keeps the body under the ceiling: the fixed-schedule *)
(* mac_ct of the reader is the streaming HMAC of the writer.               *)
NextAccepted ==
    \A d \in Directions : Len(got[d]) < Len(sent[d]) =>
        LET seq == Len(got[d])
            s == sent[d][seq + 1]
            r == wire[d][seq + 1]
            reads(record) == Deprotect(d, seq, s.type, record) = s.data
        IN  IF suite = "gcm" THEN reads(r)
            ELSE \A p \in LegalPads(Len(s.data)) : reads(Repadded(r, Len(s.data), p))

Decodes(keys, seq, type, body, len) ==
    /\ len + DigestSize < Len(body)
    /\ \E padlen \in 0..PadMax :
          SubSeq(body, len + DigestSize + 1, Len(body)) = Padding(padlen)
    /\ ExtractMac(body, len) =
          RefHmac(keys.mac, Header(seq, type, len) \o SubSeq(body, 1, len))

(* deprotect_cbc, with its three constant-time surfaces, opens exactly the *)
(* bodies that are plaintext, reference HMAC and padding, and opens them   *)
(* as that plaintext, whatever was cut, spliced, padded long or badly.     *)
OpensExactly ==
    suite = "cbc" =>
        \A d \in Directions, type \in Types, r \in ForgedCbc \cup Mispadded :
            LET keys == CbcKeys(d)
                seq == Len(got[d])
                data == DeprotectCbc(keys, seq, type, r)
                fits == /\ r.key = keys.enc
                        /\ Len(r.body) <= MaxPlaintext + DigestSize + CipherBlock
                decodings == {len \in 0..Len(r.body) :
                                 fits /\ Decodes(keys, seq, type, r.body, len)}
            IN  IF data = None THEN decodings = {}
                ELSE Len(data) \in decodings /\ data = SubSeq(r.body, 1, Len(data))

(* No two GCM records of a connection, in either direction, are sealed     *)
(* under one key with one nonce (the salts and the explicit nonce).        *)
NoncesDiffer ==
    suite = "gcm" =>
        \A d, e \in Directions : \A n \in 1..Len(wire[d]), m \in 1..Len(wire[e]) :
            <<d, n>> # <<e, m>> =>
                <<GcmKeys(d).enc, Nonce(GcmKeys(d), wire[d][n].explicit)>>
                    # <<GcmKeys(e).enc, Nonce(GcmKeys(e), wire[e][m].explicit)>>
=============================================================================
