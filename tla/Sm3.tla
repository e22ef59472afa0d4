-------------------------------- MODULE Sm3 --------------------------------
(***************************************************************************)
(* The SM3 stream and HMAC-SM3 (sm3.rs, hmac.rs) as operators: how bytes   *)
(* reach the compression function, through a buffer of one block that is   *)
(* never cleared between blocks.  The compression function is free: the    *)
(* state is the sequence of the blocks compressed so far.  A byte is a     *)
(* tuple that says what it is.                                             *)
(***************************************************************************)
EXTENDS Naturals, Sequences

CONSTANTS
    BlockSize,   \* 64 in the code
    LengthSize,  \* bytes of the length field, 8 in the code
    DigestSize   \* 32 in the code

ASSUME SizesAssumption ==
    /\ BlockSize \in Nat /\ LengthSize \in Nat \ {0} /\ DigestSize \in Nat \ {0}
    /\ LengthSize < BlockSize /\ DigestSize <= BlockSize

Zero == <<"zero">>
Mark == <<"0x80">>
LengthBytes(n) == [k \in 1..LengthSize |-> <<"length", n, k>>]
Digest(state) == [k \in 1..DigestSize |-> <<"digest", state, k>>]
Xored(pad, block) == [k \in 1..BlockSize |-> <<"xor", pad, block[k]>>]

(* copy_from_slice into a block: the bytes after "at"; the rest stays. *)
Overwrite(block, at, bytes) ==
    [k \in 1..BlockSize |->
        IF k > at /\ k <= at + Len(bytes) THEN bytes[k - at] ELSE block[k]]
Zeros(n) == [k \in 1..n |-> Zero]
Blocks(s) == [n \in 1..(Len(s) \div BlockSize) |->
                SubSeq(s, (n - 1) * BlockSize + 1, n * BlockSize)]
Tail0(s) == SubSeq(s, (Len(s) \div BlockSize) * BlockSize + 1, Len(s))

NewSm3 == [state |-> <<>>, buffer |-> Zeros(BlockSize), buffer_len |-> 0, total_len |-> 0]

(* Mutant: the fill is not reset when the block is full. *)
Unreset(h, take) == h.buffer_len + take
(* The fill once take bytes topped up the buffer; a full one is compressed. *)
Refilled(h, take) == IF h.buffer_len + take = BlockSize THEN 0 ELSE h.buffer_len + take

(* update: top up a partial block, compress whole blocks straight from the *)
(* data, stash the tail.  total_len is 64 bits wide and never wraps here.  *)
Update(h, data) ==
    LET need == BlockSize - h.buffer_len
        take == IF h.buffer_len = 0 THEN 0
                ELSE IF need < Len(data) THEN need ELSE Len(data)
        buffer == Overwrite(h.buffer, h.buffer_len, SubSeq(data, 1, take))
        full == h.buffer_len > 0 /\ take = need
        rest == SubSeq(data, take + 1, Len(data))
    IN  [state |-> (IF full THEN Append(h.state, buffer) ELSE h.state) \o Blocks(rest),
         buffer |-> Overwrite(buffer, 0, Tail0(rest)),
         buffer_len |-> IF Tail0(rest) # <<>> THEN Len(Tail0(rest))
                        ELSE Refilled(h, take),
         total_len |-> h.total_len + Len(data)]

(* Mutant: a marked block that fills up to the length field exactly is     *)
(* spilled too.                                                            *)
EagerSpill(used) == used >= BlockSize - LengthSize
(* No room for the length field behind the mark: a second block is needed. *)
Spills(used) == used > BlockSize - LengthSize

(* finalize: the mark, zeros, the length, over whatever the buffer holds. *)
Finalize(h) ==
    LET used == h.buffer_len + 1
        marked == Overwrite(h.buffer, h.buffer_len, <<Mark>>)
        last == IF Spills(used) THEN Zeros(BlockSize)
                ELSE Overwrite(marked, used, Zeros(BlockSize - LengthSize - used))
        state == IF Spills(used)
                 THEN Append(h.state, Overwrite(marked, used, Zeros(BlockSize - used)))
                 ELSE h.state
    IN  Digest(Append(state, Overwrite(last, BlockSize - LengthSize, LengthBytes(h.total_len))))

Hash(m) == Finalize(Update(NewSm3, m))

(* Mutant: a key of one block is hashed as well. *)
BlockKPrime(key) ==
    Overwrite(Zeros(BlockSize), 0, IF Len(key) >= BlockSize THEN Hash(key) ELSE key)
KPrime(key) ==
    Overwrite(Zeros(BlockSize), 0, IF Len(key) > BlockSize THEN Hash(key) ELSE key)

HmacNew(key) == [inner |-> Update(NewSm3, Xored("ipad", KPrime(key))),
                 outer |-> Update(NewSm3, Xored("opad", KPrime(key)))]
HmacUpdate(h, data) == [h EXCEPT !.inner = Update(h.inner, data)]
HmacFinalize(h) == Finalize(Update(h.outer, Finalize(h.inner)))

(***************************************************************************)
(* The reference: SM3's padding (GB/T 32905) and RFC 2104 over whole       *)
(* messages, with no buffer.                                               *)
(***************************************************************************)
Padded(m) ==
    LET gap == CHOOSE z \in 0..(BlockSize - 1) :
                   (Len(m) + 1 + z + LengthSize) % BlockSize = 0
    IN  m \o <<Mark>> \o Zeros(gap) \o LengthBytes(Len(m))
RefHash(m) == Digest(Blocks(Padded(m)))
RefHmac(key, m) ==
    LET short == IF Len(key) > BlockSize THEN RefHash(key) ELSE key
        k0 == short \o Zeros(BlockSize - Len(short))
    IN  RefHash(Xored("opad", k0) \o RefHash(Xored("ipad", k0) \o m))
=============================================================================
