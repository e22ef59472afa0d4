----------------------------- MODULE CbcStreams -----------------------------
(***************************************************************************)
(* A streaming CBC encryptor or decryptor in the hands of a caller: a Rust *)
(* caller, who gets everything from finalize, or a C caller, to whom every *)
(* update hands over what it produced through a buffer of some capacity.   *)
(* Chunks, capacities and NULL pointers are the caller's choice.           *)
(***************************************************************************)
EXTENDS Sm4Cbc

CONSTANTS
    Inputs,   \* bytes a caller feeds
    MaxLen    \* bound on the bytes fed to one stream

ASSUME FeedAssumption == Inputs \subseteq Bytes /\ MaxLen \in Nat

VARIABLES
    kind,     \* which stream this is, and the api that drives it
    phase,    \* "live", then "done", "refused" (finalize gave ERR) or "freed"
    st,       \* Sm4CbcEncryptor or Sm4CbcDecryptor
    fed,      \* history: bytes absorbed
    made,     \* history: bytes produced for the caller, in order
    missed    \* history: positions in made of the bytes no call handed over

svars == <<kind, phase, st, fed, made, missed>>

Kinds == [op : {"enc", "dec"}, api : {"rust", "c"}]

Chunks == UNION {[1..n -> Inputs] : n \in 0..(MaxLen - Len(fed))}

SInit ==
    /\ kind \in Kinds
    /\ phase = "live"
    /\ st = NewStream
    /\ fed = <<>> /\ made = <<>> /\ missed = {}

Absorb(s, data) ==
    IF kind.op = "enc" THEN EncryptorUpdate(s, data) ELSE DecryptorUpdate(s, data)

(* None, or everything finalize returns. *)
Finished(s) ==
    IF kind.op = "enc" THEN EncryptorFinalize(s) ELSE DecryptorFinalize(s)

(* A C call's pointers: its output capacity, and which pointer is NULL. *)
Windows(len) ==
    {<<0, "ok">>, <<BS, "ok">>}
      \cup {<<len + BS, a>> : a \in {"ok", "null_input", "null_out", "null_len"}}

(* write_output: everything is handed over or nothing is. *)
Written(bytes, w) ==
    /\ w[2] # "null_len"
    /\ Len(bytes) <= w[1]
    /\ bytes # <<>> => w[2] # "null_out"

Produce(bytes, w) ==
    /\ made' = made \o bytes
    /\ missed' = IF Written(bytes, w) THEN missed
                 ELSE missed \cup (Len(made) + 1 .. Len(made) + Len(bytes))

Update(data) ==
    /\ phase = "live" /\ kind.api = "rust"
    /\ st' = Absorb(st, data)
    /\ fed' = fed \o data
    /\ UNCHANGED <<kind, phase, made, missed>>

(* Mutant: what did not fit stays in the stream for the next call. *)
KeepingCUpdate(data, w) ==
    LET s == Absorb(st, data)
    IN  /\ phase = "live" /\ kind.api = "c"
        /\ fed' = fed \o data
        /\ IF Written(s.output, w)
           THEN st' = [s EXCEPT !.output = <<>>] /\ made' = made \o s.output
           ELSE st' = s /\ UNCHANGED made
        /\ UNCHANGED <<kind, phase, missed>>

(* The C updates: absorb, drain, and only then look at the buffer.  (A     *)
(* NULL input of length zero is the empty slice.)                          *)
CUpdate(data, w) ==
    LET s == Absorb(st, data)
    IN  /\ phase = "live" /\ kind.api = "c"
        /\ IF w[2] = "null_input" /\ data # <<>>
           THEN UNCHANGED <<st, fed, made, missed>>
           ELSE /\ st' = [s EXCEPT !.output = <<>>]
                /\ fed' = fed \o data
                /\ Produce(s.output, w)
        /\ UNCHANGED <<kind, phase>>

Finalize ==
    /\ phase = "live" /\ kind.api = "rust"
    /\ IF Finished(st) = None
       THEN phase' = "refused" /\ UNCHANGED made
       ELSE phase' = "done" /\ made' = Finished(st)
    /\ st' = NewStream
    /\ UNCHANGED <<kind, fed, missed>>

(* The handle is freed by this call whatever it returns. *)
CFinalize(w) ==
    /\ phase = "live" /\ kind.api = "c"
    /\ IF Finished(st) = None
       THEN phase' = "refused" /\ UNCHANGED <<made, missed>>
       ELSE /\ phase' = IF Written(Finished(st), w) THEN "done" ELSE "refused"
            /\ Produce(Finished(st), w)
    /\ st' = NewStream
    /\ UNCHANGED <<kind, fed>>

Free ==
    /\ phase = "live"
    /\ phase' = "freed"
    /\ st' = NewStream
    /\ UNCHANGED <<kind, fed, made, missed>>

SNext ==
    \/ \E data \in Chunks : Update(data)
    \/ \E data \in Chunks : \E w \in Windows(Len(data)) : CUpdate(data, w)
    \/ Finalize
    \/ \E w \in Windows(0) : CFinalize(w)
    \/ Free

SSpec == SInit /\ [][SNext]_svars

-----------------------------------------------------------------------------
(* "For any plaintext M partitioned into chunks the streaming encryptor's  *)
(* concatenated output equals mode_cbc::encrypt(key, iv, M) ... Same goes  *)
(* for the decryptor": what a stream has produced when it ends is what the *)
(* single-shot function makes of all it was fed, bytes a short buffer cost *)
(* the caller included, and nothing but that function's refusal or a       *)
(* caller's buffer refuses a stream.                                       *)
SingleShot == IF kind.op = "enc" THEN Encrypt(fed) ELSE Decrypt(fed)
StreamEqualsSingleShot ==
    /\ phase = "done" => made = SingleShot
    /\ phase = "refused" =>
         \/ SingleShot = None
         \/ kind.api = "c" /\ made = SingleShot

(* What an encryptor produced, single-shot decryption gives back. *)
RoundTrip == phase = "done" /\ kind.op = "enc" => Decrypt(made) = fed

(* The last block decrypted so far never leaves the stream before finalize *)
(* has looked at its padding, on any chunking and by either path through   *)
(* update; everything before it does, or waits in output.                  *)
HoldsBackOne ==
    kind.op = "dec" /\ phase = "live" =>
        LET p == Unchained(fed)
        IN  IF p = <<>> THEN st.held = None /\ st.output = <<>> /\ made = <<>>
            ELSE st.held = Last(p) /\ made \o st.output = FlattenSeq(Front(p))

(* The headers ask for input length + 16 bytes of room in an update, a     *)
(* "strict upper bound on bytes emitted in one call", and say that an      *)
(* encryptor's finalize writes exactly one block: no stream, however full  *)
(* its buffer and its held-back block, has more to hand over.              *)
DocumentedRoomSuffices ==
    [][kind.api = "c" =>
         IF phase' = "live"
         THEN Len(made') - Len(made) < Len(fed') - Len(fed) + BS
         ELSE IF kind.op = "enc" /\ phase' # "freed"
         THEN Len(made') - Len(made) = BS
         ELSE Len(made') - Len(made) < BS]_svars
=============================================================================
