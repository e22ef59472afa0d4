---------------------------------- MODULE CAbi ----------------------------------
(***************************************************************************)
(* The C functions of gmcrypto-c: a function is the sequence of its steps, *)
(* in the code's order, and a call runs them until one refuses.  What a    *)
(* caller can see of a call is its return code, what became of its output  *)
(* buffers and of *out_actual_len, and which handles are allocated.  The   *)
(* bytes are left out, the cryptographic call in the middle is a step that *)
(* may refuse (or panic, which ffi_guard turns into the same return code). *)
(* The digest, CBC-streaming and key-exchange handles, whose calls depend  *)
(* on the handle's state, have modules of their own.                       *)
(***************************************************************************)
EXTENDS Integers, Sequences, FiniteSets

CONSTANTS
    MaxHandles,   \* bound: handles allocated at a time
    MaxLen        \* bound: length of a variable-length output, and of a buffer

ASSUME BoundsAssumption == MaxHandles \in Nat /\ MaxLen \in Nat

VARIABLES
    live,     \* for each type of handle, how many boxes are allocated
    held,     \* how many the caller owns, going by the headers
    call      \* the last call and what the caller sees of it, or Quiet

cvars == <<live, held, call>>

Kinds == {"sm4", "cbc_enc", "cbc_dec", "gcm_enc", "gcm_dec", "ccm_enc", "ccm_dec",
          "privkey", "pubkey", "x509", "keys_cbc", "keys_gcm"}

(***************************************************************************)
(* Steps.  The first group may refuse; the second never does; Write is     *)
(* write_output.                                                           *)
(***************************************************************************)
Handle(k) == <<"handle", k>>       \* a NULL handle is refused
Fixed == <<"fixed", "">>           \* try_slice of a fixed length: NULL is refused
Slice == <<"slice", "">>           \* try_slice: NULL is refused unless the length is 0
Output(n) == <<"output", n>>       \* an output of fixed length: NULL is refused
Callback == <<"callback", "">>     \* a NULL rng_callback is refused
Array(k) == <<"array", k>>         \* collect_cert_refs: a NULL element is refused
Core == <<"core", "">>             \* a check or a computation of gmcrypto-core
CoreOrZero == <<"core_or_zero", "">> \* the same; its refusal writes 0 to *out_actual_len

ZeroLen == <<"zero_len", "">>      \* *out_actual_len := 0 unless the pointer is NULL
Take(k) == <<"take", k>>           \* Box::from_raw: the call frees the handle
Put(n) == <<"put", n>>             \* copy into a fixed-length output
New(k) == <<"new", k>>             \* Box::into_raw, returned to the caller
Store(k) == <<"store", k>>         \* Box::into_raw, written to *out_key

Write == <<"write", "">>

Refusable == {"handle", "fixed", "slice", "output", "callback", "array", "core", "core_or_zero"}

-----------------------------------------------------------------------------
(* SM3, HMAC-SM3, PBKDF2, SM4 and SM4-CBC single shots. *)
sm3_hash == <<Slice, Output("digest"), Put("digest")>>
hmac_sm3 == <<Slice, Slice, Output("tag"), Put("tag")>>
pbkdf2_hmac_sm3 == <<Slice, Slice, Output("key"), Core, Put("key")>>
sm4_new == <<Fixed, New("sm4")>>
sm4_encrypt_block == <<Handle("sm4"), Output("block"), Put("block")>>
sm4_decrypt_block == <<Handle("sm4"), Output("block"), Put("block")>>
sm4_free == <<Handle("sm4"), Take("sm4")>>
sm4_cbc_encrypt == <<Fixed, Fixed, Slice, Write>>
sm4_cbc_decrypt == <<Fixed, Fixed, Slice, Core, Write>>
sm4_cbc_encryptor_new == <<Fixed, Fixed, New("cbc_enc")>>
sm4_cbc_encryptor_free == <<Handle("cbc_enc"), Take("cbc_enc")>>
sm4_cbc_decryptor_new == <<Fixed, Fixed, New("cbc_dec")>>
sm4_cbc_decryptor_free == <<Handle("cbc_dec"), Take("cbc_dec")>>

(* The CBC streaming calls, for their outputs and the ownership of their   *)
(* handles; CbcStreams and CbcRetry have what they compute.                *)
sm4_cbc_encryptor_update == <<Handle("cbc_enc"), Slice, Write>>
sm4_cbc_encryptor_finalize == <<Handle("cbc_enc"), Take("cbc_enc"), Write>>
sm4_cbc_decryptor_update == <<Handle("cbc_dec"), Slice, Write>>
sm4_cbc_decryptor_finalize == <<Handle("cbc_dec"), Take("cbc_dec"), CoreOrZero, Write>>

(* SM4-GCM, SM4-CCM and SM4-XTS single shots. *)
sm4_gcm_encrypt == <<Fixed, Slice, Slice, Slice, Output("tag"), Core, Write, Put("tag")>>

(* Mutant: the tag is copied out before the ciphertext is known to fit. *)
TagBeforeCiphertext ==
    <<Core, Fixed, Slice, Slice, Slice, Output("tag"), Core, Put("tag"), Write>>
sm4_gcm_encrypt_with_tag_len ==
    <<Core, Fixed, Slice, Slice, Slice, Output("tag"), Core, Write, Put("tag")>>

sm4_gcm_decrypt == <<Fixed, Slice, Slice, Slice, Fixed, Core, Write>>
sm4_gcm_decrypt_with_tag_len == <<Fixed, Slice, Slice, Slice, Slice, Core, Write>>
sm4_ccm_encrypt == <<Fixed, Slice, Slice, Slice, Core, Write>>
sm4_ccm_decrypt == <<Fixed, Slice, Slice, Slice, Core, Write>>
sm4_xts_encrypt == <<Fixed, Fixed, Slice, Core, Write>>
sm4_xts_decrypt == <<Fixed, Fixed, Slice, Core, Write>>
sm4_xts_encrypt_sectors == <<Fixed, Output("buf"), Core, Put("buf")>>
sm4_xts_decrypt_sectors == <<Fixed, Output("buf"), Core, Put("buf")>>

(* SM4-GCM streaming handles. *)
sm4_gcm_encryptor_new == <<Fixed, Slice, Slice, New("gcm_enc")>>
sm4_gcm_encryptor_update == <<Handle("gcm_enc"), Slice, Core, Write>>
sm4_gcm_encryptor_finalize ==
    <<Handle("gcm_enc"), Take("gcm_enc"), Output("tag"), Put("tag")>>
sm4_gcm_encryptor_finalize_with_tag_len ==
    <<Handle("gcm_enc"), Take("gcm_enc"), Core, Write>>
sm4_gcm_encryptor_free == <<Handle("gcm_enc"), Take("gcm_enc")>>
sm4_gcm_decryptor_new == <<Fixed, Slice, Slice, New("gcm_dec")>>
sm4_gcm_decryptor_update == <<Handle("gcm_dec"), Slice>>
sm4_gcm_decryptor_finalize_verify ==
    <<Handle("gcm_dec"), ZeroLen, Take("gcm_dec"), Slice, Core, Write>>
sm4_gcm_decryptor_free == <<Handle("gcm_dec"), Take("gcm_dec")>>

(* SM4-CCM streaming handles. *)
sm4_ccm_encryptor_new == <<Fixed, Slice, Slice, Core, New("ccm_enc")>>
sm4_ccm_encryptor_update == <<Handle("ccm_enc"), Slice, CoreOrZero, Write>>
sm4_ccm_encryptor_finalize ==
    <<Handle("ccm_enc"), ZeroLen, Take("ccm_enc"), Core, Write>>
sm4_ccm_encryptor_free == <<Handle("ccm_enc"), Take("ccm_enc")>>
sm4_ccm_decryptor_new == <<Fixed, Slice, Slice, Core, New("ccm_dec")>>
sm4_ccm_decryptor_update == <<Handle("ccm_dec"), Slice>>

(* Mutant: the tag's pointer is looked at before the box is reclaimed. *)
LateTake == <<Handle("ccm_dec"), ZeroLen, Slice, Take("ccm_dec"), Core, Write>>
sm4_ccm_decryptor_finalize_verify ==
    <<Handle("ccm_dec"), ZeroLen, Take("ccm_dec"), Slice, Core, Write>>
sm4_ccm_decryptor_free == <<Handle("ccm_dec"), Take("ccm_dec")>>

(* SM2 keys. *)
sm2_privkey_new == <<Fixed, Core, New("privkey")>>
sm2_pubkey_new == <<Fixed, Core, New("pubkey")>>
sm2_privkey_to_sec1_be == <<Handle("privkey"), Output("scalar"), Put("scalar")>>
sm2_pubkey_to_sec1_uncompressed == <<Handle("pubkey"), Output("point"), Put("point")>>
sm2_privkey_free == <<Handle("privkey"), Take("privkey")>>
sm2_pubkey_free == <<Handle("pubkey"), Take("pubkey")>>
sm2_privkey_to_pkcs8 == <<Handle("privkey"), Slice, Core, Core, Core, Write>>
sm2_privkey_from_pkcs8 == <<Output("out_key"), Slice, Slice, Core, Core, Core, Store("privkey")>>

(* SM2 operations.  An empty signer id is the default one, so the id is a  *)
(* Slice like the message.                                                 *)
signer_id_or_default == Slice
sm2_sign == <<Handle("privkey"), Slice, Slice, Core, Write>>
sm2_verify == <<Handle("pubkey"), Slice, Slice, Slice, Core>>
sm2_encrypt == <<Handle("pubkey"), Slice, Core, Write>>
sm2_decrypt == <<Handle("privkey"), Slice, Core, Write>>
sm2_encrypt_c1c3c2 == <<Handle("pubkey"), Slice, Core, Core, Write>>
sm2_decrypt_c1c3c2 == <<Handle("privkey"), Slice, Core, Core, Write>>
sm2_decrypt_c1c2c3_legacy == <<Handle("privkey"), Slice, Core, Core, Write>>
sm2_sign_with_rng == <<Handle("privkey"), Callback, Slice, Slice, Core, Write>>
sm2_encrypt_with_rng == <<Handle("pubkey"), Callback, Slice, Core, Write>>

(* X.509 certificates. *)
x509_certificate_from_der == <<Slice, Core, New("x509")>>
x509_certificate_free == <<Handle("x509"), Take("x509")>>
x509_copy_out == <<Handle("x509"), Write>>
x509_certificate_tbs_raw == x509_copy_out
x509_certificate_serial_raw == x509_copy_out
x509_certificate_issuer_raw == x509_copy_out
x509_certificate_subject_raw == x509_copy_out
x509_certificate_extensions_raw == x509_copy_out
x509_certificate_verify_signature_with_id ==
    <<Handle("x509"), Handle("pubkey"), signer_id_or_default, Core>>
x509_certificate_verify_signature == x509_certificate_verify_signature_with_id
x509_write_time == <<Handle("x509"), Output("time"), Put("time")>>
x509_certificate_not_before == x509_write_time
x509_certificate_not_after == x509_write_time
x509_certificate_is_self_issued ==
    <<Handle("x509"), Output("is_self_issued"), Put("is_self_issued")>>
x509_certificate_subject_public_key == <<Handle("x509"), New("pubkey")>>
x509_certificate_key_usage ==
    <<Handle("x509"), Output("present"), Output("bits"), Put("present"), Put("bits")>>
x509_certificate_basic_constraints ==
    <<Handle("x509"), Output("present"), Output("is_ca"), Output("has_path_len"), Output("path_len"),
      Put("present"), Put("is_ca"), Put("has_path_len"), Put("path_len")>>
collect_cert_refs == Array("x509")
x509_verify_chain == <<Output("verified"), collect_cert_refs, collect_cert_refs, Put("verified")>>
tlcp_verify_pair ==
    <<Output("verified"), collect_cert_refs, collect_cert_refs, collect_cert_refs, Put("verified")>>

(* TLCP.  A role that is neither 0 nor 1 is refused by tlcp_role. *)
tlcp_role == Core
tlcp_derive_master_secret == <<Fixed, Fixed, Fixed, Output("secret"), Put("secret")>>
tlcp_derive_key_block == <<Fixed, Fixed, Fixed, Output("block"), Put("block")>>
tlcp_finished_verify_data ==
    <<tlcp_role, Fixed, Fixed, Output("verify_data"), Put("verify_data")>>
tlcp_record_keys_cbc_new == <<tlcp_role, Fixed, New("keys_cbc")>>
tlcp_record_keys_cbc_free == <<Handle("keys_cbc"), Take("keys_cbc")>>
tlcp_record_keys_gcm_new == <<tlcp_role, Fixed, New("keys_gcm")>>
tlcp_record_keys_gcm_free == <<Handle("keys_gcm"), Take("keys_gcm")>>
tlcp_protect_cbc_impl == <<Handle("keys_cbc"), Fixed, Slice, Core, Write>>
tlcp_protect_cbc == tlcp_protect_cbc_impl
tlcp_protect_cbc_with_rng == <<Callback>> \o tlcp_protect_cbc_impl
tlcp_deprotect_cbc == <<Handle("keys_cbc"), Fixed, Slice, Core, Write>>
tlcp_protect_gcm == <<Handle("keys_gcm"), Fixed, Slice, Core, Write>>
tlcp_deprotect_gcm == <<Handle("keys_gcm"), Fixed, Slice, Core, Write>>

-----------------------------------------------------------------------------
Calls ==
    [ sm3_hash |-> sm3_hash, hmac_sm3 |-> hmac_sm3, pbkdf2_hmac_sm3 |-> pbkdf2_hmac_sm3,
      sm4_new |-> sm4_new, sm4_encrypt_block |-> sm4_encrypt_block,
      sm4_decrypt_block |-> sm4_decrypt_block, sm4_free |-> sm4_free,
      sm4_cbc_encrypt |-> sm4_cbc_encrypt, sm4_cbc_decrypt |-> sm4_cbc_decrypt,
      sm4_cbc_encryptor_new |-> sm4_cbc_encryptor_new,
      sm4_cbc_encryptor_free |-> sm4_cbc_encryptor_free,
      sm4_cbc_decryptor_new |-> sm4_cbc_decryptor_new,
      sm4_cbc_decryptor_free |-> sm4_cbc_decryptor_free,
      sm4_cbc_encryptor_update |-> sm4_cbc_encryptor_update,
      sm4_cbc_encryptor_finalize |-> sm4_cbc_encryptor_finalize,
      sm4_cbc_decryptor_update |-> sm4_cbc_decryptor_update,
      sm4_cbc_decryptor_finalize |-> sm4_cbc_decryptor_finalize,
      sm4_gcm_encrypt |-> sm4_gcm_encrypt,
      sm4_gcm_encrypt_with_tag_len |-> sm4_gcm_encrypt_with_tag_len,
      sm4_gcm_decrypt |-> sm4_gcm_decrypt,
      sm4_gcm_decrypt_with_tag_len |-> sm4_gcm_decrypt_with_tag_len,
      sm4_ccm_encrypt |-> sm4_ccm_encrypt, sm4_ccm_decrypt |-> sm4_ccm_decrypt,
      sm4_xts_encrypt |-> sm4_xts_encrypt, sm4_xts_decrypt |-> sm4_xts_decrypt,
      sm4_xts_encrypt_sectors |-> sm4_xts_encrypt_sectors,
      sm4_xts_decrypt_sectors |-> sm4_xts_decrypt_sectors,
      sm4_gcm_encryptor_new |-> sm4_gcm_encryptor_new,
      sm4_gcm_encryptor_update |-> sm4_gcm_encryptor_update,
      sm4_gcm_encryptor_finalize |-> sm4_gcm_encryptor_finalize,
      sm4_gcm_encryptor_finalize_with_tag_len |-> sm4_gcm_encryptor_finalize_with_tag_len,
      sm4_gcm_encryptor_free |-> sm4_gcm_encryptor_free,
      sm4_gcm_decryptor_new |-> sm4_gcm_decryptor_new,
      sm4_gcm_decryptor_update |-> sm4_gcm_decryptor_update,
      sm4_gcm_decryptor_finalize_verify |-> sm4_gcm_decryptor_finalize_verify,
      sm4_gcm_decryptor_free |-> sm4_gcm_decryptor_free,
      sm4_ccm_encryptor_new |-> sm4_ccm_encryptor_new,
      sm4_ccm_encryptor_update |-> sm4_ccm_encryptor_update,
      sm4_ccm_encryptor_finalize |-> sm4_ccm_encryptor_finalize,
      sm4_ccm_encryptor_free |-> sm4_ccm_encryptor_free,
      sm4_ccm_decryptor_new |-> sm4_ccm_decryptor_new,
      sm4_ccm_decryptor_update |-> sm4_ccm_decryptor_update,
      sm4_ccm_decryptor_finalize_verify |-> sm4_ccm_decryptor_finalize_verify,
      sm4_ccm_decryptor_free |-> sm4_ccm_decryptor_free, sm2_privkey_new |-> sm2_privkey_new,
      sm2_pubkey_new |-> sm2_pubkey_new, sm2_privkey_to_sec1_be |-> sm2_privkey_to_sec1_be,
      sm2_pubkey_to_sec1_uncompressed |-> sm2_pubkey_to_sec1_uncompressed,
      sm2_privkey_free |-> sm2_privkey_free, sm2_pubkey_free |-> sm2_pubkey_free,
      sm2_privkey_to_pkcs8 |-> sm2_privkey_to_pkcs8,
      sm2_privkey_from_pkcs8 |-> sm2_privkey_from_pkcs8, sm2_sign |-> sm2_sign,
      sm2_verify |-> sm2_verify, sm2_encrypt |-> sm2_encrypt, sm2_decrypt |-> sm2_decrypt,
      sm2_encrypt_c1c3c2 |-> sm2_encrypt_c1c3c2, sm2_decrypt_c1c3c2 |-> sm2_decrypt_c1c3c2,
      sm2_decrypt_c1c2c3_legacy |-> sm2_decrypt_c1c2c3_legacy,
      sm2_sign_with_rng |-> sm2_sign_with_rng, sm2_encrypt_with_rng |-> sm2_encrypt_with_rng,
      x509_certificate_from_der |-> x509_certificate_from_der,
      x509_certificate_free |-> x509_certificate_free,
      x509_certificate_tbs_raw |-> x509_certificate_tbs_raw,
      x509_certificate_serial_raw |-> x509_certificate_serial_raw,
      x509_certificate_issuer_raw |-> x509_certificate_issuer_raw,
      x509_certificate_subject_raw |-> x509_certificate_subject_raw,
      x509_certificate_extensions_raw |-> x509_certificate_extensions_raw,
      x509_certificate_verify_signature_with_id |-> x509_certificate_verify_signature_with_id,
      x509_certificate_verify_signature |-> x509_certificate_verify_signature,
      x509_certificate_not_before |-> x509_certificate_not_before,
      x509_certificate_not_after |-> x509_certificate_not_after,
      x509_certificate_is_self_issued |-> x509_certificate_is_self_issued,
      x509_certificate_subject_public_key |-> x509_certificate_subject_public_key,
      x509_certificate_key_usage |-> x509_certificate_key_usage,
      x509_certificate_basic_constraints |-> x509_certificate_basic_constraints,
      x509_verify_chain |-> x509_verify_chain, tlcp_verify_pair |-> tlcp_verify_pair,
      tlcp_derive_master_secret |-> tlcp_derive_master_secret,
      tlcp_derive_key_block |-> tlcp_derive_key_block,
      tlcp_finished_verify_data |-> tlcp_finished_verify_data,
      tlcp_record_keys_cbc_new |-> tlcp_record_keys_cbc_new,
      tlcp_record_keys_cbc_free |-> tlcp_record_keys_cbc_free,
      tlcp_record_keys_gcm_new |-> tlcp_record_keys_gcm_new,
      tlcp_record_keys_gcm_free |-> tlcp_record_keys_gcm_free,
      tlcp_protect_cbc |-> tlcp_protect_cbc,
      tlcp_protect_cbc_with_rng |-> tlcp_protect_cbc_with_rng,
      tlcp_deprotect_cbc |-> tlcp_deprotect_cbc, tlcp_protect_gcm |-> tlcp_protect_gcm,
      tlcp_deprotect_gcm |-> tlcp_deprotect_gcm ]

Functions == DOMAIN Calls

(* "The handle is freed by this call", "consumes the encryptor (even on    *)
(* error)": the functions whose headers take the handle from the caller.   *)
Freeing ==
    { "sm4_free", "sm2_privkey_free", "sm2_pubkey_free", "x509_certificate_free",
      "tlcp_record_keys_cbc_free", "tlcp_record_keys_gcm_free",
      "sm4_cbc_encryptor_finalize", "sm4_cbc_encryptor_free",
      "sm4_cbc_decryptor_finalize", "sm4_cbc_decryptor_free",
      "sm4_gcm_encryptor_finalize", "sm4_gcm_encryptor_finalize_with_tag_len",
      "sm4_gcm_encryptor_free", "sm4_gcm_decryptor_finalize_verify", "sm4_gcm_decryptor_free",
      "sm4_ccm_encryptor_finalize", "sm4_ccm_encryptor_free",
      "sm4_ccm_decryptor_finalize_verify", "sm4_ccm_decryptor_free" }

(* A repetition of these with the same arguments computes the same output: *)
(* they change no handle and draw nothing at random.                       *)
Repeatable ==
    { "sm4_cbc_encrypt", "sm4_cbc_decrypt", "sm4_gcm_encrypt", "sm4_gcm_decrypt",
      "sm4_gcm_encrypt_with_tag_len", "sm4_gcm_decrypt_with_tag_len", "sm4_ccm_encrypt",
      "sm4_ccm_decrypt", "sm4_xts_encrypt", "sm4_xts_decrypt", "sm2_decrypt",
      "sm2_decrypt_c1c3c2", "sm2_decrypt_c1c2c3_legacy", "tlcp_deprotect_cbc",
      "tlcp_protect_gcm", "tlcp_deprotect_gcm", "x509_certificate_tbs_raw",
      "x509_certificate_serial_raw", "x509_certificate_issuer_raw",
      "x509_certificate_subject_raw", "x509_certificate_extensions_raw" }

-----------------------------------------------------------------------------
(***************************************************************************)
(* A call.  room is the output triple the caller passes: whether           *)
(* out_actual_len and out are non-NULL, and the capacity.  The call gets   *)
(* as far as step "at": the step that refuses, or one past the last.       *)
(***************************************************************************)
Rooms == [cell : BOOLEAN, out : BOOLEAN, cap : 0..MaxLen]
NoRoom == [cell |-> FALSE, out |-> FALSE, cap |-> 0]
Stale == MaxLen + 1       \* what an earlier call left in *out_actual_len
Quiet == [fn |-> "quiet"]
Called == call.fn # "quiet"

HasWrite(f) == \E i \in DOMAIN Calls[f] : Calls[f][i] = Write

(* Mutant: the room is compared with one byte less than is needed. *)
LooseFits(need, room) == room.cell /\ need <= room.cap + 1 /\ (need = 0 \/ room.out)

(* write_output: a NULL out is only refused when there is something to     *)
(* copy.                                                                   *)
Fits(need, room) == room.cell /\ need <= room.cap /\ (need = 0 \/ room.out)

Ends(f, need, room) ==
    LET s == Calls[f]
    IN  {at \in 1..Len(s) + 1 :
           /\ at \in DOMAIN s => \/ s[at][1] \in Refusable
                                 \/ s[at] = Write /\ ~Fits(need, room)
           /\ \A j \in 1..at - 1 : s[j] = Write => Fits(need, room)}

Done(c) == {Calls[c.fn][j] : j \in 1..c.at - 1}
AtStep(c, step) == c.at \in DOMAIN Calls[c.fn] /\ Calls[c.fn][c.at] = step

Ret(c) == IF c.at \in DOMAIN Calls[c.fn] THEN "ERR" ELSE "OK"

(* Mutant: the needed length is only written when it fits. *)
CellWhenFits(c) ==
    IF ~c.room.cell THEN c.before
    ELSE IF Write \in Done(c) THEN c.need
    ELSE IF ZeroLen \in Done(c) \/ AtStep(c, CoreOrZero) THEN 0
    ELSE c.before

(* *out_actual_len after the call. *)
Cell(c) ==
    IF ~c.room.cell THEN c.before
    ELSE IF Write \in Done(c) \/ AtStep(c, Write) THEN c.need
    ELSE IF ZeroLen \in Done(c) \/ AtStep(c, CoreOrZero) THEN 0
    ELSE c.before

(* The outputs a call has written, "out" the variable-length one. *)
Wrote(c) == {d[2] : d \in {s \in Done(c) : s[1] = "put"}}
            \cup (IF \E d \in Done(c) : d[1] = "store" THEN {"out_key"} ELSE {})
            \cup (IF Write \in Done(c) /\ c.need > 0 THEN {"out"} ELSE {})

TooSmall(c) == AtStep(c, Write) /\ c.room.cell /\ c.need > c.room.cap

(* What the steps done do to the handles of a type, in the allocator and   *)
(* by the headers.                                                         *)
Taken(done, k) == IF Take(k) \in done THEN 1 ELSE 0
Made(done, k) == IF New(k) \in done \/ Store(k) \in done THEN 1 ELSE 0
Given(f, done, k) == IF f \in Freeing /\ Handle(k) \in done THEN 1 ELSE 0

-----------------------------------------------------------------------------
CInit ==
    /\ live = [k \in Kinds |-> 0]
    /\ held = [k \in Kinds |-> 0]
    /\ call = Quiet

Allocated == Cardinality({b \in Kinds \X (1..MaxHandles) : b[2] <= live[b[1]]})

(* Types of handle that some function takes together.  A bound: the caller *)
(* holds handles of one family at a time; calls on different families      *)
(* share nothing, and a function without handles is called with none held. *)
Families == {{"privkey", "pubkey", "x509"}} \cup {{k} : k \in Kinds \ {"privkey", "pubkey", "x509"}}

Concerns == [f \in Functions |->
    {k \in Kinds : \E i \in DOMAIN Calls[f] : Calls[f][i] \in {Handle(k), New(k), Store(k), Array(k)}}]

InFamily(f) ==
    LET holding == {k \in Kinds : held[k] > 0}
    IN  IF Concerns[f] = {} THEN holding = {}
        ELSE \E family \in Families : holding \cup Concerns[f] \subseteq family

(* A call with any arguments; a handle it does not hold the caller passes  *)
(* as NULL.                                                                *)
CCall(f, before, need, room) ==
    /\ \E at \in Ends(f, need, room) :
         LET c == [fn |-> f, at |-> at, before |-> before, need |-> need, room |-> room,
                   again |-> FALSE]
             done == Done(c)
         IN  /\ \A d \in done : d[1] = "handle" => held[d[2]] > 0
             /\ (\E d \in done : d[1] \in {"new", "store"}) => Allocated < MaxHandles
             /\ call' = c
             /\ live' = [k \in Kinds |-> live[k] - Taken(done, k) + Made(done, k)]
             /\ held' = [k \in Kinds |-> held[k] - Given(f, done, k) + Made(done, k)]

(* The caller tries again with as much room as *out_actual_len asks for.   *)
CRetry ==
    /\ Called /\ TooSmall(call) /\ call.fn \in Repeatable /\ ~call.again
    /\ \E at \in Ends(call.fn, call.need, [cell |-> TRUE, out |-> TRUE, cap |-> Cell(call)]) :
         /\ at >= call.at
         /\ call' = [call EXCEPT !.at = at, !.again = TRUE,
                       !.room = [cell |-> TRUE, out |-> TRUE, cap |-> Cell(call)]]
    /\ UNCHANGED <<live, held>>

CQuiet == Called /\ call' = Quiet /\ UNCHANGED <<live, held>>

CNext ==
    \/ ~Called /\ \E f \in {g \in Functions : InFamily(g)} :
         IF HasWrite(f) THEN \E before \in {0, Stale}, need \in 0..MaxLen, room \in Rooms :
                               CCall(f, before, need, room)
                        ELSE CCall(f, 0, 0, NoRoom)
    \/ CRetry
    \/ CQuiet

CSpec == CInit /\ [][CNext]_cvars

(***************************************************************************)
(* Properties                                                              *)
(***************************************************************************)
(* A refused call leaves every output as it was, the fixed ones, the       *)
(* variable one and *out_key ("do not modify out_ptr"; "buf is untouched   *)
(* on GMCRYPTO_ERR"); an accepted one has written all of them, and within  *)
(* the capacity.                                                           *)
AllOrNothing ==
    Called =>
        /\ Ret(call) = "ERR" => Wrote(call) = {}
        /\ Ret(call) = "OK" =>
             /\ {d[2] : d \in {s \in Done(call) : s[1] = "output"}} \subseteq Wrote(call)
             /\ HasWrite(call.fn) => Cell(call) = call.need /\ call.need <= call.room.cap
             /\ HasWrite(call.fn) /\ call.need > 0 => "out" \in Wrote(call) /\ call.room.out

(* A caller that starts with 0 in *out_actual_len can tell a short buffer  *)
(* from every other failure by comparing the two (README, "too-small       *)
(* buffer; `actual` carries the required length"); the finalizers that     *)
(* write 0 up front spare it the start with 0; and a repetition with the   *)
(* room asked for succeeds, where the function computes the same again.    *)
RoomTold ==
    Called /\ call.room.cell =>
        /\ Ret(call) = "ERR" /\ (call.before = 0 \/ ZeroLen \in Done(call)) =>
             (Cell(call) > call.room.cap <=> TooSmall(call))
        /\ call.again => Ret(call) = "OK"

(* On every path of every function, error paths included, what is          *)
(* allocated is what the headers say the caller owns: nothing leaks, and   *)
(* no call reaches a freed box or frees one twice.                         *)
HandlesAgree == live = held
=============================================================================
