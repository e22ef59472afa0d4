------------------------------ MODULE CbcRetry ------------------------------
(***************************************************************************)
(* A C caller that follows the section comment of gmcrypto-c's streaming   *)
(* CBC: "on too-small capacity we return GMCRYPTO_ERR and write the        *)
(* required length to *out_actual_len (caller-retry pattern)".  It tries   *)
(* a small buffer, and repeats a refused update with the required room.    *)
(***************************************************************************)
EXTENDS CbcStreams

VARIABLES
    asked,   \* the data of the caller's calls, a repeated one counted once
    again    \* the data of the refused call to repeat, or None

rvars == <<kind, phase, st, fed, made, missed, asked, again>>

RInit == SInit /\ kind.api = "c" /\ asked = <<>> /\ again = None

Refused(data) == IF missed' = missed THEN None ELSE data

FirstTry(data, cap) ==
    /\ again = None
    /\ CUpdate(data, <<cap, "ok">>)
    /\ asked' = asked \o data
    /\ again' = Refused(data)

Retry ==
    /\ again # None
    /\ Len(fed) + Len(again) <= MaxLen
    /\ CUpdate(again, <<Len(again) + BS, "ok">>)
    /\ again' = Refused(again)
    /\ UNCHANGED asked

End == again = None /\ CFinalize(<<BS, "ok">>) /\ UNCHANGED <<asked, again>>

RNext ==
    \/ \E data \in Chunks : \E cap \in {0, Len(data) + BS} : FirstTry(data, cap)
    \/ Retry
    \/ End

RSpec == RInit /\ [][RNext]_rvars

Handed == FoldLeftDomain(LAMBDA s, k : IF k \in missed THEN s ELSE Append(s, made[k]),
                         <<>>, made)

(* A stream that ends without a refused call left over has handed its      *)
(* caller what the single-shot function makes of the data asked for.       *)
RetryRecovers ==
    phase = "done" => Handed = IF kind.op = "enc" THEN Encrypt(asked) ELSE Decrypt(asked)
=============================================================================
