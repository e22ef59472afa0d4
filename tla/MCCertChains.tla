---------------------------- MODULE MCCertChains ----------------------------
(***************************************************************************)
(* Two root keys of one Name (a rollover), an intermediate "ca", and       *)
(* another organisation's "ca" that the verifier trusts as an anchor.      *)
(* Mallory is registered everywhere under its own Name, and with the other *)
(* organisation as "server".                                               *)
(***************************************************************************)
EXTENDS CertChains, TLC

CONSTANTS R1, R2, C1, C2, S1, S2, M

MCAuthority == R1 :> "root" @@ R2 :> "root" @@ C1 :> "ca" @@ C2 :> "ca"
MCRegistered ==
    R1 :> {<<"root", R1>>, <<"ca", C1>>, <<"server", S1>>, <<"mallory", M>>}
    @@ R2 :> {<<"ca", C1>>, <<"ca", C2>>}
    @@ C1 :> {<<"server", S1>>, <<"server", S2>>, <<"mallory", M>>}
    @@ C2 :> {<<"server", M>>}

Shape(ca, usage, until, odd) ==
    [ca |-> ca, usage |-> usage, from |-> 1, until |-> until, odd |-> odd]
CaShape == Shape(TRUE, {"keyCertSign"}, 2, FALSE)
MCShapesOf ==
    "root" :> {CaShape}
    @@ "ca" :> {CaShape, Shape(TRUE, {"keyCertSign"}, 1, FALSE),
                Shape(TRUE, {"keyCertSign"}, 2, TRUE)}
    @@ "server" :> {Shape(FALSE, {"digitalSignature"}, 2, FALSE),
                    Shape(FALSE, {"keyEncipherment"}, 2, FALSE)}
    @@ "mallory" :> {Shape(FALSE, {"keyCertSign", "digitalSignature"}, 2, FALSE),
                     Shape(TRUE, {}, 2, FALSE)}
MCClaims == {<<"server", "mallory">>, <<"server", "ca">>, <<"server", "root">>, <<"ca", "root">>}

Anchor(name, key, until) == Cert(name, key, name, key, Shape(TRUE, {}, until, FALSE))
MCAnchors == <<Anchor("root", R1, 1), Anchor("root", R2, 2), Anchor("ca", C2, 2)>>
=============================================================================
