------------------------------- MODULE Ghash -------------------------------
(***************************************************************************)
(* Multiplication in GF(2^128) modulo x^128 + x^7 + x^2 + x + 1            *)
(* (gmcrypto-simd ghash/): bit by bit in software, or from four carry-less *)
(* products of 64-bit halves, reduced afterwards.  A polynomial is the set *)
(* of its exponents; adding two is the symmetric difference.               *)
(***************************************************************************)
EXTENDS SboxLanes

Terms == 0..127
Plus(p, q) == With(p, LAMBDA a : With(q, LAMBDA b : (a \ b) \cup (b \ a)))
Moved(p, n) == {t + n : t \in p}

(* reverse_byte: halves, then pairs, then neighbours change places. *)
reverse_byte(byte) ==
    With((And(byte, \hf0) \div 16) + (And(byte, \h0f) * 16), LAMBDA b :
        With((And(b, \hcc) \div 4) + (And(b, \h33) * 4), LAMBDA c :
            (And(c, \haa) \div 2) + (And(c, \h55) * 2)))

(* load_natural and store_natural: bit i of the little-endian integer of   *)
(* the reversed bytes is the coefficient of x^i.                           *)
load_natural(bytes) ==
    With([k \in 1..BlockLen |-> reverse_byte(bytes[k])], LAMBDA buf :
        {t \in Terms : Bit(buf[(t \div 8) + 1], t % 8) = 1})
store_natural(p) ==
    LET bit(k, j) == IF 8 * (k - 1) + j \in p THEN 2^j ELSE 0
        byte(k) == bit(k, 0) + bit(k, 1) + bit(k, 2) + bit(k, 3)
                   + bit(k, 4) + bit(k, 5) + bit(k, 6) + bit(k, 7)
    IN  [k \in 1..BlockLen |-> reverse_byte(byte(k))]

(* ghash_mul_software. *)
Reduction == {0, 1, 2, 7}
TimesX(v) == Plus(Moved(v \ {127}, 1), IF 127 \in v THEN Reduction ELSE {})
ghash_mul_software(h, x) ==
    LET x_nat == load_natural(x)
        step(s, i) == [z |-> IF i \in x_nat THEN Plus(s.z, s.v) ELSE s.z, v |-> TimesX(s.v)]
    IN  store_natural(Loop(128, step, [z |-> {}, v |-> load_natural(h)]).z)

(* clmulepi64, vmull_p64: the carry-less product of two 64-bit halves. *)
Low(p) == p \cap 0..63
High(p) == {t - 64 : t \in p \cap 64..127}
CarrylessProduct(p, q) ==
    Loop(64, LAMBDA sum, i : IF i \in p THEN Plus(sum, Moved(q, i)) ELSE sum, {})

(* The positions of the two halves, from the top down: a term induced in   *)
(* the high half is met again at its own, lower index.                     *)
Folded(product) ==
    LET step(s, n) == LET i == 127 - n IN
                      IF i \in s.high
                      THEN [low |-> Plus(s.low, {i + r : r \in Reduction} \cap Terms),
                            high |-> Plus(s.high \ {i}, {i + r - 128 : r \in Reduction} \cap Terms)]
                      ELSE s
    IN  Loop(128, step, [low |-> product \cap Terms, high |-> {t - 128 : t \in product \ Terms}]).low

(* ghash_mul_clmul and ghash_mul_pmull. *)
ghash_mul_halves(h, x) ==
    With(load_natural(h), LAMBDA hn : With(load_natural(x), LAMBDA xn :
        LET t00 == CarrylessProduct(Low(hn), Low(xn))
            t01 == CarrylessProduct(Low(hn), High(xn))
            t10 == CarrylessProduct(High(hn), Low(xn))
            t11 == CarrylessProduct(High(hn), High(xn))
            product == Plus(Plus(t00, Moved(Plus(t01, t10), 64)), Moved(t11, 128))
        IN  With(product, LAMBDA p : store_natural(Folded(p)))))

ghash_mul(host, h, x) ==
    IF has_pclmulqdq(host) \/ has_pmull(host) THEN ghash_mul_halves(h, x) ELSE ghash_mul_software(h, x)
=============================================================================
