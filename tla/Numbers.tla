------------------------------ MODULE Numbers ------------------------------
(* The long numbers of RSA and X25519 (kernel/bignum.h) and the modular arithmetic of the
   elliptic curves (the Montgomery half of kernel/ecc.h): arrays of limbs, with the carries
   and the widths of the code, against what the operations mean on integers.

   A limb has W bits and not 32, a byte W \div Bytes; a bignum has L limbs and not 130, an
   element of a field K limbs and not 8 or 12.  A call is a step, but for the
   loops over the bits of a number, of which each bit is one. *)
EXTENDS Integers

CONSTANTS
  W, Bytes,       (* bits of a limb, bytes of a limb *)
  L, K,           (* limbs of a bignum, of a field element *)
  Newton,         (* iterations of ecc_neg_inv32: 5 for 32 bits *)
  Moduli, Field,  (* moduli of RSA; odd moduli of the curves, the primes among them *)
  Primes, Values, Exponents

VARIABLES call, loop

ConstantsOK ==
  /\ {W, Bytes, L, K, Newton} \subseteq Nat \ {0} /\ W % Bytes = 0
  /\ \A m \in Moduli : m \in 2 .. 2^(W * (L - 1)) - 1        (* room for the guard limb *)
  /\ \A m \in Field : m % 2 = 1 /\ m \in 3 .. 2^(W * K) - 1
  /\ Primes \subseteq Field /\ Values \subseteq 0 .. 2^(W * L) - 1 /\ Exponents \subseteq Nat

(* A number is the integer of its limbs. *)
B == 2^W
Limb(a, i) == (a \div B^i) % B
Bit(a, i) == (a \div 2^i) % 2
Top(S) == CHOOSE x \in S : \A y \in S : x >= y
(* What the limbs d(0), d(1), ... become once each has passed its carry on, and the carry
   out of the last: an accumulator is two limbs wide, as u64 is. *)
Carried(d(_), n) ==
  LET c[i \in 0..n] ==
        IF i = 0 THEN <<0, 0>>
        ELSE LET p == c[i-1]  s == (d(i-1) + p[2]) % (B*B) IN <<p[1] + (s % B) * B^(i-1), s \div B>>
  IN c[n]
(* Subtraction limb by limb, and the borrow out of the last. *)
Lowered(a, b, n) ==
  LET c[i \in 0..n] ==
        IF i = 0 THEN <<0, 0>>
        ELSE LET p == c[i-1]  d == Limb(a, i-1) - Limb(b, i-1) - p[2]
             IN <<p[1] + (d % B) * B^(i-1), IF d < 0 THEN 1 ELSE 0>>
  IN c[n]

----------------------------------------------------------------------------
(* bignum.h.  The bytes of a number are big-endian; what does not fit is dropped. *)
Byte == 2^(W \div Bytes)
bn_from_bytes_be(data, len) ==
  LET at(i) == len - 1 - i
      sum[k \in 0..len] == IF k = 0 THEN 0
                           ELSE sum[k-1] + (IF (k-1) \div Bytes < L THEN data[at(k-1)] * Byte^(k-1) ELSE 0)
  IN sum[len]
bn_to_bytes_be(a, len) ==
  [i \in 0..len-1 |-> LET at == len - 1 - i IN IF at \div Bytes < L THEN (a \div Byte^at) % Byte ELSE 0]

bn_used_limbs(a) == Top({0} \cup {i \in 1..L : Limb(a, i-1) # 0})
bn_bit_length(a) ==
  LET used == bn_used_limbs(a)
  IN IF used = 0 THEN 0 ELSE (used - 1) * W + Top({b \in 0..W-1 : Bit(Limb(a, used-1), b) = 1}) + 1
bn_wide_bit_length(wide) == Top({-1} \cup {i \in 0 .. 2*L*W - 1 : Bit(wide, i) = 1})
bn_cmp(a, b) ==
  LET differ == {i \in 0..L-1 : Limb(a, i) # Limb(b, i)}
  IN IF differ = {} THEN 0 ELSE IF Limb(a, Top(differ)) < Limb(b, Top(differ)) THEN -1 ELSE 1

bn_add(a, b) == Carried(LAMBDA i : Limb(a, i) + Limb(b, i), L)[1]
bn_sub(a, b) == Lowered(a, b, L)[1]      (* its callers see to it that a >= b *)

(* t + x * (a moved up by i limbs): the inner loop of a multiplication and the carry after it. *)
AddRow(t, x, a, i, n) == Carried(LAMBDA k : Limb(t, k) + (IF k < i THEN 0 ELSE x * Limb(a, k - i)), n)[1]
bn_mul_wide(a, b) ==
  LET row[i \in 0..L] == IF i = 0 THEN 0 ELSE AddRow(row[i-1], Limb(a, i-1), b, i - 1, 2*L) IN row[L]

(* One bit of the long division: the remainder moves up within the limbs of mod and the
   guard limb, takes the bit, and mod goes away once if it fits. *)
WorkLimbsNoGuard(mod) == bn_used_limbs(mod)
WorkLimbs(mod) == IF bn_used_limbs(mod) + 1 > L THEN L ELSE bn_used_limbs(mod) + 1
ShiftIn(rem, bit, mod) ==
  LET width == B^WorkLimbs(mod)
      up == ((rem \div width) * width) + ((2 * (rem % width) + bit) % width)
  IN IF bn_cmp(up, mod) >= 0 THEN bn_sub(up, mod) ELSE up
bn_mod_wide(wide, mod) ==
  LET top == bn_wide_bit_length(wide)
      rem[k \in 0..top+1] == IF k = 0 THEN 0 ELSE ShiftIn(rem[k-1], Bit(wide, top + 1 - k), mod)
  IN rem[top + 1]
bn_mulmod(a, b, m) == bn_mod_wide(bn_mul_wide(a, b), m)
bn_addmod(a, b, m) ==
  LET sum == bn_add(a, b) IN IF bn_cmp(sum, m) >= 0 THEN bn_sub(sum, m) ELSE sum
bn_submod(a, b, m) == IF bn_cmp(a, b) >= 0 THEN bn_sub(a, b) ELSE bn_sub(m, bn_sub(b, a))

(* One bit of square and multiply. *)
TimesReversed(acc, bit, b, m) ==
  LET p == IF bit = 1 THEN bn_mulmod(acc, b, m) ELSE acc IN bn_mulmod(p, p, m)
Times(acc, bit, b, m) ==
  LET sq == bn_mulmod(acc, acc, m) IN IF bit = 1 THEN bn_mulmod(sq, b, m) ELSE sq
Reduced(base, m) == IF bn_cmp(base, m) >= 0 THEN bn_mod_wide(base, m) ELSE base

----------------------------------------------------------------------------
(* ecc.h: fields with K limbs and no guard limb; a modulus may use its top bit. *)
ecc_add_raw(a, b) == Carried(LAMBDA i : Limb(a, i) + Limb(b, i), K)
ecc_sub_raw(a, b) == Lowered(a, b, K)
ecc_ma(m, a, b) ==
  LET t == ecc_add_raw(a, b)  u == ecc_sub_raw(t[1], m) IN IF t[2] = 1 \/ u[2] = 0 THEN u[1] ELSE t[1]
ecc_ms(m, a, b) ==
  LET t == ecc_sub_raw(a, b) IN IF t[2] = 1 THEN ecc_add_raw(t[1], m)[1] ELSE t[1]

(* -m0^-1 mod 2^W by Newton's iteration. *)
ecc_neg_inv32(m0) ==
  LET x[i \in 0..Newton] == IF i = 0 THEN m0 ELSE LET y == x[i-1] IN (y * (2 - m0 * y)) % B
  IN (-x[Newton]) % B

(* CIOS: for each limb of b add its row, then the multiple of m that clears the lowest limb,
   and drop that limb.  One subtraction at the end, for which the carry limb counts. *)
FitsWithoutCarry(t, m) == ecc_sub_raw(t % B^K, m)[2] = 0
Fits(t, m) == Limb(t, K) # 0 \/ ecc_sub_raw(t % B^K, m)[2] = 0
ecc_mm(m, m0, a, b) ==
  LET round(t, x) ==
        LET s == AddRow(t, x, a, 0, K + 2) IN AddRow(s, (s * m0) % B, m, 0, K + 2) \div B
      rounds[i \in 0..K] == IF i = 0 THEN 0 ELSE round(rounds[i-1], Limb(b, i-1))
      t == rounds[K]
  IN IF Fits(t, m) THEN ecc_sub_raw(t % B^K, m)[1] ELSE t

ecc_to_mont(m, m0, a, rr) == ecc_mm(m, m0, a, rr)
ecc_from_mont(m, m0, a) == ecc_mm(m, m0, a, 1)
(* One bit of Fermat's power. *)
MontTimes(m, m0, acc, bit, a) ==
  LET sq == ecc_mm(m, m0, acc, acc) IN IF bit = 1 THEN ecc_mm(m, m0, sq, a) ELSE sq

----------------------------------------------------------------------------
(* Every call a caller makes: RSA's numbers are any for the base and below the modulus
   elsewhere; the elements of a field are below it. *)
Calls ==
  {[op |-> o, a |-> a, b |-> b, m |-> m] : o \in {"mulmod", "addmod", "submod", "mm", "ma", "ms"},
                                           a \in Values, b \in Values, m \in Moduli \cup Field}
  \cup {[op |-> "modpow", a |-> a, b |-> e, m |-> m] : a \in Values, e \in Exponents, m \in Moduli}
  \cup {[op |-> o, a |-> a, b |-> 0, m |-> m] : o \in {"mont", "minv"}, a \in Values, m \in Field}
  \cup {[op |-> "bytes", a |-> a, b |-> n, m |-> 0] : a \in Values, n \in 1 .. (L + 1) * Bytes}
Made(c) ==
  CASE c.op \in {"addmod", "submod"} -> c.m \in Moduli /\ c.a < c.m /\ c.b < c.m
    [] c.op = "mulmod" -> c.m \in Moduli
    [] c.op = "modpow" -> TRUE
    [] c.op \in {"mm", "ma", "ms"} -> c.m \in Field /\ c.a < c.m /\ c.b < c.m
    [] c.op = "mont" -> c.a < c.m
    [] c.op = "minv" -> c.m \in Primes /\ c.a \in 1 .. c.m - 1
    [] OTHER -> TRUE

(* The functions without a loop over bits of their own. *)
Result(c) ==
  LET m0 == ecc_neg_inv32(Limb(c.m, 0))
  IN CASE c.op = "mulmod" -> bn_mulmod(c.a, c.b, c.m)
       [] c.op = "addmod" -> bn_addmod(c.a, c.b, c.m)
       [] c.op = "submod" -> bn_submod(c.a, c.b, c.m)
       [] c.op = "mm" -> ecc_mm(c.m, m0, c.a, c.b)
       [] c.op = "ma" -> ecc_ma(c.m, c.a, c.b)
       [] c.op = "ms" -> ecc_ms(c.m, c.a, c.b)
       [] OTHER -> bn_from_bytes_be(bn_to_bytes_be(c.a, c.b), c.b)
Compute ==
  /\ loop.at = "call" /\ call.op \notin {"modpow", "mont", "minv"}
  /\ loop' = [loop EXCEPT !.at = "end", !.acc = Result(call)]

(* bn_modpow. *)
StartPower ==
  /\ loop.at = "call" /\ call.op = "modpow"
  /\ loop' = [loop EXCEPT !.at = "power", !.left = bn_bit_length(call.b), !.acc = 1,
                          !.base = Reduced(call.a, call.m)]
PowerBit ==
  /\ loop.at = "power" /\ loop.left > 0
  /\ loop' = [loop EXCEPT !.left = loop.left - 1,
                          !.acc = Times(loop.acc, Bit(call.b, loop.left - 1), loop.base, call.m)]
PowerEnd == loop.at = "power" /\ loop.left = 0 /\ loop' = [loop EXCEPT !.at = "end"]

(* ecc_compute_rr doubles 1 modulo m 2WK times; halfway it is R, the 1 of Montgomery's form. *)
Prepare ==
  /\ loop.at = "call" /\ call.op \in {"mont", "minv"}
  /\ loop' = [loop EXCEPT !.at = "double", !.left = 2 * W * K, !.acc = 1]
DoubleBit ==
  /\ loop.at = "double" /\ loop.left > 0
  /\ LET x == ecc_ma(call.m, loop.acc, loop.acc)
     IN loop' = [loop EXCEPT !.left = loop.left - 1, !.acc = x,
                             !.one = IF loop.left - 1 = W * K THEN x ELSE loop.one]
(* The number goes into the form and, for ecc_minv, to the power m - 2. *)
Converted ==
  /\ loop.at = "double" /\ loop.left = 0
  /\ LET m0 == ecc_neg_inv32(Limb(call.m, 0))  x == ecc_to_mont(call.m, m0, call.a, loop.acc)
     IN loop' = IF call.op = "mont" THEN [loop EXCEPT !.at = "end", !.acc = ecc_from_mont(call.m, m0, x)]
                ELSE [loop EXCEPT !.at = "invert", !.left = W * K, !.acc = loop.one, !.base = x]
InvertBit ==
  /\ loop.at = "invert" /\ loop.left > 0
  /\ LET e == ecc_sub_raw(call.m, 2)[1]  m0 == ecc_neg_inv32(Limb(call.m, 0))
     IN loop' = [loop EXCEPT !.left = loop.left - 1,
                             !.acc = MontTimes(call.m, m0, loop.acc, Bit(e, loop.left - 1), loop.base)]
InvertEnd ==
  /\ loop.at = "invert" /\ loop.left = 0
  /\ loop' = [loop EXCEPT !.at = "end",
                          !.acc = ecc_from_mont(call.m, ecc_neg_inv32(Limb(call.m, 0)), loop.acc)]

Init ==
  /\ call \in {c \in Calls : Made(c)}
  /\ loop = [at |-> "call", left |-> 0, acc |-> 0, base |-> 0, one |-> 0]
Next ==
  /\ Compute \/ StartPower \/ PowerBit \/ PowerEnd \/ Prepare \/ DoubleBit \/ Converted \/ InvertBit \/ InvertEnd
  /\ UNCHANGED call
vars == <<call, loop>>
Spec == Init /\ [][Next]_vars

----------------------------------------------------------------------------
(* A number fits the limbs of its type. *)
TypeOK ==
  /\ loop.at \in {"call", "power", "double", "invert", "end"} /\ loop.left \in 0 .. 2 * L * W
  /\ {loop.acc, loop.base, loop.one} \subseteq 0 .. B^L - 1

Power(b, e, m) == LET p[i \in 0..e] == IF i = 0 THEN 1 ELSE (p[i-1] * b) % m IN p[e]

(* Whatever carries cross the limbs, a result is the number that the operation means modulo
   m: a base above the modulus, a modulus that uses the top bit of a field (whose sums have
   a carry out of the last limb) and the remainder that needs its guard limb included
   (bn_mod_wide, bn_modpow, ecc_mm, ecc_ma). *)
Means(c, v) ==
  CASE c.op = "mulmod" -> v = (c.a * c.b) % c.m
    [] c.op \in {"addmod", "ma"} -> v = (c.a + c.b) % c.m
    [] c.op \in {"submod", "ms"} -> v = (c.a - c.b) % c.m
    [] c.op = "modpow" -> v = Power(c.a % c.m, c.b, c.m)
    [] c.op = "mm" -> v < c.m /\ (v * B^K) % c.m = (c.a * c.b) % c.m
    [] c.op = "mont" -> v = c.a
    [] c.op = "minv" -> v < c.m /\ (v * c.a) % c.m = 1
    [] OTHER -> v = c.a % Byte^c.b
Correct == loop.at = "end" => Means(call, loop.acc)

(* In the middle of a loop the number is the power of the bits already seen (bn_modpow,
   ecc_compute_rr, and ecc_minv in Montgomery's form). *)
Partial ==
  /\ loop.at = "power" => loop.acc = Power(call.a % call.m, call.b \div 2^loop.left, call.m)
  /\ loop.at = "double" => loop.acc = Power(2, 2 * W * K - loop.left, call.m)
  /\ loop.at = "invert" =>
       loop.acc = (Power(call.a, (call.m - 2) \div 2^loop.left, call.m) * B^K) % call.m
=============================================================================
