------------------------------- MODULE Curves -------------------------------
(* The elliptic curves of TLS: points of a curve with a = -3 in Jacobian coordinates, the
   key pairs and the shared secret of ECDHE and the check of an ECDSA signature
   (kernel/ecc.h), and X25519's ladder (kernel/x25519.h).

   The field's operations are those that Numbers shows the limbs to compute: an element is
   an integer modulo the prime, without its Montgomery factor.  A scalar's bit is a step. *)
EXTENDS Integers

CONSTANTS
  p, b, order, gx, gy,      (* the curve, its base point and its prime order *)
  Bits,                     (* bits of a coordinate and of a scalar *)
  Rands, Privs, Hashes, Scalars, Keys,   (* random bytes, our keys, hashes, s of signatures, signers' keys *)
  q, A, Low,                (* X25519's prime, its curve, the low bits that clamping clears *)
  XBits, XScalars, XPoints (* bits of its coordinates; raw scalars and coordinates tried *)

VARIABLES call, run

----------------------------------------------------------------------------
(* ecc.h: affine to Jacobian, x = X / Z^2, y = Y / Z^3, and infinity where Z is 0. *)
Infinity == [x |-> 0, y |-> 1, z |-> 0]
IsInf(P) == P.z = 0
Affine(x, y) == [x |-> x, y |-> y, z |-> 1]
G == Affine(gx, gy)

ecc_pt_dbl(P) ==
  LET delta == (P.z * P.z) % p
      gamma == (P.y * P.y) % p
      beta == (P.x * gamma) % p
      alpha == (3 * (P.x - delta) * (P.x + delta)) % p
      x3 == (alpha * alpha - 8 * beta) % p
  IN IF IsInf(P) \/ P.y = 0 THEN Infinity
     ELSE [x |-> x3,
           y |-> (alpha * (4 * beta - x3) - 8 * gamma * gamma) % p,
           z |-> ((P.y + P.z) * (P.y + P.z) - gamma - delta) % p]

(* The special cases: a point at infinity, the same point twice, a point and its negative. *)
SpecialForgotten(h, r, P) == Infinity
Special(h, r, P) == IF r = 0 THEN ecc_pt_dbl(P) ELSE Infinity
ecc_pt_add(P, Q) ==
  LET z1z1 == (P.z * P.z) % p
      z2z2 == (Q.z * Q.z) % p
      u1 == (P.x * z2z2) % p
      s1 == (P.y * ((Q.z * z2z2) % p)) % p
      h == (Q.x * z1z1 - u1) % p
      d == (Q.y * ((P.z * z1z1) % p) - s1) % p
      r == (2 * d) % p
      j == (h * ((4 * h * h) % p)) % p
      v == (u1 * ((4 * h * h) % p)) % p
      x3 == (r * r - j - 2 * v) % p
  IN IF IsInf(P) THEN Q
     ELSE IF IsInf(Q) THEN P
     ELSE IF h = 0 THEN Special(h, d, P)
     ELSE [x |-> x3,
           y |-> (r * (v - x3) - 2 * s1 * j) % p,
           z |-> (((P.z + Q.z) * (P.z + Q.z) - z1z1 - z2z2) * h) % p]

Bit(k, i) == (k \div 2^i) % 2
ecc_minv(m, a) == LET w[e \in 0 .. m-2] == IF e = 0 THEN 1 ELSE (w[e-1] * a) % m IN w[m-2]
ToAffine(P) ==
  LET zi == ecc_minv(p, P.z) IN <<(P.x * zi * zi) % p, (((P.y * zi) % p) * zi * zi) % p>>

(* A peer's point: its length and its first byte, both coordinates below p, on the curve. *)
ParseWithoutRange(pub) ==
  /\ pub.uncompressed
  /\ (pub.y * pub.y) % p = (((pub.x * pub.x) % p) * pub.x - 3 * pub.x + b) % p
ecc_parse_point(pub) ==
  /\ pub.uncompressed
  /\ pub.x < p /\ pub.y < p
  /\ (pub.y * pub.y) % p = (((pub.x * pub.x) % p) * pub.x - 3 * pub.x + b) % p
(* The random bytes with the top bit set, once reduced. *)
Private(rand) ==
  LET k == IF Bit(rand, Bits - 1) = 1 THEN rand ELSE rand + 2^(Bits - 1)
  IN IF k >= order THEN k - order ELSE k

(* A hash, already cut to the size of a coordinate, is reduced once, and so is the x of the
   sum: p < 2 * order. *)
OnceNever(v) == v
Once(v) == IF v >= order THEN v - order ELSE v
----------------------------------------------------------------------------
(* x25519.h *)
ClampNoBase(k) == (k % 2^(XBits - 1)) + 2^(XBits - 1)
x25519_clamp(k) == LET low == k % 2^(XBits - 1) IN (low - (low % 2^Low)) + 2^(XBits - 1)
(* Half the ladder: sum and double of (x2 : z2) and (x3 : z3), which differ by x1. *)
Ladder(x1, x2, z2, x3, z3) ==
  LET a == (x2 + z2) % q     aa == (a * a) % q
      m == (x2 - z2) % q     bb == (m * m) % q
      e == (aa - bb) % q
      da == ((x3 - z3) * a) % q
      cb == ((x3 + z3) * m) % q
      a24 == (A - 2) \div 4
  IN [x2 |-> (aa * bb) % q, z2 |-> (e * (aa + a24 * e)) % q,
      x3 |-> ((da + cb) * (da + cb)) % q, z3 |-> (x1 * (((da - cb) * (da - cb)) % q)) % q]

----------------------------------------------------------------------------
Coordinates == 0 .. 2^Bits - 1
Points == {[uncompressed |-> u, x |-> x, y |-> y] : u \in BOOLEAN, x \in Coordinates, y \in Coordinates}
Calls ==
  {[op |-> "keygen", rand |-> r] : r \in Rands}
  \cup {[op |-> "shared", priv |-> k, pub |-> P] : k \in Privs, P \in Points}
  \cup {[op |-> "verify", signer |-> d, e |-> e, r |-> r, s |-> s] :
          d \in Keys, e \in Hashes, r \in Coordinates, s \in Scalars}
  \cup {[op |-> "x25519", k |-> k, u |-> u] : k \in XScalars, u \in XPoints}

Stop(v) == run' = [run EXCEPT !.at = "end", !.out = v]
(* What a call answers when there is nothing to answer: 0. *)
Fails == Stop(<<>>)

(* k times a point: both operations for every bit, and one is chosen (ecc_scalar_mul). *)
Scalar(k, P) == run' = [run EXCEPT !.at = "scalar", !.left = Bits, !.acc = Infinity, !.k = k, !.point = P]
Keygen ==
  /\ run.at = "call" /\ call.op = "keygen"
  /\ IF Private(call.rand) = 0 THEN Fails ELSE Scalar(Private(call.rand), G)
Shared ==
  /\ run.at = "call" /\ call.op = "shared"
  /\ IF ecc_parse_point(call.pub) THEN Scalar(call.priv, Affine(call.pub.x, call.pub.y)) ELSE Fails
ScalarBit ==
  /\ run.at = "scalar" /\ run.left > 0
  /\ LET r == ecc_pt_dbl(run.acc)  sum == ecc_pt_add(r, run.point)
     IN run' = [run EXCEPT !.left = run.left - 1, !.acc = IF Bit(run.k, run.left - 1) = 1 THEN sum ELSE r]
ScalarEnd ==
  /\ run.at = "scalar" /\ run.left = 0
  /\ IF IsInf(run.acc) THEN Fails ELSE Stop(ToAffine(run.acc))

(* k times the base point, by the table of the group (the signer's side). *)
Slope(P, Q) ==
  IF P = Q THEN ((3 * P[1] * P[1] - 3) * ecc_minv(p, (2 * P[2]) % p)) % p
  ELSE ((Q[2] - P[2]) * ecc_minv(p, (Q[1] - P[1]) % p)) % p
Plus(P, Q) ==
  IF P = <<>> THEN Q ELSE IF Q = <<>> THEN P
  ELSE IF P[1] = Q[1] /\ P # Q THEN <<>>
  ELSE LET l == Slope(P, Q)  x == (l * l - P[1] - Q[1]) % p IN <<x, (l * (P[1] - x) - P[2]) % p>>
Times[k \in 0 .. order - 1] == IF k = 0 THEN <<>> ELSE Plus(Times[k-1], <<gx, gy>>)

(* ecdsa_verify_der, from the numbers of the signature on: u1 * G + u2 * Q in one pass. *)
Verify ==
  /\ run.at = "call" /\ call.op = "verify"
  /\ LET w == ecc_minv(order, call.s)
         Q == Affine(Times[call.signer][1], Times[call.signer][2])
     IN IF call.r \notin 1 .. order - 1 \/ call.s \notin 1 .. order - 1 THEN Fails
        ELSE run' = [run EXCEPT !.at = "shamir", !.left = Bits, !.acc = Infinity,
                                !.k = (Once(call.e) * w) % order, !.k2 = (call.r * w) % order,
                                !.point = Q, !.both = ecc_pt_add(G, Q)]
ShamirBit ==
  /\ run.at = "shamir" /\ run.left > 0
  /\ LET acc == ecc_pt_dbl(run.acc)
         b1 == Bit(run.k, run.left - 1)  b2 == Bit(run.k2, run.left - 1)
     IN run' = [run EXCEPT !.left = run.left - 1,
                           !.acc = IF b1 = 1 /\ b2 = 1 THEN ecc_pt_add(acc, run.both)
                                   ELSE IF b1 = 1 THEN ecc_pt_add(acc, G)
                                   ELSE IF b2 = 1 THEN ecc_pt_add(acc, run.point) ELSE acc]
ShamirEnd ==
  /\ run.at = "shamir" /\ run.left = 0
  /\ IF IsInf(run.acc) THEN Fails
     ELSE Stop(IF Once(ToAffine(run.acc)[1]) = call.r THEN <<"valid">> ELSE <<>>)

(* x25519_scalarmult: the swap of a bit undoes that of the bit before it. *)
StartLadder ==
  /\ run.at = "call" /\ call.op = "x25519"
  /\ run' = [run EXCEPT !.at = "ladder", !.left = XBits, !.k = x25519_clamp(call.k), !.swap = 0,
                        !.acc = [x2 |-> 1, z2 |-> 0, x3 |-> call.u, z3 |-> 1]]
Swapped(s, c) == IF s = 1 THEN [x2 |-> c.x3, z2 |-> c.z3, x3 |-> c.x2, z3 |-> c.z2] ELSE c
LadderBit ==
  /\ run.at = "ladder" /\ run.left > 0
  /\ LET kt == Bit(run.k, run.left - 1)
         c == Swapped((run.swap + kt) % 2, run.acc)
     IN run' = [run EXCEPT !.left = run.left - 1, !.swap = kt, !.acc = Ladder(call.u, c.x2, c.z2, c.x3, c.z3)]
LadderEnd ==
  /\ run.at = "ladder" /\ run.left = 0
  /\ LET c == Swapped(run.swap, run.acc) IN Stop(<<(c.x2 * ecc_minv(q, c.z2)) % q>>)

NoPoint == [x |-> 0, y |-> 0, z |-> 0]
Init ==
  /\ call \in Calls
  /\ run = [at |-> "call", left |-> 0, k |-> 0, k2 |-> 0, swap |-> 0, point |-> NoPoint,
            both |-> NoPoint, acc |-> NoPoint, out |-> <<>>]
Next ==
  /\ \/ Keygen \/ Shared \/ ScalarBit \/ ScalarEnd \/ Verify \/ ShamirBit \/ ShamirEnd
     \/ StartLadder \/ LadderBit \/ LadderEnd
  /\ UNCHANGED call
vars == <<call, run>>
Spec == Init /\ [][Next]_vars

Prime(n) == n > 1 /\ \A d \in 2 .. n-1 : n % d # 0
OnCurve(P) == (P[2] * P[2]) % p = (P[1] * P[1] * P[1] - 3 * P[1] + b) % p
ConstantsOK ==
  /\ Prime(p) /\ Prime(order) /\ Prime(q) /\ p < 2 * order /\ p < 2^Bits /\ order > 2^(Bits - 1)
  /\ OnCurve(<<gx, gy>>) /\ Plus(Times[order - 1], <<gx, gy>>) = <<>>
  /\ A % 4 = 2 /\ q < 2^XBits
  /\ Privs \cup Keys \subseteq 1 .. order - 1 /\ Rands \cup Hashes \cup Scalars \subseteq Coordinates

----------------------------------------------------------------------------
(* The state of a loop is within its scalar. *)
TypeOK ==
  /\ run.at \in {"call", "scalar", "shamir", "ladder", "end"}
  /\ run.left \in 0 .. Bits + XBits /\ run.swap \in {0, 1}

(* Between two bits the point is the multiple of the bits already seen, infinity, doublings
   and additions of a point to itself included (ecc_scalar_mul, ecdsa_verify_der). *)
Log(P) == CHOOSE k \in 0 .. order - 1 : Times[k] = P
Of(P) == IF IsInf(P) THEN <<>> ELSE ToAffine(P)
Between ==
  /\ run.at = "scalar" =>
       Of(run.acc) = Times[((run.k \div 2^run.left) * Log(Of(run.point))) % order]
  /\ run.at = "shamir" =>
       Of(run.acc) = Times[((run.k \div 2^run.left) + (run.k2 \div 2^run.left) * call.signer) % order]

(* A key pair is one, and both sides of an exchange come to the same secret: what the
   server computes from our point is what we compute from its point, and a point that is
   not on the curve gives none (ecdh_keygen, ecdh_shared). *)
SameSecret ==
  run.at = "end" =>
    /\ call.op = "keygen" => run.out = Times[Private(call.rand)]
    /\ call.op = "shared" =>
         run.out = LET P == <<call.pub.x, call.pub.y>>
                   IN IF call.pub.uncompressed /\ P \in {Times[k] : k \in 1 .. order - 1}
                      THEN Times[(call.priv * Log(P)) % order] ELSE <<>>

(* A signature is taken exactly if the signer can have made it: with some nonce k, r is the
   x of k * G and s = (e + r * d) / k (ecdsa_verify_der). *)
Signs(d, e, r, s) ==
  \E k \in 1 .. order - 1 :
    /\ r = Times[k][1] % order /\ r # 0
    /\ s \in 1 .. order - 1 /\ (s * k) % order = (e + r * d) % order
ValidIsSigned ==
  run.at = "end" /\ call.op = "verify" => (run.out = <<"valid">>) = Signs(call.signer, call.e, call.r, call.s)

(* The ladder's coordinate is that of the multiple on the curve v * y^2 = x^3 + A * x^2 + x
   of the two on which the peer's coordinate is, with 0 for infinity, for coordinates that are
   not reduced, too; and the low bits of a scalar say nothing (x25519_clamp). *)
Cube(x) == (x * x * x + A * x * x + x) % q
Twist(u) == CHOOSE v \in 1 .. q-1 : \E y \in 0 .. q-1 : (v * y * y) % q = Cube(u)
XPlus(v, P, Q) ==
  IF P = <<>> THEN Q ELSE IF Q = <<>> THEN P
  ELSE IF P[1] = Q[1] /\ (P # Q \/ P[2] = 0) THEN <<>>
  ELSE LET l == (IF P = Q THEN (3 * P[1] * P[1] + 2 * A * P[1] + 1) * ecc_minv(q, (2 * v * P[2]) % q)
                 ELSE (Q[2] - P[2]) * ecc_minv(q, (Q[1] - P[1]) % q)) % q
           x == (v * l * l - A - P[1] - Q[1]) % q
       IN <<x, (l * (P[1] - x) - P[2]) % q>>
Multiple(k, u) ==
  LET v == Twist(u)
      P == <<u, CHOOSE y \in 0 .. q-1 : (v * y * y) % q = Cube(u)>>
      m[i \in 0..k] == IF i = 0 THEN <<>> ELSE XPlus(v, m[i-1], P)
  IN IF m[k] = <<>> THEN 0 ELSE m[k][1]
LadderTrue ==
  run.at = "end" /\ call.op = "x25519" =>
    LET k == CHOOSE n \in 2^(XBits - 1) .. 2^XBits - 1 : n % 2^Low = 0 /\ \E i \in 0 .. 2^Low - 1 : (n + i - call.k) % 2^(XBits - 1) = 0
    IN run.out = <<Multiple(k, call.u % q)>>
=============================================================================
