------------------------------ MODULE Sealing ------------------------------
(* What protects bytes: AES-GCM of a record (kernel/gcm.h), the stream of bytes into a hash
   (kernel/sha256.h and kernel/sha512.h), which the transcript of TLS feeds in pieces and
   reads in the middle, and the padding of RSA (kernel/pkcs1.h).

   A byte is a digit of Digit bits and a block of GCM Digits of them; the nibbles of the code are
   its digits.  The block cipher is a permutation of the blocks, a hash the blocks it took. *)
EXTENDS Integers, Sequences, Bitwise

CONSTANTS
  Digit, Digits, R,       (* bits of a digit, digits of a block; the field's polynomial *)
  E(_), Ivs,              (* the block cipher under the record's key; nonces *)
  Texts, Headers,         (* plaintexts and additional data: sequences of digits *)
  HashBlock, LenBytes,    (* bytes of a hash's block, of the length at its end *)
  Pieces, Longest,        (* bytes an update may add, bytes of the longest message *)
  MinPad, Blocks, Secrets (* least padding of RSA; decrypted blocks and secrets tried *)

VARIABLES call, box

Base == 2^Digit
Block == 0 .. Base^Digits - 1
----------------------------------------------------------------------------
(* GF(2^n) as GCM orders its bits: the highest bit of a block is the constant term. *)
TimesX(v) == IF v % 2 = 1 THEN (v \div 2) ^^ R ELSE v \div 2

(* gcm_build_table: digit * H; the highest bit of a digit is H itself, each lower one H
   times x once more, every other entry their sum. *)
Table(h) ==
  LET shifted[i \in 0 .. Digit-1] == IF i = 0 THEN h ELSE TimesX(shifted[i-1])
      t[d \in 0 .. Base-1, i \in 0 .. Digit] ==
        IF i = Digit THEN 0
        ELSE (IF (d \div 2^(Digit - 1 - i)) % 2 = 1 THEN shifted[i] ELSE 0) ^^ t[d, i+1]
  IN [d \in 0 .. Base-1 |-> t[d, 0]]
(* last4: what a digit that falls out of the low end adds at the high one. *)
LastDropped(d) == 0
Last(d) == LET s[i \in 0 .. Digit] == IF i = 0 THEN d ELSE TimesX(s[i-1]) IN s[Digit]
DigitOf(v, i) == (v \div Base^(Digits - 1 - i)) % Base
MultH(h, y) ==
  LET t == Table(h)
      step(z, d) == ((z \div Base) ^^ Last(z % Base)) ^^ t[d]
      z[i \in 0 .. Digits] == IF i = Digits THEN 0 ELSE step(z[i+1], DigitOf(y, i))
  IN z[0]

(* gcm_absorb pads the last block with zeros; the lengths are a block of their own. *)
At(data, i) == IF i <= Len(data) THEN data[i] ELSE 0
Packed(data, k) ==
  LET v[i \in 0 .. Digits] == IF i = 0 THEN 0 ELSE v[i-1] * Base + At(data, k * Digits + i) IN v[Digits]
BlocksOf(n) == (n + Digits - 1) \div Digits
Absorb(h, y, data) ==
  LET g[k \in 0 .. BlocksOf(Len(data))] == IF k = 0 THEN y ELSE MultH(h, g[k-1] ^^ Packed(data, k-1))
  IN g[BlocksOf(Len(data))]
Lengths(aad, ct) == Len(aad) * Base^(Digits \div 2) + Len(ct)

(* The counter is the last digit and wraps within it. *)
Counter(iv, n) == iv * Base + (n % Base)
FirstCounterIsTag == 1
FirstCounter == 2
Apply(iv, data) ==
  [i \in 1 .. Len(data) |->
     data[i] ^^ DigitOf(E(Counter(iv, FirstCounter + (i-1) \div Digits)), (i-1) % Digits)]
Tag(iv, aad, ct) ==
  LET h == E(0) IN MultH(h, Absorb(h, Absorb(h, 0, aad), ct) ^^ Lengths(aad, ct)) ^^ E(Counter(iv, 1))

----------------------------------------------------------------------------
(* A hash: ctx is what it buffers, the blocks it has taken and the bytes it has seen. *)
Fresh == [buf |-> <<>>, done |-> <<>>, total |-> 0]
Taken(c) == IF Len(c.buf) = HashBlock THEN [c EXCEPT !.buf = <<>>, !.done = Append(c.done, c.buf)] ELSE c
Update(c, data) ==
  LET u[i \in 0 .. Len(data)] ==
        IF i = 0 THEN [c EXCEPT !.total = c.total + Len(data)]
        ELSE Taken([u[i-1] EXCEPT !.buf = Append(@, data[i])])
  IN u[Len(data)]
Zeros(n) == [i \in 1..n |-> 0]
Room == HashBlock - LenBytes
LengthOf(n) == <<256, n>>   (* the length in bits, in LenBytes bytes *)
(* sha256_final: 1, then zeros one by one until the length fits exactly. *)
Final256(c) ==
  LET p == Update(c, <<1>>)
      n == (Room - Len(p.buf)) % HashBlock
  IN Append(Update(p, Zeros(n)).done, Update(p, Zeros(n)).buf \o LengthOf(c.total))
(* sha512_final_n: a block of its own if the length does not fit behind the 1. *)
FullNever(buf) == FALSE
Full(buf) == Len(buf) > Room
Final512(c) ==
  LET buf == Append(c.buf, 1)
  IN IF Full(buf) THEN c.done \o <<buf \o Zeros(HashBlock - Len(buf)), Zeros(Room) \o LengthOf(c.total)>>
     ELSE Append(c.done, buf \o Zeros(Room - Len(buf)) \o LengthOf(c.total))

----------------------------------------------------------------------------
(* pkcs1_verify after the power: 0 1, at least MinPad times 255, 0, and then prefix and hash
   to the last byte. *)
(* The hash algorithm's prefix and the hash of the signed data stand for one byte each. *)
Prefix == 257
Hash == 258
Ones(b) == CHOOSE i \in 3 .. Len(b) + 1 :
             (\A j \in 3 .. i-1 : b[j] = 255) /\ (i = Len(b) + 1 \/ b[i] # 255)
RestAfter(b, i) == SubSeq(b, i + 1, i + 2)
Rest(b, i) == SubSeq(b, i + 1, Len(b))
Unpadded(b) ==
  /\ Len(b) >= MinPad + 3 /\ b[1] = 0 /\ b[2] = 1
  /\ Ones(b) >= MinPad + 3 /\ Ones(b) <= Len(b) /\ b[Ones(b)] = 0
  /\ Rest(b, Ones(b)) = <<Prefix, Hash>>

(* pkcs1_encrypt: 0 2, random bytes but no 0, 0, the secret. *)
Padded(secret, len, rand) ==
  <<0, 2>> \o [i \in 1 .. len - Len(secret) - 3 |-> rand[i]] \o <<0>> \o secret
FitsIn(secret, len) == len >= MinPad + 3 /\ Len(secret) <= len - (MinPad + 3)

----------------------------------------------------------------------------
(* A record is sealed, something of it may change on the way, and it is opened. *)
Seal ==
  /\ box.at = "plain"
  /\ LET ct == Apply(call.iv, call.text)
     IN box' = [box EXCEPT !.at = "sealed", !.text = ct, !.tag = Tag(call.iv, call.aad, ct), !.aad = call.aad]
Change ==
  /\ box.at = "sealed"
  /\ \E d \in 1 .. Base - 1 :
       \/ \E i \in DOMAIN box.text : box' = [box EXCEPT !.at = "changed", !.text[i] = @ ^^ d]
       \/ \E i \in DOMAIN box.aad : box' = [box EXCEPT !.at = "changed", !.aad[i] = @ ^^ d]
       \/ box' = [box EXCEPT !.at = "changed", !.tag = @ ^^ d]
(* gcm_decrypt compares the tag first and leaves the ciphertext alone if it differs. *)
Open ==
  /\ box.at \in {"sealed", "changed"}
  /\ box' = IF Tag(call.iv, box.aad, box.text) = box.tag
            THEN [box EXCEPT !.at = "opened", !.text = Apply(call.iv, @)]
            ELSE [box EXCEPT !.at = "refused"]

Feed ==
  /\ box.at = "stream"
  /\ \E p \in Pieces :
       /\ box.ctx.total + Len(p) <= Longest
       /\ box' = [box EXCEPT !.ctx = Update(@, p), !.fed = @ \o p]
(* tls.h finishes a copy in the middle of a handshake and goes on with the context. *)
Digest ==
  /\ box.at = "stream"
  /\ box' = [box EXCEPT !.out = IF call.hash = "sha256" THEN Final256(box.ctx) ELSE Final512(box.ctx)]

Unpad == box.at = "padded" /\ box' = [box EXCEPT !.at = IF Unpadded(call.block) THEN "taken" ELSE "refused"]
PadSecret ==
  /\ box.at = "secret"
  /\ box' = IF FitsIn(call.secret, call.len)
            THEN [box EXCEPT !.at = "block", !.text = Padded(call.secret, call.len, call.rand)]
            ELSE [box EXCEPT !.at = "refused"]

Nothing == [at |-> "plain", text |-> <<>>, aad |-> <<>>, tag |-> 0, ctx |-> Fresh, fed |-> <<>>, out |-> <<>>]
(* Random bytes of which the first draws may be 0 and are drawn again. *)
NonZero(len) == [1 .. len -> {1, 255}]
Starts ==
  {<<[op |-> "gcm", iv |-> iv, text |-> t, aad |-> a], Nothing>> : iv \in Ivs, t \in Texts, a \in Headers}
  \cup {<<[op |-> "mult", h |-> h, y |-> y], [Nothing EXCEPT !.at = "product"]>> : h \in Block, y \in Block}
  \cup {<<[op |-> "hash", hash |-> s], [Nothing EXCEPT !.at = "stream"]>> : s \in {"sha256", "sha512"}}
  \cup {<<[op |-> "unpad", block |-> x], [Nothing EXCEPT !.at = "padded"]>> : x \in Blocks}
  \cup UNION {{<<[op |-> "pad", secret |-> s, len |-> n, rand |-> r], [Nothing EXCEPT !.at = "secret"]>> :
                 s \in Secrets, r \in NonZero(n)} : n \in 1 .. MinPad + 6}
Multiply ==
  /\ box.at = "product"
  /\ box' = [box EXCEPT !.at = "opened", !.tag = MultH(call.h, call.y)]

Init == \E s \in Starts : call = s[1] /\ box = s[2]
Next ==
  /\ Seal \/ Change \/ Open \/ Feed \/ Digest \/ Unpad \/ PadSecret \/ Multiply
  /\ UNCHANGED call
vars == <<call, box>>
Spec == Init /\ [][Next]_vars
ConstantsOK ==
  /\ {Digit, Digits, HashBlock, LenBytes, MinPad} \subseteq Nat \ {0} /\ R \in Block
  /\ E(0) # 0 /\ {E(v) : v \in Block} = Block
  /\ \A t \in Texts : BlocksOf(Len(t)) < Base - 1      (* the counter does not come round *)
  /\ Room >= 1

----------------------------------------------------------------------------
(* Buffers stay within their sizes. *)
TypeOK ==
  /\ box.tag \in Block /\ Len(box.ctx.buf) < HashBlock
  /\ box.at \in {"plain", "sealed", "changed", "opened", "refused", "stream", "padded", "taken",
                 "secret", "block", "product"}

(* The product by tables is the product of polynomials, bit by bit (gcm_mult_h). *)
Product(h, y) ==
  LET n == Digit * Digits
      x[i \in 0 .. n-1] == IF i = 0 THEN h ELSE TimesX(x[i-1])
      s[i \in 0 .. n] == IF i = n THEN 0
                         ELSE (IF (y \div 2^(n-1-i)) % 2 = 1 THEN x[i] ELSE 0) ^^ s[i+1]
  IN s[0]
(* A record is opened exactly if no digit of its text, its header or its tag was changed, and
   it is opened to what was sealed (gcm_encrypt, gcm_decrypt). *)
OpenedIsSealed ==
  /\ box.at = "opened" /\ call.op = "mult" => box.tag = Product(call.h, call.y)
  /\ box.at = "opened" /\ call.op = "gcm" => box.text = call.text /\ box.aad = call.aad
  /\ box.at = "refused" /\ call.op = "gcm" => box.tag # Tag(call.iv, call.aad, Apply(call.iv, call.text))
                                             \/ box.text # Apply(call.iv, call.text) \/ box.aad # call.aad

(* No block of a record's keystream is used twice, for its tag either (gcm_ctr_apply). *)
KeystreamOnce ==
  call.op = "gcm" =>
    \A i, j \in 0 .. BlocksOf(Len(call.text)) :
      LET n(k) == IF k = 0 THEN 1 ELSE FirstCounter + k - 1
      IN i # j => Counter(call.iv, n(i)) # Counter(call.iv, n(j))

(* However the pieces were cut, and after every digest in the middle, a hash has taken the
   bytes fed to it, a 1, as few zeros as there can be and the length at the end of a block
   (sha256_update, sha256_final, sha512_final_n). *)
Concat(blocks) == LET c[i \in 0 .. Len(blocks)] == IF i = 0 THEN <<>> ELSE c[i-1] \o blocks[i] IN c[Len(blocks)]
DigestOf(m) ==
  LET pad == (Room - 1 - Len(m)) % HashBlock IN m \o <<1>> \o Zeros(pad) \o LengthOf(Len(m))
DigestTrueStep == box'.out # box.out => Concat(box'.out) = DigestOf(box.fed)
DigestTrue == [][DigestTrueStep]_vars

(* There is one block for a hash and a length of the modulus that is taken; and the secret is
   the rest after the first 0 behind the padding (pkcs1_verify, pkcs1_encrypt). *)
OneBlock ==
  /\ call.op = "unpad" /\ box.at = "taken" =>
       /\ Len(call.block) >= MinPad + 5
       /\ call.block = <<0, 1>> \o [i \in 1 .. Len(call.block) - 5 |-> 255] \o <<0, Prefix, Hash>>
  /\ call.op = "pad" /\ box.at = "block" =>
       /\ Len(box.text) = call.len /\ Len(call.secret) <= call.len - (MinPad + 3)
       /\ \E i \in 3 + MinPad .. call.len :
            (\A j \in 3 .. i-1 : box.text[j] # 0) /\ box.text[i] = 0 /\ SubSeq(box.text, i + 1, call.len) = call.secret
=============================================================================
