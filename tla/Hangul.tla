------------------------------- MODULE Hangul -------------------------------
(***************************************************************************)
(* How keys become syllables (kernel/hangul_ime.h).  A syllable is being   *)
(* built; a key continues it, or ends it and begins the next one, and a    *)
(* vowel takes back a final consonant that turns out to be the initial of  *)
(* the next syllable.  Jamo have their numbers of the code: initials 0 to  *)
(* 18, medials 0 to 20, finals 1 to 27.                                    *)
(***************************************************************************)
EXTENDS Integers, Sequences

CONSTANTS
  Consonants, Vowels,    (* the keys that are typed *)
  Length                 (* bound: keys of a word   *)

(* What the constants must satisfy: keys of the layout. *)
ConstantsOK ==
  /\ Consonants \subseteq 0 .. 18
  /\ Vowels \subseteq {0, 1, 2, 3, 4, 5, 6, 7, 8, 12, 13, 17, 18, 20}
  /\ Length \in Nat

VARIABLES
  now,      (* ko_cur_initial, ko_cur_medial, ko_cur_final      *)
  text,     (* the syllables committed since `keys` began       *)
  keys      (* history: the keys typed since then               *)

vars == <<now, text, keys>>

None == -1
Empty == [i |-> None, m |-> None, f |-> None]
Ieung == 11                                              (* KO_INITIAL_IEUNG *)

-----------------------------------------------------------------------------
(* The tables. *)

(* ko_combine_medial(): two vowels and the one they make. *)
Diphthongs ==
  {<<8, 0, 9>>, <<8, 1, 10>>, <<8, 20, 11>>, <<13, 4, 14>>, <<13, 5, 15>>, <<13, 20, 16>>, <<18, 20, 19>>}

(* ko_combine_final(): a final, an initial, and the final they make. *)
Clusters ==
  {<<1, 9, 3>>, <<4, 12, 5>>, <<4, 18, 6>>, <<8, 0, 9>>, <<8, 6, 10>>, <<8, 7, 11>>, <<8, 9, 12>>,
   <<8, 16, 13>>, <<8, 17, 14>>, <<8, 18, 15>>, <<17, 9, 18>>}

Joined(table, a, b) == {t[3] : t \in {u \in table : u[1] = a /\ u[2] = b}}
Only(S) == IF S = {} THEN None ELSE CHOOSE x \in S : TRUE

(* ko_initial_to_simple_final, from initial 0 on. *)
SimpleFinal == <<1, 2, 4, 7, None, 8, 16, 17, None, 19, 20, 21, 22, None, 23, 24, 25, 26, 27>>
AsFinal(c) == SimpleFinal[c + 1]

(* A fault for comparison: the two consonants of a cluster change places. *)
SwappedHandBack ==
  <<<<None, 0>>, <<None, 1>>, <<19, 0>>, <<None, 2>>, <<4, 12>>, <<4, 18>>, <<None, 3>>, <<None, 5>>,
    <<8, 0>>, <<8, 6>>, <<8, 7>>, <<8, 9>>, <<8, 16>>, <<8, 17>>, <<8, 18>>, <<None, 6>>, <<None, 7>>,
    <<17, 9>>, <<None, 9>>, <<None, 10>>, <<None, 11>>, <<None, 12>>, <<None, 14>>, <<None, 15>>,
    <<None, 16>>, <<None, 17>>, <<None, 18>>>>

(* ko_split_final_for_handback(): for finals 1 to 27, what stays of the final
   and the initial that is handed back. *)
HandBack ==
  <<<<None, 0>>, <<None, 1>>, <<1, 9>>, <<None, 2>>, <<4, 12>>, <<4, 18>>, <<None, 3>>, <<None, 5>>,
    <<8, 0>>, <<8, 6>>, <<8, 7>>, <<8, 9>>, <<8, 16>>, <<8, 17>>, <<8, 18>>, <<None, 6>>, <<None, 7>>,
    <<17, 9>>, <<None, 9>>, <<None, 10>>, <<None, 11>>, <<None, 12>>, <<None, 14>>, <<None, 15>>,
    <<None, 16>>, <<None, 17>>, <<None, 18>>>>

-----------------------------------------------------------------------------
(* ko_ime_commit() of s, which may be nothing. *)
With(s) == IF s = Empty THEN text ELSE Append(text, s)

Began(s, next) == text' = With(s) /\ now' = next
Continued(s) == now' = s /\ UNCHANGED text

(* The consonant keys of ko_ime_feed_key(). *)
Consonant(c) ==
  LET alone == [Empty EXCEPT !.i = c]
      both == Only(Joined(Clusters, now.f, c))
  IN  CASE now.i = None \/ now.m = None -> Began(now, alone)
        [] now.m # None /\ now.f = None ->
             IF AsFinal(c) = None THEN Began(now, alone) ELSE Continued([now EXCEPT !.f = AsFinal(c)])
        [] now.f # None ->
             IF both = None THEN Began(now, alone) ELSE Continued([now EXCEPT !.f = both])

(* A fault for comparison: a final stays with its syllable. *)
KeptFinal(v) ==
  LET both == Only(Joined(Diphthongs, now.m, v))
      open == [i |-> Ieung, m |-> v, f |-> None]
  IN  CASE now.i = None -> Continued(open)
        [] now.i # None /\ now.m = None -> Continued([now EXCEPT !.m = v])
        [] now.m # None /\ now.f = None ->
             IF both = None THEN Began(now, open) ELSE Continued([now EXCEPT !.m = both])
        [] now.f # None -> Began(now, open)

(* The vowel keys. *)
Vowel(v) ==
  LET both == Only(Joined(Diphthongs, now.m, v))
      open == [i |-> Ieung, m |-> v, f |-> None]
      split == HandBack[now.f]
  IN  CASE now.i = None -> Continued(open)
        [] now.i # None /\ now.m = None -> Continued([now EXCEPT !.m = v])
        [] now.m # None /\ now.f = None ->
             IF both = None THEN Began(now, open) ELSE Continued([now EXCEPT !.m = both])
        [] now.f # None -> Began([now EXCEPT !.f = split[1]], [i |-> split[2], m |-> v, f |-> None])

Key(k) == [v |-> FALSE, j |-> k]
VowelKey(k) == [v |-> TRUE, j |-> k]

TypeConsonant(c) == Len(keys) < Length /\ Consonant(c) /\ keys' = Append(keys, Key(c))
TypeVowel(v) == Len(keys) < Length /\ Vowel(v) /\ keys' = Append(keys, VowelKey(v))

(* The keys that spell a syllable. *)
Spelt(s) ==
  LET vs == {t \in Diphthongs : t[3] = s.m}
      fs == {t \in Clusters : t[3] = s.f}
      initial == IF s.i = None THEN <<>> ELSE <<Key(s.i)>>
      medial == IF s.m = None THEN <<>> ELSE IF vs = {} THEN <<VowelKey(s.m)>>
                ELSE LET t == Only(vs) IN <<VowelKey(t[1]), VowelKey(t[2])>>
      First(f) == Key(CHOOSE c \in 0 .. 18 : AsFinal(c) = f)
      final == IF s.f = None THEN <<>> ELSE IF fs = {} THEN <<First(s.f)>>
               ELSE LET t == Only(fs) IN <<First(t[1]), Key(t[2])>>
  IN  initial \o medial \o final

(* ko_ime_backspace(): the last part of the syllable goes. *)
Undone ==
  IF now.f # None THEN [now EXCEPT !.f = None]
  ELSE IF now.m # None THEN [now EXCEPT !.m = None]
  ELSE Empty

Backspace ==
  /\ now # Empty /\ Len(keys) < Length
  /\ now' = Undone /\ text' = <<>> /\ keys' = Spelt(Undone)

(* Any other key flushes what is being built. *)
Flush == now # Empty /\ now' = Empty /\ text' = <<>> /\ keys' = <<>>

Init == now = Empty /\ text = <<>> /\ keys = <<>>

Next ==
  \/ \E c \in Consonants : TypeConsonant(c)
  \/ \E v \in Vowels : TypeVowel(v)
  \/ Backspace \/ Flush

Spec == Init /\ [][Next]_vars

-----------------------------------------------------------------------------
(* The spelling of Hangul with the keys of this layout, read ahead instead of
   corrected afterwards. *)

IsV(p) == p <= Len(keys) /\ keys[p].v
IsC(p) == p <= Len(keys) /\ ~keys[p].v

(* The syllable that begins at p, and where it ends. *)
SyllableAt(p) ==
  LET first == IF IsC(p) THEN keys[p].j ELSE Ieung
      q == IF IsC(p) THEN p + 1 ELSE p
      two == IsV(q) /\ IsV(q + 1) /\ Joined(Diphthongs, keys[q].j, keys[q + 1].j) # {}
      r == IF two THEN q + 2 ELSE q + 1
      one == IsC(r) /\ ~IsV(r + 1) /\ AsFinal(keys[r].j) # None
      both == /\ one /\ IsC(r + 1) /\ ~IsV(r + 2)
              /\ Joined(Clusters, AsFinal(keys[r].j), keys[r + 1].j) # {}
  IN  IF ~IsV(q) THEN [s |-> [Empty EXCEPT !.i = first], end |-> q]
      ELSE [s |-> [i |-> first,
                   m |-> IF two THEN Only(Joined(Diphthongs, keys[q].j, keys[q + 1].j)) ELSE keys[q].j,
                   f |-> IF both THEN Only(Joined(Clusters, AsFinal(keys[r].j), keys[r + 1].j))
                         ELSE IF one THEN AsFinal(keys[r].j) ELSE None],
            end |-> IF both THEN r + 2 ELSE IF one THEN r + 1 ELSE r]

(* The syllables from p on. *)
Reading ==
  LET R[p \in 1 .. Len(keys) + 1] ==
        IF p > Len(keys) THEN <<>> ELSE <<SyllableAt(p).s>> \o R[SyllableAt(p).end]
  IN  R[1]

(* Properties. *)

(* A syllable has its parts in order. *)
TypeOK ==
  /\ now.i \in None .. 18 /\ now.m \in None .. 20 /\ now.f \in {None} \cup 1 .. 27
  /\ now.m # None => now.i # None
  /\ now.f # None => now.m # None

(* What is on the screen is what the keys spell, at every key ("makes ㄱㅏㄴㅏ
   correctly turn into 가나": ko_split_final_for_handback, ko_ime_feed_key). *)
AsSpelt == With(now) = Reading

(* The tables undo one another: what a final hands back makes the final again
   (ko_split_final_for_handback, ko_combine_final). *)
TablesAgree ==
  \A f \in 1 .. 27 :
    LET s == HandBack[f]
    IN  IF s[1] = None THEN AsFinal(s[2]) = f ELSE Joined(Clusters, s[1], s[2]) = {f}
=============================================================================
