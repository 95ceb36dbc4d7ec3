------------------------------- MODULE Typing -------------------------------
(***************************************************************************)
(* Typing into Notepad: the text buffers of the windows, the one syllable  *)
(* that is being composed for all of them (kernel/hangul_ime.h), and the   *)
(* Edit menu of apps/notepad/menus.h with its one-step Undo, Select All    *)
(* and the clipboard.                                                      *)
(*                                                                         *)
(* A text is the sequence of its bytes.  A letter is one byte, a syllable  *)
(* three: a lead byte that says how many steps of it were typed (initial,  *)
(* vowel, final; Hangul has the rest) and two that only continue it.       *)
(***************************************************************************)
EXTENDS Integers, Sequences, FiniteSets, SequencesExt

CONSTANTS
  Win, NoWin,
  Size,        (* sizeof(text_buf)                                               *)
  ClipMax,     (* CLIP_MAX                                                       *)
  Stamp,       (* the letters Time/Date inserts                                  *)
  Edits,       (* bound: what the user does to texts                             *)
  Settles      (* TRUE: the user ends a syllable before taking the mouse         *)

(* What the constants must satisfy. *)
ConstantsOK ==
  /\ NoWin \notin Win /\ {Size, ClipMax, Stamp, Edits} \subseteq Nat /\ Size > 0 /\ Settles \in BOOLEAN

VARIABLES
  buf,      (* text_buf up to text_len                                              *)
  undo,     (* undo_valid and undo_buf                                              *)
  typing, selAll,
  ask,      (* confirm_mode: none, new, close                                       *)
  open, focus,
  ime,      (* current_ime                                                          *)
  comp,     (* ko_cur_*: how many steps of a syllable are there, 0 for none         *)
  clip,     (* clip_buf                                                             *)
  disk,     (* the text of the file the windows save to                             *)
  meant,    (* history: what the user's keys spell, as letters (0) and syllables    *)
  before,   (* history: and what it was before the last edit                        *)
  running,  (* history: the last edit is a run of typing that can go on             *)
  known,    (* history: the window had one document so far, and it fitted           *)
  edits

texts == <<buf, undo, typing, selAll>>
hist == <<meant, before, running, known>>
vars == <<texts, ask, open, focus, ime, comp, clip, disk, hist, edits>>

Letter == 0
Byte == 0 .. 4
Syl(c) == <<c, 4, 4>>                       (* three bytes, the lead one is 1, 2 or 3 *)
Spelt(c) == IF c = Letter THEN <<Letter>> ELSE Syl(c)
Bytes(m) == FlattenSeq([i \in DOMAIN m |-> Spelt(m[i])])

(* A fault for comparison: a syllable may begin where it does not end. *)
EmittedPast(t, c) == IF c = 0 \/ Len(t) + 1 > Size THEN t ELSE t \o Syl(c)

(* ko_ime_commit() and ko_emit_utf8(): the syllable, if it fits. *)
Emitted(t, c) == IF c = 0 \/ Len(t) + 3 > Size THEN t ELSE t \o Syl(c)

(* kstrcpy_append(): one byte, with room for the zero after it. *)
Appended(t, n) == t \o [i \in 1 .. (IF Size - 1 - Len(t) < n THEN IF Len(t) < Size THEN Size - 1 - Len(t) ELSE 0 ELSE n) |-> Letter]

(* np_set_text() *)
Set(t) == SubSeq(t, 1, IF Len(t) > Size - 1 THEN Size - 1 ELSE Len(t))

(* ko_utf8_last_char_len() *)
LastLen(t) ==
  LET n == Len(t)
  IN  IF n >= 3 /\ t[n] = 4 /\ t[n - 1] = 4 /\ t[n - 2] \in 1 .. 3 THEN 3 ELSE 1

Count == edits < Edits /\ edits' = edits + 1

-----------------------------------------------------------------------------
(* What the keys mean, whatever the code makes of them. *)

Fits(m) == Len(Bytes(m)) < Size

(* The user's text of w becomes m, by typing or by another edit; a text that
   does not fit is not followed further, nor is a second document. *)
Means(w, m, how) ==
  LET keep == known[w] /\ Fits(m)
      was == IF how = "typing" /\ running[w] THEN before[w] ELSE meant[w]
  IN  /\ known' = [known EXCEPT ![w] = keep]
      /\ meant' = [meant EXCEPT ![w] = IF keep THEN m ELSE <<>>]
      /\ before' = [before EXCEPT ![w] = IF keep /\ how # "same" THEN was ELSE IF keep THEN @ ELSE <<>>]
      /\ running' = [running EXCEPT ![w] = IF how = "same" THEN @ ELSE how = "typing" /\ keep]

-----------------------------------------------------------------------------
(* Typing. *)

Typable(w) == focus = w /\ ask[w] = "none"

(* A fault for comparison: every key takes a snapshot. *)
SnapshotEach(w) == selAll[w] \/ ~typing[w] \/ TRUE

(* np_before_typing(): the first key of a run takes the snapshot. *)
Snapshot(w) == selAll[w] \/ ~typing[w]

(* The text the key finds: nothing, when a selection is replaced. *)
Left(w) == IF selAll[w] THEN <<>> ELSE buf[w]
CompLeft(w) == IF selAll[w] THEN 0 ELSE comp
Taken(w) == [ok |-> TRUE, was |-> IF selAll[w] THEN Emitted(buf[w], comp) ELSE buf[w]]

Keyed(w, t) ==
  /\ buf' = [buf EXCEPT ![w] = t]
  /\ undo' = IF Snapshot(w) THEN [undo EXCEPT ![w] = Taken(w)] ELSE undo
  /\ typing' = [typing EXCEPT ![w] = TRUE]
  /\ selAll' = [selAll EXCEPT ![w] = FALSE]
  /\ Count /\ UNCHANGED <<ask, open, focus, ime, clip, disk>>

(* What the user had before this key, with a selection out of the way. *)
Had(w) == IF selAll[w] THEN <<>> ELSE meant[w]

(* A fault for comparison: the letter does not end the syllable. *)
LetterBefore(w) == Emitted(Appended(Left(w), 1), CompLeft(w))

(* The text with the syllable ended and one more letter. *)
WithLetter(w) == Appended(Emitted(Left(w), CompLeft(w)), 1)

(* handle_keyboard(): a letter, or any key that is not of the Hangul layout. *)
Type(w) ==
  /\ Typable(w)
  /\ Keyed(w, WithLetter(w)) /\ comp' = 0
  /\ Means(w, Append(Had(w), Letter), "typing")

(* ko_ime_feed_key(): what a jamo makes of a syllable of c steps: the steps of
   the one that is finished (0 for none) and of the one that goes on. *)
Feeds(c) ==
  CASE c = 0 -> {<<0, 1>>, <<0, 2>>}                        (* consonant, vowel *)
    [] c = 1 -> {<<1, 1>>, <<0, 2>>}
    [] c = 2 -> {<<0, 3>>, <<2, 1>>, <<0, 2>>, <<2, 2>>}    (* a final, or none; a double vowel, or none *)
    [] c = 3 -> {<<0, 3>>, <<3, 1>>, <<2, 2>>, <<3, 2>>}    (* a double final, or none; handed back *)

Jamo(w, f) ==
  /\ Typable(w) /\ ime = "ko" /\ f \in Feeds(CompLeft(w))
  /\ Keyed(w, Emitted(Left(w), f[1])) /\ comp' = f[2]
  /\ Means(w, (IF CompLeft(w) = 0 THEN Had(w) ELSE Front(Had(w)))
                \o (IF f[1] = 0 THEN <<>> ELSE <<f[1]>>) \o <<f[2]>>, "typing")

(* Backspace takes the selection, a step of the syllable, or a character. *)
Backspace(w) ==
  /\ Typable(w)
  /\ \/ selAll[w] /\ Keyed(w, <<>>) /\ comp' = 0 /\ Means(w, <<>>, "typing")
     \/ /\ ~selAll[w] /\ comp # 0 /\ Keyed(w, buf[w]) /\ comp' = comp - 1
        /\ Means(w, Front(meant[w]) \o (IF comp = 1 THEN <<>> ELSE <<comp - 1>>), "typing")
     \/ /\ ~selAll[w] /\ comp = 0
        /\ Keyed(w, SubSeq(buf[w], 1, IF buf[w] = <<>> THEN 0 ELSE Len(buf[w]) - LastLen(buf[w])))
        /\ comp' = 0
        /\ Means(w, IF meant[w] = <<>> THEN <<>> ELSE Front(meant[w]), "typing")

(* ime_cycle_next(), by Right Alt. *)
RightAlt(w) ==
  /\ Typable(w) /\ Count
  /\ ime' = IF ime = "ko" THEN "en" ELSE "ko"
  /\ buf' = [buf EXCEPT ![w] = Emitted(@, comp)] /\ comp' = 0
  /\ UNCHANGED <<undo, typing, selAll, ask, open, focus, clip, disk, hist>>

-----------------------------------------------------------------------------
(* The Edit menu and its Ctrl keys: np_commit_ime() is the first thing.     *)

Full(w) == Emitted(buf[w], comp)

(* The text of w becomes t; what it was is kept for Undo. *)
Edit(w, t) ==
  /\ buf' = [buf EXCEPT ![w] = t] /\ comp' = 0
  /\ undo' = [undo EXCEPT ![w] = [ok |-> TRUE, was |-> Full(w)]]
  /\ typing' = [typing EXCEPT ![w] = FALSE] /\ selAll' = [selAll EXCEPT ![w] = FALSE]

(* Nothing but the commit. *)
OnlySettles(w) ==
  /\ buf' = [buf EXCEPT ![w] = Full(w)] /\ comp' = 0
  /\ UNCHANGED <<undo, typing, selAll, hist>>

Rest == Count /\ UNCHANGED <<ask, open, focus, ime>>

(* A fault for comparison: the run of typing goes on after Undo. *)
UndoneStill(w) == typing[w]

Undone(w) == FALSE

Undo(w) ==
  /\ Typable(w) /\ Rest /\ UNCHANGED <<clip, disk>>
  /\ IF undo[w].ok
     THEN /\ buf' = [buf EXCEPT ![w] = Set(undo[w].was)] /\ comp' = 0
          /\ undo' = [undo EXCEPT ![w].was = Full(w)]
          /\ typing' = [typing EXCEPT ![w] = Undone(w)] /\ selAll' = [selAll EXCEPT ![w] = FALSE]
          /\ Means(w, before[w], "edit")
     ELSE OnlySettles(w)

(* The copy a selection gives; a text that is too big is refused. *)
Copies(w) == selAll[w] /\ Full(w) # <<>> /\ Len(Full(w)) <= ClipMax

Copy(w, cut) ==
  /\ Typable(w) /\ Rest /\ UNCHANGED disk
  /\ clip' = IF Copies(w) THEN Full(w) ELSE clip
  /\ IF Copies(w) /\ cut
     THEN Edit(w, <<>>) /\ Means(w, <<>>, "edit")
     ELSE OnlySettles(w)

Pasted(w) == IF selAll[w] THEN <<>> ELSE Full(w)

(* What the bytes of the clipboard say; they were cut from a whole text. *)
Chars(t) == SelectSeq(t, LAMBDA b : b # 4)

(* Paste, cut short to the room there is.  In a text without room for the zero
   the room is computed as a huge number: such a text is not pasted into here. *)
Paste(w) ==
  /\ Typable(w) /\ Rest /\ UNCHANGED <<clip, disk>>
  /\ Len(Pasted(w)) < Size
  /\ IF clip = <<>> THEN OnlySettles(w)
     ELSE /\ Edit(w, Pasted(w) \o SubSeq(clip, 1, IF Len(clip) < Size - 1 - Len(Pasted(w))
                                                  THEN Len(clip) ELSE Size - 1 - Len(Pasted(w))))
          /\ Means(w, Had(w) \o Chars(clip), "edit")

Delete(w) ==
  /\ Typable(w) /\ Rest /\ UNCHANGED <<clip, disk>>
  /\ IF selAll[w] /\ Full(w) # <<>>
     THEN Edit(w, <<>>) /\ Means(w, <<>>, "edit")
     ELSE OnlySettles(w)

SelectAll(w) ==
  /\ Typable(w) /\ Rest /\ UNCHANGED <<clip, disk, undo>>
  /\ buf' = [buf EXCEPT ![w] = Full(w)] /\ comp' = 0
  /\ selAll' = [selAll EXCEPT ![w] = @ \/ Full(w) # <<>>]
  /\ typing' = [typing EXCEPT ![w] = @ /\ Full(w) = <<>>]
  /\ running' = [running EXCEPT ![w] = @ /\ meant[w] = <<>>] /\ UNCHANGED <<meant, before, known>>

TimeDate(w) ==
  /\ Typable(w) /\ Rest /\ UNCHANGED <<clip, disk>>
  /\ Edit(w, Appended(Pasted(w), Stamp))
  /\ Means(w, Had(w) \o [i \in 1 .. Stamp |-> Letter], "edit")

-----------------------------------------------------------------------------
(* Saving, asking, opening. *)

(* A fault for comparison: Ctrl+S saves what is in the buffer. *)
SavedBuffer(w) == buf[w]

(* What a save writes: the Ctrl keys and the menu settle the syllable first. *)
Saved(w) == Full(w)

Save(w) ==
  /\ Typable(w) /\ Rest /\ UNCHANGED clip
  /\ disk' = Saved(w) /\ OnlySettles(w)

(* New and Close ask.  The title bar's X asks without settling anything. *)
Ask(w, q, mouse) ==
  /\ Typable(w) /\ ask' = [ask EXCEPT ![w] = q]
  /\ mouse => (q = "close" /\ (Settles => comp = 0))
  /\ buf' = [buf EXCEPT ![w] = IF mouse THEN @ ELSE Full(w)]
  /\ comp' = (IF mouse THEN comp ELSE 0)
  /\ UNCHANGED <<undo, typing, selAll, hist, open, focus, ime, clip, disk, edits>>

(* confirm_yes_action(), confirm_no_action(): the document goes.  The Undo
   snapshot, the selection and the run of typing stay with the window. *)
Answer(w, yes) ==
  /\ focus = w /\ ask[w] # "none"
  /\ disk' = (IF yes THEN buf[w] ELSE disk)
  /\ buf' = [buf EXCEPT ![w] = <<>>] /\ comp' = 0
  /\ ask' = [ask EXCEPT ![w] = "none"]
  /\ \/ ask[w] = "new" /\ UNCHANGED <<open, focus>>
     \/ /\ ask[w] = "close" /\ open' = open \ {w}
        /\ \/ open' = {} /\ focus' = NoWin
           \/ focus' \in open'
  /\ meant' = [meant EXCEPT ![w] = <<>>] /\ before' = [before EXCEPT ![w] = <<>>]
  /\ running' = [running EXCEPT ![w] = FALSE]
  /\ known' = [known EXCEPT ![w] = @ /\ ~undo[w].ok /\ ~typing[w] /\ ~selAll[w]]
  /\ UNCHANGED <<undo, typing, selAll, ime, clip, edits>>

(* A window opens, blank or with the file (open_document_slot(), which refuses
   a file that leaves no room for the zero).  The syllable is given up. *)
Opens(w, t) ==
  /\ w \notin open /\ (Settles => comp = 0)
  /\ t \in {<<>>} \cup (IF Len(disk) < Size THEN {disk} ELSE {})
  /\ open' = open \cup {w} /\ focus' = w /\ comp' = 0
  /\ buf' = [buf EXCEPT ![w] = t] /\ ask' = [ask EXCEPT ![w] = "none"]
  /\ meant' = [meant EXCEPT ![w] = IF known[w] THEN Chars(t) ELSE <<>>]
  /\ Count
  /\ UNCHANGED <<undo, typing, selAll, before, running, known, ime, clip, disk>>

(* A click brings another window to the front. *)
Focus(w) ==
  /\ w \in open /\ w # focus /\ (Settles => comp = 0)
  /\ focus' = w
  /\ UNCHANGED <<texts, ask, open, ime, comp, clip, disk, hist, edits>>

-----------------------------------------------------------------------------
Init ==
  /\ buf = [w \in Win |-> <<>>] /\ undo = [w \in Win |-> [ok |-> FALSE, was |-> <<>>]]
  /\ typing = [w \in Win |-> FALSE] /\ selAll = [w \in Win |-> FALSE]
  /\ ask = [w \in Win |-> "none"] /\ open = {} /\ focus = NoWin
  /\ ime = "ko" /\ comp = 0 /\ clip = <<>> /\ disk = <<>>
  /\ meant = [w \in Win |-> <<>>] /\ before = [w \in Win |-> <<>>]
  /\ running = [w \in Win |-> FALSE] /\ known = [w \in Win |-> TRUE] /\ edits = 0

Next ==
  \E w \in Win :
    \/ Type(w) \/ Backspace(w) \/ RightAlt(w)
    \/ \E f \in UNION {Feeds(c) : c \in 0 .. 3} : Jamo(w, f)
    \/ Undo(w) \/ Paste(w) \/ Delete(w) \/ SelectAll(w) \/ TimeDate(w) \/ Save(w)
    \/ \E cut \in BOOLEAN : Copy(w, cut)
    \/ \E q \in {"new", "close"}, mouse \in BOOLEAN : Ask(w, q, mouse)
    \/ \E yes \in BOOLEAN : Answer(w, yes)
    \/ \E t \in {<<>>, disk} : Opens(w, t)
    \/ Focus(w)

Spec == Init /\ [][Next]_vars

-----------------------------------------------------------------------------
(* The buffers hold bytes, and no more of them than there is room for; a
   syllable is composed only in Hangul mode and for a window in front. *)
TypeOK ==
  /\ \A w \in Win : Len(buf[w]) <= Size /\ Len(undo[w].was) <= Size
  /\ \A w \in Win : \A i \in DOMAIN buf[w] : buf[w][i] \in Byte
  /\ comp \in 0 .. 3 /\ (comp # 0 => ime = "ko" /\ focus \in open)
  /\ open \subseteq Win /\ focus \in open \cup {NoWin} /\ Len(clip) <= ClipMax

(* A window shows what was typed into it, with the syllable that is still being
   composed, and its Undo has the text as it was before the last edit, a run
   of typing being one: through switches of the input method and of the window,
   selections, the clipboard and Undo itself (which redoes). *)
AsTyped ==
  \A w \in Win : known[w] =>
    /\ buf[w] \o (IF comp # 0 /\ focus = w THEN Syl(comp) ELSE <<>>) = Bytes(meant[w])
    /\ undo[w].ok => undo[w].was = Bytes(before[w])

(* Whatever way a document is saved, the file gets the syllable that was still
   being composed too. *)
SavesWhatIsShownStep ==
  \A w \in Win : disk' # disk /\ focus = w /\ known[w] => disk' = Bytes(meant[w])
SavesWhatIsShown == [][SavesWhatIsShownStep]_vars

(* hangul_ime.h:193: a syllable is added "staying under maxlen like a
   responsible adult", so that there is room for the zero after the text. *)
StaysUnder == \A w \in Win : Len(buf[w]) < Size
=============================================================================
