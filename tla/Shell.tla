-------------------------------- MODULE Shell --------------------------------
(***************************************************************************)
(* MiniShell (kernel/apps/terminal.h): its session and the two accounts,   *)
(* the input line that belongs to a password prompt, to a question that    *)
(* waits for its YES, or to a command, and the ring of lines above it, in  *)
(* which a running installation keeps its progress.                        *)
(*                                                                         *)
(* The input line is a sequence of pieces [text, secret]; secret says that *)
(* a piece was typed while a password was asked for.  The disks behind     *)
(* the questions are in Install and Parts, the file commands in Vfs.       *)
(***************************************************************************)
EXTENDS Integers, Sequences

CONSTANTS
  Pw,          (* the passwords a user may choose                                    *)
  Disk,        (* what os-inst and part may name                                     *)
  Rows,        (* TERM_SCROLLBACK_ROWS                                               *)
  Jobs,        (* bound: installations                                               *)
  None,
  Patient      (* TRUE: the user answers a question before starting INSTALL.MWP, and *)
               (* neither clears nor floods the screen while an installation runs    *)

(* What the constants must satisfy. *)
ConstantsOK ==
  /\ Rows \in Nat \ {0, 1} /\ Jobs \in Nat /\ Patient \in BOOLEAN
  /\ None \notin Pw \cup Disk /\ None \notin {"shell", "gui"} /\ None \notin 0 .. Rows - 1

VARIABLES
  open, on,         (* term_win.open, term_session_on                                *)
  root,             (* term_is_root                                                  *)
  mode, first,      (* term_pw_mode, term_pw_first                                   *)
  line,             (* term_input_buf                                                *)
  stored,           (* the password behind /sys/ROOT.PWD, or None                    *)
  question,         (* term_inst_pending, part_pending: <<command, disk>>, or None   *)
  inst,             (* inst: who runs an installation, "shell" or "gui"              *)
  ring, head,       (* term_scrollback: what its rows hold; term_scroll_head         *)
  progress,         (* term_inst_progress_head, None for -1                          *)
  earned,           (* history: the user of this session knew or chose the password  *)
  last,             (* history: the question the line entered last asked, or <<>>     *)
  jobs, said        (* installations; rows printed since the last progress line      *)

session == <<open, on, root, mode, first, line, stored>>
screen == <<ring, head>>
hist == <<earned, last>>
counts == <<jobs, said>>
vars == <<session, question, inst, screen, progress, hist, counts>>

Commands == {<<"root">>, <<"user">>, <<"clear">>, <<"ls">>, <<"YES">>}
Asking == {"os-inst", "part"} \X Disk
Word == Pw \cup Commands \cup Asking
Texts(l) == [k \in DOMAIN l |-> l[k].text]
IsSecret(l) == \E k \in DOMAIN l : l[k].secret

(* What a row of the ring holds: a secret, the progress, any other line or nothing yet. *)
Row == {"secret", "progress", "line"}
Newest == (head + Rows - 1) % Rows

(* term_print() of some rows; a patient user leaves fewer than a screen of them between two
   reports of the installation. *)
Printed(rows) ==
  /\ ring' = [k \in 0 .. Rows - 1 |->
       LET n == {j \in DOMAIN rows : (head + j - 1) % Rows = k} IN IF n = {} THEN ring[k] ELSE rows[CHOOSE j \in n : \A i \in n : i <= j]]
  /\ head' = (head + Len(rows)) % Rows
  /\ said' = IF Patient /\ inst = "shell" THEN said + Len(rows) ELSE 0
  /\ said' < Rows

Init ==
  /\ open = FALSE /\ on = FALSE /\ root = FALSE /\ mode = "none" /\ first = <<>> /\ line = <<>> /\ stored = None
  /\ question = None /\ inst = None
  /\ ring = [k \in 0 .. Rows - 1 |-> "line"] /\ head = 0 /\ progress = None
  /\ earned = FALSE /\ last = <<>> /\ jobs = 0 /\ said = 0

-----------------------------------------------------------------------------
(* The window opens, from the start menu or its icon; its first frame begins the session. *)
Open ==
  /\ ~open /\ open' = TRUE
  /\ UNCHANGED <<on, root, mode, first, line, stored, question, inst, screen, progress, hist, counts>>

SessionBegin ==
  /\ open /\ ~on /\ on' = TRUE /\ root' = FALSE
  /\ mode' = IF stored = None THEN "new" ELSE "none"
  /\ Printed(<<"line">>)
  /\ UNCHANGED <<open, first, line, stored, question, inst, progress, hist, jobs>>

(* A fault for comparison: what was typed waits for the next session. *)
SessionEndKeeping == on' = FALSE /\ root' = FALSE /\ mode' = "none" /\ first' = <<>> /\ UNCHANGED line

(* term_session_end(). *)
SessionEnd == on' = FALSE /\ root' = FALSE /\ mode' = "none" /\ first' = <<>> /\ line' = <<>>

(* The close button, the taskbar's, Shell > Close window. *)
Close ==
  /\ open /\ open' = FALSE /\ SessionEnd /\ earned' = FALSE
  /\ UNCHANGED <<stored, question, inst, screen, progress, last, counts>>

(* Keys into the input line; a user types no password where it would show. *)
Type(w) ==
  /\ on /\ Len(line) < 2
  /\ IF mode = "none" THEN w \notin Pw /\ line = <<>> ELSE w \in Pw
  /\ line' = Append(line, [text |-> w, secret |-> mode # "none"])
  /\ UNCHANGED <<open, on, root, mode, first, stored, question, inst, screen, progress, hist, counts>>

(* MiniFiles' Install: it opens MiniShell and types the command, but for the Enter. *)
FilesTypes(d) ==
  /\ open' = TRUE
  /\ line' = IF mode # "none" THEN line ELSE <<[text |-> <<"os-inst", d>>, secret |-> FALSE]>>
  /\ UNCHANGED <<on, root, mode, first, stored, question, inst, screen, progress, hist, counts>>

-----------------------------------------------------------------------------
(* A fault for comparison: an empty retyped line is a match. *)
MatchesEmptied == \A k \in DOMAIN line : k \in DOMAIN first /\ Texts(line)[k] = first[k]

(* The two entries are the same, to their ends. *)
Matches == Texts(line) = first

(* term_pw_submit(); the file may be impossible to write. *)
PwSubmit ==
  /\ mode # "none" /\ line' = <<>>
  /\ \E written \in BOOLEAN :
       CASE mode = "new" ->
              /\ IF line = <<>> THEN Printed(<<"line">>) /\ UNCHANGED <<mode, first>>
                 ELSE first' = Texts(line) /\ mode' = "confirm" /\ UNCHANGED <<screen, said>>
              /\ UNCHANGED <<root, stored, earned>>
         [] mode = "confirm" ->
              /\ Printed(<<"line">>) /\ first' = <<>>
              /\ IF ~Matches THEN mode' = "new" /\ UNCHANGED <<root, stored, earned>>
                 ELSE /\ root' = TRUE /\ mode' = "none"
                      /\ stored' = IF written THEN Texts(line) ELSE stored
                      /\ earned' = (Texts(line) = first /\ line # <<>>)
         [] mode = "login" ->
              /\ Printed(<<"line">>) /\ mode' = "none"
              /\ LET right == stored # None /\ Texts(line) = stored IN
                   root' = (root \/ right) /\ earned' = (earned \/ right)
              /\ UNCHANGED <<first, stored>>
  /\ UNCHANGED <<open, on, question, inst, progress, last, jobs>>

Echo == IF IsSecret(line) THEN "secret" ELSE "line"

(* A fault for comparison: any other answer leaves the question open. *)
AnswerLoosely ==
  /\ question # None /\ (inst # None => question[1] = "os-inst")
  /\ IF Texts(line) = <<<<"YES">>>>
     THEN question' = None /\ Printed(<<Echo, "line">>) /\ IF question[1] = "os-inst" THEN inst' = "shell" /\ progress' = None /\ jobs' = jobs + 1
                                                          ELSE UNCHANGED <<inst, progress, jobs>>
     ELSE Printed(<<Echo, "line">>) /\ UNCHANGED <<question, inst, progress, jobs>>
  /\ UNCHANGED <<mode, root, stored>>

(* The line answers a question: YES begins the installation (term_inst_start) or changes the
   partitions, anything else is a no. *)
Answer ==
  /\ question # None /\ (inst # None => question[1] = "os-inst")
  /\ question' = None /\ Printed(<<Echo, "line">>)
  /\ IF Texts(line) = <<<<"YES">>>> /\ question[1] = "os-inst"
     THEN inst' = "shell" /\ progress' = None /\ jobs' = jobs + 1 ELSE UNCHANGED <<inst, progress, jobs>>
  /\ UNCHANGED <<mode, root, stored>>

(* The line waits for the installation that is running. *)
Wait ==
  /\ (question # None => question[1] = "part") /\ inst # None
  /\ Printed(<<Echo, "line">>)
  /\ UNCHANGED <<question, inst, progress, jobs, mode, root, stored>>

(* The line is a command. *)
Command ==
  /\ question = None /\ inst = None
  /\ LET w == IF Len(line) = 1 THEN line[1].text ELSE <<"ls">> IN
       /\ mode' = IF w # <<"root">> \/ root THEN mode ELSE IF stored # None THEN "login" ELSE "new"
       /\ root' = (root /\ w # <<"user">>)
       /\ question' = IF w \in Asking /\ jobs < Jobs THEN w ELSE None
       /\ IF w # <<"clear">> THEN Printed(<<Echo, "line">>)
          ELSE head' = 0 /\ ring' = [ring EXCEPT ![head] = Echo] /\ said' = 0
  /\ UNCHANGED <<inst, progress, jobs, stored>>

(* term_run_input() outside a password prompt. *)
Enter ==
  /\ on /\ mode = "none"
  /\ Answer \/ Wait \/ Command
  /\ line' = <<>> /\ last' = IF Len(line) = 1 /\ line[1].text \in Asking THEN line[1].text ELSE <<>>
  /\ UNCHANGED <<open, on, first, earned>>

(* Shell > Clear screen: the rows stay in memory, the cursor goes back. *)
MenuWipe ==
  /\ on /\ (Patient => inst = None) /\ head' = 0 /\ UNCHANGED <<ring, said>>
  /\ UNCHANGED <<session, question, inst, progress, hist, jobs>>

(* Tools: an item types its command and enters it, unless the line is a password prompt. *)
MenuTool ==
  /\ on /\ mode = "none" /\ line # <<[text |-> <<"ls">>, secret |-> FALSE]>>
  /\ line' = <<[text |-> <<"ls">>, secret |-> FALSE]>>
  /\ UNCHANGED <<open, on, root, mode, first, stored, question, inst, screen, progress, hist, counts>>

-----------------------------------------------------------------------------
(* The INSTALL window of the live disc has a job of its own. *)
GuiInstalls ==
  /\ inst = None /\ jobs < Jobs /\ (Patient => question = None)
  /\ inst' = "gui" /\ jobs' = jobs + 1
  /\ UNCHANGED <<session, question, screen, progress, hist, said>>

(* A fault for comparison: the newest row is taken for the progress line. *)
InPlaceAlways == progress # None

(* The progress line is still the newest row. *)
InPlace == progress = Newest

(* term_install_poll(): the progress is a line of its own, rewritten while it is the newest. *)
Advances ==
  /\ inst = "shell"
  /\ IF InPlace THEN ring' = [ring EXCEPT ![Newest] = "progress"] /\ UNCHANGED <<head, progress>> /\ said' = 0
     ELSE ring' = [ring EXCEPT ![head] = "progress"] /\ progress' = head /\ head' = (head + 1) % Rows /\ said' = 0
  /\ UNCHANGED <<session, question, inst, hist, jobs>>
Finishes ==
  /\ inst # None /\ inst' = None
  /\ IF inst = "gui" THEN UNCHANGED <<screen, said>>
     ELSE /\ head' = (head + 1) % Rows /\ said' = 0
          /\ ring' = [k \in DOMAIN ring |-> IF k = head THEN "line" ELSE IF k = Newest /\ InPlace THEN "progress" ELSE ring[k]]
  /\ UNCHANGED <<session, question, progress, hist, jobs>>

Next ==
  \/ Open \/ SessionBegin \/ Close \/ PwSubmit \/ Enter \/ MenuWipe \/ MenuTool \/ GuiInstalls \/ Advances \/ Finishes
  \/ \E w \in Word : Type(w)
  \/ \E d \in Disk : FilesTypes(d)

Spec == Init /\ [][Next]_vars

-----------------------------------------------------------------------------
TypeOK ==
  /\ {open, on, root, earned} \subseteq BOOLEAN /\ mode \in {"none", "new", "confirm", "login"}
  /\ Len(line) <= 2 /\ Len(first) <= 2 /\ question \in {None} \cup Asking /\ inst \in {None, "shell", "gui"}
  /\ ring \in [0 .. Rows - 1 -> Row] /\ head \in 0 .. Rows - 1 /\ progress \in {None} \cup 0 .. Rows - 1
  /\ (on => open) /\ (root => on) /\ jobs \in 0 .. Jobs + 1

(* No row of the screen ever holds what was typed at a password prompt, whatever the window
   went through between the typing and the Enter. *)
NeverEchoed == \A k \in DOMAIN ring : ring[k] # "secret"

(* Whoever sits before a root prompt gave the password that was stored, or chose one by typing
   the same non-empty line twice, since the window was opened. *)
RootIsEarned == root => earned

(* A disk is written only when the line entered before the YES is the command that asked about
   it: an answer that came to something else never falls through to a question left over. *)
StartsAsAskedStep ==
  (question # None /\ question' = None /\ Texts(line) = <<<<"YES">>>>) => last = question
StartsAsAsked == [][StartsAsAskedStep]_vars

(* A step of the installation touches, of the lines on the screen, only its progress line. *)
OwnLineOnlyStep ==
  (inst = "shell" /\ (Advances \/ Finishes)) => \A k \in DOMAIN ring : k # head => ring'[k] = ring[k]
OwnLineOnly == [][OwnLineOnlyStep]_vars
=============================================================================
