------------------------------ MODULE ProgWin ------------------------------
(* The program window (src/kernel/apps/progwin.h, coro.h, mwp.h, mwp_api2.h): one
   program at a time runs as a coroutine on a stack of its own.  The kernel's main
   loop resumes it (Step), it makes system calls, and at three of them it hands
   the processor back; it may also return, or be stopped by an exception.  While
   it has not the processor its window may be closed and keys arrive.  A program
   run over the whole screen (mwp_run) is called on the kernel's stack, so the
   main loop stands still until it returns.

   "cpu" says who executes: the kernel, the program in the window, or the one on
   the full screen.  What a program computes between two calls is left out, and a
   call that has no effect on the state here (files, drawing, titles) too. *)
EXTENDS Integers, Sequences, SequencesExt

CONSTANTS
  Prog,        (* programs of /progs *)
  Refused,     (* those mwp_load() refuses: empty, short, or for a newer system *)
  None,
  Key,
  Ring,        (* PW_KEYQ *)
  Blocks,      (* places of the table of allocations, MWP_ALLOC_MAX *)
  Spins,       (* polls of an empty queue until a yield *)
  TickMod      (* 2^32: where the milliseconds wrap *)

ConstantsOK ==
  /\ Refused \subseteq Prog /\ None \notin Prog
  /\ Ring \in Nat \ {0, 1} /\ Spins \in Nat \ {0} /\ TickMod \in Nat \ {0}

VARIABLES
  cpu,      (* "kernel", "window" or "full": pw_cur is set exactly for "window" *)
  pw,       (* the run in the window *)
  sys,      (* what the kernel points at: [bb, mem, code, speaker, guards, held, ms] *)
  owed      (* keys accepted for the window and not yet polled; no code reads it *)

vars == <<cpu, pw, sys, owed>>

NoRun == [used |-> FALSE, finished |-> FALSE, faulted |-> FALSE, prog |-> None,
          keyq |-> [i \in 0 .. Ring - 1 |-> None], kh |-> 0, kt |-> 0, spin |-> 0,
          at |-> "fresh", until |-> 0, due |-> 0, mem |-> {}, surface |-> FALSE, stack |-> FALSE]

Init ==
  /\ cpu = "kernel" /\ pw = NoRun /\ owed = <<>>
  /\ sys = [bb |-> "screen", mem |-> "legacy", code |-> None, speaker |-> FALSE, guards |-> 0,
            held |-> {}, ms |-> 0]

-----------------------------------------------------------------------------
(* Keys. *)

Empty(p) == p.kh = p.kt
(* A full ring that lets the newest overwrite the oldest. *)
PushedAlways(p, k) == [p EXCEPT !.keyq[p.kt] = k, !.kt = (p.kt + 1) % Ring]

Pushed(p, k) ==
  LET next == (p.kt + 1) % Ring
  IN IF next = p.kh THEN p ELSE [p EXCEPT !.keyq[p.kt] = k, !.kt = next]
Popped(p) == IF Empty(p) THEN p ELSE [p EXCEPT !.kh = (@ + 1) % Ring]

PushKey(k) ==
  /\ cpu = "kernel" /\ pw.used
  /\ pw' = Pushed(pw, k)
  /\ owed' = IF pw' = pw THEN owed ELSE Append(owed, k)
  /\ UNCHANGED <<cpu, sys>>

-----------------------------------------------------------------------------
(* Life cycle. *)

(* pw_free_run(): the blocks, the stack with its guard page, the surface; a sound
   the program began is stopped. *)
FreeRun(p) == [p EXCEPT !.mem = {}, !.stack = FALSE, !.surface = FALSE]
(* The pages of the stack go back with the lowest still guarded. *)
FreedGuarded(s, p) == [s EXCEPT !.speaker = FALSE]

Freed(s, p) == [s EXCEPT !.speaker = FALSE, !.guards = IF p.stack THEN @ - 1 ELSE @]

Closed(p) == [FreeRun(p) EXCEPT !.used = FALSE, !.finished = FALSE]

(* A launch that keeps the keys of the run before. *)
FreshKeys(p, who) ==
  [p EXCEPT !.used = TRUE, !.finished = FALSE, !.faulted = FALSE, !.prog = who,
            !.spin = 0, !.at = "fresh", !.mem = {}, !.surface = TRUE, !.stack = TRUE]

(* pw_launch_args() and pw_launch_fn(), which brings its code with it; got says
   which of the surface and the stack there was memory for. *)
Fresh(p, who) ==
  [p EXCEPT !.used = TRUE, !.finished = FALSE, !.faulted = FALSE, !.prog = who, !.kh = 0, !.kt = 0,
            !.spin = 0, !.at = "fresh", !.mem = {}, !.surface = TRUE, !.stack = TRUE]

Start(who, code, got) ==
  LET held == [pw EXCEPT !.surface = "surface" \in got, !.stack = "stack" \in got]
      guarded == [sys EXCEPT !.code = code, !.guards = IF held.stack THEN @ + 1 ELSE @]
  IN IF got = {"surface", "stack"}
     THEN pw' = Fresh(pw, who) /\ sys' = guarded /\ owed' = <<>>
     ELSE pw' = FreeRun(held) /\ sys' = Freed(guarded, held) /\ UNCHANGED owed

Load(p) == IF p \in Refused THEN None ELSE p      (* mwp_load(): the code at the load address *)

(* Nothing is asked of a window that still runs. *)
LaunchOver(p, got) ==
  /\ cpu = "kernel"
  /\ IF Load(p) = None THEN sys' = [sys EXCEPT !.code = None] /\ UNCHANGED <<pw, owed>>
     ELSE IF pw.used THEN sys' = [sys EXCEPT !.code = p] /\ UNCHANGED <<pw, owed>>
     ELSE Start(p, p, got)
  /\ UNCHANGED cpu

Launch(p, got) ==
  /\ cpu = "kernel"
  /\ ~ pw.used
  /\ IF Load(p) = None THEN sys' = [sys EXCEPT !.code = None] /\ UNCHANGED <<pw, owed>>
     ELSE Start(p, p, got)
  /\ UNCHANGED cpu

LaunchFn(got) ==
  /\ cpu = "kernel" /\ ~ pw.used
  /\ Start(None, sys.code, got)
  /\ UNCHANGED cpu

Close ==
  /\ cpu = "kernel" /\ pw.used
  /\ pw' = Closed(pw) /\ sys' = Freed(sys, pw)
  /\ UNCHANGED <<cpu, owed>>

(* pw_step(): the program gets its surface and its table of blocks along with the
   processor. *)
Step ==
  /\ cpu = "kernel" /\ pw.used /\ ~ pw.finished
  /\ cpu' = "window"
  /\ sys' = [sys EXCEPT !.bb = "surface", !.mem = "window"]
  /\ UNCHANGED <<pw, owed>>

RestoredBut(s) == [s EXCEPT !.bb = "screen"]

(* Back on the kernel's stack, in the middle of pw_step(): the pointers are the
   kernel's again and a program that is through is closed. *)
Restored(s) == [s EXCEPT !.bb = "screen", !.mem = "legacy"]

Back(p) ==
  /\ cpu' = "kernel"
  /\ pw' = IF p.finished THEN Closed(p) ELSE p
  /\ sys' = Restored(IF p.finished THEN Freed(sys, p) ELSE sys)

-----------------------------------------------------------------------------
(* The program's side. *)

Yielding(at) == [pw EXCEPT !.spin = 0, !.at = at]

Present == cpu = "window" /\ pw.at \in {"fresh", "run"} /\ Back(Yielding("run")) /\ UNCHANGED owed

(* A polling loop that keeps the processor. *)
PollHard ==
  /\ cpu = "window" /\ pw.at \in {"fresh", "run"}
  /\ pw' = Popped(pw) /\ owed' = IF Empty(pw) THEN owed ELSE Tail(owed)
  /\ UNCHANGED <<cpu, sys>>

(* key_poll(): a few polls of an empty queue in a row end in a yield, after which
   the queue is looked at once more. *)
Poll ==
  /\ cpu = "window" /\ pw.at \in {"fresh", "run"}
  /\ IF ~ Empty(pw)
     THEN pw' = [Popped(pw) EXCEPT !.spin = 0] /\ owed' = Tail(owed) /\ UNCHANGED <<cpu, sys>>
     ELSE /\ IF pw.spin + 1 >= Spins THEN Back(Yielding("poll"))
             ELSE pw' = [pw EXCEPT !.spin = @ + 1] /\ UNCHANGED <<cpu, sys>>
          /\ UNCHANGED owed
PolledAgain ==
  /\ cpu = "window" /\ pw.at = "poll"
  /\ pw' = [Popped(pw) EXCEPT !.at = "run"]
  /\ owed' = IF Empty(pw) THEN owed ELSE Tail(owed)
  /\ UNCHANGED <<cpu, sys>>

PositiveUnwrapped(d) == d > 0

(* sleep_ms() yields until the difference to the wrapping count of milliseconds,
   read as a signed number, is no longer positive; "due" is the time that really
   has to pass.  A beep sounds while it sleeps. *)
Positive(d) == d % TickMod \in 1 .. TickMod \div 2 - 1

Sleep(n, beep) ==
  /\ cpu = "window" /\ pw.at \in {"fresh", "run"}
  /\ LET p == [Yielding(IF beep THEN "beep" ELSE "sleep") EXCEPT !.until = (sys.ms + n) % TickMod, !.due = n]
     IN /\ cpu' = "kernel" /\ pw' = p
        /\ sys' = Restored([sys EXCEPT !.speaker = @ \/ beep])
  /\ UNCHANGED owed
Woken ==
  /\ cpu = "window" /\ pw.at \in {"sleep", "beep"}
  /\ IF Positive(pw.until - sys.ms) THEN Back(Yielding(pw.at))
     ELSE /\ pw' = [pw EXCEPT !.at = "run"]
          /\ sys' = [sys EXCEPT !.speaker = IF pw.at = "beep" THEN FALSE ELSE @]
          /\ UNCHANGED cpu
  /\ UNCHANGED owed

Passes ==
  /\ cpu = "kernel"
  /\ sys' = [sys EXCEPT !.ms = (@ + 1) % TickMod]
  /\ pw' = [pw EXCEPT !.due = IF @ > 0 THEN @ - 1 ELSE 0]
  /\ UNCHANGED <<cpu, owed>>

(* mem_alloc() and mem_free() go through the table the kernel points at. *)
Held == IF sys.mem = "window" THEN pw.mem ELSE sys.held
Holding(blocks) ==
  IF sys.mem = "window" THEN pw' = [pw EXCEPT !.mem = blocks] /\ UNCHANGED sys
  ELSE sys' = [sys EXCEPT !.held = blocks] /\ UNCHANGED pw
Running == cpu = "full" \/ (cpu = "window" /\ pw.at \in {"fresh", "run"})
MemAlloc(b) == Running /\ b \notin Held /\ Holding(Held \cup {b}) /\ UNCHANGED <<cpu, owed>>
MemFree(b) == Running /\ b \in Held /\ Holding(Held \ {b}) /\ UNCHANGED <<cpu, owed>>

(* mwp_entry() returns, or the processor raises an exception (pw_fault()). *)
Returns == cpu = "window" /\ pw.at \in {"fresh", "run"} /\ Back([pw EXCEPT !.finished = TRUE]) /\ UNCHANGED owed
Fault == cpu = "window" /\ Back([pw EXCEPT !.finished = TRUE, !.faulted = TRUE]) /\ UNCHANGED owed

(* mwp_run() with what runs before and after it; the shell asks for the window to
   be closed first. *)
RunFull(p) ==
  /\ cpu = "kernel" /\ ~ pw.used
  /\ sys' = [sys EXCEPT !.code = Load(p), !.held = {}]
  /\ cpu' = IF Load(p) = None THEN "kernel" ELSE "full"
  /\ UNCHANGED <<pw, owed>>
ReturnsFull ==
  /\ cpu = "full"
  /\ cpu' = "kernel" /\ sys' = [sys EXCEPT !.held = {}]
  /\ UNCHANGED <<pw, owed>>

Next ==
  \/ \E k \in Key : PushKey(k)
  \/ \E got \in SUBSET {"surface", "stack"} : LaunchFn(got) \/ \E p \in Prog : Launch(p, got)
  \/ Close \/ Step \/ Passes \/ Present \/ Poll \/ PolledAgain \/ Woken \/ Returns \/ Fault
  \/ \E n \in 1 .. 2, beep \in BOOLEAN : Sleep(n, beep)
  \/ \E b \in Blocks : MemAlloc(b) \/ MemFree(b)
  \/ (\E p \in Prog : RunFull(p)) \/ ReturnsFull

Spec == Init /\ [][Next]_vars

(* The main loop comes round, and a program that waits for a key keeps polling. *)
Fairness == WF_vars(Step) /\ SF_vars(Poll) /\ WF_vars(PolledAgain) /\ WF_vars(Woken)

-----------------------------------------------------------------------------
(* Types: the fields of pw_t and of the system table. *)
TypeOK ==
  /\ cpu \in {"kernel", "window", "full"}
  /\ pw.kh \in 0 .. Ring - 1 /\ pw.kt \in 0 .. Ring - 1 /\ pw.spin \in 0 .. Spins
  /\ pw.at \in {"fresh", "run", "poll", "sleep", "beep"} /\ pw.mem \subseteq Blocks
  /\ sys.code \in Prog \cup {None} /\ sys.guards \in 0 .. 1 /\ sys.ms \in 0 .. TickMod - 1

(* However a run ends - it returns, faults, its window is closed in the middle of
   a beep, or there was no memory to begin it - nothing of it stays: its blocks,
   its pages, the guard under its stack, its sound (progwin.h:110). *)
NothingLeft ==
  /\ ~ pw.used => pw.mem = {} /\ ~ pw.stack /\ ~ pw.surface /\ sys.guards = 0 /\ ~ sys.speaker
  /\ cpu = "kernel" => sys.held = {}

(* Whenever the kernel executes it draws to the screen and allocates for the full
   screen, and a program in the window never does (progwin.h:216). *)
PointsHome == (cpu = "window" <=> sys.bb = "surface") /\ (cpu = "window" <=> sys.mem = "window")

(* The code at the one load address is that of the program in the window
   (progwin.h:23). *)
OwnCode == pw.used /\ pw.prog # None => sys.code = pw.prog

(* What the ring holds is what was typed into this run and not yet polled, in that
   order; a key that does not fit is the newest (progwin.h:94). *)
RingIs == [i \in 1 .. (pw.kt - pw.kh) % Ring |-> pw.keyq[(pw.kh + i - 1) % Ring]]
KeysInOrder == pw.used => RingIs = owed

(* A sleep is never cut short by the wrap of the clock (mwp_api2.h:147). *)
SleepsEnough == [][Woken /\ pw'.at = "run" => pw.due = 0]_vars

(* A program that does nothing but poll the keys gives the desktop its turn
   (progwin.h:12). *)
TurnsCome == cpu = "window" ~> cpu = "kernel"
=============================================================================
