----------------------------- MODULE Terminal ------------------------------
(***************************************************************************)
(* Keyboard and mouse input, from the PS/2 controller to the shell:       *)
(* mouse::init run by kernel_main (src/mouse.rs) with interrupts already  *)
(* on, the IRQ1 and IRQ12 handlers (src/interrupts.rs,                   *)
(* keyboard::on_scancode, mouse::on_irq), the TTY0 queue (src/tty.rs)   *)
(* and the shell task's read_line loop (src/shell.rs).                   *)
(*                                                                         *)
(* obuf is the controller's output: the bytes port 0x60 will give, in     *)
(* order, each from the keyboard side ("kbd": a scancode, or the         *)
(* controller's own reply "ctl") or from the mouse ("aux").  The head    *)
(* raises IRQ1 or IRQ12 when the command byte enables it.  An interrupt   *)
(* handler runs to completion with IF = 0, so it is one step; when it    *)
(* finds its spin lock taken by the thread it interrupted it spins for    *)
(* ever (spin), and nothing else runs again.  A scancode stands for the  *)
(* key it decodes to; release codes decode to nothing and are left out.  *)
(***************************************************************************)
EXTENDS Naturals, Sequences, SequencesExt

CONSTANTS
  Chars,       \* printable characters typed
  NL,          \* model value: '\n'
  BS,          \* model value: '\u{8}', backspace
  Ack,         \* model value: the mouse's 0xFA
  QCap,        \* capacity of Queue<char, 256>: 255 in the code
  LineCap,     \* capacity of the shell's String<256>
  MaxKeys,     \* bound: keys typed
  MaxPackets,  \* bound: mouse packets sent
  Space,       \* the space key, which trim removes
  HelloLine,   \* the keys of "hello"
  ClearLine,   \* the keys of "clear"
  ConsoleCap   \* capacity of the console's String<512>, in bytes

Keys == Chars \cup {NL, BS}

VARIABLES
  obuf,        \* bytes waiting at port 0x60
  kbdIrqOn,    \* command byte bit 0: IRQ1 on keyboard bytes
  auxIrqOn,    \* command byte bit 1: IRQ12 on mouse bytes
  reporting,   \* the mouse streams packets (after 0xF4)
  mpc,         \* kernel_main: its step of mouse::init, then "run"/"cursor"
  mouse,       \* MOUSE: [idx |-> byte_idx, packet, n |-> packets decoded]
  mlock,       \* holder of MOUSE outside interrupts: "free" or "main"
  q,           \* TTY0's queue
  tlock,       \* holder of TTY0 outside interrupts: "free" or "shell"
  spc,         \* shell_task: "read", "locked" (in read_char) or "cmd"
  buf,         \* the shell's line buffer
  spin,        \* the interrupt handler spinning for ever, or "none"
  nKeys,       \* keys typed so far
  nPk,         \* packets sent so far
  sent,        \* history: the characters TTY0 accepted, in order
  handled,     \* history: the lines handle_cmd received
  cout         \* CONSOLE.output: printed texts and "nl"

vars == <<obuf, kbdIrqOn, auxIrqOn, reporting, mpc, mouse, mlock, q, tlock,
          spc, buf, spin, nKeys, nPk, sent, handled, cout>>
ps2Vars == <<obuf, kbdIrqOn, auxIrqOn, reporting>>
ttyVars == <<q, tlock, spc, buf, sent, handled, cout>>

(* Interrupts are on (interrupts::init); the BIOS left IRQ1 enabled in    *)
(* the command byte and the mouse silent; nothing has been typed.         *)
Init ==
  /\ obuf = <<>> /\ kbdIrqOn = TRUE /\ auxIrqOn = FALSE /\ reporting = FALSE
  /\ mpc = "cmd20"
  /\ mouse = [idx |-> 0, packet |-> <<"none", "none", "none">>, n |-> 0]
  /\ mlock = "free"
  /\ q = <<>> /\ tlock = "free" /\ spc = "read" /\ buf = <<>>
  /\ spin = "none" /\ nKeys = 0 /\ nPk = 0 /\ sent = <<>> /\ handled = <<>>
  /\ cout = <<>>

Running == spin = "none"

----------------------------------------------------------------------------
(* The user presses a key: its scancode joins the controller's output.  *)
TypeKey ==
  /\ Running /\ nKeys < MaxKeys
  /\ \E k \in Keys : obuf' = Append(obuf, [src |-> "kbd", key |-> k])
  /\ nKeys' = nKeys + 1
  /\ UNCHANGED <<kbdIrqOn, auxIrqOn, reporting, mpc, mouse, mlock, spin, nPk, ttyVars>>

(* The mouse, once reporting, sends a 3-byte movement packet. *)
MovePacket ==
  /\ Running /\ reporting /\ nPk < MaxPackets
  /\ obuf' = obuf \o [j \in 1 .. 3 |-> [src |-> "aux", pk |-> nPk, pos |-> j - 1]]
  /\ nPk' = nPk + 1
  /\ UNCHANGED <<kbdIrqOn, auxIrqOn, reporting, mpc, mouse, mlock, spin, nKeys, ttyVars>>

(* mouse::init lines 19-21: 0xA8, then 0x20, whose reply (the command    *)
(* byte) the controller puts out on the keyboard side.                    *)
InitCmd ==
  /\ Running /\ mpc = "cmd20"
  /\ obuf' = Append(obuf, [src |-> "ctl"])
  /\ mpc' = "read20"
  /\ UNCHANGED <<kbdIrqOn, auxIrqOn, reporting, mouse, mlock, spin, nKeys, nPk, ttyVars>>

(* A read of port 0x60 by kernel_main: the head byte, if there is one. *)
PollRead == obuf' = IF obuf = <<>> THEN obuf ELSE Tail(obuf)

(* Lines 22-24: status = data.read(); status | 0x02 written back.  The    *)
(* byte read is the command byte, or, when IRQ1 took it first, port      *)
(* 0x60 repeats it; either way IRQ12 is switched on.                     *)
InitWriteCfg ==
  /\ Running /\ mpc = "read20"
  /\ PollRead /\ auxIrqOn' = TRUE /\ mpc' = "sendF6"
  /\ UNCHANGED <<kbdIrqOn, reporting, mouse, mlock, spin, nKeys, nPk, ttyVars>>

(* send_mouse lines 35-36: 0xD4 then the byte; the mouse answers 0xFA,   *)
(* and after 0xF4 starts reporting.                                       *)
SendMouse ==
  /\ Running /\ mpc \in {"sendF6", "sendF4"}
  /\ obuf' = Append(obuf, [src |-> "aux", pk |-> Ack, pos |-> 0])
  /\ reporting' = (mpc = "sendF4")
  /\ mpc' = IF mpc = "sendF6" THEN "ackF6" ELSE "ackF4"
  /\ UNCHANGED <<kbdIrqOn, auxIrqOn, mouse, mlock, spin, nKeys, nPk, ttyVars>>

(* send_mouse line 37: let _ack = data.read(), whatever byte is there. *)
ReadAck ==
  /\ Running /\ mpc \in {"ackF6", "ackF4"}
  /\ PollRead
  /\ mpc' = IF mpc = "ackF6" THEN "sendF4" ELSE "run"
  /\ UNCHANGED <<kbdIrqOn, auxIrqOn, reporting, mouse, mlock, spin, nKeys, nPk, ttyVars>>

(* window::refresh_desktop calls draw_cursor, which holds MOUSE with     *)
(* interrupts on while it draws (lines 59-60), then drops it.            *)
CursorLock ==
  /\ Running /\ mpc = "run" /\ mpc' = "cursor" /\ mlock' = "main"
  /\ UNCHANGED <<ps2Vars, mouse, spin, nKeys, nPk, ttyVars>>

CursorUnlock ==
  /\ Running /\ mpc = "cursor" /\ mpc' = "run" /\ mlock' = "free"
  /\ UNCHANGED <<ps2Vars, mouse, spin, nKeys, nPk, ttyVars>>

----------------------------------------------------------------------------
(* Mutant: the full check lets the queue take one more. *)
HasRoomOffByOne(qq) == Len(qq) <= QCap

(* heapless spsc Queue<_, 256>::enqueue fails once 255 are held. *)
HasRoom(qq) == Len(qq) < QCap

(* IRQ1: read the scancode, decode it, tty::write_char: TTY0.lock() and  *)
(* enqueue, the character dropped when the queue is full.  The reply     *)
(* byte of command 0x20 is decoded as a scancode too: to a character or  *)
(* to nothing, depending on its value.                                    *)
KeyboardIrq ==
  /\ Running /\ kbdIrqOn /\ obuf # <<>> /\ Head(obuf).src \in {"kbd", "ctl"}
  /\ obuf' = Tail(obuf)
  /\ \E c \in IF Head(obuf).src = "kbd" THEN {Head(obuf).key} ELSE Chars \cup {"none"} :
       IF c = "none" THEN UNCHANGED <<spin, q, sent>>
       ELSE IF tlock # "free" THEN spin' = "kbd" /\ UNCHANGED <<q, sent>>
       ELSE IF HasRoom(q)
         THEN q' = Append(q, c) /\ sent' = Append(sent, c) /\ UNCHANGED spin
         ELSE UNCHANGED <<spin, q, sent>>
  /\ UNCHANGED <<kbdIrqOn, auxIrqOn, reporting, mpc, mouse, mlock, nKeys, nPk,
                 tlock, spc, buf, handled, cout>>

(* on_irq line 46: byte_idx = (byte_idx + 1) % 3. *)
NextIdx(i) == (i + 1) % 3

(* IRQ12, mouse::on_irq: read the byte, MOUSE.lock(), store it at        *)
(* byte_idx; the third byte completes a packet, which is decoded.        *)
MouseIrq ==
  /\ Running /\ auxIrqOn /\ obuf # <<>> /\ Head(obuf).src = "aux"
  /\ obuf' = Tail(obuf)
  /\ IF mlock # "free"
       THEN spin' = "mouse" /\ UNCHANGED mouse
       ELSE /\ mouse' = [mouse EXCEPT !.packet[mouse.idx + 1] = Head(obuf),
                                      !.idx = NextIdx(mouse.idx),
                                      !.n = IF NextIdx(mouse.idx) = 0 THEN @ + 1 ELSE @]
            /\ UNCHANGED spin
  /\ UNCHANGED <<kbdIrqOn, auxIrqOn, reporting, mpc, mlock, nKeys, nPk, ttyVars>>

----------------------------------------------------------------------------
(* The shell runs once kernel_main has spawned it, after mouse::init.    *)
ShellStarted == mpc \in {"run", "cursor"}

(* read_char: TTY0.lock(). *)
ReadCharLock ==
  /\ Running /\ ShellStarted /\ spc = "read" /\ tlock = "free"
  /\ tlock' = "shell" /\ spc' = "locked"
  /\ UNCHANGED <<ps2Vars, mpc, mouse, mlock, spin, nKeys, nPk, q, buf, sent, handled, cout>>

(* read_line's match: a backspace pops, any other character is pushed   *)
(* unless the String<256> is full.                                        *)
EditKey(b, c) ==
  IF c = BS THEN (IF b = <<>> THEN b ELSE SubSeq(b, 1, Len(b) - 1))
  ELSE IF Len(b) < LineCap THEN Append(b, c) ELSE b

(* read_char's dequeue and unlock, then read_line's match on the result: *)
(* None returns false (then window::sleep and the next read_line), a    *)
(* newline returns true to handle_cmd, any other character edits buf    *)
(* and the loop calls read_char again.  buf lives across read_line      *)
(* calls, so "read" stands for both.                                      *)
ReadCharTake ==
  /\ Running /\ spc = "locked"
  /\ tlock' = "free"
  /\ IF q = <<>>
       THEN spc' = "read" /\ UNCHANGED <<q, buf>>
       ELSE /\ q' = Tail(q)
            /\ IF Head(q) = NL THEN spc' = "cmd" /\ UNCHANGED buf
               ELSE spc' = "read" /\ buf' = EditKey(buf, Head(q))
  /\ UNCHANGED <<ps2Vars, mpc, mouse, mlock, spin, nKeys, nPk, sent, handled, cout>>

(* Mutant: the buffer is kept after the command. *)
AfterCmdNoClear(b) == b

(* shell_task line 8: buf.clear(). *)
AfterCmd(b) == <<>>

(* str::trim on a line of keys. *)
RECURSIVE TrimKeys(_)
TrimKeys(l) ==
  CASE l # <<>> /\ Head(l) = Space -> TrimKeys(Tail(l))
    [] l # <<>> /\ Last(l) = Space -> TrimKeys(Front(l))
    [] OTHER                        -> l

(* Bytes a text takes in the console. *)
TextLen(t) == CASE t = "nl" -> 1 [] t = "Hello!" -> 6 [] OTHER -> 7

ConsoleLen(c) == FoldLeft(LAMBDA n, t : n + TextLen(t), 0, c)

(* console::println, line 70: push_str(s) then push('\n'), each dropped  *)
(* whole when it does not fit; draw() only paints.                       *)
Println(c, s) ==
  LET c1 == IF ConsoleLen(c) + TextLen(s) <= ConsoleCap THEN Append(c, s) ELSE c
  IN IF ConsoleLen(c1) + 1 <= ConsoleCap THEN Append(c1, "nl") ELSE c1

(* console::clear, line 71. *)
ConsoleClear(c) == <<>>

(* handle_cmd, shell.rs lines 14-33, on the console.  The key sequences  *)
(* considered spell none of uptime, sleep, spawn or run, whose branches  *)
(* are the Scheduler's ShellSpawn, SleepCurrent and SpawnUserElf.        *)
CmdOutput(line, c) ==
  LET s == TrimKeys(line)
  IN CASE s = HelloLine -> Println(c, "Hello!")
       [] s = ClearLine -> ConsoleClear(c)
       [] s = <<>>      -> c
       [] OTHER         -> Println(c, "Unknown")

(* handle_cmd(&buf), then buf.clear(). *)
HandleCmd ==
  /\ Running /\ spc = "cmd"
  /\ handled' = Append(handled, buf)
  /\ cout' = CmdOutput(buf, cout)
  /\ buf' = AfterCmd(buf) /\ spc' = "read"
  /\ UNCHANGED <<ps2Vars, mpc, mouse, mlock, spin, nKeys, nPk, q, tlock, sent>>

Next ==
  \/ TypeKey \/ MovePacket
  \/ InitCmd \/ InitWriteCfg \/ SendMouse \/ ReadAck \/ CursorLock \/ CursorUnlock
  \/ KeyboardIrq \/ MouseIrq
  \/ ReadCharLock \/ ReadCharTake \/ HandleCmd

Spec == Init /\ [][Next]_vars

----------------------------------------------------------------------------
Byte == [src : {"kbd"}, key : Keys] \cup [src : {"ctl"}]
        \cup [src : {"aux"}, pk : (0 .. MaxPackets) \cup {Ack}, pos : 0 .. 2]

TypeOK ==
  /\ obuf \in Seq(Byte)
  /\ mpc \in {"cmd20", "read20", "sendF6", "ackF6", "sendF4", "ackF4", "run", "cursor"}
  /\ mouse.idx \in 0 .. 2 /\ mouse.n \in Nat
  /\ q \in Seq(Keys) /\ Len(q) <= QCap
  /\ spc \in {"read", "locked", "cmd"} /\ buf \in Seq(Keys) /\ Len(buf) <= LineCap
  /\ spin \in {"none", "kbd", "mouse"}
  /\ handled \in Seq(Seq(Keys))
  /\ cout \in Seq({"Hello!", "Unknown", "nl"}) /\ ConsoleLen(cout) <= ConsoleCap

(* What a user who typed the keys ks sees as lines: a newline ends the   *)
(* line, a backspace erases the last character, and a line keeps its    *)
(* first LineCap characters.                                              *)
TypeOn(acc, k) ==
  CASE k = NL -> [lines |-> Append(acc.lines, acc.cur), cur |-> <<>>]
    [] k = BS -> [acc EXCEPT !.cur = IF @ = <<>> THEN @ ELSE Front(@)]
    [] OTHER  -> [acc EXCEPT !.cur = IF Len(@) < LineCap THEN Append(@, k) ELSE @]

Typed(ks) == FoldLeft(TypeOn, [lines |-> <<>>, cur |-> <<>>], ks)

(* The shell's commands are the lines typed: handle_cmd receives, in     *)
(* order, exactly the lines of the characters TTY0 accepted and the     *)
(* shell has taken, and buf holds the line being typed.  The line is    *)
(* assembled over many read_line calls, each ended by an empty queue,   *)
(* with keyboard interrupts between any two steps.                        *)
LineDelivered ==
  LET taken == SubSeq(sent, 1, Len(sent) - Len(q))
      typed == Typed(taken)
  IN /\ IsSuffix(q, sent)
     /\ IF spc = "cmd" THEN typed.lines = Append(handled, buf) /\ typed.cur = <<>>
        ELSE typed.lines = handled /\ typed.cur = buf

(* A packet on_irq decodes is one the mouse sent: bytes 0, 1 and 2 of    *)
(* the same movement packet, as the decode of lines 47-52 reads them.    *)
(* send_mouse reads the mouse's 0xFA itself (line 37) and expects IRQ12  *)
(* not to see it.                                                         *)
MousePacketsAligned ==
  mouse.n > 0 /\ mouse.idx = 0 =>
    \E k \in 0 .. MaxPackets - 1 :
      mouse.packet = [j \in 1 .. 3 |-> [src |-> "aux", pk |-> k, pos |-> j - 1]]

(* Interrupt handlers run to completion and send their EOI: the IRQ1     *)
(* handler's tty::write_char and the IRQ12 handler's mouse::on_irq never *)
(* find TTY0 or MOUSE held.  Both locks are spin::Mutex, taken outside    *)
(* interrupts with IF = 1 (read_char by the shell, draw_cursor by        *)
(* kernel_main); an interrupt in that window spins on the single CPU.     *)
InterruptsNeverSpin == spin = "none"

=============================================================================
