------------------------------ MODULE ConsoleIO ------------------------------
(***************************************************************************)
(* The two writers of CONSOLE (src/console.rs) that Terminal leaves out:  *)
(* the console's own line editor, on_char and handle_command (lines       *)
(* 13-49), and the write system call, handle_syscall and sys_write        *)
(* (src/syscalls.rs lines 31-53), which prints through console::println.  *)
(* Both run with CONSOLE taken for the whole call, so a call is one step. *)
(*                                                                         *)
(* CONSOLE.output is a sequence of pieces, each a text pushed by one      *)
(* push_str or push, with its length in bytes; heapless push_str appends *)
(* a text whole, or not at all when it does not fit in the 512 bytes.    *)
(* A key stands for the ASCII character it types.  draw() only paints.   *)
(* The sleep and spawn commands are spelt by no key sequence considered   *)
(* (their effects are the Scheduler's), as in Terminal.  The uptime       *)
(* command reads TICKS, which pit::tick counts (src/pit.rs).              *)
(***************************************************************************)
EXTENDS Naturals, Sequences, SequencesExt

CONSTANTS
  Chars, NL, CR, BS,      \* keys: printable characters, '\n', '\r', '\u{8}'
  Space,                  \* the space key, one of Chars
  HelloLine, ClearLine,   \* the keys of "hello" and "clear"
  UptimeLine,             \* the keys of "uptime"
  Hz,                     \* HZ, set by pit::init(100)
  StartTicks,             \* values of TICKS when the console is first used
  InCap,                  \* capacity of Console.input (128 bytes)
  OutCap,                 \* capacity of Console.output (512 bytes)
  Texts,                  \* texts user code passes to write: [id, n, utf8]
  Nrs,                    \* call numbers tried
  Fds,                    \* file descriptors tried
  U64Max,                 \* u64::MAX, the failure sentinel
  MaxEvents               \* bound: keys typed plus system calls made

Keys == Chars \cup {NL, CR, BS}

VARIABLES
  input,    \* Console.input
  output,   \* Console.output: pieces [t, n]
  ret,      \* the value the last system call returned to user code
  hist,     \* history: the keys typed, ticks and the texts write accepted
  ticks     \* TICKS

vars == <<input, output, ret, hist, ticks>>

Init == input = <<>> /\ output = <<>> /\ ret = 0 /\ hist = <<>> /\ ticks \in StartTicks

Bytes(out) == FoldLeft(LAMBDA n, p : n + p.n, 0, out)

(* heapless String::push_str / push: the whole text, or nothing. *)
Push(out, p) == IF p.n = 0 \/ Bytes(out) + p.n > OutCap THEN out ELSE Append(out, p)

RECURSIVE TrimKeys(_)
TrimKeys(l) ==
  CASE l # <<>> /\ Head(l) = Space -> TrimKeys(Tail(l))
    [] l # <<>> /\ Last(l) = Space -> TrimKeys(Front(l))
    [] OTHER                        -> l

Sep    == [t |-> "\n", n |-> 1]
Prompt == [t |-> "> ", n |-> 2]
Line(cmd) == [t |-> cmd, n |-> Len(cmd)]

(* The decimal digits of n. *)
RECURSIVE Digits(_)
Digits(n) == IF n < 10 THEN <<n>> ELSE Digits(n \div 10) \o <<n % 10>>

(* {:02}: at least two digits, zero-padded. *)
Pad2(n) == IF n < 10 THEN <<0>> \o Digits(n) ELSE Digits(n)

(* pit::uptime_secs, line 23: whole seconds of TICKS at HZ. *)
UptimeSecs(t) == t \div Hz

(* pit::format_uptime, lines 25-29: "hh:mm:ss" of uptime_secs.  The text  *)
(* is at most 26 bytes, so the String<32> always holds it.               *)
FormatUptime(t) ==
  LET sec == UptimeSecs(t)
  IN Pad2(sec \div 3600) \o <<":">> \o Pad2((sec % 3600) \div 60) \o <<":">> \o Pad2(sec % 60)

(* Lines 31, 41-43 and 46: the reply pushed for a command, as pieces:     *)
(* uptime pushes its text, then pushes '\n' alone.                        *)
Reply(cmd, t) ==
  CASE cmd = HelloLine  -> <<[t |-> "Hello!\n", n |-> 7]>>
    [] cmd = UptimeLine -> <<[t |-> FormatUptime(t), n |-> Len(FormatUptime(t))], Sep>>
    [] OTHER            -> <<[t |-> "Unknown command\n", n |-> 16]>>

(* Mutant: clear leaves the echo and earlier text in place. *)
ClearKeep(out) == out

(* Line 32: cns.output.clear(). *)
Clear(out) == <<>>

(* handle_command, lines 27-47: a separator unless the output is empty,  *)
(* the echo of the trimmed line, then the command's effect.              *)
HandleCommand(out, line, t) ==
  LET cmd  == TrimKeys(line)
      o1   == IF out # <<>> THEN Push(out, Sep) ELSE out
      echo == Push(Push(Push(o1, Prompt), Line(cmd)), Sep)
  IN CASE cmd = ClearLine -> Clear(echo)
       [] cmd = <<>>      -> echo
       [] OTHER           -> FoldLeft(Push, echo, Reply(cmd, t))

(* Mutant: the line is kept after its command. *)
AfterCommandKeep(line) == line

(* Line 48: cns.input.clear(). *)
AfterCommand(line) == <<>>

(* on_char, lines 13-24: a newline runs the command; a backspace pops;   *)
(* any other key is pushed unless the 128-byte input is full.            *)
OnChar ==
  /\ Len(hist) < MaxEvents
  /\ \E c \in Keys :
       /\ hist' = Append(hist, [k |-> "key", c |-> c, now |-> ticks])
       /\ CASE c \in {NL, CR} -> output' = HandleCommand(output, input, ticks)
                                  /\ input' = AfterCommand(input)
            [] c = BS         -> input' = (IF input = <<>> THEN input ELSE Front(input))
                                  /\ UNCHANGED output
            [] OTHER          -> input' = (IF Len(input) < InCap THEN Append(input, c) ELSE input)
                                  /\ UNCHANGED output
  /\ UNCHANGED <<ret, ticks>>

(* console::println, line 70: the text, then '\n', each pushed alone. *)
Println(out, txt) == Push(Push(out, [t |-> txt.id, n |-> txt.n]), Sep)

(* sys_write, lines 45-53: fd 1 and valid UTF-8 print and return len;    *)
(* anything else returns -1, which handle_syscall casts to u64::MAX.     *)
SysWrite(fd, txt) ==
  IF fd = 1 /\ txt.utf8 THEN [ok |-> TRUE, out |-> Println(output, txt), r |-> txt.n]
  ELSE [ok |-> FALSE, out |-> output, r |-> U64Max]

(* handle_syscall, lines 31-43, on the state here: write prints; sleep   *)
(* (the Scheduler's sleep_current), exit and a spawn touch no console    *)
(* state; spawn_user_elf returns a pid, or 0 when it fails (unwrap_or),  *)
(* or u64::MAX for a path that is not UTF-8; other numbers u64::MAX.     *)
HandleSyscall ==
  /\ Len(hist) < MaxEvents
  /\ \E nr \in Nrs, fd \in Fds, txt \in Texts :
       CASE nr = 0 -> LET w == SysWrite(fd, txt) IN
                        /\ output' = w.out /\ ret' = w.r
                        /\ hist' = IF w.ok THEN Append(hist, [k |-> "write", txt |-> txt])
                                   ELSE Append(hist, [k |-> "call"])
         [] nr \in {1, 2} -> ret' = 0 /\ UNCHANGED output
                             /\ hist' = Append(hist, [k |-> "call"])
         [] nr = 3 -> \E pid \in {0, 1} :
                        /\ ret' = IF txt.utf8 THEN pid ELSE U64Max
                        /\ UNCHANGED output /\ hist' = Append(hist, [k |-> "call"])
         [] OTHER -> ret' = U64Max /\ UNCHANGED output
                     /\ hist' = Append(hist, [k |-> "call"])
  /\ UNCHANGED <<input, ticks>>

(* pit::tick, line 21: TICKS += 1 (its on_tick and netstack::poll touch   *)
(* no console state).                                                     *)
Tick ==
  /\ Len(hist) < MaxEvents
  /\ ticks' = ticks + 1
  /\ hist' = Append(hist, [k |-> "tick"])
  /\ UNCHANGED <<input, output, ret>>

Idle == Len(hist) = MaxEvents /\ UNCHANGED vars

Next == OnChar \/ HandleSyscall \/ Tick \/ Idle

----------------------------------------------------------------------------
(* The clock h:mm:ss of the elapsed whole seconds. *)
RefClock(t) ==
  LET secs == t \div Hz
      hms  == <<secs \div 3600, (secs \div 60) % 60, secs % 60>>
      Two(n) == IF n < 10 THEN <<0, n>> ELSE Digits(n)
  IN Two(hms[1]) \o <<":">> \o Two(hms[2]) \o <<":">> \o Two(hms[3])

RefReply(cmd, t) ==
  CASE cmd = HelloLine  -> <<[t |-> "Hello!\n", n |-> 7]>>
    [] cmd = UptimeLine -> <<[t |-> RefClock(t), n |-> Len(RefClock(t))], Sep>>
    [] OTHER            -> <<[t |-> "Unknown command\n", n |-> 16]>>

(* Reference: what a reader of the console is meant to see, without the  *)
(* byte limit: since the last "clear", for each command line typed, a     *)
(* blank-line separator (except first), "> " and the trimmed line, and    *)
(* its reply; for each write accepted, its text on a line of its own.     *)
(* The uptime reply is the clock at the key press, hours, minutes and     *)
(* seconds each written with at least two digits.                         *)
(* The line being typed is the keys since the last newline, with          *)
(* backspaces applied and at most InCap characters.                       *)
RefStep(acc, e) ==
  CASE e.k = "write" ->
         [acc EXCEPT !.out = @ \o <<[t |-> e.txt.id, n |-> e.txt.n], Sep>>]
    [] e.k = "key" /\ e.c \in {NL, CR} ->
         LET cmd  == TrimKeys(acc.line)
             echo == (IF acc.out = <<>> THEN <<>> ELSE <<Sep>>)
                     \o <<Prompt>> \o (IF cmd = <<>> THEN <<>> ELSE <<Line(cmd)>>) \o <<Sep>>
         IN [line |-> <<>>,
             out  |-> CASE cmd = ClearLine -> <<>>
                        [] cmd = <<>>      -> acc.out \o echo
                        [] OTHER           -> acc.out \o echo \o RefReply(cmd, e.now)]
    [] e.k = "key" /\ e.c = BS ->
         [acc EXCEPT !.line = IF @ = <<>> THEN @ ELSE Front(@)]
    [] e.k = "key" ->
         [acc EXCEPT !.line = IF Len(@) < InCap THEN Append(@, e.c) ELSE @]
    [] OTHER -> acc

Ref(h) == FoldLeft(RefStep, [out |-> <<>>, line |-> <<>>], h)

(* s is s2 with some elements left out. *)
RECURSIVE InOrderWithin(_, _)
InOrderWithin(s, s2) ==
  IF s = <<>> THEN TRUE
  ELSE IF s2 = <<>> THEN FALSE
  ELSE IF Head(s) = Head(s2) THEN InOrderWithin(Tail(s), Tail(s2))
  ELSE InOrderWithin(s, Tail(s2))

(* The console shows a faithful, possibly gapped, transcript: the input  *)
(* is the line being typed, and the output is the transcript since the   *)
(* last "clear" with some texts left out (those that did not fit) but    *)
(* none cut, repeated, reordered or left over from before the clear; and *)
(* while everything fits it is the whole transcript.  Command echoes and *)
(* system-call output share the buffer, and the echo, separator and      *)
(* reply of a command are pushed one by one.                              *)
ConsoleShowsTranscript ==
  LET r == Ref(hist)
  IN /\ input = r.line
     /\ InOrderWithin(output, r.out)
     /\ Bytes(r.out) <= OutCap => output = r.out

=============================================================================
