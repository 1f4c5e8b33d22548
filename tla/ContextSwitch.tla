--------------------------- MODULE ContextSwitch ---------------------------
(***************************************************************************)
(* The switch primitive of src/context.rs, one instruction group per      *)
(* step, executed at the end of on_tick inside timer_interrupt_handler    *)
(* (src/interrupts.rs).  A register or saved word holds the thread its    *)
(* value belongs to (regs stands for r15, r14, r13, r12, rbx and rbp), or *)
(* an address: "Entry" is a task's entry function, "SaveRsp" the         *)
(* instruction after lea rax, [rip], where that lea points, and           *)
(* "StackTop" the top of a task's heap-allocated stack.                    *)
(*                                                                         *)
(* A saved context is modelled by byte offset, as switch reads and writes *)
(* it: the words at +0x30 and +0x38.  #[repr(C)] Context puts the field   *)
(* rsp at +0x30 and rip at +0x38; switch stores and loads the stack       *)
(* pointer at +0x38 and the resume address at +0x30.                      *)
(*                                                                         *)
(* The ready queue is abstracted: a tick switches from CURRENT to any     *)
(* task that exists, or (READY empty) returns without switching.  IF and *)
(* the PIC's in-service bit are kept because the handler only returns,   *)
(* sends EOI and runs iretq when the switch returns.  So are the spin     *)
(* locks the path takes: TASKS, which init and spawn_kernel hold across  *)
(* several statements with IF set, and READY, whose if-let guard on_tick *)
(* holds until its block ends.                                            *)
(***************************************************************************)
EXTENDS Naturals

CONSTANTS
  MaxTasks,   \* bound: slots of TASKS
  Boot,       \* model value: the thread of kernel_main
  None        \* model value: Option::None

ASSUME MaxTasks \in Nat /\ MaxTasks >= 1

Slot == 0 .. MaxTasks - 1
Thread == Slot \cup {Boot}
(* Code addresses. *)
Code == {"Entry", "SaveRsp"}
(* Every address a saved word can hold. *)
Addr == Code \cup {"StackTop"}
(* Instruction groups of switch, in program order. *)
AsmPc == {"SaveRegs", "Lea", "SaveRsp", "SaveRip", "LoadRegs", "LoadRsp", "Jmp"}

VARIABLES
  pc,        \* "run" (thread code), the next instruction group of switch,
             \* "spin" (a lock that is never released), or "wild" (the CPU
             \* executing bytes that are not code)
  regs,      \* thread owning the callee-saved register values
  rsp,       \* thread whose stack rsp points into, or an address
  rax,       \* code address left by lea, or "junk"
  rdi,       \* old: slot whose ctx is saved into
  rsi,       \* new: slot whose ctx is loaded
  mem,       \* Task.ctx per slot: [regs, at30, at38]
  intr,      \* RFLAGS.IF
  isr,       \* PIC in-service bit of IRQ0 (no EOI sent yet)
  nTasks,    \* TASKS.len()
  current,   \* CURRENT
  call,      \* call of the running thread holding TASKS: "none", "init", "spawn"
  readyHeld  \* a handler frame holds the READY guard

vars == <<pc, regs, rsp, rax, rdi, rsi, mem, intr, isr, nTasks, current,
          call, readyHeld>>

(* Task::new_kernel, task.rs lines 31-33: Context::zero, then           *)
(* ctx.rsp = sp, the stack top, which is the word at +0x30, and           *)
(* ctx.rip = entry, the word at +0x38.                                    *)
FreshCtx(i) == [regs |-> i, at30 |-> "StackTop", at38 |-> "Entry"]

(* kernel_main after interrupts::init: IF set, no task, no tick pending. *)
Init ==
  /\ pc = "run" /\ regs = Boot /\ rsp = Boot /\ rax = "junk"
  /\ rdi = 0 /\ rsi = 0
  /\ mem = [i \in Slot |-> FreshCtx(i)]
  /\ intr = TRUE /\ isr = FALSE
  /\ nTasks = 0 /\ current = None
  /\ call = "none" /\ readyHeld = FALSE

----------------------------------------------------------------------------
(* TASKS.lock(); Task::new_kernel; tasks.push: a new slot with a fresh *)
(* context, TASKS held until the call returns.                          *)
PushTask ==
  /\ pc = "run" /\ call = "none" /\ nTasks < MaxTasks
  /\ mem' = [mem EXCEPT ![nTasks] = FreshCtx(nTasks)]
  /\ nTasks' = nTasks + 1

(* scheduler::init on kernel_main, lines 14-17: idle pushed, TASKS held. *)
SchedInit ==
  /\ rsp = Boot /\ current = None /\ nTasks = 0
  /\ PushTask
  /\ call' = "init"
  /\ UNCHANGED <<pc, regs, rsp, rax, rdi, rsi, intr, isr, current, readyHeld>>

(* spawn_kernel, lines 81-85, from thread code once the scheduler exists. *)
SpawnKernel ==
  /\ current # None
  /\ PushTask
  /\ call' = "spawn"
  /\ UNCHANGED <<pc, regs, rsp, rax, rdi, rsi, intr, isr, current, readyHeld>>

(* The rest of init (READY.push_back(0), CURRENT = Some(0)) or of         *)
(* spawn_kernel (READY.push_back(idx)), then TASKS is dropped.  READY     *)
(* held by a suspended handler frame makes the thread spin for ever.      *)
FinishCall ==
  /\ pc = "run" /\ call # "none"
  /\ IF readyHeld
       THEN pc' = "spin" /\ UNCHANGED <<call, current>>
       ELSE /\ pc' = "run" /\ call' = "none"
            /\ current' = IF call = "init" THEN 0 ELSE current
  /\ UNCHANGED <<regs, rsp, rax, rdi, rsi, mem, intr, isr, nTasks, readyHeld>>

(* IRQ0 through an interrupt gate (IF cleared), pit::tick and on_tick.   *)
(* TASKS.lock() at line 37 spins for ever when the interrupted thread    *)
(* holds TASKS.                                                          *)
TickSpin ==
  /\ pc = "run" /\ intr /\ ~isr
  /\ call # "none"
  /\ pc' = "spin" /\ intr' = FALSE /\ isr' = TRUE
  /\ UNCHANGED <<regs, rsp, rax, rdi, rsi, mem, nTasks, current, call, readyHeld>>

(* Otherwise on_tick pops a slot, keeps the READY guard of line 49, drops *)
(* TASKS and calls switch(&ctx[cur], &ctx[next]).  A tick that finds     *)
(* READY empty (before init) returns, sends EOI and iretq: no state here *)
(* changes, so it is a stuttering step.                                  *)
TickSwitch ==
  /\ pc = "run" /\ intr /\ ~isr
  /\ call = "none" /\ current # None
  /\ \E next \in 0 .. nTasks - 1 :
       /\ rdi' = current /\ rsi' = next /\ current' = next
  /\ intr' = FALSE /\ isr' = TRUE
  /\ readyHeld' = TRUE
  /\ pc' = "SaveRegs"
  /\ UNCHANGED <<regs, rsp, rax, mem, nTasks, call>>

----------------------------------------------------------------------------
(* mov [rdi+0x00..0x28], r15 .. rbp *)
SaveRegs ==
  /\ pc = "SaveRegs"
  /\ mem' = [mem EXCEPT ![rdi].regs = regs]
  /\ pc' = "Lea"
  /\ UNCHANGED <<regs, rsp, rax, rdi, rsi, intr, isr, nTasks, current, call, readyHeld>>

(* lea rax, [rip]: the address of the next instruction. *)
Lea ==
  /\ pc = "Lea"
  /\ rax' = "SaveRsp"
  /\ pc' = "SaveRsp"
  /\ UNCHANGED <<regs, rsp, rdi, rsi, mem, intr, isr, nTasks, current, call, readyHeld>>

(* mov [rdi+0x38], rsp *)
SaveRsp ==
  /\ pc = "SaveRsp"
  /\ mem' = [mem EXCEPT ![rdi].at38 = rsp]
  /\ pc' = "SaveRip"
  /\ UNCHANGED <<regs, rsp, rax, rdi, rsi, intr, isr, nTasks, current, call, readyHeld>>

(* mov [rdi+0x30], rax *)
SaveRip ==
  /\ pc = "SaveRip"
  /\ mem' = [mem EXCEPT ![rdi].at30 = rax]
  /\ pc' = "LoadRegs"
  /\ UNCHANGED <<regs, rsp, rax, rdi, rsi, intr, isr, nTasks, current, call, readyHeld>>

(* mov r15 .. rbp, [rsi+0x00..0x28] *)
LoadRegs ==
  /\ pc = "LoadRegs"
  /\ regs' = mem[rsi].regs
  /\ pc' = "LoadRsp"
  /\ UNCHANGED <<rsp, rax, rdi, rsi, mem, intr, isr, nTasks, current, call, readyHeld>>

(* mov rsp, [rsi+0x38] *)
LoadRsp ==
  /\ pc = "LoadRsp"
  /\ rsp' = mem[rsi].at38
  /\ pc' = "Jmp"
  /\ UNCHANGED <<regs, rax, rdi, rsi, mem, intr, isr, nTasks, current, call, readyHeld>>

(* jmp [rsi+0x30]: a task switched out before resumes at the address    *)
(* switch saved, inside switch, with rdi and rsi still naming the slots  *)
(* of this switch.  A fresh task's word at +0x30 is its stack top: the   *)
(* CPU jumps into heap memory (rsp = the entry address), which is not    *)
(* code; what follows is a fault or garbage, "wild" here.  rflags is     *)
(* never loaded.                                                          *)
Jmp ==
  /\ pc = "Jmp"
  /\ pc' = IF mem[rsi].at30 \in Code THEN mem[rsi].at30 ELSE "wild"
  /\ UNCHANGED <<regs, rsp, rax, rdi, rsi, mem, intr, isr, nTasks, current, call, readyHeld>>

Step == SaveRegs \/ Lea \/ SaveRsp \/ SaveRip \/ LoadRegs \/ LoadRsp \/ Jmp

Next == SchedInit \/ SpawnKernel \/ FinishCall \/ TickSpin \/ TickSwitch \/ Step

(* The CPU executes the instructions of switch; it is never interrupted  *)
(* there (IF is clear).  Ticks are not needed by the property below.     *)
Spec == Init /\ [][Next]_vars /\ WF_vars(Step)

----------------------------------------------------------------------------
TypeOK ==
  /\ pc \in {"run", "spin", "wild"} \cup AsmPc
  /\ regs \in Thread /\ rsp \in Thread \cup Addr
  /\ rax \in Code \cup {"junk"}
  /\ rdi \in Slot /\ rsi \in Slot
  /\ mem \in [Slot -> [regs : Thread, at30 : Addr, at38 : Thread \cup Addr]]
  /\ intr \in BOOLEAN /\ isr \in BOOLEAN
  /\ nTasks \in 0 .. MaxTasks
  /\ current \in Slot \cup {None}
  /\ call \in {"none", "init", "spawn"} /\ readyHeld \in BOOLEAN

(* Spec 4.2: a task's calling frame is revisited when the task is        *)
(* switched back in, so every switch ends with the CPU back in thread    *)
(* code (the resumed caller of switch, or a fresh task's entry).         *)
SwitchReturns == pc \in AsmPc ~> pc = "run"

(* Spec 5: critical sections are short and the timer handler never waits *)
(* on one: a tick never finds TASKS, READY or CURRENT held, whatever      *)
(* statement of init or spawn_kernel it interrupts.                      *)
HandlerNeverSpins == pc # "spin"

=============================================================================
