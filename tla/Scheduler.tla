----------------------------- MODULE Scheduler -----------------------------
(***************************************************************************)
(* The tick-driven round-robin scheduler of src/scheduler.rs together     *)
(* with the task table of src/task.rs and the three callers that change   *)
(* it: kernel_main (scheduler::init, spawn_kernel("shell")), the shell    *)
(* task (sleep/spawn/run commands) and user tasks (syscalls 1 and 3).     *)
(*                                                                         *)
(* Granularity: on_tick runs with interrupts off and is one action.  The  *)
(* context switch at its end behaves as the contract of spec 4.2 says:    *)
(* the running thread is saved into the slot of CURRENT and the thread    *)
(* saved in the picked slot resumes.  Locks, EOI and the instruction-     *)
(* level switch are modelled in other modules.  A thread is named by the  *)
(* slot it was created for; kernel_main's thread is Boot.                 *)
(*                                                                         *)
(* Time: only the whole-second uptime is compared, so a sleeper keeps the *)
(* number of seconds still to wait (until - uptime_secs) and the clock    *)
(* keeps TICKS % HZ.                                                      *)
(***************************************************************************)
EXTENDS Naturals, Sequences, SequencesExt

CONSTANTS
  MaxTasks,     \* bound: slots of TASKS (idle, shell and spawned tasks)
  HZ,           \* timer frequency given to pit::init (100 in main.rs)
  SleepDiv,     \* literal divisor in sleep_current (100 in scheduler.rs)
  SleepArgs,    \* tick counts a caller passes to sleep_current
  QueueBound,   \* bound: callers stop sleeping once READY is this long
  Boot,         \* model value: the thread of kernel_main
  None          \* model value: Option::None

ASSUME MaxTasks \in Nat /\ MaxTasks >= 2
ASSUME HZ \in Nat \ {0} /\ SleepDiv \in Nat \ {0}
ASSUME SleepArgs \subseteq Nat /\ QueueBound \in Nat

Slot == 0 .. MaxTasks - 1
Thread == Slot \cup {Boot}
KernelRoot == 0                          \* the boot PML4 read from CR3
Root == 0 .. MaxTasks                    \* kernel root and user roots
States == {"Free", "Ready", "Running", "Sleeping"}   \* Zombie: never set
Kinds == {"none", "idle", "shell", "kthread", "user"}

VARIABLES
  nTasks,      \* TASKS.len()
  state,       \* Task.state per slot ("Free": not yet pushed)
  wait,        \* Sleeping(until): until - uptime_secs, in seconds
  kind,        \* which entry function the slot's thread runs
  root,        \* Task.cr3
  user,        \* Task.user is Some (pending first entry to user mode)
  ready,       \* READY: VecDeque of slot indices
  current,     \* CURRENT
  phase,       \* pit TICKS % HZ
  activeRoot,  \* the CR3 register
  cpu,         \* the thread executing on the single CPU
  ctx,         \* ctx[i]: the thread whose registers Task i's ctx holds
  mode,        \* per user thread: "kernel", "user" or "spin"
  bootPc,      \* kernel_main progress: "init", "spawnShell", "done"
  pending,     \* spawn_user_elf between spawn_kernel and the patch
  nextRoot     \* next PML4 frame create_user_pml4 hands out

vars == <<nTasks, state, wait, kind, root, user, ready, current, phase,
          activeRoot, cpu, ctx, mode, bootPc, pending, nextRoot>>

Init ==
  /\ nTasks = 0
  /\ state = [i \in Slot |-> "Free"]
  /\ wait = [i \in Slot |-> 0]
  /\ kind = [i \in Slot |-> "none"]
  /\ root = [i \in Slot |-> KernelRoot]
  /\ user = [i \in Slot |-> FALSE]
  /\ ready = <<>>
  /\ current = None
  /\ phase = 0
  /\ activeRoot = KernelRoot
  /\ cpu = Boot
  /\ ctx = [i \in Slot |-> i]
  /\ mode = [i \in Slot |-> "kernel"]
  /\ bootPc = "init"
  /\ pending = [t \in Thread |-> None]
  /\ nextRoot = 1

----------------------------------------------------------------------------
(* Task::new_kernel + push + READY.push_back(idx): the new slot is Ready,  *)
(* queued at the tail and inherits the CR3 that is active now.            *)
SpawnKernel(k) ==
  /\ nTasks < MaxTasks
  /\ state' = [state EXCEPT ![nTasks] = "Ready"]
  /\ kind' = [kind EXCEPT ![nTasks] = k]
  /\ root' = [root EXCEPT ![nTasks] = activeRoot]
  /\ ready' = Append(ready, nTasks)
  /\ nTasks' = nTasks + 1

(* scheduler::init, run by kernel_main: idle in slot 0, READY = [0],     *)
(* CURRENT = Some(0) although kernel_main, not idle, is executing.       *)
SchedInit ==
  /\ cpu = Boot /\ bootPc = "init"
  /\ SpawnKernel("idle")
  /\ current' = 0
  /\ bootPc' = "spawnShell"
  /\ UNCHANGED <<wait, user, phase, activeRoot, cpu, ctx, mode, pending, nextRoot>>

(* main.rs: scheduler::spawn_kernel("shell", shell_task). *)
BootSpawnShell ==
  /\ cpu = Boot /\ bootPc = "spawnShell"
  /\ SpawnKernel("shell")
  /\ bootPc' = "done"
  /\ UNCHANGED <<wait, user, current, phase, activeRoot, cpu, ctx, mode,
                 pending, nextRoot>>

(* Thread t is on the CPU in code that issues scheduler calls: the shell  *)
(* task, or a user task in user mode (through the syscall gateway).       *)
CanCall(t) ==
  /\ cpu = t /\ t \in Slot
  /\ \/ kind[t] = "shell"
     \/ kind[t] = "user" /\ mode[t] = "user"
  /\ pending[t] = None

(* shell "spawn NAME" -> syscalls::spawn -> spawn_kernel(name, kthread). *)
ShellSpawn(t) ==
  /\ CanCall(t) /\ kind[t] = "shell"
  /\ SpawnKernel("kthread")
  /\ UNCHANGED <<wait, user, current, phase, activeRoot, cpu, ctx, mode,
                 bootPc, pending, nextRoot>>

(* Mutant: the deadline is one second short. *)
SleepWaitOffByOne(n) == n \div SleepDiv - 1

(* Seconds from now to until = uptime_secs() + ticks / 100. *)
SleepWait(n) == n \div SleepDiv

(* sleep_current(ticks): until = uptime + ticks / 100 on CURRENT; no     *)
(* switch happens until the next tick.                                   *)
SleepCurrent(t, n) ==
  /\ CanCall(t)
  /\ Len(ready) < QueueBound
  /\ current # None
  /\ state' = [state EXCEPT ![current] = "Sleeping"]
  /\ wait' = [wait EXCEPT ![current] = SleepWait(n)]
  /\ UNCHANGED <<nTasks, kind, root, user, ready, current, phase, activeRoot,
                 cpu, ctx, mode, bootPc, pending, nextRoot>>

(* spawn_user_elf, up to spawn_kernel: file read, parse, new PML4 and     *)
(* mappings succeeded (their failure leaves this state unchanged), then  *)
(* spawn_kernel("user", user_trampoline) queues the task with the CR3    *)
(* active now, before its user context and cr3 are patched.              *)
SpawnUserElf(t) ==
  /\ CanCall(t)
  /\ SpawnKernel("user")
  /\ pending' = [pending EXCEPT ![t] = [slot |-> nTasks, root |-> nextRoot]]
  /\ nextRoot' = nextRoot + 1
  /\ UNCHANGED <<wait, user, current, phase, activeRoot, cpu, ctx, mode, bootPc>>

(* spawn_user_elf, the patch: t.user = Some(entry, stack), t.cr3 = cr3. *)
SpawnUserElfPatch(t) ==
  /\ cpu = t /\ pending[t] # None
  /\ user' = [user EXCEPT ![pending[t].slot] = TRUE]
  /\ root' = [root EXCEPT ![pending[t].slot] = pending[t].root]
  /\ pending' = [pending EXCEPT ![t] = None]
  /\ UNCHANGED <<nTasks, state, wait, kind, ready, current, phase, activeRoot,
                 cpu, ctx, mode, bootPc, nextRoot>>

(* user_trampoline: take the current task's user context and iretq to   *)
(* ring 3; without one it falls into loop { spin_loop() } for ever.      *)
UserTrampoline(t) ==
  /\ cpu = t /\ t \in Slot /\ kind[t] = "user" /\ mode[t] = "kernel"
  /\ IF user[t]
       THEN mode' = [mode EXCEPT ![t] = "user"] /\ user' = [user EXCEPT ![t] = FALSE]
       ELSE mode' = [mode EXCEPT ![t] = "spin"] /\ UNCHANGED user
  /\ UNCHANGED <<nTasks, state, wait, kind, root, ready, current, phase,
                 activeRoot, cpu, ctx, bootPc, pending, nextRoot>>

----------------------------------------------------------------------------
(* on_tick, after pit::tick has counted the tick. *)
NewSecond == (phase + 1) % HZ = 0

(* Seconds still to wait, measured against the uptime after this tick. *)
Left(i) == IF NewSecond THEN wait[i] - 1 ELSE wait[i]

(* Step 1: sleepers whose deadline is reached, pushed in index order. *)
Woken == {i \in Slot : state[i] = "Sleeping" /\ Left(i) <= 0}
WakeState == [i \in Slot |-> IF i \in Woken THEN "Ready" ELSE state[i]]
WakeQueue == ready \o SetToSortSeq(Woken, <)

(* Step 2: CURRENT is re-queued if its state is Running OR Ready. *)
Preempts == current # None /\ WakeState[current] \in {"Running", "Ready"}
PreemptState == IF Preempts THEN [WakeState EXCEPT ![current] = "Ready"]
                            ELSE WakeState
PreemptQueue == IF Preempts THEN Append(WakeQueue, current) ELSE WakeQueue

(* Step 3: pop the head; mark it Running, then demote the old CURRENT if *)
(* it is Running (which it is when head = CURRENT).                      *)
PickState(next) ==
  LET s == [PreemptState EXCEPT ![next] = "Running"]
  IN  IF current # None /\ s[current] = "Running"
        THEN [s EXCEPT ![current] = "Ready"] ELSE s

(* READY.lock().pop_front() *)
PopFront(q) == [next |-> Head(q), rest |-> Tail(q)]

(* Mutant: the store to CURRENT is lost. *)
PickCurrentStale(next) == current

(* *CURRENT.lock() = Some(next) *)
PickCurrent(next) == next

(* Mutant: CR3 is loaded from the outgoing task's root. *)
SwitchRootSwapped(next) == IF current # None THEN root[current] ELSE root[next]

(* CR3 is rewritten when the picked task's root differs from it. *)
SwitchRoot(next) == IF activeRoot # root[next] THEN root[next] ELSE activeRoot

(* context::switch(&tasks[cur].ctx, &tasks[next].ctx): save, then load. *)
SwitchCtx(next) == IF current # None THEN [ctx EXCEPT ![current] = cpu] ELSE ctx

OnTick ==
  /\ phase' = (phase + 1) % HZ
  /\ wait' = [i \in Slot |-> IF state[i] = "Sleeping" /\ i \notin Woken
                               THEN Left(i) ELSE 0]
  /\ IF PreemptQueue = <<>>
       THEN /\ state' = PreemptState /\ ready' = PreemptQueue
            /\ UNCHANGED <<current, activeRoot, cpu, ctx>>
       ELSE LET next == PopFront(PreemptQueue).next IN
            /\ ready' = PopFront(PreemptQueue).rest
            /\ current' = PickCurrent(next)
            /\ state' = PickState(next)
            /\ activeRoot' = SwitchRoot(next)
            /\ ctx' = SwitchCtx(next)
            /\ cpu' = SwitchCtx(next)[next]
  /\ UNCHANGED <<nTasks, kind, root, user, mode, bootPc, pending, nextRoot>>

----------------------------------------------------------------------------
Next ==
  \/ OnTick
  \/ SchedInit
  \/ BootSpawnShell
  \/ \E t \in Slot :
       \/ ShellSpawn(t)
       \/ SpawnUserElf(t)
       \/ SpawnUserElfPatch(t)
       \/ UserTrampoline(t)
       \/ \E n \in SleepArgs : SleepCurrent(t, n)

(* Safety only: no fairness is assumed.  Nothing in the code guarantees  *)
(* the next tick: the handler sends its EOI only after switch returns,   *)
(* and the first switch never does (ContextSwitch).                       *)
Spec == Init /\ [][Next]_vars

----------------------------------------------------------------------------
TypeOK ==
  /\ nTasks \in 0 .. MaxTasks
  /\ state \in [Slot -> States]
  /\ wait \in [Slot -> Nat]
  /\ kind \in [Slot -> Kinds]
  /\ root \in [Slot -> Root]
  /\ user \in [Slot -> BOOLEAN]
  /\ ready \in Seq(Slot)
  /\ current \in Slot \cup {None}
  /\ phase \in 0 .. HZ - 1
  /\ activeRoot \in Root
  /\ cpu \in Thread
  /\ ctx \in [Slot -> Thread]
  /\ mode \in [Slot -> {"kernel", "user", "spin"}]
  /\ bootPc \in {"init", "spawnShell", "done"}
  /\ \A t \in Thread : pending[t] = None \/ pending[t] \in [slot : Slot, root : Root]
  /\ nextRoot \in 1 .. MaxTasks + 1

(* Only the task CURRENT names can be Running: on_tick demotes the old   *)
(* CURRENT before it promotes the head of READY, so no tick, wake-up or  *)
(* spawn leaves two tasks marked Running.                                 *)
RunningIsCurrent == \A i \in Slot : state[i] = "Running" => current = i

(* A user task executes in ring 3 only under its own page-table root:    *)
(* on_tick writes CR3 before the switch, and spawn_user_elf's late patch *)
(* of Task.cr3 never leaves a user thread running under a stale CR3.     *)
UserRunsInOwnRoot ==
  \A t \in Slot : cpu = t /\ mode[t] = "user" => activeRoot = root[t]

(* Spec 8: a task set to Sleeping(d) is not in READY while uptime < d.    *)
SleeperNotQueued ==
  \A i \in Slot : state[i] = "Sleeping" /\ wait[i] > 0 => ~Contains(ready, i)

=============================================================================
