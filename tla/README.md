# TLA+ models of the WaemomOS kernel core

This directory holds TLA+ models of the process-and-execution core of WaemomOS
(`src/src/*.rs`) and of the collaborators around it (the RAM file system and
its Broom client, keyboard, tty, shell and console, the mouse, the FAT
reader, the settings loader, the ELF inspector, the kernel heap, the app
manager and the e1000 descriptor rings), the TLC
configurations that check them, and `PROJECT.json`,
which records the runs, the line map from every definition to the Rust it
models, the mutants, the findings and the hazards.

Run a check from this directory with `tlc -workers 2 -config <cfg> <MC module>`.

## 1. Inventory

### Components and their state

| Component | Source | State it keeps | Operations that change state |
|---|---|---|---|
| Scheduler | `scheduler.rs` | `CURRENT: Option<usize>`, `READY: VecDeque<usize>` (spin mutexes) | `init`, `on_tick`, `spawn_kernel`, `sleep_current`, `user_trampoline` |
| Task table | `task.rs` | `TASKS: Vec<Task>` (state, ctx, cr3, user entry, stack), `NEXT_PID` | `Task::new_kernel`, `alloc_pid` |
| Execution context | `context.rs` | `Context` per task (callee-saved regs, rsp, rip, rflags), `DUMMY` | `switch` (inline asm) |
| Timer / interrupts | `pit.rs`, `interrupts.rs` | `TICKS`, `HZ`, PIC in-service bit, IDT | `pit::tick`, `timer_interrupt_handler`, EOI |
| Frame allocator | `mm.rs` | `FRAME_ALLOC`: frame list built once, cursor `next` | `allocate_frame` |
| Address spaces | `mm.rs` | page-table trees (PML4 roots), `PHYS_OFFSET` | `create_user_pml4`, `map_user_region`, `map_user_stack` |
| ELF loader | `elfloader.rs` | none (pure parse), then frames it fills | `parse_elf`, `map_into_cr3` |
| Syscall gateway | `syscalls.rs`, `gdt.rs` | STAR/LSTAR/SFMASK MSRs | `handle_syscall`, `sys_write`, `spawn_user_elf`, `enter_user`, the entry trampoline |
| Kernel heap | `heap.rs` | bump pointer `next` in a 512 KiB array | `alloc` (dealloc is a no-op) |
| Shell / console / tty | `shell.rs`, `console.rs`, `tty.rs`, `keyboard.rs` | tty queue (256), console output (512 bytes) | `read_line`, `handle_cmd`, `println`, `clear`, `write_char`, `on_char`, `handle_command` |
| Settings | `settings.rs` | `SETTINGS` | `load_from_lock` (once, from `kernel_main`) |
| ELF inspector | `elf.rs` | none (formats a report) | `inspect_elf64`, called by `kernel_main` |
| App manager | `appmgr.rs` | `APPS: Vec<App>` | `spawn`, `set_state`, `list` |
| In-memory FS | `fs/mod.rs`, `fs/memfs.rs` | directory tree of files | `add_file`, `write`, `read`, `list` |
| Broom browser | `apps/broom.rs` | history and bookmarks, saved in two files | `load`, `search_google`, `save` |
| FAT reader / ATA | `fs/fat.rs`, `block.rs`, `ata.rs` | none (reads sectors) | `read_bpb`, `list_root`, `read_file_root_8_3` |
| e1000 NIC, net stack | `net/*.rs`, `pci.rs` | RX/TX descriptor rings, `NIC`, `NET` | `init`, `poll_rx`, `send`, `poll` |
| Graphics, windows, apps | `graphics.rs`, `window.rs`, `image.rs`, `ui/`, `apps/`, `loader.rs` | framebuffer | drawing |
| Mouse, serial, VGA | `mouse.rs`, `serial.rs` | mouse packet assembly (`byte_idx`, `packet`) | `mouse::init`, `on_irq`, `draw_cursor` |

### How the parts interact

* The PIT interrupts 100 times a second. `timer_interrupt_handler` calls
  `pit::tick`, which counts the tick and calls `scheduler::on_tick` and
  `netstack::poll`. Only after they return does the handler send EOI to the PIC.
* `on_tick` locks `TASKS`, wakes sleepers whose whole-second deadline has come,
  re-queues `CURRENT`, pops the head of `READY` and marks it Running. It writes
  CR3 if the task's root differs, drops `TASKS` and calls `context::switch`.
* Tasks are created by `kernel_main` (`scheduler::init`, which makes idle, then
  `spawn_kernel("shell")`), by the shell task (`spawn NAME`, `run PATH`) and by
  user code through syscall 3. `spawn_user_elf` chains fs read, `parse_elf`,
  `create_user_pml4`, `map_into_cr3` and `map_user_stack`. Then it calls
  `spawn_kernel("user", user_trampoline)` and, as a separate step, patches the
  new task's user entry and cr3.
* `user_trampoline` runs as the new task's first kernel code. It takes the
  user entry and `iretq`s to ring 3 (`enter_user`). User code comes back in
  only through `syscall` (`__syscall_entry_trampoline` → `handle_syscall`) or
  an interrupt.
* All shared structures are `spin::Mutex`es. Nothing disables interrupts
  around them. On one CPU, a timer interrupt that needs a lock the
  interrupted code holds spins for ever.

### What is hard here

* **Preemption at any instruction.** The tick handler can run between any
  two statements of a task. Examples: between `spawn_kernel` and the patch of
  the user context, or inside a critical section of `TASKS`.
* **The switch does not return.** `context::switch` resumes another thread.
  Anything the old thread holds stays held until that thread runs again: the
  `READY` guard of the `if let`, the pending EOI, and `IF = 0`. A thread that
  never ran before starts at its entry point and never releases them.
* **Queue bookkeeping.** A task reaches `READY` through three paths (spawn,
  wake and re-queue), so a task can end up in `READY` twice.
* **Address spaces.** CR3 must match the task that runs. The user root is
  patched into the task after the task is already runnable.
* **Untrusted input.** `parse_elf` reads an ELF from the file system and
  indexes program headers and segments by offsets taken from the file.
* **Resources that run out.** Frames are never freed. The bump heap never
  frees. The console buffer is fixed.

### What makes each component correct (the properties)

* Scheduler: only CURRENT is Running (and it is Running after a pick); a task
  is in READY at most once; a sleeper is not in READY before its deadline; a
  user task runs in ring 3 only under its own root. Liveness (round robin, a
  spawned user task reaching user mode) would need a fair tick, which the
  code does not give (section 3), so it is not checked.
* Interrupt/lock layer: the timer handler never spins on a lock; ticks keep
  arriving after any switch (EOI and IF restored).
* Context switch: switching out and back in resumes a thread at its resume
  point with its own stack pointer; a fresh task starts at its entry on its
  own stack. The code does neither (findings 4 and 7).
* Frame allocator: no frame handed out twice; `None` exactly when exhausted.
* Address spaces / loader: after `map_into_cr3`, each byte of a segment is
  readable at its virtual address and the rest of the last page is zero.
  Failures propagate to `spawn_user_elf`. Segments that share a page are
  handled.
* ELF parser: any input returns `None` or an image and never panics. It
  agrees with a reference definition of the ELF64 header over bounded inputs.
* Syscalls: `write(1, s)` returns `len(s)` exactly when `s` is valid UTF-8,
  and an unknown number or fd returns the sentinel. The console shows the
  text unless it did not fit, and then none of it (`ConsoleShowsTranscript`).
  The code returns `len(s)` even then, so "exactly when the console received
  `s`" does not hold at capacity.
* Collaborators: the memfs tree (`write` then `read` returns the data), the
  tty queue at capacity, the e1000 rings (no descriptor reused before the NIC
  is done with it), and the FAT chain walk (it terminates).

## 2. Plan

Modules, in the order they are (to be) written. The most important behaviour
comes first.

1. **`Scheduler`** (done) covers `scheduler.rs`, `task.rs`, the tick count of
   `pit.rs`, and the callers in `main.rs`, `shell.rs` and `syscalls.rs`. The
   unit of atomicity is one Rust statement group between preemption points.
   `on_tick` is one action. The context switch meets its spec 4.2 contract.
2. **`ContextSwitch`** (done) is the instruction-level model of the `switch`
   asm (`context.rs`) over a register file and the saved `Context`s. It runs
   inside the timer handler and includes IF, the PIC in-service bit and the
   two spin locks on that path (TASKS, held by `init`/`spawn_kernel` across
   statements; the READY guard of `on_tick`). It checks whether the contract
   assumed by `Scheduler` holds. It does not: the first tick after
   `scheduler::init` hangs in `switch`. Because of that, no lock-level model
   of the shell or user tasks is planned (the "KernelCpu" of the first plan):
   no such task ever runs in the code as written.
3. (folded into 2.)
4. **`AddressSpace`** (done) models `mm.rs`: the cursor allocator, PML4
   creation, one `map_user_region` loop iteration with `map_to`'s table
   allocation and its PageAlreadyMapped failure, and frame contents.
5. **`ElfParse`** (done) models `parse_elf` as a RECURSIVE operator over
   symbolic files and checks it against a reference parser.
6. **`SpawnUser`** (done) composes parser and address space into the whole
   `spawn_user_elf`: read, parse, root, `map_into_cr3` with its copy loop,
   stack, spawn. Its safety properties are checked in `MCSequential`.
   **`ConsoleIO`** (done) adds `handle_syscall`, `sys_write` and the
   console's own `on_char` / `handle_command` over the bounded console.
7. **`Heap`** (done) covers the bump allocator: the alignment mask, the fit
   check, and null on exhaustion. It feeds the READY-growth hazard.
   **`Fat`**, **`Settings`**, **`Inspector`** and **`AppMgr`** (done) are
   the other sequential components. They are checked with `Heap` and
   `ElfParse` in `MCSequential`.
8. Collaborators: **`MemFs`** (done) with its abstract specification
   **`FileStore`** and the Broom browser as a client; **`Terminal`** (done:
   keyboard and mouse interrupts, the tty queue, the shell's `read_line`
   loop and `mouse::init`). **`E1000`** (done): the RX and TX descriptor
   rings, with the NIC as a second actor, and **`FatFile`** (done): the FAT
   file read and its cluster-chain walk, both checked in `MCSequential`. The console's bounded output is
   part of `Terminal`.

Not modelled: framebuffer drawing, windows, icons and image decoding (pure
output); GDT/TSS/MSR setup (one-shot register writes); PCI enumeration and ATA
port I/O (hardware polling; the FAT model takes each sector's status as an
input); smoltcp internals (a library). The network code above the e1000
rings is never reached and does not build: `NetStack::init` has no caller,
so `NET` stays `None`, `netstack::poll` (called every tick) does nothing and
`open_udp` returns `None`; `net/mod.rs` declares `ip` and `crypto`, which do
not exist; `netstack.rs` repeats lines 104-109. `wifi.rs` is a fixed table.
`E1000::init`'s PCI probing and MAC read are hardware I/O; its second call,
from the Network window (`apps/network.rs:9`), is recorded as a hazard.

## 3. Modules and runs so far

### `Scheduler` (`Scheduler.tla`, instance `MCScheduler.tla`)

State: `nTasks`, and per slot `state`, `wait`, `kind`, `root` and `user`,
which form the `TASKS` table. `ready` is `READY` and `current` is `CURRENT`.
`phase` is `TICKS % HZ` and `activeRoot` is the CR3 register. `cpu` is the
executing thread, and `ctx[i]` is the thread whose registers `Task i`'s ctx
holds. `mode` says whether a user task is still in the trampoline, in ring 3,
or stuck in its spin loop. `bootPc` is where `kernel_main` is, and
`pending[t]` is a `spawn_user_elf` call that has queued its task but not yet
patched it.

Time abstraction: the code compares only whole-second uptime with `until`. A
sleeper therefore keeps `until - uptime_secs` in seconds. The clock keeps
`TICKS % HZ`, and a tick that wraps the phase to 0 is a new second. This makes
the state space finite without a bound on time. `HZ = SleepDiv = 2` scales
down the code's `100` / `100`. `main.rs` passes 100 to `pit::init`, and
`sleep_current` divides by the literal 100, so the two are equal as in the code.

Actions: `SchedInit`, `BootSpawnShell`, `ShellSpawn`, `SleepCurrent`,
`SpawnUserElf` (up to and including `spawn_kernel`), `SpawnUserElfPatch`,
`UserTrampoline` and `OnTick`. `OnTick` covers the whole of `pit::tick` plus
`on_tick`: wake, re-queue, pop, mark, CR3, switch. `netstack::poll` is not in
it; that is a separate component.

Bounds: `MaxTasks = 4` (idle, shell and two spawned tasks), so a user task
can spawn another. `SleepArgs = {1, 2}` gives a sub-second sleep and a
one-second sleep. `QueueBound = 4`: sleeps are no longer offered once `READY`
holds 4 entries. This is needed because the code lets `READY` grow without
limit (see findings).

Fairness: none; the Scheduler runs check safety only. This layer takes, as
the contract of spec 4.2, that the switch resumes the picked thread.
`ContextSwitch` checks that against the code, and the code does not meet it
(findings 4 and 5). Nothing in the code guarantees a next tick either: the
handler sends its EOI only after `switch` returns, and the first `switch`
never does. A round-robin liveness property would rest on a fair tick the
code does not provide, so none is stated. The Scheduler runs therefore
describe the queue and state logic of `scheduler.rs` on its own.

| Run | Expect | Checks | Shows |
|---|---|---|---|
| `scheduler_safety` | pass | `TypeOK`, `RunningIsCurrent`, `UserRunsInOwnRoot` | Only CURRENT is ever Running. A user task in ring 3 always runs under its own CR3, despite the late cr3 patch. |
| `scheduler_sleeper` | violation | `SleeperNotQueued` | Under the switch contract of spec 4.2, with the shell running `sleep`, a sleeper is in READY before its deadline, so a later pop would run it early. The code as written never gets there (finding 4). |

### Findings so far

1. `on_tick` re-queues CURRENT when its state is `Running` **or `Ready`**
   (`scheduler.rs:43`). After `init`, idle is CURRENT and already queued, and a
   sleeper woken in step 1 of the same tick is pushed a second time in step 2.
   READY then holds duplicates that it never loses. A stale entry later pops a
   task that has gone back to sleep and marks it Running before its deadline
   (`scheduler_sleeper`). A short sleep repeated by the shell adds one entry
   each time, so READY grows without bound on a heap that never frees (the
   same trace shows READY longer than the task table). The bug is latent:
   the trace needs `switch` to return as spec 4.2 says and the shell to run
   `sleep`, and the code's first switch hangs (finding 4).
2. (Hazard, no longer a run.) When the head of READY is CURRENT itself, line
   54 marks it Running and line 55 at once marks it Ready again. This
   already happens at the first tick, which is the tick whose self-switch
   hangs (finding 4), so the state is never observed by running code.
3. (Hazard, not a run.) `spawn_user_elf` makes the task runnable
   (`spawn_kernel`, `syscalls.rs:104`) before it stores the user entry
   (`syscalls.rs:109`). A tick in between runs `user_trampoline`, which finds
   no entry and loops for ever. The code never gets there: the shell cannot
   run a command once the first tick after `init` hangs in `switch`
   (finding 4). `UserRunsInOwnRoot` checks the related cr3 ordering under the
   switch contract.

### `ContextSwitch` (`ContextSwitch.tla`, instance `MCContextSwitch.tla`)

State:

* `pc` is thread code (`"run"`), a spin that never ends (`"spin"`), the
  next instruction group of `switch`, or `"wild"`: the CPU executing bytes
  that are not code.
* `regs`, `rsp`, `rax`, `rdi` and `rsi` are registers. A value is the thread it
  belongs to; `regs` stands for r15..rbp.
* `mem[i]` is `Task i`'s saved `Context`, addressed by byte offset as
  `switch` reads and writes it: `regs`, and the words `at30` and `at38`.
  `switch` stores and loads the stack pointer at +0x38 and the resume
  address at +0x30. But `#[repr(C)] Context` puts the field `rsp` at +0x30
  and `rip` at +0x38, and those are the fields `Task::new_kernel` sets
  (`task.rs:32-33`). So `FreshCtx` holds `"StackTop"` at +0x30 and
  `"Entry"` at +0x38. A word is a thread or an address: `"Entry"`,
  `"SaveRsp"` (the instruction after `lea rax, [rip]`) or `"StackTop"`.
* `intr` is IF and `isr` is the IRQ0 in-service bit.
* `call` is an `init`/`spawn_kernel` call that holds TASKS, and `readyHeld`
  means the READY guard is held by a handler frame.

Actions:

* `SchedInit`, `SpawnKernel` and `FinishCall` are the two halves of
  `init`/`spawn_kernel` around the TASKS critical section.
* `TickSpin` and `TickSwitch` are the handler.
* `SaveRegs`, `Lea`, `SaveRsp`, `SaveRip`, `LoadRegs`, `LoadRsp` and `Jmp`
  are `context.rs` lines 16-33.

Abstraction: the pick is any existing slot. This over-approximates the queue
of `Scheduler`, whose first pick after `init` is always slot 0 itself.

Bounds: `MaxTasks = 5` (kernel_main's thread plus idle, shell and three
spawned tasks) gives the register/context combinations of fresh and resumed
switches.

Deadlock is not checked (`CHECK_DEADLOCK FALSE`). A spinning handler, a
hanging switch and a jump into a fresh task's stack all leave the CPU
executing for ever with no further modelled step. These are the states the
code really stops in.

Fairness: `WF(Step)`: the CPU executes the next instruction of `switch`.
Nothing in it can wait, since IF is clear.

There is no passing run of this module. After the first `switch`, thread
code never runs again: a resumed task loops inside `switch`, and a fresh
one jumps into its stack. So a property about the thread code that runs
after a switch has no case to check.

| Run | Expect | Checks | Shows |
|---|---|---|---|
| `switch_returns` | violation | `SwitchReturns` | A task switched back in resumes at `mov [rdi+0x38], rsp` with stale `rdi`/`rsi` and loops through lines 23-33 for ever. |
| `switch_spin` | violation | `HandlerNeverSpins` | A tick while `init`/`spawn_kernel` holds TASKS spins in `on_tick` for ever. |

More findings:

4. `lea rax, [rip]` (`context.rs:22`) saves the address of the next
   instruction of `switch` itself. A task that is switched back in re-runs
   lines 23-33 with the resumer's `rdi`/`rsi` and jumps to line 23 again, for
   ever, with IF clear. After `init`, READY is `[0]` and CURRENT is `0`, so
   the first tick re-queues 0 and pops 0, which switches slot 0 into itself.
   kernel_main hangs there. Everything the Scheduler module checks beyond
   that point therefore describes the scheduler logic under the switch
   contract of spec 4.2, not a run of the code as written.
5. `init` and `spawn_kernel` hold TASKS with interrupts enabled. A tick in
   that window spins on `TASKS.lock()` in the handler for ever.
6. (Hazard, not a run of its own.) `switch` is entered while the READY
   guard of the `if let` at `scheduler.rs:49` is held; spec 4.2 requires
   all locks to be released. Since the switch never returns (finding 4), the
   guard is never dropped, and `readyHeld` records it. `HandlerNeverSpins`
   would catch the spin on it, but the trace `switch_spin` reports is the
   shorter one of finding 5: `SchedInit` then `TickSpin`, the TASKS spin.
7. (Hazard, not a run.) A fresh context is crossed. `Task::new_kernel`
   stores the stack top where `switch` expects the resume address, and the
   entry where it expects the stack pointer. A fresh task would therefore
   start with `rsp` = its entry address and jump into its own heap stack
   (`pc = "wild"`). The model reaches this when a tick picks a fresh slot.
   In the code, every first switch is the self-switch of slot 0, which hangs
   first (finding 4), so no run states it.

Not checked, and why: `switch` neither saves nor loads `rflags`, so even a
correctly laid-out fresh task would start with IF clear and without EOI,
and would never be preempted. No run of the code reaches a fresh task,
because the self-switch hangs first. The same holds for the TASKS guard that
`user_trampoline` keeps for ever.

### Sequential components (`ElfParse.tla`, `Fat.tla`, `Settings.tla`, `Inspector.tla`, `Heap.tla`, `AppMgr.tla`, `E1000.tla`, `FatFile.tla`, `BootFrames.tla`, `SpawnUser.tla`, `ConsoleIO.tla`, instance `MCSequential.tla`)

These components run to completion on one thread and share no state with
another thread; the e1000 rings share theirs only with the NIC, which is an
actor of `E1000` itself. `MCSequential` checks all of them in one run. It is a
disjoint union: each behaviour starts from the input of one component (an ELF
file, a disk, a disk and a name to read, a lock file with a `/bin/hello`, a
placement of `HEAP`, an empty `APPS`, a boot memory map, or the rings as `init_rings` leaves them; the rings' variables
are `Null` in the other behaviours, standing for `NIC = None`). The other components' variables hold a model value or their
initial value and do not change.

**`ElfParse`.** `parse_elf` (`elfloader.rs` 6-25) is the operator `ParseElf`.
A file is a record of what the code reads from it: its length, the magic and
class checks, `e_entry`, `e_phoff`, `e_phentsize`, and the program headers
(`p_type`, `p_offset`, `p_vaddr`, `p_filesz`). `LoadSegs` is the header loop,
RECURSIVE over the header index. It keeps the code's order of slice accesses:
`bytes[off..off+4]` for every header, and the other fields and the segment
only for `PT_LOAD`. An access past the end is the value `Panic`. A push to
the full `heapless::Vec` is ignored. `RefParse` is a reference parser written
from spec 4.6 and 7(a). File lengths 63, 64, 100, 119, 120, 176 and 240 sit
on each side of the header and of one and two program headers. There are up
to three headers, and `MaxSegs = 1` stands for 16.

**`Fat`.** `read_bpb` and `list_root` (`fs/fat.rs` 15-59) over a symbolic
disk read through `AtaDevice` (`block.rs`) and the DRQ/ERR poll of
`read_sector_lba28` (`ata.rs`). A sector is a sequence of directory entries.
Each entry keeps its first byte (end, deleted or a name), its attribute
(long name, label or file) and its 8.3 name. `ScanRoot` and `ListSector` are
RECURSIVE versions of the two loops:
* a 0x00 entry ends only its own sector;
* a failed read ends the scan;
* a drive that shows neither DRQ nor ERR is `Hang`;
* `BPB_BytsPerSec = 0` is `Panic`.

`RefList` is the root directory listing of the FAT specification. It is
checked on *standard* volumes, the ones `mkfs.fat -F 16` makes without a
label. The disks have a 2-sector root scan (32 in the code) and a 3-name cap
(128). A root with more files than the cap is standard too: `ListRootAgrees`
says `list_root` then returns the first names up to the cap, in root order,
and drops exactly the rest. Every pair of entries is placed in both root sectors, and geometry
variants (FAT size field, signature, `bps` 0, a failing or busy sector) are
added.

**`FatFile`.** `read_file_root_8_3` and `read_chain_fat16` (`fs/fat.rs`
61-118) over the disks of `Fat`, whose entries also keep their first cluster
and size and which also keep the FAT as a sequence of 16-bit entries. The
root scan is that of `list_root` with a case-insensitive name match. The
chain walk is RECURSIVE: it reads the cluster's sector (one sector per
cluster: the code fixes `spc` at 1), copies `min(512, remaining)` bytes,
then reads the FAT entry from the sector and offset its two bytes lie at.
It goes on to the end mark after the last byte is copied, so a FAT whose
chain loops gives `Hang`. Data are pieces `[lba, n]`, the first `n` bytes of
sector `lba`. `RefRead` is the file read of the FAT specification.
`FileReadAgrees` is checked on volumes fsck accepts: `Fat`'s standard
volumes whose every file chain is free of cycles, readable, and one cluster
per 512 bytes long. The disks enumerate every link among clusters 2-4, the
bad-cluster mark and the end mark in each FAT entry, a failing FAT or data
sector, a deleted and a duplicate `A`, and file sizes 0, 300 and 700. The
names read are `A`, `ab.c` (case differs) and the absent `Z`. The code has
no caller, and `.ok()?` on `Vec::extend_from_slice` (which returns `()`)
does not build; the model extends the Vec.

**`BootFrames`.** `mm::init`'s frame list: `init_frame_alloc` (`mm.rs`
51-64) walks each usable region of the boot memory map in steps of a page
while `addr + 4096 <= end`. It keeps the aligned addresses and ignores a
push onto the full 4096-frame Vec. `FramesFromMap` compares the list with the
aligned whole frames of the usable regions in map order, cut to the Vec's
capacity, on maps whose usable regions start page-aligned. On an unaligned
start the code keeps no frame of the region: every address of the walk stays
unaligned. Frames of 4 bytes and a Vec of 3 stand for 4096 and 4096.

**`Settings` and `Inspector`.** `load_from_lock` (`settings.rs` 39-75) is a
`FoldLeft` of `Step` over `str::lines`. It carries the current section, and
each line is trimmed, skipped, a header, or a `key = value` split at the
first `=`. Text is a sequence of tokens (whitespace, newline, the punctuation
`#[]="` and words). `BootLoad` is `kernel_main`'s load at boot (`main.rs`
73-76). `RefLoad` is a declarative INI reading: the last valid assignment of
a key in its section wins. The lock files are every file of one to three
lines from eleven tricky lines, such as:
* a header with a leading space;
* `font_scale = 2 = 3`;
* a quoted language;
* a commented-out key;
* an unparsable number;
* a line without `=`.

`Inspector` is `inspect_elf64` (`elf.rs` 1-28) and `kernel_main`'s inspector
step (`main.rs` 108-117). It runs on the first `elf_max_bytes` bytes of
`/bin/hello` after the settings load, so the cap comes from the lock file
(4096 by default; 16 or 2 from the lock files). A report is the sequence of
its lines, each line the values it prints. The hex tables of `elf.rs` 30-64
have no caller and are not modelled. Their two-character char literals such
as `'00'` are not valid Rust.

**`Heap`.** This is the bump allocator of `heap.rs`: `Bump::init`, `alloc`
with its align-up, fit check and advance, and the lazy init in
`WaemomAlloc::alloc`. `HEAP` is placed at an odd and an aligned address, the
heap is 16 bytes, and requests of 0, 3 and 8 bytes at alignments 1, 4 and 8
are made up to three times. Padding, exact fits and failures all happen.

**`AppMgr`.** This is `appmgr.rs`:
* `spawn`: id = length + 1, state Normal;
* `set_state`: the first app with the id, and an unknown id changes nothing;
* `window::render_registered_apps` over `list()`.

Bounds: two spawns under two names, and three `set_state` calls with ids 0-3
and every state.

**`E1000`.** The descriptor rings of `net/e1000.rs` and the NIC. The driver
side is `init_rings` (the initial state: every status 0, RDH 0, RDT 31, TDH
and TDT 0), `poll_rx` as three actions (the one read of RDH and RDT, one loop
iteration, the write of RDT) and `send` as two (fill the descriptor after
TDT, write TDT). The NIC side follows the 8254x manual: it owns RX
descriptors RDH..RDT-1, stores an arriving packet at RDH with DD set and
advances RDH, or drops it when RDH = RDT; it sends TX descriptors TDH..TDT-1.
A packet is its number on the wire or in send order; lengths and bytes are
left out (callers send at most 1536 bytes, so the 2048-byte check never
fails). Bounds: rings of 4 (32 in the code), six arrivals and five sends, so
the RX ring fills and drops, both rings wrap, and the NIC stores packets
while a poll runs. `poll_rx` and `send` are unreachable in the kernel as
written (see "Not modelled"); the model checks the driver as it would run.

| Run | Expect | Checks | Shows |
|---|---|---|---|
| `sequential_agree` | pass | `ParseAgrees`, `ListRootAgrees`, `LoadAgrees`, `AllocSound`, `ElfWindowAgrees`, `SetStateByIdAgrees`, `RxDeliveredOnceInOrder`, `FileReadAgrees`, `FramesFromMap` | `parse_elf` returns the reference image on every well-formed file. `list_root` lists exactly the root's files, up to the name cap, on standard volumes. `SETTINGS` after boot is the INI reading of the lock file. Every heap block is aligned, inside `HEAP` and after the earlier ones, and `alloc` fails only when the request does not fit. The inspector window gives the file's own ELF64 verdict when the cap admits a header. `set_state` changes exactly the app whose spawn returned the id. `poll_rx` hands every packet the NIC stored to its callback once and in wire order, and a finished poll leaves none behind that was stored when it began. `read_file_root_8_3` returns the first matching file's data cut to its size. `mm::init` gives the allocator the map's first usable frames in order. |

The same run checks the spawn and console behaviours described under
`SpawnUser` and `ConsoleIO` below (`FramesUsedOnce`, `ImagePagesClean`,
`ConsoleShowsTranscript`). It reaches about 1.49M states in about 50 s.

Hazards recorded from these models (see `PROJECT.json`):
* `parse_elf` panics on a truncated program-header table or segment (`elfloader.rs:15`, 17-19, 22), where spec 7(a) asks for a failure value. `sequential_agree`'s spawn behaviour reaches this with its truncated file.
* `read_bpb` divides by a zero `BPB_BytsPerSec` (`fat.rs:29`).
* The ATA poll has no timeout (`ata.rs:24`).
* The 128-name cap drops files (`fat.rs:53`); `ListRootAgrees` pins down which.
* `list_root` always scans 32 sectors whatever the root size (`fat.rs:43`).
* Allocation from `on_tick` can spin on `BUMP` (`heap.rs:42`).
* `read_chain_fat16` walks to the end mark after the last byte, so a looping FAT chain makes it spin for ever (`fat.rs:99`).
* `poll_rx` races the NIC on the RX ring (`e1000.rs:102`); `RxDeliveredOnceInOrder` covers it.
* `send` fills TDT+1 but publishes only up to it, so each packet leaves one send late and the first transmission is an empty descriptor; it never checks TDH, so a full ring is overwritten (`e1000.rs:121`). The model's wire history shows the lag; no run slot is left for a violation run.
* The Network window re-runs `E1000::init` on the live device (`apps/network.rs:9`).

### `AddressSpace` and `SpawnUser` (`AddressSpace.tla`, `SpawnUser.tla`, test files `SpawnFiles.tla`, instances `MCSpawnUser.tla` and `MCSequential.tla`)

`AddressSpace` is the state of `mm.rs`:

* `next` is the allocator cursor, over frames `0..NumFrames-1`.
* `roots` are the PML4 frames of user address spaces.
* `pt[r][vp]` is the frame mapped at page `vp` under root `r`.
* `tbl[r][g]` is the page-table frame of region `g`. The three levels of
  tables that `map_to` creates are abstracted to one table frame per region
  of `TableSpan` pages. Like the real tables, it is taken from the same
  allocator, after the data frame and before the already-mapped check.
* `mem[fr][o]` is a byte of a frame: `Junk` (earlier RAM content), `Zero`,
  or the file position of the ELF byte copied there.

`MapOutcome` and `MapPage` are one iteration of `map_user_region`'s loop.

`SpawnUser` runs `spawn_user_elf` call after call, one action per statement
or loop iteration:

* `Start` reads and parses.
* `CreateRoot` is `alloc_user_space`.
* `SegStart` and `StackStart` call `map_user_region` for a segment or for the
  stack.
* `MapStep` and `MapDone` are its loop.
* `CopyFrame` and `CopyDone` are `map_into_cr3`'s copy loop.
* `Spawn` records the task with its cr3 and image.

Nothing else allocates frames, and the caller holds no lock, so the steps are
sequential. The scheduling of the spawned task is `Scheduler`'s business.

Bounds: `PageSize = 4` stands for 4096, 16 virtual pages, `TableSpan = 8`
(image and stack in different regions), one stack page (8 in the code), two
segments per image. The safety run issues three `run` commands over nine
frames (the spawn behaviour of `MCSequential`). The first spawn takes six frames (root, two tables, two image pages,
one stack page). The second runs out in the middle of mapping, and the third
finds no frame for its root. The files, defined in `SpawnFiles`, are:

* an aligned two-page segment;
* a segment at an unaligned address;
* two segments sharing page 0;
* a non-ELF file;
* a truncated header table.

Together they reach every outcome of `map_to` and every exit of
`spawn_user_elf`.

Deadlock is not checked. The shell issues at most `MaxSpawns` commands, and
the truncated file halts the kernel with a panic.

| Run | Expect | Checks | Shows |
|---|---|---|---|
| `sequential_agree` | pass | `FramesUsedOnce`, `ImagePagesClean` (among others) | No frame is ever both a root, a table or a page twice over, across spawns and failures. The image pages of spawned tasks never expose old RAM. |
| `spawn_placement` | violation | `ImageLoaded` | An unaligned segment is copied to the wrong offset, and its last page is not mapped. |
| `spawn_exhaust` | violation | `UserSpaceMapped` | When frames run out, the spawn succeeds anyway with an unmapped stack. |

Findings:

8. `map_into_cr3` copies each segment to offset 0 of the frame mapped at the
   page containing `p_vaddr` (`elfloader.rs:39`). For an unaligned `p_vaddr`,
   every byte lands `p_vaddr mod 4096` too low, and the tail past the
   `ceil(len/4096)` mapped pages is missing.
9. `with_mapper_for_cr3(...)?` (`mm.rs:115`) unwraps only the `Option` and
   drops the closure's `Err`. `map_user_region` therefore returns the frames
   mapped so far, `map_user_stack` and `map_into_cr3` report success, and the
   task is spawned without its stack or with part of its image. Spec 4.5 and
   7(b) require failure.

Not checked: the user stack frames are not zeroed. Spec 4.5 promises nothing
about their content, so this is recorded as a hazard only.

### `FileStore` and `MemFs` (`FileStore.tla`, `MemFs.tla`, instance `MCMemFs.tla`)

`FileStore` is the abstract specification of the RAM file system: what its
callers may rely on. `node[p]` says whether path `p` is absent, a directory,
or a file with its data, and `out` is the result of the last call. `write`
makes `p` a file and creates missing directories on the way. It fails when
the way passes through a file, and a directory written over loses its
contents. `read` returns a file's data, and `list` the set of names in a
directory.

`MemFs` is the code (`fs/memfs.rs`, `fs/mod.rs`):

* `t` is the node store. `t.kids[i]` is the child `Vec` of node `i`, in
  order, and lookups take the first child of a name, as the code's loops do.
* `AddFile` is `add_file`, `Write` is `write`, and `Find` is
  `find`/`find_ref`. All are RECURSIVE over the path's parts.
* Each call holds the `FS` mutex for its whole run, so it is one step.

The Broom browser (`apps/broom.rs`) is the only code that writes to the file
system after `fs::init`, so it is part of the model:

* `BroomLoad` is `Broom::load` (two `read_lines`).
* `BroomSearch` is `search_google`: `url_encode`, push, and save's first
  `fs::write`.
* `BroomSaveBookmarks` is save's second `fs::write`. The lock is dropped
  between the two writes, so other calls can run in between.

Text is modelled by what the conversions do:

* A character is one of the classes `url_encode` tells apart.
* `%XX` is three characters.
* `join("\n")` and `str::lines` (which drops an empty last line) are
  `JoinNl` and `Lines`.
* Other files' contents are model values.

Refinement: `Refines` is `FS!Spec` under `node <- view` and `out <- AbsOut`
(a listed `Vec` becomes a set of names).

* `view` is an auxiliary variable holding `View(t)`, what `find` shows at
  each path. It is kept so that the mapping is computed once per state.
* Out records carry the path, so a write that changes nothing is still a
  visible step.
* The abstract `Datas` are the other callers' contents plus every text the
  Broom can save.

Bounds:

* Paths: `fs::init`'s seven files and their directories, `README.txt/x`
  (through a file), and broom's `home/broom/...` files.
* Other callers write `/`, `/etc` (over a directory), `/etc/motd` and
  `README.txt/x`, with two contents.
* The Broom searches at most twice, for "waemom os" (launch_demo's query) or
  for a query holding a newline.
* `MaxNodes = 18` store slots, enough for every write of these paths.

| Run | Expect | Checks | Shows |
|---|---|---|---|
| `fs_safety` | pass | `TypeOK`, `NamesUnique`, `Refines`, `HistoryRoundTrip` | Names stay unique in every directory. Every interleaving of calls behaves as `FileStore` says, including a write over a directory and one through a file. The Broom always loads back the history it saved. The last holds because the search prefix makes every URL non-empty and `url_encode` escapes newlines. |

Not modelled: allocation. `read` and `list` clone onto a bump heap that never
frees; this is recorded as a hazard.

### `Terminal` (`Terminal.tla`, instance `MCTerminal.tla`)

One model of the input path, from the PS/2 controller to the shell:

* `obuf` is the controller's output: scancodes, the reply to command 0x20,
  and mouse bytes, in the order port 0x60 will give them.
* `mouse::init` (`InitCmd`, `InitWriteCfg`, `SendMouse`, `ReadAck`) runs in
  `kernel_main` with interrupts already on.
* `KeyboardIrq` (IRQ1: `on_scancode`, `tty::write_char`) and `MouseIrq`
  (IRQ12: `mouse::on_irq`) each run to completion with IF clear.
* `TTY0`'s bounded queue is `q`, and its lock is `tlock`.
* The shell loop is `ReadCharLock`, `ReadCharTake` and `HandleCmd`.
  `ReadCharTake` is `read_char`'s dequeue plus `read_line`'s match.
* `draw_cursor` holds `MOUSE` between `CursorLock` and `CursorUnlock`.
* The console (`cout`) is a sequence of texts. `HandleCmd` applies the
  console effect of `handle_cmd` (`CmdOutput`):
  * `hello` prints "Hello!";
  * `clear` empties the console;
  * an empty line prints nothing;
  * anything else prints "Unknown".

  `Println` is `push_str` followed by the push of a newline. Each part is
  dropped whole when the 512-byte `String` is full (`ConsoleCap = 9` here,
  counted in `TextLen` bytes).

A handler that finds its spin lock held by the thread it interrupted sets
`spin`, and nothing runs after that. A scancode is abstracted to the key it
decodes to.

Deadlock is not checked (`CHECK_DEADLOCK FALSE`). A spinning handler really
stops the machine, and typing stops at `MaxKeys`.

Bounds: two printable keys plus newline and backspace, four keys, `QCap = 2`
(255 in the code), `LineCap = 2` (256), `ConsoleCap = 9` (512), and one
mouse packet. The line of keys A C is `hello` and the line C is `clear`.
These bounds are enough to:
* fill the queue and drop a key;
* cap a line and erase with backspace;
* deliver a line over several `read_line` calls;
* fill the console so that a reply, or its newline alone, is dropped;
* clear the console.

The console state is kept because `handle_cmd` writes it, but no property of
this run is about it: with these bounds at most one reply is ever printed.
The console's ordering and truncation are checked by `ConsoleShowsTranscript`
in `MCSequential`, whose writes and commands fill it with several texts.

The run reaches about 3M states in about 70 s.

| Run | Expect | Checks | Shows |
|---|---|---|---|
| `terminal_safety` | pass | `TypeOK`, `LineDelivered` | The lines `handle_cmd` receives are exactly the lines of the characters TTY0 accepted, edited and capped, although `read_line` returns on every empty queue. |
| `mouse_desync` | violation | `MousePacketsAligned` | `on_irq` decodes a packet from bytes of two different packets. |
| `terminal_lock` | violation | `InterruptsNeverSpin` | An IRQ12 arriving while `draw_cursor` holds `MOUSE` (or an IRQ1 while `read_char` holds `TTY0`) spins on the lock for ever; found in 10 states. |

Finding 10: `mouse::init` turns IRQ12 on (`mouse.rs:24`) before it sends
0xF6 and 0xF4.

* The mouse's 0xFA replies then raise IRQ12, and `on_irq` stores them as
  packet bytes.
* From then on, `byte_idx` is off by two for every packet.
* `send_mouse` reads the reply itself (line 37), which shows the code
  expects to consume it.
* This runs before `scheduler::init`, so it happens on every boot.

Finding 11: `read_char` (`tty.rs:19`) and `draw_cursor` (`mouse.rs:59`)
hold a spin lock with interrupts on, and the IRQ1 or IRQ12 handler that
needs the same lock spins for ever, on one CPU, without its EOI
(`terminal_lock`). spec.md's concurrency section asks for short,
non-reentrant critical sections, which the handler re-enters here. The bug
is latent: both windows open only after `scheduler::init`, and the first
tick after it hangs in `switch` (finding 4).

The console is never trimmed (`console.rs:70`). Once it is full, every later
reply is dropped until `clear`, and `sys_write` still returns the length it
was given (`syscalls.rs:49`); `ConsoleShowsTranscript` (below) checks that
what is dropped is dropped whole.

### `ConsoleIO` (`ConsoleIO.tla`, composed in `MCSequential.tla`)

The other two writers of `CONSOLE`, which `Terminal` leaves out:

* `OnChar` is `console::on_char` with `handle_command` (`HandleCommand`),
  `console.rs:13-49`. A newline or carriage return runs the trimmed line: a
  separator unless the output is empty, then "> ", the line and a newline,
  then "Hello!", a clear, nothing, or "Unknown command". Then `input` is
  cleared. A backspace pops, and any other key is pushed unless the 128-byte
  input is full. `on_char` has no caller in the kernel, but it is public
  and complete, so it is checked as it would run.
* `HandleSyscall` is `handle_syscall`'s dispatch (`syscalls.rs:31-43`) with
  `SysWrite` (`sys_write`, 45-53). fd 1 with valid UTF-8 prints the text
  with `println` and returns its length. Anything else returns `u64::MAX`.
  Sleep and exit return 0. A spawn returns a pid or 0, or `u64::MAX` for a
  path that is not UTF-8; its effects belong to `SpawnUser` and `Scheduler`.

Each call holds `CONSOLE` throughout, so each is one step. The output is a
sequence of the pieces pushed (`Push`: the whole text or nothing, as in
`heapless::String::push_str`), each with its byte length. `hist` records the
keys and the accepted writes. `Ref` folds `hist` into the transcript a reader
should see.

`Tick` is `pit::tick`'s count of `TICKS`. The `uptime` command pushes
`format_uptime` (`FormatUptime`: `uptime_secs` split into hours, minutes and
seconds, each `{:02}`), then a newline. `RefClock` is the reference clock text
the transcript expects.

Bounds: keys h ("hello"), x ("clear"), u ("uptime"), space, newline,
carriage return and backspace. A 2-key input (128) and a 20-byte output
(512), so that the input drops keys and an "Unknown command" reply
overflows. `TICKS` starts one tick before 01:00:00 at `HZ` = 100, so that a
tick rolls the minutes and the hours over. Writes of a 3-byte text and of
non-UTF-8 bytes, to fd 1 and 2. Four events (keys, ticks, calls) in all.
The sleep and spawn commands need key sequences outside this alphabet.

`ConsoleShowsTranscript` (in `sequential_agree`): the input is the line being
typed. The output is the transcript since the last `clear`, with pieces that
did not fit left out whole, never cut, repeated, reordered or stale. While
everything fits, it is the whole transcript.
