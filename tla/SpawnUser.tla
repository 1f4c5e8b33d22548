----------------------------- MODULE SpawnUser -----------------------------
(***************************************************************************)
(* syscalls::spawn_user_elf (src/syscalls.rs) run by the shell, one call   *)
(* after another, over the frame allocator and page tables of             *)
(* AddressSpace: parse the file, create a root, map_into_cr3              *)
(* (src/elfloader.rs) with one map_user_region per segment followed by    *)
(* its copy loop, map_user_stack, and the spawned task.                   *)
(*                                                                         *)
(* The bytes of a segment are named by their position in the file, so a  *)
(* frame byte equal to p_offset + k holds byte k of that segment.  The    *)
(* caller holds no lock across the call and nothing else allocates        *)
(* frames, so the steps run in sequence; a step here is one loop          *)
(* iteration of map_user_region or of the copy loop.                      *)
(***************************************************************************)
EXTENDS AddressSpace

CONSTANTS
  Files,       \* executables in the RAM filesystem
  MaxSegs,     \* capacity of ElfImage.segments (16 in the code)
  Panic,       \* model value: parse_elf panicked
  NoImage,     \* model value: parse_elf returned None
  StackTop,    \* user_stack_top (0x7fff_ffff_f000 in the code)
  StackPages,  \* pages of the user stack (8 in the code)
  MaxSpawns    \* bound: run commands issued by the shell

VARIABLES
  pc,       \* the statement of spawn_user_elf being executed
  img,      \* the parsed image (or NoImage / Panic)
  root,     \* cr3 of the address space being built
  segI,     \* index of the segment map_into_cr3 is at
  reg,      \* arguments of the running map_user_region: [vaddr, len, then]
  off,      \* map_user_region's off
  frames,   \* frames map_user_region returned, not yet copied into
  copied,   \* the copy loop's copied
  tasks,    \* user tasks spawned: [cr3, img] patched into TASKS
  nSpawns   \* run commands issued so far

vars == <<asVars, pc, img, root, segI, reg, off, frames, copied, tasks, nSpawns>>
spawnVars == <<pc, img, root, segI, reg, off, frames, copied, tasks, nSpawns>>

Elf == INSTANCE ElfParse WITH f <- img

StackBase == StackTop - StackPages * PageSize

Init ==
  /\ ASInit
  /\ pc = "idle" /\ img = NoImage /\ root = 0 /\ segI = 1
  /\ reg = [vaddr |-> 0, len |-> 0, then |-> "copy"]
  /\ off = 0 /\ frames = <<>> /\ copied = 0
  /\ tasks = {} /\ nSpawns = 0

----------------------------------------------------------------------------
(* Lines 95-96: fs::read, parse_elf.  A missing file and a None image     *)
(* both return Err; a truncated header table panics.                      *)
Start ==
  /\ pc = "idle" /\ nSpawns < MaxSpawns
  /\ \E file \in Files :
       LET im == Elf!ParseElf(file)
       IN /\ img' = im
          /\ pc' = CASE im = NoImage -> "idle"
                     [] im = Panic   -> "panic"
                     [] OTHER        -> "pml4"
  /\ nSpawns' = nSpawns + 1
  /\ UNCHANGED <<asVars, root, segI, reg, off, frames, copied, tasks>>

(* Line 97: alloc_user_space, Err when no frame is left. *)
CreateRoot ==
  /\ pc = "pml4"
  /\ \/ /\ CreateUserPml4
        /\ root' = next /\ segI' = 1 /\ pc' = "seg"
     \/ /\ ~CanAlloc(1)
        /\ pc' = "idle" /\ UNCHANGED <<asVars, root, segI>>
  /\ UNCHANGED <<img, reg, off, frames, copied, tasks, nSpawns>>

(* map_into_cr3 line 32: map_user_region(cr3, vaddr, seg.len()). *)
SegStart ==
  /\ pc = "seg" /\ segI <= Len(img.segments)
  /\ LET s == img.segments[segI]
     IN reg' = [vaddr |-> s.vaddr, len |-> s.data[2], then |-> "copy"]
  /\ off' = 0 /\ frames' = <<>> /\ copied' = 0 /\ pc' = "map"
  /\ UNCHANGED <<asVars, img, root, segI, tasks, nSpawns>>

(* map_into_cr3 returns true; lines 101-102: map_user_stack(cr3, top, 8) *)
(* is map_user_region(cr3, top - size, size); its result is not checked  *)
(* beyond the allocator being initialised.                               *)
StackStart ==
  /\ pc = "seg" /\ segI > Len(img.segments)
  /\ reg' = [vaddr |-> StackBase, len |-> StackPages * PageSize, then |-> "spawn"]
  /\ off' = 0 /\ frames' = <<>> /\ pc' = "map"
  /\ UNCHANGED <<asVars, img, root, segI, copied, tasks, nSpawns>>

(* mm.rs 107-113: one iteration of the loop.  The closure's Err, from     *)
(* allocate_frame or map_to, ends the loop; with_mapper_for_cr3 wraps it  *)
(* in Some and the ? discards it, so the caller gets the frames so far.   *)
MapStep ==
  /\ pc = "map" /\ off < reg.len
  /\ LET vp == (reg.vaddr + off) \div PageSize
     IN /\ MapPage(root, vp)
        /\ IF MapOutcome(root, vp) = "mapped"
             THEN /\ frames' = Append(frames, next)
                  /\ off' = off + PageSize
                  /\ UNCHANGED pc
             ELSE /\ pc' = reg.then /\ UNCHANGED <<frames, off>>
  /\ UNCHANGED <<img, root, segI, reg, copied, tasks, nSpawns>>

(* mm.rs 107 and 114: the loop ends when off reaches len. *)
MapDone ==
  /\ pc = "map" /\ off >= reg.len
  /\ pc' = reg.then
  /\ UNCHANGED <<asVars, img, root, segI, reg, off, frames, copied, tasks, nSpawns>>

(* Mutant: the tail of the last frame is not zeroed. *)
FillFrameNoZero(old, start, n) ==
  [o \in Offset |-> IF o < n THEN start + o ELSE old[o]]

(* Lines 38-40: n bytes of the segment from file position start at frame *)
(* offset 0, the rest of the frame zeroed.                               *)
FillFrame(old, start, n) ==
  [o \in Offset |-> IF o < n THEN start + o ELSE Zero]

(* Lines 35-41: copy into the next returned frame. *)
CopyFrame ==
  /\ pc = "copy" /\ frames # <<>> /\ copied < reg.len
  /\ LET fr == Head(frames)
         n  == IF reg.len - copied < PageSize THEN reg.len - copied ELSE PageSize
     IN /\ mem' = [mem EXCEPT ![fr] =
                     FillFrame(mem[fr], img.segments[segI].data[1] + copied, n)]
        /\ copied' = copied + n
  /\ frames' = Tail(frames)
  /\ UNCHANGED <<next, roots, pt, tbl, pc, img, root, segI, reg, off, tasks, nSpawns>>

(* Lines 35 and 42: the frames are used up or the segment is copied;     *)
(* on to the next segment.                                                *)
CopyDone ==
  /\ pc = "copy" /\ (frames = <<>> \/ copied >= reg.len)
  /\ pc' = "seg" /\ segI' = segI + 1
  /\ UNCHANGED <<asVars, img, root, reg, off, frames, copied, tasks, nSpawns>>

(* Lines 104-113: spawn_kernel("user", user_trampoline), then the task's *)
(* user context (entry, stack top) and cr3 are patched; Ok(pid).          *)
Spawn ==
  /\ pc = "spawn"
  /\ tasks' = tasks \cup {[cr3 |-> root, img |-> img]}
  /\ pc' = "idle"
  /\ UNCHANGED <<asVars, img, root, segI, reg, off, frames, copied, nSpawns>>

Next ==
  \/ Start \/ CreateRoot \/ SegStart \/ StackStart \/ MapStep \/ MapDone
  \/ CopyFrame \/ CopyDone \/ Spawn

Spec == Init /\ [][Next]_vars

----------------------------------------------------------------------------
(* What a user reads at virtual address va under root r. *)
Byte(r, va) ==
  LET fr == pt[r][va \div PageSize]
  IN IF fr = NoFrame THEN "unmapped" ELSE mem[fr][va % PageSize]

(* Every use of a frame: a root, a table of a root, a page of a root. *)
Uses ==
  UNION {{[fr |-> r, use |-> <<"root", r, 0>>]}
         \cup {[fr |-> tbl[r][g], use |-> <<"table", r, g>>] :
                  g \in {x \in Region : tbl[r][x] # NoFrame}}
         \cup {[fr |-> pt[r][v], use |-> <<"page", r, v>>] :
                  v \in {x \in VPage : pt[r][x] # NoFrame}} : r \in roots}

Value == {Junk, Zero} \cup Nat

TypeOK ==
  /\ next \in 0 .. NumFrames /\ roots \subseteq Frame
  /\ pt \in [Frame -> [VPage -> Frame \cup {NoFrame}]]
  /\ tbl \in [Frame -> [Region -> Frame \cup {NoFrame}]]
  /\ mem \in [Frame -> [Offset -> Value]]
  /\ pc \in {"idle", "panic", "pml4", "seg", "map", "copy", "spawn"}
  /\ root \in Frame \cup {0} /\ segI \in 1 .. MaxSegs + 1
  /\ off \in Nat /\ copied \in Nat /\ frames \in Seq(Frame)
  /\ nSpawns \in 0 .. MaxSpawns

(* The frame cursor of allocate_frame (mm.rs 42-45) hands each usable     *)
(* frame out once, across every spawn: no frame serves as two roots,      *)
(* tables or pages, and none is in use that the cursor has not passed.   *)
FramesUsedOnce ==
  \A u1, u2 \in Uses : u1.fr = u2.fr => u1 = u2 /\ u1.fr < next

(* The frames map_into_cr3 maps for a spawned task's image hold segment   *)
(* bytes or zeros only, never what the RAM held before: the copy loop     *)
(* (elfloader.rs 35-43) fills every frame map_user_region returned.       *)
ImagePagesClean ==
  \A t \in tasks : \A v \in VPage :
    v < StackBase \div PageSize /\ pt[t.cr3][v] # NoFrame =>
      \A o \in Offset : mem[pt[t.cr3][v]][o] # Junk

(* Spec 4.6: each segment is copied to its virtual address: in a spawned *)
(* task's address space byte k of a segment is at p_vaddr + k.           *)
ImageLoaded ==
  \A t \in tasks : \A s \in 1 .. Len(t.img.segments) :
    LET seg == t.img.segments[s]
    IN \A k \in 0 .. seg.data[2] - 1 :
         Byte(t.cr3, seg.vaddr + k) = seg.data[1] + k

(* Spec 4.5 and 7(b): map_region fails when frames run out, and so does  *)
(* the spawn: a spawned task has its whole image and stack mapped.        *)
UserSpaceMapped ==
  \A t \in tasks :
    /\ \A va \in StackBase .. StackTop - 1 : Byte(t.cr3, va) # "unmapped"
    /\ \A s \in 1 .. Len(t.img.segments) :
         \A k \in 0 .. t.img.segments[s].data[2] - 1 :
           Byte(t.cr3, t.img.segments[s].vaddr + k) # "unmapped"

=============================================================================
