----------------------------- MODULE BootFrames -----------------------------
(***************************************************************************)
(* mm::init and init_frame_alloc (src/mm.rs lines 10-14 and 51-64): the   *)
(* frames BootInfoFrameAlloc hands out, collected from the bootloader's    *)
(* memory map, and a reference reading of the map.  A region is its kind  *)
(* and its start and end address; a frame is its start address.  Page    *)
(* scales 4096 down; Cap is the capacity of the heapless::Vec (4096).     *)
(***************************************************************************)
EXTENDS Naturals, Sequences, SequencesExt

CONSTANTS
  Maps,       \* the memory maps considered: sequences of [kind, start, end]
  Page,       \* bytes per frame (4096 in the code)
  Cap         \* capacity of the frames Vec (4096 in the code)

VARIABLES
  regions,    \* boot_info.memory_regions
  frames,     \* FRAME_ALLOC's frames, once init_frame_alloc has run
  inited      \* FRAME_ALLOC is Some

(* Line 59: frames.push(f) on a full Vec fails and is ignored. *)
PushFrame(out, a) == IF Len(out) < Cap THEN Append(out, a) ELSE out

(* Line 59: PhysFrame::from_start_address fails unless addr is aligned. *)
Aligned(a) == a % Page = 0

(* Mutant: the last whole frame of a region is left out. *)
FitsStrict(a, e) == a + Page < e

(* Line 59: the loop condition addr + 4096 <= end. *)
Fits(a, e) == a + Page <= e

(* Lines 58-59: from addr on, one frame per step of Page bytes. *)
RECURSIVE RegionFrames(_, _, _)
RegionFrames(a, e, out) ==
  IF ~Fits(a, e) THEN out
  ELSE RegionFrames(a + Page, e, IF Aligned(a) THEN PushFrame(out, a) ELSE out)

(* Lines 51-64: the usable regions in map order. *)
InitFrameAlloc(map) ==
  FoldLeft(LAMBDA out, r : IF r.kind = "usable" THEN RegionFrames(r.start, r.end, out)
                           ELSE out,
           <<>>, map)

Init == regions \in Maps /\ frames = <<>> /\ inited = FALSE

(* mm::init, lines 10-14, as kernel_main runs it once at boot; the page  *)
(* table setup of init_offset_page_table is not modelled.                *)
MmInit ==
  /\ ~inited
  /\ frames' = InitFrameAlloc(regions)
  /\ inited' = TRUE
  /\ UNCHANGED regions

Booted == inited /\ UNCHANGED <<regions, frames, inited>>

Next == MmInit \/ Booted

----------------------------------------------------------------------------
(* Reference: the physical frames the map offers for use are the page-   *)
(* aligned Page-byte blocks lying wholly inside a usable region; the     *)
(* allocator may use them in map order, each region's in address order.  *)
UsableFrames(r) ==
  LET first == ((r.start + Page - 1) \div Page) * Page
      n == IF r.end >= first + Page THEN (r.end - first) \div Page ELSE 0
  IN [k \in 1 .. n |-> first + (k - 1) * Page]

RefFrames(map) ==
  FoldLeft(LAMBDA out, r : IF r.kind = "usable" THEN out \o UsableFrames(r) ELSE out,
           <<>>, map)

(* Every usable region starts on a page boundary, as the bootloader      *)
(* reports it.                                                          *)
PageAlignedMap(map) == \A i \in DOMAIN map : map[i].kind = "usable" => Aligned(map[i].start)

(* On a page-aligned memory map, the allocator's frames after mm::init    *)
(* are the first Cap frames the map offers, in map order: the loop takes *)
(* the last whole frame of a region and no partial one, skips reserved   *)
(* regions, and a map larger than the Vec loses exactly the frames past  *)
(* its capacity.                                                          *)
FramesFromMap ==
  inited /\ PageAlignedMap(regions) =>
    frames = SubSeq(RefFrames(regions), 1, Min({Len(RefFrames(regions)), Cap}))

=============================================================================
