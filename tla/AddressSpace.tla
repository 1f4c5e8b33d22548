---------------------------- MODULE AddressSpace ----------------------------
(***************************************************************************)
(* The frame allocator and user page tables of src/mm.rs.                 *)
(*                                                                         *)
(* Frames are the indices 0 .. NumFrames-1 of BootInfoFrameAlloc.frames;  *)
(* allocate_frame hands them out in order with the cursor next and never  *)
(* takes one back.  A user root is the frame create_user_pml4 allocated;  *)
(* pt[r][vp] is the frame mapped at virtual page vp under root r.  The    *)
(* intermediate tables map_to creates are abstracted to one table frame   *)
(* per region of TableSpan pages (tbl[r][g]); map_to allocates it, from   *)
(* the same allocator, before it finds a page already mapped.  mem[fr][o] *)
(* is byte o of frame fr: Junk (whatever the usable RAM held), Zero,   *)
(* or the file position of the ELF byte copied there.  PageSize scales    *)
(* 4096 down.  The kernel half copied into a new root is not modelled.    *)
(***************************************************************************)
EXTENDS Naturals, Sequences

CONSTANTS
  NumFrames,   \* usable frames in the boot memory map
  PageSize,    \* bytes per page (4096 in the code)
  NumPages,    \* virtual pages of the lower half considered
  TableSpan,   \* pages covered by one page-table frame
  NoFrame,     \* model value: an unused page-table entry
  Junk,        \* model value: a byte the RAM held before
  Zero         \* model value: a zeroed byte

ASSUME NumFrames \in Nat /\ PageSize \in Nat \ {0} /\ TableSpan \in Nat \ {0}

Frame == 0 .. NumFrames - 1
VPage == 0 .. NumPages - 1
Region == 0 .. (NumPages - 1) \div TableSpan
Offset == 0 .. PageSize - 1

VARIABLES
  next,    \* BootInfoFrameAlloc.next
  roots,   \* user PML4 frames created so far
  pt,      \* pt[r][vp]: frame mapped at page vp under root r, or NoFrame
  tbl,     \* tbl[r][g]: page-table frame of region g under root r, or NoFrame
  mem      \* mem[fr][o]: byte o of frame fr

asVars == <<next, roots, pt, tbl, mem>>

(* FRAME_ALLOC after mm::init: cursor at 0; RAM content unknown. *)
ASInit ==
  /\ next = 0
  /\ roots = {}
  /\ pt = [r \in Frame |-> [vp \in VPage |-> NoFrame]]
  /\ tbl = [r \in Frame |-> [g \in Region |-> NoFrame]]
  /\ mem = [fr \in Frame |-> [o \in Offset |-> Junk]]

(* Mutant: the cursor is not advanced. *)
AllocNextStuck(n) == n

(* allocate_frame: frames[next], then next += 1. *)
AllocNext(n) == n + 1

(* Mutant: the bound check lets the cursor reach one past the end. *)
CanAllocOffByOne(k) == next + k <= NumFrames + 1

(* allocate_frame returns None once next reaches frames.len(). *)
CanAlloc(k) == next + k <= NumFrames

(* create_user_pml4: a fresh frame with an empty lower half; None when   *)
(* the allocator is exhausted.                                           *)
CreateUserPml4 ==
  /\ CanAlloc(1)
  /\ roots' = roots \cup {next}
  /\ next' = AllocNext(next)
  /\ pt' = [pt EXCEPT ![next] = [vp \in VPage |-> NoFrame]]
  /\ tbl' = [tbl EXCEPT ![next] = [g \in Region |-> NoFrame]]
  /\ UNCHANGED mem

(* One iteration of map_user_region's loop for page vp under root r:     *)
(* allocate_frame, then map_to, which may need a table frame and fails   *)
(* with PageAlreadyMapped when vp is taken.  The outcome decides whether *)
(* the loop goes on; a frame allocated before a failure is leaked.        *)
MapOutcome(r, vp) ==
  LET needTable == tbl[r][vp \div TableSpan] = NoFrame
  IN CASE ~CanAlloc(1)                          -> "noFrame"
       [] needTable /\ ~CanAlloc(2)             -> "noTable"
       [] pt[r][vp] # NoFrame                   -> "alreadyMapped"
       [] OTHER                                 -> "mapped"

MapPage(r, vp) ==
  LET g == vp \div TableSpan
      needTable == tbl[r][g] = NoFrame
      o == MapOutcome(r, vp)
  IN /\ next' = CASE o = "noFrame" -> next
                  [] o = "noTable" -> AllocNext(next)
                  [] needTable     -> AllocNext(AllocNext(next))
                  [] OTHER         -> AllocNext(next)
     /\ tbl' = IF needTable /\ o \in {"alreadyMapped", "mapped"}
                 THEN [tbl EXCEPT ![r][g] = AllocNext(next)] ELSE tbl
     /\ pt' = IF o = "mapped" THEN [pt EXCEPT ![r][vp] = next] ELSE pt
     /\ UNCHANGED <<roots, mem>>

=============================================================================
