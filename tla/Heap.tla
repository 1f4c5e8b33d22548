-------------------------------- MODULE Heap --------------------------------
(***************************************************************************)
(* The kernel heap (src/heap.rs): a bump allocator over the static HEAP   *)
(* array behind the BUMP spin lock, initialised by heap::init or lazily   *)
(* by the first alloc; dealloc does nothing.  Each alloc is one step (the *)
(* lock is held for all of it).  HEAP is a [u8] array, so its address     *)
(* need not be aligned.  Addresses are far from the top of usize, so      *)
(* next + align_mask and aligned + size do not wrap.                      *)
(***************************************************************************)
EXTENDS Naturals, Sequences

CONSTANTS
  HeapStarts,  \* possible addresses of HEAP
  HeapLen,     \* HEAP.len(): 512 * 1024 in the code
  Layouts,     \* requests: [size, align], align a power of two
  MaxAllocs,   \* bound: allocations made
  Null         \* model value: null_mut()

VARIABLES
  bump,        \* BUMP: [start, next, end, inited]
  heapAt,      \* where the linker put HEAP
  results      \* history: each alloc's request and returned pointer

vars == <<bump, heapAt, results>>

(* Bump::init, lines 14-21: once only. *)
BumpInit(b) ==
  IF b.inited THEN b
  ELSE [start |-> heapAt, next |-> heapAt, end |-> heapAt + HeapLen, inited |-> TRUE]

(* (next + align_mask) & !align_mask: round up to a multiple of align. *)
AlignUp(x, a) == ((x + a - 1) \div a) * a

(* Line 28 moved before the check of line 27: next advances on failure too. *)
AllocAdvanceAlways(b, l) ==
  LET aligned == AlignUp(b.next, l.align)
      end == aligned + l.size
  IN [st |-> [b EXCEPT !.next = end],
      ptr |-> IF end > b.end THEN Null ELSE aligned]

(* Bump::alloc, lines 22-30, on an initialised bump: the new state and   *)
(* the pointer returned.                                                  *)
BumpAlloc(b, l) ==
  LET aligned == AlignUp(b.next, l.align)
      end == aligned + l.size
  IN IF end > b.end THEN [st |-> b, ptr |-> Null]
     ELSE [st |-> [b EXCEPT !.next = end], ptr |-> aligned]

(* heap::init, line 52, called once, first thing in kernel_main. *)
HeapInit ==
  /\ ~bump.inited
  /\ bump' = BumpInit(bump)
  /\ UNCHANGED <<heapAt, results>>

(* WaemomAlloc::alloc, lines 40-43: lock, init if needed, allocate.      *)
(* Nothing allocates before heap::init, so the lazy init does nothing.   *)
Alloc(l) ==
  /\ bump.inited
  /\ Len(results) < MaxAllocs
  /\ LET r == BumpAlloc(BumpInit(bump), l)
     IN /\ bump' = r.st
        /\ results' = Append(results, [req |-> l, ptr |-> r.ptr])
  /\ UNCHANGED heapAt

(* Bump::new(), line 13, in BUMP (line 38). *)
Init ==
  /\ heapAt \in HeapStarts
  /\ bump = [start |-> 0, next |-> 0, end |-> 0, inited |-> FALSE]
  /\ results = <<>>

Next == HeapInit \/ \E l \in Layouts : Alloc(l)
Spec == Init /\ [][Next]_vars

----------------------------------------------------------------------------
(* Every pointer alloc returns is aligned as asked, its block lies inside *)
(* HEAP and after every block returned before it; and alloc returns null *)
(* only when the request does not fit after the last block returned      *)
(* (a failed request takes no space): the bump never loses room.          *)
AllocSound ==
  \A i \in 1 .. Len(results) :
    LET prevEnd == IF \E j \in 1 .. i - 1 : results[j].ptr # Null
                     THEN LET j == CHOOSE j \in 1 .. i - 1 :
                                     results[j].ptr # Null
                                     /\ \A k \in j + 1 .. i - 1 : results[k].ptr = Null
                          IN results[j].ptr + results[j].req.size
                     ELSE heapAt
        r == results[i]
    IN IF r.ptr = Null
         THEN AlignUp(prevEnd, r.req.align) + r.req.size > heapAt + HeapLen
         ELSE /\ r.ptr % r.req.align = 0
              /\ prevEnd <= r.ptr
              /\ r.ptr + r.req.size <= heapAt + HeapLen

=============================================================================
