------------------------------ MODULE ElfParse ------------------------------
(***************************************************************************)
(* elfloader::parse_elf (src/elfloader.rs) as an operator over a symbolic *)
(* ELF64 file, and a reference parser written from spec 4.6 and 7(a).     *)
(*                                                                         *)
(* A file keeps what parse_elf reads of it: its length, whether bytes 0-3 *)
(* are the magic, byte 4 (class), e_entry, e_phoff and e_phentsize, and   *)
(* the program headers e_phnum counts, each with the fields parse_elf     *)
(* reads (p_type, p_offset, p_vaddr, p_filesz).  Offsets and lengths are  *)
(* the byte counts the code compares; bytes themselves are not needed.    *)
(* A segment is named by its byte range <<p_offset, p_filesz>>.           *)
(***************************************************************************)
EXTENDS Naturals, Sequences

CONSTANTS
  Files,      \* the inputs checked (the checked file is one of them)
  MaxSegs,    \* capacity of the heapless::Vec of segments (16 in the code)
  Panic,      \* model value: a slice index out of range (kernel panic)
  NoImage     \* model value: None

PT_LOAD == 1
EhdrSize == 64        \* bytes.len() < 64 is rejected
PhdrSize == 56        \* size of an ELF64 program header

VARIABLE f

(* Line 7: length, magic and class checks. *)
HeaderOk(file) == file.len >= EhdrSize /\ file.magic /\ file.class = 2

(* Mutant: every program header is kept. *)
IsLoadAny(p) == TRUE

(* Line 16: only PT_LOAD headers are kept. *)
IsLoad(p) == p.type = PT_LOAD

(* Lines 13-23, the loop over program headers from index i, segs kept so *)
(* far.  bytes[off..off+4] is read for every header, bytes[off+8..off+40] *)
(* and bytes[start..end] only for loadable ones; a range past the end of *)
(* the slice panics.  A push to a full Vec is ignored (let _ =).          *)
RECURSIVE LoadSegs(_, _, _)
LoadSegs(file, i, segs) ==
  IF i >= Len(file.ph) THEN segs
  ELSE LET off == file.phoff + i * file.phentsize
           p   == file.ph[i + 1]
       IN CASE off + 4 > file.len                -> Panic
            [] ~IsLoad(p)                        -> LoadSegs(file, i + 1, segs)
            [] off + 40 > file.len               -> Panic
            [] p.offset + p.filesz > file.len    -> Panic
            [] Len(segs) >= MaxSegs              -> LoadSegs(file, i + 1, segs)
            [] OTHER -> LoadSegs(file, i + 1,
                          Append(segs, [data |-> <<p.offset, p.filesz>>,
                                        vaddr |-> p.vaddr]))

(* parse_elf: None, a panic, or Some(ElfImage { entry, segments }). *)
ParseElf(file) ==
  IF ~HeaderOk(file) THEN NoImage
  ELSE LET segs == LoadSegs(file, 0, <<>>)
       IN IF segs = Panic THEN Panic
          ELSE [entry |-> file.entry, segments |-> segs]

----------------------------------------------------------------------------
(* Reference, from the spec: a file is well formed when its header table *)
(* and every loadable segment lie inside it; the image keeps the         *)
(* loadable headers in order, at most MaxSegs of them.                    *)
WellFormed(file) ==
  /\ HeaderOk(file)
  /\ \A i \in 1 .. Len(file.ph) :
       /\ file.phoff + (i - 1) * file.phentsize + PhdrSize <= file.len
       /\ file.ph[i].type = PT_LOAD =>
            file.ph[i].offset + file.ph[i].filesz <= file.len

RefParse(file) ==
  IF ~WellFormed(file) THEN NoImage
  ELSE LET loads == SelectSeq(file.ph, LAMBDA p : p.type = PT_LOAD)
           kept  == SubSeq(loads, 1, IF Len(loads) < MaxSegs THEN Len(loads)
                                                            ELSE MaxSegs)
       IN [entry |-> file.entry,
           segments |-> [k \in 1 .. Len(kept) |->
                           [data |-> <<kept[k].offset, kept[k].filesz>>,
                            vaddr |-> kept[k].vaddr]]]

Init == f \in Files
Next == UNCHANGED f
Spec == Init /\ [][Next]_f

----------------------------------------------------------------------------
(* On every well-formed file parse_elf returns what the spec's parser     *)
(* returns: the loadable segments in header order, capped, with the entry.*)
ParseAgrees == WellFormed(f) => ParseElf(f) = RefParse(f)

=============================================================================
