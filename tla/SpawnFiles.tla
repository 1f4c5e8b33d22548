----------------------------- MODULE SpawnFiles -----------------------------
(* Executables for spawn_user_elf: 176-byte ELF64 files whose program     *)
(* headers start at 64, with PageSize 4.  A segment is [type, offset,     *)
(* vaddr, filesz] as ElfParse reads it.                                  *)

ElfFile(ph) ==
  [len |-> 176, magic |-> TRUE, class |-> 2, entry |-> 0,
   phoff |-> 64, phentsize |-> 56, ph |-> ph]

Seg(o, v, n) == [type |-> 1, offset |-> o, vaddr |-> v, filesz |-> n]

(* A page-aligned segment of two pages. *)
Aligned == ElfFile(<<Seg(0, 0, 5)>>)
(* A segment starting in the middle of a page. *)
Unaligned == ElfFile(<<Seg(8, 6, 3)>>)
(* Two segments sharing page 0. *)
Sharing == ElfFile(<<Seg(0, 0, 3), Seg(16, 2, 3)>>)
(* Not an ELF file: parse_elf returns None. *)
BadMagic == [Aligned EXCEPT !.magic = FALSE]
(* The header table runs past the end of a 64-byte file. *)
Truncated == [ElfFile(<<Seg(0, 0, 3)>>) EXCEPT !.len = 64]

MCFilesAll == {Aligned, Unaligned, Sharing, BadMagic, Truncated}
MCFilesAligned == {Aligned}
MCFilesUnaligned == {Unaligned}
=============================================================================
